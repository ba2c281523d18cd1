----------------------------- MODULE ModelCall ------------------------------
(***************************************************************************)
(* What textcomb-core::provider does with the model service: the requests  *)
(* of one call with their retries, the acceptance of an answer by          *)
(* protocol, the single JSON repair, and the two passes worker.rs          *)
(* analyze_chunk makes for a chunk (or the connection test of a profile).  *)
(*                                                                         *)
(* The service is the environment: it may answer anything, with any HTTP   *)
(* status, too late or not at all.  Texts are abstracted to what parsing   *)
(* tells apart: "json" and "fenced" parse; "head" and "tail" are the two   *)
(* pieces of a JSON object, cut between tokens, which parse only when they *)
(* are joined (with a line break, or directly in a Responses body).        *)
(***************************************************************************)
EXTENDS Integers, Sequences, FiniteSets, SequencesExt

CONSTANTS
  Protocols,       \* of "openai_compatible", "openai_responses", "anthropic"
  Bodies(_),       \* Bodies(p): the response bodies the service may send
  RetryAfters,     \* Retry-After values in seconds, or NoHeader
  NoHeader,
  MaxCandidates,   \* MAX_CANDIDATES_PER_CHUNK
  MaxVerdicts      \* bound: verdicts in one answer

(* The protocols of ProviderKind, and the limits of the two passes.        *)
ASSUME ModelCallAssumption ==
  /\ Protocols \subseteq {"openai_compatible", "openai_responses", "anthropic"}
  /\ MaxCandidates \in Nat /\ MaxVerdicts \in Nat

Attempts == 3

VARIABLES
  protocol,
  goal,            \* "chunk" or "test": test_connection
  models,          \* 1 if both passes use the same model, else 2
  pass,            \* 1: candidates, 2: verification
  purpose,         \* "ask", or "repair": repair_json's request
  at,              \* "send", "flight", "backoff" or "ended"
  attempt,
  sent,            \* requests of this pass, by purpose
  answered,        \* successful answers of this pass, by purpose
  pause,           \* the seconds the call sleeps now
  used,            \* the body parsed last, None while a request is out
  located,         \* the candidates resolve_candidates kept, as a sequence
  verdicts,        \* candidate_index of the stored verdicts
  result           \* "none", "ok", or the error of the call

vars == <<protocol, goal, models, pass, purpose, at, attempt, sent, answered, pause,
          used, located, verdicts, result>>

None == [none |-> TRUE]
Least(a, b) == IF a <= b THEN a ELSE b
-----------------------------------------------------------------------------
(* Accepting an answer: None, or the texts it consists of                  *)

(* Every part is of a wanted kind and has its text; other parts that are   *)
(* only allowed carry none of the answer, as a blank text does.            *)
TextOf(parts, wanted, allowed) ==
  IF \A i \in DOMAIN parts : \/ parts[i].kind \in wanted /\ parts[i].text # "none"
                             \/ parts[i].kind \in allowed
    THEN [texts |-> [i \in DOMAIN parts |->
                       IF parts[i].kind \in wanted THEN parts[i].text ELSE "blank"]]
    ELSE None

Blank(content) == \A i \in DOMAIN content.texts : content.texts[i] = "blank"

(* Variant for OnlyWholeAnswersCount: any finish reason is accepted.       *)
ExtractChatAnyEnd(body) ==
  LET content == IF body.content = None THEN None
                 ELSE TextOf(body.content.parts, {"text"}, {})
  IN IF content = None \/ body.calls = "some" \/ body.refusal THEN None
     ELSE IF Blank(content) THEN None ELSE content

(* extract_chat_output                                                     *)
ExtractChat(body) ==
  LET content == IF body.content = None THEN None
                 ELSE TextOf(body.content.parts, {"text"}, {})
  IN IF body.finish # "stop" \/ body.calls = "some" \/ body.refusal THEN None
     ELSE IF content = None THEN None
     ELSE IF Blank(content) THEN None ELSE content

(* One item of a Responses output: reasoning is skipped, a message must be *)
(* completed and have text only.                                           *)
ItemText(item) ==
  IF item.kind = "reasoning" /\ item.status \in {"none", "completed"} THEN [texts |-> <<>>]
  ELSE IF item.kind = "message" /\ item.status = "completed" /\ item.content # <<>>
         THEN TextOf(item.content, {"output_text"}, {})
  ELSE None

(* The blank texts do not count, and the two pieces make one object.       *)
Joined(texts) ==
  LET spoken == SelectSeq(texts, LAMBDA t : t # "blank")
  IN IF spoken = <<"head", "tail">> THEN <<"json">> ELSE spoken

(* extract_responses_output: the flattened text may stand in for missing   *)
(* items but not disagree with them.                                       *)
ExtractResponses(body) ==
  LET items  == [i \in DOMAIN body.output |-> ItemText(body.output[i])]
      text   == [texts |-> FlattenSeq([i \in DOMAIN items |-> items[i].texts])]
      flat   == body.output_text
  IN IF body.status # "completed" \/ body.error \/ body.incomplete THEN None
     ELSE IF \E i \in DOMAIN body.output : items[i] = None THEN None
     ELSE IF \A i \in DOMAIN body.output : Blank(items[i])
       THEN IF \/ \E i \in DOMAIN body.output : body.output[i].kind = "message"
               \/ flat \in {"none", "blank"}
            THEN None ELSE [texts |-> <<flat>>]
     ELSE IF flat \notin {"none", "blank"} /\ Joined(text.texts) # <<flat>> THEN None
     ELSE text

(* extract_anthropic_output: thinking blocks are not part of the answer.   *)
ExtractAnthropic(body) ==
  LET content == TextOf(body.content, {"text"}, {"thinking", "redacted_thinking"})
  IN IF body.stop # "end_turn" \/ content = None THEN None
     ELSE IF Blank(content) THEN None ELSE content

(* extract_provider_output                                                 *)
Extract(p, body) ==
  CASE p = "openai_compatible" -> ExtractChat(body)
    [] p = "openai_responses"  -> ExtractResponses(body)
    [] p = "anthropic"         -> ExtractAnthropic(body)

(* parse_json_content                                                      *)
Parses(content) ==
  Joined(content.texts) \in {<<"json">>, <<"fenced">>}

(* The bodies of each kind, by protocol.                                   *)
Rejected == [p \in Protocols |-> {body \in Bodies(p) : Extract(p, body) = None}]
Answers  == [p \in Protocols |-> Bodies(p) \ Rejected[p]]
Parsed   == [p \in Protocols |-> {body \in Answers[p] : Parses(Extract(p, body))}]
Broken   == [p \in Protocols |-> Answers[p] \ Parsed[p]]
-----------------------------------------------------------------------------
(* The values of the two passes                                            *)

(* validate_candidates; "fields" stands for the limits of the fields.      *)
CandidatesValid(count, fields) == count <= MaxCandidates /\ fields

(* validate_verification: one verdict for every candidate sent.            *)
VerdictsValid(indexes, fields) ==
  /\ Len(indexes) = Len(located) /\ fields
  /\ \A i \in DOMAIN indexes : indexes[i] < Len(located)
  /\ \A i, k \in DOMAIN indexes : indexes[i] = indexes[k] => i = k

(* Variant for VerdictsFitCandidates: the indexes stay as they were sent.  *)
RemappedNot(indexes) == indexes

(* remap_verdict_indexes: from the list that was sent, which counts from   *)
(* 0, to the list the first pass returned.                                 *)
Remapped(indexes) == [i \in DOMAIN indexes |-> located[indexes[i] + 1]]
-----------------------------------------------------------------------------
Init ==
  /\ protocol \in Protocols
  /\ goal \in {"chunk", "test"} /\ models \in 1 .. 2
  /\ pass = 1 /\ purpose = "ask" /\ at = "send" /\ attempt = 1
  /\ sent = [ask |-> 0, repair |-> 0] /\ answered = [ask |-> 0, repair |-> 0]
  /\ pause = 0
  /\ used = None /\ located = <<>> /\ verdicts = <<>>
  /\ result = "none"

chosen == <<protocol, goal, models>>
values == <<located, verdicts>>

End(outcome) ==
  /\ at' = "ended" /\ result' = outcome
  /\ UNCHANGED <<pass, purpose, attempt, sent, pause>>

Send ==
  /\ at = "send"
  /\ at' = "flight"
  /\ sent' = [sent EXCEPT ![purpose] = @ + 1]
  /\ used' = None
  /\ UNCHANGED <<chosen, pass, purpose, attempt, answered, pause, values, result>>

(* A failed repair request is reported as invalid output.                  *)
GiveUp == End(IF purpose = "ask" THEN "provider_unavailable" ELSE "model_output_invalid")

Power(n) == IF n = 0 THEN 1 ELSE IF n = 1 THEN 2 ELSE 4     \* 2^n for n < Attempts

Sleep(seconds) ==
  /\ at' = "backoff" /\ pause' = seconds
  /\ UNCHANGED <<pass, purpose, attempt, sent, result>>

(* is_retryable, retry_after and backoff.                                  *)
Retryable(status) == status \in {408, 429} \/ status >= 500

HttpError ==
  /\ at = "flight"
  /\ \E status \in {400, 408, 429, 503}, header \in RetryAfters :
       IF Retryable(status) /\ attempt < Attempts
         THEN Sleep(IF header = NoHeader THEN Least(Power(attempt - 1), 8)
                                         ELSE Least(header, 30))
         ELSE GiveUp
  /\ UNCHANGED <<chosen, answered, used, values>>

(* A timeout or a connection that fails.                                   *)
TransportError ==
  /\ at = "flight"
  /\ IF attempt < Attempts THEN Sleep(Least(Power(attempt - 1), 8)) ELSE GiveUp
  /\ UNCHANGED <<chosen, answered, used, values>>

(* Variant for RequestsBounded: a retry is not counted.                    *)
WakeUncounted ==
  /\ at = "backoff"
  /\ at' = "send" /\ pause' = 0
  /\ UNCHANGED <<chosen, pass, purpose, attempt, sent, answered, used, values, result>>

Wake ==
  /\ at = "backoff"
  /\ at' = "send" /\ attempt' = attempt + 1 /\ pause' = 0
  /\ UNCHANGED <<chosen, pass, purpose, sent, answered, used, values, result>>

(* Variant for NoAnswerPaidTwice: a body that cannot be used is a reason   *)
(* for another attempt, like a status that is retryable.                   *)
UnusableAnswerRetried ==
  /\ at = "flight"
  /\ answered' = [answered EXCEPT ![purpose] = @ + 1]
  /\ IF attempt < Attempts THEN Sleep(Power(attempt - 1)) ELSE GiveUp
  /\ UNCHANGED <<chosen, used, values>>

(* A 200 whose body cannot be read, is too long or is not an answer: the   *)
(* service was paid, so the request is not repeated.                       *)
UnusableAnswer ==
  /\ at = "flight"
  /\ answered' = [answered EXCEPT ![purpose] = @ + 1]
  /\ End("model_output_invalid")
  /\ UNCHANGED <<chosen, used, values>>

RejectedAnswer ==
  /\ at = "flight"
  /\ Rejected[protocol] # {}
  /\ answered' = [answered EXCEPT ![purpose] = @ + 1]
  /\ End("model_output_invalid")
  /\ UNCHANGED <<chosen, used, values>>

(* The content does not parse: one repair, or the end of it.               *)
BrokenAnswer ==
  /\ at = "flight"
  /\ used' \in Broken[protocol]
  /\ answered' = [answered EXCEPT ![purpose] = @ + 1]
  /\ IF purpose = "ask"
       THEN /\ purpose' = "repair" /\ at' = "send" /\ attempt' = 1
            /\ UNCHANGED <<pass, sent, pause, result>>
       ELSE End("model_output_invalid")
  /\ UNCHANGED <<chosen, values>>

(* The next pass is a call of its own.                                     *)
NextPass ==
  /\ pass' = 2 /\ purpose' = "ask" /\ at' = "send" /\ attempt' = 1
  /\ sent' = [ask |-> 0, repair |-> 0] /\ answered' = [ask |-> 0, repair |-> 0]
  /\ UNCHANGED <<pause, result>>

Finish(outcome) ==
  /\ End(outcome)
  /\ answered' = [answered EXCEPT ![purpose] = @ + 1]

Accepted ==
  /\ at = "flight"
  /\ used' \in Parsed[protocol]

(* test_model_connection for each distinct model.                          *)
TestAnswer ==
  /\ Accepted /\ goal = "test"
  /\ \/ IF pass = 1 /\ models = 2 THEN NextPass ELSE Finish("ok")
     \/ Finish("provider_unavailable")            \* {"ok": false}
  /\ UNCHANGED <<chosen, values>>

(* n of the first count indexes, in their order.                           *)
InOrder(n, count) ==
  {indexes \in [1 .. n -> 0 .. count - 1] :
     \A i, k \in 1 .. n : i < k => indexes[i] < indexes[k]}

(* The first pass: some of the candidates are located in the chunk; none   *)
(* left ends the chunk without a second pass.                              *)
CandidateAnswer ==
  /\ Accepted /\ goal = "chunk" /\ pass = 1
  /\ \E count \in 0 .. MaxCandidates + 1, fields \in BOOLEAN :
       IF ~CandidatesValid(count, fields)
         THEN Finish("model_output_invalid") /\ UNCHANGED located
         ELSE \E n \in 0 .. count :
                /\ located' \in InOrder(n, count)
                /\ IF n = 0 THEN Finish("ok") ELSE NextPass
  /\ UNCHANGED <<chosen, verdicts>>

(* The second pass sees only the located candidates.                       *)
VerdictAnswer ==
  /\ Accepted /\ goal = "chunk" /\ pass = 2
  /\ \E n \in 0 .. MaxVerdicts, fields \in BOOLEAN :
       \E indexes \in [1 .. n -> 0 .. MaxVerdicts] :
         IF VerdictsValid(indexes, fields)
           THEN verdicts' = Remapped(indexes) /\ Finish("ok")
           ELSE verdicts' = verdicts /\ Finish("model_output_invalid")
  /\ UNCHANGED <<chosen, located>>

(* The stop token drops the call wherever it waits.                        *)
StopCall ==
  /\ at \in {"flight", "backoff"}
  /\ End("stopped")
  /\ UNCHANGED <<chosen, answered, used, values>>

Next ==
  \/ Send \/ HttpError \/ TransportError \/ Wake \/ StopCall
  \/ UnusableAnswer \/ RejectedAnswer \/ BrokenAnswer
  \/ TestAnswer \/ CandidateAnswer \/ VerdictAnswer

Spec == Init /\ [][Next]_vars
-----------------------------------------------------------------------------
(* A call sends at most three requests, and its repair at most three more, *)
(* whatever the service answers; together no pass exceeds six.             *)
RequestsBounded ==
  /\ attempt \in 1 .. Attempts
  /\ sent.ask <= Attempts /\ sent.repair <= Attempts
  /\ purpose = "ask" => sent.repair = 0

(* Whether every output item, stop marker and part of a body says that the *)
(* answer is whole, and what it says as a whole.                           *)
Whole(body) ==
  CASE protocol = "openai_compatible" ->
         body.finish = "stop" /\ body.calls # "some" /\ ~body.refusal
    [] protocol = "anthropic" -> body.stop = "end_turn"
    [] protocol = "openai_responses" ->
         /\ body.status = "completed" /\ ~body.error /\ ~body.incomplete
         /\ \A i \in DOMAIN body.output :
              body.output[i].kind # "tool" /\ body.output[i].status # "incomplete"

Parts(list) == {list[i] : i \in DOMAIN list}

(* The parts a body answers with; reasoning and thinking are not said.     *)
Statements(body) ==
  CASE protocol = "openai_compatible" -> Parts(body.content.parts)
    [] protocol = "anthropic" ->
         {part \in Parts(body.content) : part.kind \notin {"thinking", "redacted_thinking"}}
    [] protocol = "openai_responses" ->
         LET messages == {item \in Parts(body.output) : item.kind = "message"}
         IN IF messages # {} THEN UNION {Parts(item.content) : item \in messages}
            ELSE {[kind |-> "output_text", text |-> body.output_text]}

(* Only an answer that ended normally is parsed or sent to repair: it has  *)
(* no tool call or refusal, misses no text, and says something.            *)
OnlyWholeAnswersCount ==
  used # None =>
    /\ Whole(used)
    /\ \A part \in Statements(used) : part.kind \notin {"tool", "refusal"} /\ part.text # "none"
    /\ \E part \in Statements(used) : part.text # "blank"

(* The stored verdicts judge exactly the located candidates, each once,    *)
(* however many candidates before them could not be located.               *)
VerdictsFitCandidates ==
  (result = "ok" /\ goal = "chunk") =>
    /\ ToSet(verdicts) = ToSet(located)
    /\ Len(verdicts) = Len(located)

(* A request that was answered is not sent again: the answer is paid for.  *)
(* Only a repair follows, and only an answer that did not parse.           *)
NoAnswerPaidTwice ==
  [][(sent' # sent /\ pass' = pass) =>
       IF purpose = "ask" THEN answered.ask = 0
                          ELSE answered.ask = 1 /\ answered.repair = 0]_vars
=============================================================================
