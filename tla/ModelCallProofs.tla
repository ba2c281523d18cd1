-------------------------- MODULE ModelCallProofs ---------------------------
(***************************************************************************)
(* Theorems about ModelCall for any protocols, any bodies the service may  *)
(* send and any Retry-After values: how often a paid request is sent, what *)
(* is accepted as an answer, and which candidates the verdicts judge.      *)
(*                                                                         *)
(* RequestsBounded follows from counting: the attempt of a call is the     *)
(* number of its requests, one less before it is sent, and only a call     *)
(* with an attempt left sleeps.                                            *)
(***************************************************************************)
EXTENDS ModelCall, FiniteSetTheorems, TLAPS

(* The call under way: its requests, and no answer yet.                    *)
Counted ==
  /\ purpose \in {"ask", "repair"} /\ at \in {"send", "flight", "backoff", "ended"}
  /\ attempt \in 1 .. Attempts
  /\ sent \in [{"ask", "repair"} -> Nat] /\ answered \in [{"ask", "repair"} -> Nat]
  /\ at = "send" => sent[purpose] = attempt - 1
  /\ at # "send" => sent[purpose] = attempt
  /\ at = "backoff" => attempt < Attempts
  /\ at # "ended" => answered[purpose] = 0

(* The call before a repair got exactly one answer.                        *)
Earlier ==
  /\ purpose = "ask" => sent["repair"] = 0 /\ answered["repair"] = 0
  /\ purpose = "repair" => sent["ask"] <= Attempts /\ answered["ask"] = 1

Inv == Counted /\ Earlier

LEMMA CallInit == Init => Inv
  BY DEF Init, Inv, Counted, Earlier, Attempts

(* An end keeps the counts of requests.                                    *)
LEMMA EndKeepsCounts ==
  ASSUME Inv, at = "flight" \/ at = "backoff", NEW outcome, End(outcome),
         answered' \in [{"ask", "repair"} -> Nat],
         \A p \in {"ask", "repair"} : p # purpose => answered'[p] = answered[p]
  PROVE  Inv'
  BY DEF Inv, Counted, Earlier, End

(* Every step keeps the counts, and sends only what was not answered.      *)
LEMMA CallStep ==
  Inv /\ [Next]_vars =>
    /\ Inv'
    /\ (sent' # sent /\ pass' = pass) =>
         IF purpose = "ask" THEN answered.ask = 0 ELSE answered.ask = 1 /\ answered.repair = 0
<1> DEFINE Unanswered ==
             (sent' # sent /\ pass' = pass) =>
               IF purpose = "ask" THEN answered.ask = 0 ELSE answered.ask = 1 /\ answered.repair = 0
<1> SUFFICES ASSUME Inv, [Next]_vars PROVE Inv' /\ Unanswered
  OBVIOUS
<1>0. /\ purpose \in {"ask", "repair"} /\ Attempts = 3
      /\ sent \in [{"ask", "repair"} -> Nat] /\ answered \in [{"ask", "repair"} -> Nat]
  BY DEF Inv, Counted, Attempts
<1>1. ASSUME NEW outcome, at = "flight", Finish(outcome) PROVE Inv' /\ Unanswered
  <2>1. answered' \in [{"ask", "repair"} -> Nat]
        /\ \A p \in {"ask", "repair"} : p # purpose => answered'[p] = answered[p]
    BY <1>0, <1>1 DEF Finish
  <2> QED
    BY <1>1, <2>1, EndKeepsCounts DEF Finish, End
<1>2. ASSUME at = "flight", pass = 1, NextPass PROVE Inv' /\ Unanswered
  BY <1>0, <1>2 DEF NextPass, Inv, Counted, Earlier
<1>3. ASSUME at = "flight", attempt < Attempts, NEW seconds, Sleep(seconds), answered' = answered
      PROVE  Inv' /\ Unanswered
  BY <1>0, <1>3 DEF Sleep, Inv, Counted, Earlier
<1>4. ASSUME at = "flight" \/ at = "backoff", NEW outcome, End(outcome),
             answered' = answered \/ answered' = [answered EXCEPT ![purpose] = @ + 1]
      PROVE  Inv' /\ Unanswered
  <2>1. answered' \in [{"ask", "repair"} -> Nat]
        /\ \A p \in {"ask", "repair"} : p # purpose => answered'[p] = answered[p]
    BY <1>0, <1>4
  <2> QED
    BY <1>4, <2>1, EndKeepsCounts DEF End
<1>5. CASE Send
  <2>1. Inv'
    BY <1>0, <1>5 DEF Send, Inv, Counted, Earlier
  <2>2. IF purpose = "ask" THEN answered["ask"] = 0 ELSE answered["ask"] = 1 /\ answered["repair"] = 0
    BY <1>0, <1>5 DEF Send, Inv, Counted, Earlier
  <2> QED
    BY <2>1, <2>2
<1>6. CASE HttpError
  <2>1. PICK status \in {400, 408, 429, 503}, header \in RetryAfters :
           IF Retryable(status) /\ attempt < Attempts
             THEN Sleep(IF header = NoHeader THEN Least(Power(attempt - 1), 8) ELSE Least(header, 30))
             ELSE GiveUp
    BY <1>6 DEF HttpError
  <2>2. at = "flight" /\ answered' = answered
    BY <1>6 DEF HttpError
  <2> QED
    BY <1>3, <1>4, <2>1, <2>2 DEF GiveUp
<1>7. CASE TransportError
  BY <1>3, <1>4, <1>7 DEF TransportError, GiveUp
<1>8. CASE Wake
  BY <1>0, <1>8 DEF Wake, Inv, Counted, Earlier
<1>9. CASE StopCall
  BY <1>4, <1>9 DEF StopCall
<1>10. CASE UnusableAnswer \/ RejectedAnswer
  BY <1>4, <1>10 DEF UnusableAnswer, RejectedAnswer
<1>11. CASE BrokenAnswer
  <2>1. CASE purpose = "ask"
    <3>1. /\ purpose' = "repair" /\ at' = "send" /\ attempt' = 1 /\ sent' = sent
          /\ answered' = [answered EXCEPT !["ask"] = @ + 1] /\ at = "flight"
      BY <1>11, <2>1 DEF BrokenAnswer
    <3> QED
      BY <1>0, <2>1, <3>1 DEF Inv, Counted, Earlier
  <2>2. CASE purpose # "ask"
    BY <1>4, <1>11, <2>2 DEF BrokenAnswer
  <2> QED
    BY <2>1, <2>2
<1>12. CASE TestAnswer
  BY <1>1, <1>2, <1>12 DEF TestAnswer, Accepted
<1>13. CASE CandidateAnswer
  <2>1. at = "flight" /\ pass = 1
    BY <1>13 DEF CandidateAnswer, Accepted
  <2>2. Finish("model_output_invalid") \/ Finish("ok") \/ NextPass
    BY <1>13 DEF CandidateAnswer
  <2> QED
    BY <1>1, <1>2, <2>1, <2>2
<1>14. CASE VerdictAnswer
  <2>1. at = "flight"
    BY <1>14 DEF VerdictAnswer, Accepted
  <2>2. Finish("model_output_invalid") \/ Finish("ok")
    BY <1>14 DEF VerdictAnswer
  <2> QED
    BY <1>1, <2>1, <2>2
<1>15. CASE UNCHANGED vars
  BY <1>15 DEF vars, Inv, Counted, Earlier
<1> QED
  BY <1>5, <1>6, <1>7, <1>8, <1>9, <1>10, <1>11, <1>12, <1>13, <1>14, <1>15 DEF Next

(* Inv is inductive.                                                       *)
THEOREM CallInvariant == Spec => []Inv
<1>1. Init => Inv
  BY CallInit
<1>2. Inv /\ [Next]_vars => Inv'
  BY CallStep
<1> QED
  BY <1>1, <1>2, PTL DEF Spec

(* Whatever the service answers, a call sends at most three requests and   *)
(* its repair at most three more.                                          *)
THEOREM RequestsAreBounded == Spec => []RequestsBounded
<1>1. Inv => RequestsBounded
  BY DEF Inv, Counted, Earlier, RequestsBounded, Attempts
<1> QED
  BY <1>1, CallInvariant, PTL

(* A request that was answered is never sent again.                        *)
THEOREM AnswersPaidOnce == Spec => NoAnswerPaidTwice
<1>1. Inv /\ [Next]_vars =>
        ((sent' # sent /\ pass' = pass) =>
           IF purpose = "ask" THEN answered.ask = 0 ELSE answered.ask = 1 /\ answered.repair = 0)
  BY CallStep
<1> QED
  BY <1>1, CallInvariant, PTL DEF Spec, NoAnswerPaidTwice
-----------------------------------------------------------------------------
(* What the accepted body of each protocol says                            *)

(* A text is not the mark of a rejected answer.                            *)
LEMMA TextsAreNotNone == \A texts : [texts |-> texts] # None
<1> TAKE texts
<1>1. DOMAIN [texts |-> texts] = {"texts"} /\ DOMAIN None = {"none"}
  BY DEF None
<1> QED
  BY <1>1

(* Accepted parts are wanted with their text, or allowed and left out.     *)
LEMMA AcceptedParts ==
  ASSUME NEW parts, NEW wanted, NEW allowed, TextOf(parts, wanted, allowed) # None
  PROVE  /\ \A i \in DOMAIN parts : \/ parts[i].kind \in wanted /\ parts[i].text # "none"
                                    \/ parts[i].kind \in allowed
         /\ ~Blank(TextOf(parts, wanted, allowed)) =>
              \E i \in DOMAIN parts : parts[i].kind \in wanted /\ parts[i].text # "blank"
  BY DEF TextOf, Blank

(* An accepted chat body is whole and all of its parts are text.           *)
LEMMA AcceptedChat ==
  ASSUME NEW body, protocol = "openai_compatible", ExtractChat(body) # None
  PROVE  /\ Whole(body)
         /\ \A part \in Statements(body) : part.kind \notin {"tool", "refusal"} /\ part.text # "none"
         /\ \E part \in Statements(body) : part.text # "blank"
<1> DEFINE content == TextOf(body.content.parts, {"text"}, {})
<1>1. /\ body.finish = "stop" /\ body.calls # "some" /\ ~body.refusal
      /\ content # None /\ ~Blank(content)
  BY DEF ExtractChat
<1>2. Statements(body) = Parts(body.content.parts)
  BY DEF Statements
<1> QED
  BY <1>1, <1>2, AcceptedParts DEF Whole, Parts

(* An accepted Anthropic body is whole; what is not thinking is text.      *)
LEMMA AcceptedAnthropic ==
  ASSUME NEW body, protocol = "anthropic", ExtractAnthropic(body) # None
  PROVE  /\ Whole(body)
         /\ \A part \in Statements(body) : part.kind \notin {"tool", "refusal"} /\ part.text # "none"
         /\ \E part \in Statements(body) : part.text # "blank"
<1> DEFINE content == TextOf(body.content, {"text"}, {"thinking", "redacted_thinking"})
<1>1. body.stop = "end_turn" /\ content # None /\ ~Blank(content)
  BY DEF ExtractAnthropic
<1>2. Statements(body) =
        {part \in Parts(body.content) : part.kind \notin {"thinking", "redacted_thinking"}}
  BY DEF Statements
<1> QED
  BY <1>1, <1>2, AcceptedParts DEF Whole, Parts

(* An accepted item is reasoning that ended or a completed message.        *)
LEMMA AcceptedItem ==
  ASSUME NEW item, ItemText(item) # None
  PROVE  \/ /\ item.kind = "reasoning" /\ item.status \in {"none", "completed"}
            /\ Blank(ItemText(item))
         \/ /\ item.kind = "message" /\ item.status = "completed"
            /\ ItemText(item) = TextOf(item.content, {"output_text"}, {})
  BY DEF ItemText, Blank

(* An accepted Responses body is whole, and either its messages or its     *)
(* flattened text say something.                                           *)
LEMMA AcceptedResponses ==
  ASSUME NEW body, protocol = "openai_responses", ExtractResponses(body) # None
  PROVE  /\ Whole(body)
         /\ \A part \in Statements(body) : part.kind \notin {"tool", "refusal"} /\ part.text # "none"
         /\ \E part \in Statements(body) : part.text # "blank"
<1> DEFINE messages == {item \in Parts(body.output) : item.kind = "message"}
           flat     == [kind |-> "output_text", text |-> body.output_text]
<1>1. /\ body.status = "completed" /\ ~body.error /\ ~body.incomplete
      /\ \A i \in DOMAIN body.output : ItemText(body.output[i]) # None
  BY DEF ExtractResponses
<1>2. Whole(body)
  BY <1>1, AcceptedItem DEF Whole
<1>3. Statements(body) = IF messages # {} THEN UNION {Parts(item.content) : item \in messages}
                                          ELSE {flat}
  BY DEF Statements
<1>4. ASSUME NEW item \in messages
      PROVE  /\ ItemText(item) # None
             /\ ItemText(item) = TextOf(item.content, {"output_text"}, {})
  BY <1>1, <1>4, AcceptedItem DEF Parts
<1>5. CASE messages # {}
  <2>1. \E i \in DOMAIN body.output : body.output[i].kind = "message"
    BY <1>5 DEF Parts
  <2>2. PICK k \in DOMAIN body.output : ~Blank(ItemText(body.output[k]))
    BY <2>1, <1>1 DEF ExtractResponses
  <2>3. body.output[k] \in messages
    BY <2>2, <1>1, AcceptedItem DEF Parts
  <2>4. \E part \in Parts(body.output[k].content) : part.text # "blank"
    BY <2>2, <2>3, <1>4, AcceptedParts DEF Parts
  <2>5. \A item \in messages : \A part \in Parts(item.content) :
           part.kind \notin {"tool", "refusal"} /\ part.text # "none"
    BY <1>4, AcceptedParts DEF Parts
  <2> QED
    BY <1>2, <1>3, <1>5, <2>3, <2>4, <2>5
<1>6. CASE messages = {}
  <2>1. \A i \in DOMAIN body.output : Blank(ItemText(body.output[i]))
    BY <1>1, <1>6, AcceptedItem DEF Parts
  <2>2. body.output_text \notin {"none", "blank"}
    BY <1>1, <2>1 DEF ExtractResponses
  <2>3. Statements(body) = {flat}
    BY <1>3, <1>6
  <2> QED
    BY <1>2, <2>2, <2>3
<1> QED
  BY <1>5, <1>6

(* The parsed or repaired body is one the protocol accepts.                *)
UsedIsAccepted == protocol \in Protocols /\ (used # None => Extract(protocol, used) # None)

(* Only a parsed or a broken answer is taken, and both were accepted.      *)
LEMMA AcceptedStep == UsedIsAccepted /\ [Next]_vars => UsedIsAccepted'
<1> SUFFICES ASSUME UsedIsAccepted, [Next]_vars PROVE UsedIsAccepted'
  OBVIOUS
<1>1. ASSUME NEW body \in Broken[protocol] \cup Parsed[protocol] PROVE Extract(protocol, body) # None
  BY DEF Broken, Parsed, Answers, Rejected, UsedIsAccepted
<1>2. protocol' = protocol
  BY DEF Next, vars, chosen, Send, HttpError, TransportError, Wake, StopCall, UnusableAnswer,
         RejectedAnswer, BrokenAnswer, TestAnswer, CandidateAnswer, VerdictAnswer
<1>3. CASE BrokenAnswer \/ Accepted
  BY <1>1, <1>2, <1>3 DEF BrokenAnswer, Accepted, UsedIsAccepted
<1>4. CASE used' \in {used, None}
  BY <1>2, <1>4 DEF UsedIsAccepted
<1> QED
  BY <1>3, <1>4 DEF Next, vars, Send, HttpError, TransportError, Wake, StopCall, UnusableAnswer,
                    RejectedAnswer, TestAnswer, CandidateAnswer, VerdictAnswer

(* Whatever bodies the service may send, only an answer that ended         *)
(* normally, without a tool call, a refusal or a missing text, is parsed   *)
(* or sent to repair, and it says something.                               *)
THEOREM AcceptedAnswersAreWhole == Spec => []OnlyWholeAnswersCount
<1>1. Init => UsedIsAccepted
  BY DEF Init, UsedIsAccepted
<1>2. UsedIsAccepted => OnlyWholeAnswersCount
  <2> SUFFICES ASSUME UsedIsAccepted, used # None PROVE OnlyWholeAnswersCount
    BY DEF OnlyWholeAnswersCount
  <2>1. CASE protocol = "openai_compatible"
    BY <2>1, AcceptedChat DEF UsedIsAccepted, Extract, OnlyWholeAnswersCount
  <2>2. CASE protocol = "anthropic"
    BY <2>2, AcceptedAnthropic DEF UsedIsAccepted, Extract, OnlyWholeAnswersCount
  <2>3. CASE protocol = "openai_responses"
    BY <2>3, AcceptedResponses DEF UsedIsAccepted, Extract, OnlyWholeAnswersCount
  <2> QED
    BY <2>1, <2>2, <2>3, ModelCallAssumption DEF UsedIsAccepted
<1> QED
  BY <1>1, <1>2, AcceptedStep, PTL DEF Spec
-----------------------------------------------------------------------------
(* The verdicts and the candidates they judge                              *)

(* As many different indexes below n as there are candidates are all of    *)
(* them.                                                                   *)
LEMMA DistinctIndexesAreAll ==
  ASSUME NEW n \in Nat, NEW indexes \in [1 .. n -> Nat],
         \A i \in 1 .. n : indexes[i] < n,
         \A i, k \in 1 .. n : indexes[i] = indexes[k] => i = k
  PROVE  \A k \in 1 .. n : \E i \in 1 .. n : indexes[i] + 1 = k
<1> DEFINE place == [i \in 1 .. n |-> indexes[i] + 1]
<1>1. place \in Injection(1 .. n, 1 .. n)
  <2>1. place \in [1 .. n -> 1 .. n]
    OBVIOUS
  <2>2. \A i, k \in 1 .. n : place[i] = place[k] => i = k
    OBVIOUS
  <2> HIDE DEF place
  <2> QED
    BY <2>1, <2>2 DEF Injection, IsInjective
<1>2. IsFiniteSet(1 .. n)
  BY FS_Interval
<1>3. place \in Surjection(1 .. n, 1 .. n)
  <2> HIDE DEF place
  <2> QED
    BY <1>1, <1>2, FS_Injection
<1>4. \A k \in 1 .. n : \E i \in 1 .. n : place[i] = k
  <2> HIDE DEF place
  <2> QED
    BY <1>3 DEF Surjection
<1>5. \A i \in 1 .. n : place[i] = indexes[i] + 1
  OBVIOUS
<1> HIDE DEF place
<1> QED
  BY <1>4, <1>5

(* The sequence s judges the sequence t: the same entries, as many.        *)
Judges(s, t) == ToSet(s) = ToSet(t) /\ Len(s) = Len(t)

(* Valid verdicts, remapped, judge the located candidates.                 *)
LEMMA RemappedJudges ==
  ASSUME NEW m \in Nat, located \in [1 .. m -> Nat],
         NEW n \in Nat, NEW indexes \in [1 .. n -> Nat], NEW fields \in BOOLEAN,
         VerdictsValid(indexes, fields)
  PROVE  Judges(Remapped(indexes), located)
<1>1. located \in Seq(Nat) /\ indexes \in Seq(Nat) /\ Len(located) = m /\ Len(indexes) = n
  OBVIOUS
<1>2. n = m
  BY <1>1 DEF VerdictsValid
<1>3. \A k \in 1 .. n : \E i \in 1 .. n : indexes[i] + 1 = k
  <2>1. \A i \in 1 .. n : indexes[i] < n
    BY <1>1, <1>2 DEF VerdictsValid
  <2>2. \A i, k \in 1 .. n : indexes[i] = indexes[k] => i = k
    BY <1>1 DEF VerdictsValid
  <2> QED
    BY <2>1, <2>2, DistinctIndexesAreAll
<1>4. Remapped(indexes) = [i \in 1 .. n |-> located[indexes[i] + 1]]
  BY DEF Remapped
<1>5. \A i \in 1 .. n : indexes[i] + 1 \in 1 .. n
  BY <1>1, <1>2 DEF VerdictsValid
<1>6. Remapped(indexes) \in [1 .. n -> Nat]
  BY <1>2, <1>4, <1>5
<1>7. Len(Remapped(indexes)) = n
  BY <1>6
<1>8. ToSet(Remapped(indexes)) = {located[indexes[i] + 1] : i \in 1 .. n}
  BY <1>4 DEF ToSet
<1>9. ToSet(located) = {located[k] : k \in 1 .. n}
  BY <1>2 DEF ToSet
<1>10. {located[indexes[i] + 1] : i \in 1 .. n} = {located[k] : k \in 1 .. n}
  BY <1>3, <1>5
<1> QED
  BY <1>1, <1>2, <1>7, <1>8, <1>9, <1>10 DEF Judges

(* Until the call ends there are no verdicts, and an analyzed chunk has    *)
(* those of its candidates.                                                *)
Judged ==
  /\ \E m \in Nat : located \in [1 .. m -> Nat]
  /\ at # "ended" => result = "none" /\ verdicts = <<>>
  /\ result = "ok" /\ goal = "chunk" => Judges(verdicts, located)

(* An end that is not that of an analyzed chunk judges nothing.            *)
LEMMA UnjudgedEnd ==
  ASSUME Judged, NEW outcome, End(outcome), outcome # "ok" \/ goal = "test",
         goal' = goal, \E m \in Nat : located' \in [1 .. m -> Nat]
  PROVE  Judged'
  BY DEF Judged, End

(* Every step keeps it.                                                    *)
LEMMA JudgedStep == Judged /\ [Next]_vars => Judged'
<1> SUFFICES ASSUME Judged, [Next]_vars PROVE Judged'
  OBVIOUS
<1>1. CASE Send \/ Wake
  BY <1>1 DEF Send, Wake, chosen, values, Judged
<1>2. CASE HttpError
  <2>1. at = "flight" /\ UNCHANGED <<chosen, values>>
    BY <1>2 DEF HttpError
  <2>2. (\E seconds : Sleep(seconds)) \/ GiveUp
    BY <1>2 DEF HttpError
  <2>3. CASE \E seconds : Sleep(seconds)
    BY <2>1, <2>3 DEF Sleep, chosen, values, Judged
  <2>4. CASE GiveUp
    BY <2>1, <2>4, UnjudgedEnd DEF GiveUp, chosen, values, Judged
  <2> QED
    BY <2>2, <2>3, <2>4
<1>3. CASE TransportError
  <2>1. at = "flight" /\ UNCHANGED <<chosen, values>>
    BY <1>3 DEF TransportError
  <2>2. (\E seconds : Sleep(seconds)) \/ GiveUp
    BY <1>3 DEF TransportError
  <2>3. CASE \E seconds : Sleep(seconds)
    BY <2>1, <2>3 DEF Sleep, chosen, values, Judged
  <2>4. CASE GiveUp
    BY <2>1, <2>4, UnjudgedEnd DEF GiveUp, chosen, values, Judged
  <2> QED
    BY <2>2, <2>3, <2>4
<1>4. CASE UnusableAnswer \/ RejectedAnswer \/ StopCall
  BY <1>4, UnjudgedEnd DEF UnusableAnswer, RejectedAnswer, StopCall, chosen, values, Judged
<1>5. CASE BrokenAnswer
  <2>1. at = "flight" /\ UNCHANGED <<chosen, values>>
    BY <1>5 DEF BrokenAnswer
  <2>2. CASE at' = "send" /\ result' = result
    BY <2>1, <2>2 DEF chosen, values, Judged
  <2>3. CASE End("model_output_invalid")
    BY <2>1, <2>3, UnjudgedEnd DEF chosen, values, Judged
  <2> QED
    BY <1>5, <2>2, <2>3 DEF BrokenAnswer
<1>6. CASE TestAnswer
  <2>1. goal = "test" /\ at = "flight" /\ UNCHANGED <<chosen, values>>
    BY <1>6 DEF TestAnswer, Accepted
  <2>2. NextPass \/ \E outcome : End(outcome)
    BY <1>6 DEF TestAnswer, Finish
  <2>3. CASE NextPass
    BY <2>1, <2>3 DEF NextPass, chosen, values, Judged
  <2>4. CASE \E outcome : End(outcome)
    BY <2>1, <2>4, UnjudgedEnd DEF chosen, values, Judged
  <2> QED
    BY <2>2, <2>3, <2>4
<1>7. CASE CandidateAnswer
  <2>1. at = "flight" /\ UNCHANGED <<chosen, verdicts>>
    BY <1>7 DEF CandidateAnswer, Accepted
  <2>2. \/ End("model_output_invalid") /\ UNCHANGED located
        \/ \E count \in 0 .. MaxCandidates + 1 : \E n \in 0 .. count :
              /\ located' \in InOrder(n, count)
              /\ IF n = 0 THEN End("ok") ELSE NextPass
    BY <1>7 DEF CandidateAnswer, Finish
  <2>3. CASE End("model_output_invalid") /\ UNCHANGED located
    BY <2>1, <2>3, UnjudgedEnd DEF chosen, Judged
  <2>4. ASSUME NEW count \in 0 .. MaxCandidates + 1, NEW n \in 0 .. count,
               located' \in InOrder(n, count), IF n = 0 THEN End("ok") ELSE NextPass
        PROVE  Judged'
    <3>1. count \in Nat /\ n \in Nat /\ located' \in [1 .. n -> Nat]
      BY <2>4, ModelCallAssumption DEF InOrder
    <3>2. CASE n = 0
      <4>1. located' = <<>>
        BY <3>1, <3>2
      <4>2. verdicts' = <<>>
        BY <2>1 DEF Judged
      <4> QED
        BY <2>4, <3>1, <3>2, <4>1, <4>2 DEF Judged, Judges, End
    <3>3. CASE n # 0
      BY <2>1, <2>4, <3>1, <3>3 DEF NextPass, chosen, Judged
    <3> QED
      BY <3>2, <3>3
  <2> QED
    BY <2>2, <2>3, <2>4
<1>8. CASE VerdictAnswer
  <2>1. at = "flight" /\ UNCHANGED <<chosen, located>>
    BY <1>8 DEF VerdictAnswer, Accepted
  <2> PICK n \in 0 .. MaxVerdicts, fields \in BOOLEAN :
           \E indexes \in [1 .. n -> 0 .. MaxVerdicts] :
             IF VerdictsValid(indexes, fields)
               THEN verdicts' = Remapped(indexes) /\ End("ok")
               ELSE verdicts' = verdicts /\ End("model_output_invalid")
    BY <1>8 DEF VerdictAnswer, Finish
  <2>2. PICK indexes \in [1 .. n -> 0 .. MaxVerdicts] :
           IF VerdictsValid(indexes, fields)
             THEN verdicts' = Remapped(indexes) /\ End("ok")
             ELSE verdicts' = verdicts /\ End("model_output_invalid")
    OBVIOUS
  <2>3. n \in Nat /\ indexes \in [1 .. n -> Nat]
    BY ModelCallAssumption
  <2>4. CASE VerdictsValid(indexes, fields)
    <3>1. Judges(verdicts', located')
      <4>1. Judges(Remapped(indexes), located)
        BY <2>3, <2>4, RemappedJudges DEF Judged
      <4> QED
        BY <2>1, <2>2, <2>4, <4>1
    <3> QED
      BY <2>1, <2>2, <2>4, <3>1 DEF Judged, End
  <2>5. CASE ~VerdictsValid(indexes, fields)
    BY <2>1, <2>2, <2>5, UnjudgedEnd DEF chosen, Judged
  <2> QED
    BY <2>4, <2>5
<1>9. CASE UNCHANGED vars
  BY <1>9 DEF vars, Judged
<1> QED
  BY <1>1, <1>2, <1>3, <1>4, <1>5, <1>6, <1>7, <1>8, <1>9 DEF Next

(* However many candidates are returned and located, the stored verdicts   *)
(* judge exactly the located ones, each once.                              *)
THEOREM VerdictsJudgeTheLocated == Spec => []VerdictsFitCandidates
<1>1. Init => Judged
  <2> SUFFICES ASSUME Init PROVE Judged
    OBVIOUS
  <2>1. <<>> \in [1 .. 0 -> Nat]
    OBVIOUS
  <2> QED
    BY <2>1 DEF Init, Judged
<1>2. Judged => VerdictsFitCandidates
  BY DEF Judged, Judges, VerdictsFitCandidates
<1> QED
  BY <1>1, <1>2, JudgedStep, PTL DEF Spec
=============================================================================
