---------------------------- MODULE MCModelCall -----------------------------
(* Instances of ModelCall for TLC: bodies of at most two parts or items.   *)
EXTENDS ModelCall

UpToTwo(S) == {<<>>} \cup {<<a>> : a \in S} \cup {<<a, b>> : a \in S, b \in S}

AnyParts(kinds) == [kind : kinds, text : {"none", "blank", "json", "fenced", "head", "tail"}]

ChatBodies ==
  [finish : {"stop", "length", "none"}, calls : {"none", "empty", "some"},
   refusal : BOOLEAN,
   content : {None} \cup [parts : UpToTwo(AnyParts({"text", "refusal"}))]]

AnthropicBodies ==
  [stop : {"end_turn", "max_tokens", "none"},
   content : UpToTwo(AnyParts({"text", "thinking", "tool"}))]

(* Either the flags of the response vary, or its items.                    *)
PlainItem == [kind |-> "message", status |-> "completed",
              content |-> <<[kind |-> "output_text", text |-> "json"]>>]

Items == [kind : {"reasoning", "message", "tool"},
          status : {"none", "completed", "incomplete"},
          content : {<<>>} \cup {<<part>> : part \in AnyParts({"output_text", "refusal"})}]

ResponsesBodies ==
  [status : {"none", "completed", "incomplete"}, error : BOOLEAN, incomplete : BOOLEAN,
   output : {<<>>, <<PlainItem>>}, output_text : {"none", "blank", "json", "head"}]
  \cup
  [status : {"completed"}, error : {FALSE}, incomplete : {FALSE},
   output : {<<item>> : item \in Items} \cup {<<item, PlainItem>> : item \in Items},
   output_text : {"none", "blank", "json", "head"}]

AllBodies(p) ==
  CASE p = "openai_compatible" -> ChatBodies
    [] p = "anthropic"         -> AnthropicBodies
    [] p = "openai_responses"  -> ResponsesBodies
=============================================================================
