------------------------------- MODULE Dialect -------------------------------
(***************************************************************************)
(* The JSON of the three providers (src/llm/*_provider.cpp): the body of a *)
(* chat request, and what parse_response makes of the body of an answer.   *)
(*                                                                         *)
(* A message is [role, text, call]: text is a sequence of pieces, call is  *)
(* the optional tool_call, a sequence of one [tool, expression] or none.   *)
(* Of a request's body the model, the sampling parameters and the          *)
(* parameter schemas of the tools are left out.                            *)
(***************************************************************************)
EXTENDS Naturals, SequencesExt

Kinds == {"openai", "claude", "gemini"}

Texts == Seq(STRING)

Message(role, text, call) == [role |-> role, text |-> text, call |-> call]

(* The name a provider has for a role.  Claude and Gemini know no tools:   *)
(* what a tool answered is sent as the user's.                             *)
WireRole(kind, role) ==
  CASE kind # "openai" /\ role = "tool" -> "user"
    [] kind = "gemini" /\ role = "assistant" -> "model"
    [] OTHER -> role

(* OpenAI has system messages where they stand; the others send them apart,*)
(* with a blank line between, once there is something to part.             *)
Apart(kind, message) == kind # "openai" /\ message.role = "system"

BlankLine == "\n\n"

Joined(texts) ==
  FlattenSeq([i \in DOMAIN texts |->
    (IF \E j \in 1 .. i - 1 : texts[j] # <<>> THEN <<BlankLine>> ELSE <<>>)
      \o texts[i]])

Turn(kind, message) ==
  [role |-> WireRole(kind, message.role), text |-> message.text]

TextsApart(kind, messages) ==
  FlattenSeq([i \in DOMAIN messages |->
    IF Apart(kind, messages[i]) THEN <<messages[i].text>> ELSE <<>>])

Turns(kind, messages) ==
  FlattenSeq([i \in DOMAIN messages |->
    IF Apart(kind, messages[i]) THEN <<>> ELSE <<Turn(kind, messages[i])>>])

(* No tool_call and no tool_call_id is ever sent, only OpenAI is told of   *)
(* the tools.                                                              *)
RequestBody(kind, messages) ==
  [system |-> Joined(TextsApart(kind, messages)),
   turns |-> Turns(kind, messages),
   tools |-> kind = "openai"]

-----------------------------------------------------------------------------
(* The body of an answer:                                                  *)
(*   whole    HTTP 200, JSON, and for OpenAI the fields it must have       *)
(*   finish   what it says of its end: "given", "null" or "absent"         *)
(*   choices  at most one [role, blocks, calls]; one always for Claude     *)
(*   blocks   [type, text]: for OpenAI the content, "null" for null and no *)
(*            block at all for none; for the others as many as they like,  *)
(*            "other" for any but text                                     *)
Calls == [tool : STRING, expression : Texts]
AnswerChoices ==
  [role : STRING, blocks : Seq([type : STRING, text : Texts]), calls : Seq(Calls)]
Answers == [whole : BOOLEAN, finish : STRING, choices : Seq(AnswerChoices)]

KnownRole(kind, role) ==
  role \in {"user", "system", "tool"}
             \cup {IF kind = "gemini" THEN "model" ELSE "assistant"}

TextsOf(choice) ==
  FlattenSeq([i \in DOMAIN choice.blocks |->
    IF choice.blocks[i].type = "text" THEN <<choice.blocks[i].text>> ELSE <<>>])

FirstCall(choice) ==
  IF choice.calls = <<>> THEN <<>> ELSE <<Head(choice.calls)>>

(* Faulty: only the last block of a Claude answer is kept.                 *)
MessagesOfLastBlock(kind, choice) ==
  LET texts == TextsOf(choice)
      role == IF choice.role = "model" THEN "assistant" ELSE choice.role
  IN  CASE kind = "claude" ->
             IF texts = <<>> THEN <<>>
             ELSE <<Message("assistant", Last(texts), <<>>)>>
        [] kind = "gemini" -> <<Message(role, FlattenSeq(texts), <<>>)>>
        [] kind = "openai" -> <<Message(role, FlattenSeq(texts),
                                        FirstCall(choice))>>

(* Claude: one message for each block of text.  Gemini: one message with   *)
(* all texts.  OpenAI: one message, of several tool calls the first.       *)
MessagesOf(kind, choice) ==
  LET texts == TextsOf(choice)
      role == IF choice.role = "model" THEN "assistant" ELSE choice.role
  IN  CASE kind = "claude" ->
             [i \in DOMAIN texts |-> Message("assistant", texts[i], <<>>)]
        [] kind = "gemini" -> <<Message(role, FlattenSeq(texts), <<>>)>>
        [] kind = "openai" -> <<Message(role, FlattenSeq(texts),
                                        FirstCall(choice))>>

(* An exception of parse_response, null where a string is expected among   *)
(* them, makes the whole answer an error.                                  *)
Refused(kind, body) ==
  \/ ~body.whole
  \/ /\ body.choices # <<>>
     /\ LET choice == body.choices[1] IN
          \/ body.finish = "null"
          \/ kind # "claude" /\ ~KnownRole(kind, choice.role)
          \/ kind = "openai" /\ \E i \in DOMAIN choice.blocks :
                                  choice.blocks[i].type = "null"

Response(kind, body) ==
  IF body.choices = <<>> THEN <<>> ELSE MessagesOf(kind, body.choices[1])
=============================================================================
