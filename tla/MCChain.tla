------------------------------ MODULE MCChain ------------------------------
(***************************************************************************)
(* Chain on a few templates, model names, inputs and answers.              *)
(***************************************************************************)
EXTENDS Chain

(* Plain; with names, blanks, a quote, text around; a marker without its   *)
(* other half before, after and inside a hole; no name; the last answer; a *)
(* name no input binds; brackets that match, close, open and cross.        *)
SomeTemplates ==
  {<<"say">>,
   <<"{{", " ", "a", "\t", "}}", Escaped, "{{", "b", "}}">>,
   <<"}}", "say", "{{", "a", "}}", "{{">>,
   <<"{{", "{{", "a", "}}", "}}">>,
   <<"{{", " ", "}}", "say">>,
   <<"{{", "last_output", "}}", "[", "]">>,
   <<"say", "[">>,
   <<"{{", "a", "]", "say">>,
   <<"]", "say", "[">>}

(* Plain, a bracket, a quote, a backslash before the closing quote.        *)
SomeModels == {<<"m">>, <<"m", "]">>, <<Quote, "m">>, <<"m", Backslash>>}

Names4 == <<"", "a", "b", "last_output">>

(* Nothing; a value that looks like a hole, and the empty name; with a     *)
(* last_output from an earlier run, once empty.                            *)
SomeInputs ==
  {[n \in {} |-> <<>>],
   [n \in {"", "a", "b"} |-> IF n = "a" THEN <<"{{", "b", "}}">> ELSE <<"1">>],
   [n \in {"a", "last_output"} |-> IF n = "a" THEN <<"1">> ELSE <<"old">>],
   [n \in {"b", "last_output"} |-> IF n = "b" THEN <<"1">> ELSE <<>>]}

SomeReplies == << <<"reply1">>, <<"reply2">>, <<"reply3">> >>
=============================================================================
