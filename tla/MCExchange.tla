----------------------------- MODULE MCExchange -----------------------------
(***************************************************************************)
(* Exchange with answers of every shape the three parsers tell apart, and  *)
(* the calculator on every small expression.                               *)
(***************************************************************************)
EXTENDS ToolUse

Text(piece) == [type |-> "text", text |-> <<piece>>]
Other == [type |-> "other", text |-> <<>>]
Null == [type |-> "null", text |-> <<>>]
Calculate(expression) == [tool |-> "calculator", expression |-> expression]

Choice(role, blocks, called) == [role |-> role, blocks |-> blocks, calls |-> called]
Body(choices) == [whole |-> TRUE, finish |-> "given", choices |-> choices]
Broken == [Body(<<>>) EXCEPT !.whole = FALSE]

(* Product, division by zero, text that ends too early, no expression; an  *)
(* unknown tool; two calls at once.                                        *)
SomeCalls ==
  {<<>>,
   <<Calculate(<<"2", "*", "3">>)>>,
   <<Calculate(<<"2", "/", "0">>)>>,
   <<Calculate(<<"2", " ", "+">>)>>,
   <<[tool |-> "other", expression |-> <<>>]>>,
   <<Calculate(<<>>), Calculate(<<"2", "*", "3">>)>>}

OpenAIBodies ==
  {Broken, Body(<<>>), [Body(<<Choice("assistant", <<Text("a")>>, <<>>)>>)
                          EXCEPT !.finish = "null"]}
  \cup {Body(<<Choice(role, <<Text("a")>>, <<>>)>>) : role \in {"assistant", "function"}}
  \cup {Body(<<Choice("assistant", <<Null>>, called)>>) :
          called \in {<<>>, <<Calculate(<<"2", "*", "3">>)>>}}
  \cup {Body(<<Choice("assistant", content, called)>>) :
          content \in {<<>>, <<Text("b")>>}, called \in SomeCalls}

(* Any blocks, none, several texts, others between and around.             *)
SomeBlocks == {<<>>, <<Other>>, <<Text("a")>>, <<Text("a"), Text("b")>>,
               <<Other, Text("b"), Other, Text("a")>>}

ClaudeBodies ==
  {Broken} \cup {[Body(<<Choice("assistant", blocks, <<>>)>>) EXCEPT !.finish = end] :
                   blocks \in SomeBlocks, end \in {"given", "null", "absent"}}

GeminiBodies ==
  {Broken, Body(<<>>)}
  \cup {[Body(<<Choice(role, blocks, <<>>)>>) EXCEPT !.finish = end] :
          role \in {"model", "assistant"}, blocks \in SomeBlocks,
          end \in {"given", "null", "absent"}}

SomeBodies == [k \in Kinds |-> CASE k = "openai" -> OpenAIBodies
                                 [] k = "claude" -> ClaudeBodies
                                 [] k = "gemini" -> GeminiBodies]

SomePrompts == {<<>>, <<"prompt">>}
SomeTexts == {<<"question">>}

(* 0, 2, -13 and 1.5.                                                      *)
Numeral(negative, whole, part) ==
  [negative |-> negative, whole |-> whole, part |-> part]

SomeNumbers == {Numeral(FALSE, <<"0">>, <<>>), Numeral(FALSE, <<"2">>, <<>>),
                Numeral(TRUE, <<"1", "3">>, <<>>), Numeral(FALSE, <<"1">>, <<"5">>)}
=============================================================================
