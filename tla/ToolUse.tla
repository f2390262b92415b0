------------------------------- MODULE ToolUse -------------------------------
(***************************************************************************)
(* The Agent of Exchange with the calculator of Calculator as its tool.    *)
(***************************************************************************)
EXTENDS Exchange, Calculator

CONSTANTS
  Numbers,  \* the numbers in expressions
  Nesting   \* how deep an expression may be

ASSUME ToolUseAssumption == Numbers \subseteq Numerals /\ Nesting \in Nat

(* The expressions whose answer is not what they mean.                     *)
Misread ==
  {e \in Expressions(Numbers, Nesting) : Calculated(e.text) # Outcome(e.means)}

(* Whenever the calculator is called, it is one that reads every           *)
(* expression, negative numbers and the parentheses it needs included, as  *)
(* arithmetic does: by precedence, from left to right, and with an error   *)
(* exactly if something is divided by zero.                                *)
CalculatorEvaluates ==
  calls # <<>> /\ calls[1].tool = "calculator" => Misread = {}
=============================================================================
