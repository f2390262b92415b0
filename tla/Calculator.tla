----------------------------- MODULE Calculator -----------------------------
(***************************************************************************)
(* boostchain::CalculatorTool (src/tool.cpp): a recursive-descent parser   *)
(* for + - * / and parentheses.                                            *)
(*                                                                         *)
(* A text is a sequence of characters.  Numbers are exact fractions where  *)
(* the code has doubles: rounding, overflow and the sign of zero are left  *)
(* out, and so is the decimal form of the result.                          *)
(***************************************************************************)
EXTENDS Integers, SequencesExt

Digits == <<"0", "1", "2", "3", "4", "5", "6", "7", "8", "9">>
Digit == ToSet(Digits)
DigitValue(c) == CHOOSE v \in 0 .. 9 : Digits[v + 1] = c

Abs(n) == IF n < 0 THEN -n ELSE n

(* n/d in lowest terms with a positive denominator.                        *)
Ratio(n, d) ==
  LET common == {k \in 1 .. Abs(d) : n % k = 0 /\ Abs(d) % k = 0}
      g == CHOOSE k \in common : \A j \in common : j <= k
  IN  [n |-> (IF d < 0 THEN -n ELSE n) \div g, d |-> Abs(d) \div g]

Apply(op, a, b) ==
  CASE op = "+" -> Ratio(a.n * b.d + b.n * a.d, a.d * b.d)
    [] op = "-" -> Ratio(a.n * b.d - b.n * a.d, a.d * b.d)
    [] op = "*" -> Ratio(a.n * b.n, a.d * b.d)
    [] op = "/" -> Ratio(a.n * b.d, a.d * b.n)

(* What a parse_ function leaves: the position after what it read and its  *)
(* value, or an exception.                                                 *)
Read(at, value) == [ok |-> TRUE, at |-> at, value |-> value]
Thrown == [ok |-> FALSE, at |-> 1, value |-> Ratio(0, 1)]

At(expr, pos) == IF pos \in DOMAIN expr THEN expr[pos] ELSE "\\0"

Blank == " "

(* The first place at or after pos that holds something else.              *)
PastAll(expr, pos, chars) ==
  CHOOSE p \in pos .. Len(expr) + 1 :
    /\ At(expr, p) \notin chars
    /\ \A q \in pos .. p - 1 : expr[q] \in chars

SkipSpaces(expr, pos) == PastAll(expr, pos, {Blank})

Peek(expr, pos) == At(expr, SkipSpaces(expr, pos))

Consume(expr, pos) ==
  LET p == SkipSpaces(expr, pos) IN IF p > Len(expr) THEN p ELSE p + 1

(* What std::stod makes of the digits before and after the point.          *)
NumberValue(negative, whole, part) ==
  LET numeral == FoldLeft(LAMBDA n, c : 10 * n + DigitValue(c), 0, whole \o part)
  IN  Ratio(IF negative THEN -numeral ELSE numeral, 10 ^ Len(part))

(* A sign only right before the digits; std::stod throws if there are none.*)
ParseNumber(expr, pos) ==
  LET start == SkipSpaces(expr, pos)
      first == IF At(expr, start) = "-" THEN start + 1 ELSE start
      dot == PastAll(expr, first, Digit)
      end == IF At(expr, dot) = "." THEN PastAll(expr, dot + 1, Digit)
                                    ELSE dot
      whole == SubSeq(expr, first, dot - 1)
      part == SubSeq(expr, dot + 1, end - 1)
  IN  IF whole \o part = <<>> THEN Thrown
      ELSE Read(end, NumberValue(first > start, whole, part))

-----------------------------------------------------------------------------
(* Positions, the end of the text included.                                *)
Places(expr) == 1 .. Len(expr) + 1

(* The loop of parse_term and parse_expression, once round: an operator of *)
(* this level is applied to what is on its left and the operand after it.  *)
Round(expr, ops, operand, left) ==
  LET op == Peek(expr, left.at)
      right == operand[Consume(expr, left.at)]
  IN  IF ~left.ok \/ op \notin ops THEN left
      ELSE IF ~right.ok \/ (op = "/" /\ right.value.n = 0) THEN Thrown
      ELSE Read(right.at, Apply(op, left.value, right.value))

(* Faulty: an operator is applied once, what follows is left over.         *)
LoopOnce(expr, ops, operand) ==
  [pos \in Places(expr) |-> Round(expr, ops, operand, operand[pos])]

(* The loop from any position on.  Every round consumes a character.       *)
Loop(expr, ops, operand) ==
  [pos \in Places(expr) |->
     LET left[k \in Nat] == IF k = 0 THEN operand[pos]
                            ELSE Round(expr, ops, operand, left[k - 1])
     IN  left[Len(expr)]]

TermOperators == {"*", "/"}
ExpressionOperators == {"+", "-"}

ParseTerm(expr, factor) == Loop(expr, TermOperators, factor)

ParseExpression(expr, factor) ==
  Loop(expr, ExpressionOperators, ParseTerm(expr, factor))

(* The character after the inner expression is consumed whatever it is.    *)
ParseFactor(expr, expression) ==
  [pos \in Places(expr) |->
     IF Peek(expr, pos) = "("
     THEN LET inner == expression[Consume(expr, pos)]
          IN  IF inner.ok THEN Read(Consume(expr, inner.at), inner.value) ELSE Thrown
     ELSE ParseNumber(expr, pos)]

(* parse_factor with less than d parentheses open.                         *)
Factors(expr) ==
  LET factor[d \in Nat] ==
        IF d = 0 THEN [pos \in Places(expr) |-> Thrown]
        ELSE ParseFactor(expr, ParseExpression(expr, factor[d - 1]))
  IN  factor

(* The characters JSON writes with an escape lose it: a line feed becomes  *)
(* the letter n.                                                           *)
ExtractedValue(expression) ==
  [i \in DOMAIN expression |->
     IF expression[i] = "\n" THEN "n" ELSE expression[i]]

(* execute: what is left over after the expression is not looked at.  An   *)
(* expression that is missing, or no string, is the empty one.             *)
Execute(expression) ==
  IF expression = <<>> THEN Thrown
  ELSE LET expr == ExtractedValue(expression)
       IN  ParseExpression(expr, Factors(expr)[Len(expr)])[1]

(* A number or fraction as one piece of text.                              *)
Figure(value) ==
  <<IF value.d = 1 THEN ToString(value.n)
    ELSE ToString(value.n) \o "/" \o ToString(value.d)>>

(* The ToolResult as a text: its content, or its error.                    *)
Outcome(result) == IF result.ok THEN Figure(result.value) ELSE <<"Error">>

Calculated(expression) == Outcome(Execute(expression))

-----------------------------------------------------------------------------
(* Arithmetic: how an expression is written, what it means and how tightly *)
(* it binds, numbers before products before sums.                          *)
Expression(text, means, binds) == [text |-> text, means |-> means, binds |-> binds]

Numerals == [negative : BOOLEAN, whole : Seq(Digit) \ {<<>>}, part : Seq(Digit)]

Number(v) ==
  Expression((IF v.negative THEN <<"-">> ELSE <<>>) \o v.whole
               \o (IF v.part = <<>> THEN <<>> ELSE <<".">> \o v.part),
             Read(1, NumberValue(v.negative, v.whole, v.part)), 3)

Bracketed(text) == <<"(">> \o text \o <<")">>

(* With the parentheses it needs and no others, and blanks around + and -. *)
Combined(op, left, right) ==
  LET binds == IF op \in TermOperators THEN 2 ELSE 1
      before == IF left.binds < binds THEN Bracketed(left.text) ELSE left.text
      after == IF right.binds <= binds THEN Bracketed(right.text) ELSE right.text
      sign == IF binds = 1 THEN <<Blank, op, Blank>> ELSE <<op>>
      fails == \/ ~left.means.ok \/ ~right.means.ok
               \/ op = "/" /\ right.means.value.n = 0
  IN  Expression(before \o sign \o after,
                 IF fails THEN Thrown
                 ELSE Read(1, Apply(op, left.means.value, right.means.value)), binds)

(* The expressions over the given numbers, up to n operators deep.         *)
Deeper(exprs) ==
  exprs \cup {Combined(op, left, right) :
               op \in TermOperators \cup ExpressionOperators,
               left \in exprs, right \in exprs}

Expressions(numbers, n) ==
  LET exprs[k \in Nat] ==
        IF k = 0 THEN {Number(v) : v \in numbers} ELSE Deeper(exprs[k - 1])
  IN  exprs[n]
=============================================================================
