-------------------------- MODULE CalculatorProofs --------------------------
(***************************************************************************)
(* Proofs about module Calculator: every expression is evaluated as        *)
(* arithmetic does, whatever its numbers and however deep it is.           *)
(*                                                                         *)
(*   ExpressionsEvaluate    for any numbers and depth                      *)
(*   CalculatorIsRight      in every state of ToolUse                      *)
(*                                                                         *)
(* An expression is followed by its place in a longer text: a factor, a    *)
(* term or a sum that stands somewhere is read up to where it ends,        *)
(* whatever comes after, as long as that is no part of it.                 *)
(***************************************************************************)
EXTENDS ToolUse, TextLemmas

-----------------------------------------------------------------------------
(* Characters and places                                                   *)

Chars == Digit \cup {"-", "+", "*", "/", "(", ")", ".", Blank}

(* Digits are no other characters.                                         *)
LEMMA DigitsApart ==
  \A c \in Digit : c \notin {"-", "+", "*", "/", "(", ")", ".", Blank, "\\0", "\n"}
<1>1. DOMAIN Digits = 1 .. 10
  BY DEF Digits
<1>2. \A i \in 1 .. 10 : \/ i = 1 \/ i = 2 \/ i = 3 \/ i = 4 \/ i = 5
                         \/ i = 6 \/ i = 7 \/ i = 8 \/ i = 9 \/ i = 10
  OBVIOUS
<1>3. /\ Digits[1] = "0" /\ Digits[2] = "1" /\ Digits[3] = "2" /\ Digits[4] = "3"
      /\ Digits[5] = "4" /\ Digits[6] = "5" /\ Digits[7] = "6" /\ Digits[8] = "7"
      /\ Digits[9] = "8" /\ Digits[10] = "9"
  BY DEF Digits
<1>4. \A c \in Digit : \E i \in 1 .. 10 : c = Digits[i]
  BY <1>1 DEF Digit, ToSet
<1>5. \A c \in Digit : c \in {"0", "1", "2", "3", "4", "5", "6", "7", "8", "9"}
  BY <1>2, <1>3, <1>4
<1> QED BY <1>5 DEF Blank

(* Characters that mean something are different from one another.          *)
LEMMA SignsApart ==
  /\ Blank \notin Digit \cup TermOperators \cup ExpressionOperators \cup {".", "(", ")", "\\0"}
  /\ "\\0" \notin Digit \cup TermOperators \cup ExpressionOperators \cup {".", Blank}
  /\ ")" \notin Digit \cup TermOperators \cup ExpressionOperators \cup {".", Blank}
  /\ "(" # Blank /\ "-" # Blank /\ "-" # "(" /\ "." \notin Digit
  /\ \A c \in TermOperators : c \notin Digit \cup {".", Blank}
  /\ \A c \in ExpressionOperators : c \notin TermOperators \cup {Blank}
  /\ \A c \in Digit : c # Blank /\ c # "-" /\ c # "("
  /\ \A c \in Chars : c # "\n"
<1>1. /\ Blank \notin Digit /\ "\\0" \notin Digit /\ ")" \notin Digit /\ "." \notin Digit
      /\ "*" \notin Digit /\ "/" \notin Digit
      /\ \A c \in Digit : c # Blank /\ c # "-" /\ c # "(" /\ c # "\n"
  BY DigitsApart
<1>2. Blank \notin TermOperators \cup ExpressionOperators \cup {".", "(", ")", "\\0"}
  BY DEF Blank, TermOperators, ExpressionOperators
<1>3. "\\0" \notin TermOperators \cup ExpressionOperators \cup {".", Blank}
  BY DEF Blank, TermOperators, ExpressionOperators
<1>4. ")" \notin TermOperators \cup ExpressionOperators \cup {".", Blank}
  BY DEF Blank, TermOperators, ExpressionOperators
<1>5. "(" # Blank /\ "-" # Blank /\ "-" # "("
  BY DEF Blank
<1>6. \A c \in TermOperators : c \notin Digit \cup {".", Blank}
  BY <1>1 DEF Blank, TermOperators
<1>7. \A c \in ExpressionOperators : c \notin TermOperators \cup {Blank}
  BY DEF Blank, TermOperators, ExpressionOperators
<1>8. \A c \in Chars : c # "\n"
  BY <1>1 DEF Chars, Blank
<1> QED BY <1>1, <1>2, <1>3, <1>4, <1>5, <1>6, <1>7, <1>8

(* u stands in s from place a up to place b, where it has ended.           *)
Spans(u, s, a, b) ==
  /\ a \in Nat /\ b \in Nat /\ a >= 1 /\ b = a + Len(u) /\ b <= Len(s) + 1
  /\ \A i \in a .. b - 1 : s[i] = u[i - a + 1]

(* Two texts one after the other stand so in it.                           *)
LEMMA SpansBoth ==
  ASSUME NEW S, NEW u \in Seq(S), NEW v \in Seq(S), NEW s \in Seq(S), NEW a, NEW b,
         Spans(u \o v, s, a, b)
  PROVE  \E m \in Nat : m = a + Len(u) /\ Spans(u, s, a, m) /\ Spans(v, s, m, b)
<1>1. /\ Len(u) \in Nat /\ Len(v) \in Nat /\ Len(s) \in Nat /\ Len(u \o v) = Len(u) + Len(v)
      /\ \A i \in 1 .. Len(u) + Len(v) :
           (u \o v)[i] = IF i <= Len(u) THEN u[i] ELSE v[i - Len(u)]
  <2>1. Len(u) \in Nat /\ Len(v) \in Nat /\ Len(s) \in Nat
    OBVIOUS
  <2> QED BY <2>1, ConcatProperties
<1>2. PICK both, n, k, l : both = u \o v /\ n = Len(u) /\ k = Len(v) /\ l = Len(s)
  OBVIOUS
<1>3. /\ a \in Nat /\ b \in Nat /\ a >= 1 /\ b = a + (n + k) /\ b <= l + 1
      /\ n \in Nat /\ k \in Nat /\ l \in Nat
      /\ \A i \in a .. b - 1 : s[i] = both[i - a + 1]
      /\ \A i \in 1 .. n + k : both[i] = IF i <= n THEN u[i] ELSE v[i - n]
  BY <1>1, <1>2 DEF Spans
<1>4. PICK m \in Nat : m = a + n
  BY <1>3
<1>5. Spans(u, s, a, m)
  <2>1. m <= l + 1
    BY <1>3, <1>4
  <2>2. ASSUME NEW i \in a .. m - 1 PROVE s[i] = u[i - a + 1]
    <3>1. i \in a .. b - 1 /\ i - a + 1 \in 1 .. n + k /\ i - a + 1 <= n
      BY <1>3, <1>4
    <3> QED BY <1>3, <3>1
  <2> QED BY <1>2, <1>3, <1>4, <2>1, <2>2 DEF Spans
<1>6. Spans(v, s, m, b)
  <2>1. m >= 1 /\ b = m + k
    BY <1>3, <1>4
  <2>2. ASSUME NEW i \in m .. b - 1 PROVE s[i] = v[i - m + 1]
    <3>1. i \in a .. b - 1 /\ i - a + 1 \in 1 .. n + k /\ ~(i - a + 1 <= n)
          /\ (i - a + 1) - n = i - m + 1
      BY <1>3, <1>4
    <3> QED BY <1>3, <3>1
  <2> QED BY <1>2, <1>3, <1>4, <2>1, <2>2 DEF Spans
<1> QED BY <1>2, <1>4, <1>5, <1>6

(* A single character.                                                     *)
LEMMA SpansOne ==
  ASSUME NEW c, NEW s, NEW a, NEW b, Spans(<<c>>, s, a, b), Len(s) \in Nat
  PROVE  a \in 1 .. Len(s) /\ b = a + 1 /\ s[a] = c /\ At(s, a) = c
<1>1. Len(<<c>>) = 1 /\ <<c>>[1] = c
  OBVIOUS
<1>2. a \in Nat /\ b \in Nat /\ a >= 1 /\ b = a + 1 /\ b <= Len(s) + 1
      /\ \A i \in a .. b - 1 : s[i] = <<c>>[i - a + 1]
  BY <1>1 DEF Spans
<1>3. a \in a .. b - 1 /\ a - a + 1 = 1 /\ a \in 1 .. Len(s)
  BY <1>2
<1>4. s[a] = c
  BY <1>1, <1>2, <1>3
<1> QED BY <1>2, <1>3, <1>4 DEF At

(* What stands there is cut out of it.                                     *)
LEMMA SpansPart ==
  ASSUME NEW S, NEW u \in Seq(S), NEW s \in Seq(S), NEW a, NEW b, Spans(u, s, a, b)
  PROVE  SubSeq(s, a, b - 1) = u
<1>1. PICK n \in Nat : n = Len(u)
  OBVIOUS
<1>2. a \in Int /\ b - 1 \in Int /\ (b - 1) - a + 1 = n /\ Len(s) \in Nat /\ a >= 1 /\ b - 1 <= Len(s)
      /\ (a <= b - 1 <=> n # 0)
  BY <1>1 DEF Spans
<1>3. \A i \in a .. b - 1 : s[i] \in S
  <2>1. \A i \in a .. b - 1 : i \in 1 .. Len(s)
    BY <1>2
  <2> QED BY <2>1
<1>4. /\ SubSeq(s, a, b - 1) \in Seq(S)
      /\ Len(SubSeq(s, a, b - 1)) = IF a <= b - 1 THEN (b - 1) - a + 1 ELSE 0
      /\ \A i \in 1 .. (b - 1) - a + 1 : SubSeq(s, a, b - 1)[i] = s[a + i - 1]
  BY <1>2, <1>3, SubSeqProperties
<1>5. PICK part \in Seq(S) : part = SubSeq(s, a, b - 1)
  BY <1>4
<1>6. Len(part) = n
  BY <1>2, <1>4, <1>5
<1>7. ASSUME NEW i \in 1 .. n PROVE part[i] = u[i]
  <2>1. a + i - 1 \in a .. b - 1 /\ (a + i - 1) - a + 1 = i /\ i \in 1 .. (b - 1) - a + 1
    BY <1>2
  <2>2. s[a + i - 1] = u[i]
    BY <2>1 DEF Spans
  <2> QED BY <1>4, <1>5, <2>1, <2>2
<1> QED
  <2>1. Len(part) = Len(u) /\ \A i \in 1 .. Len(part) : part[i] = u[i]
    BY <1>1, <1>6, <1>7
  <2>2. part = u
    BY ONLY <2>1, part \in Seq(S), u \in Seq(S), SeqEqual
  <2> QED BY <1>5, <2>2

(* Where a run of characters ends there is one place to find.              *)
LEMMA PastAllIs ==
  ASSUME NEW s, NEW chars, NEW a \in Nat, NEW p \in Nat, a >= 1, a <= p,
         Len(s) \in Nat, DOMAIN s = 1 .. Len(s), p <= Len(s) + 1,
         \A q \in a .. p - 1 : s[q] \in chars, At(s, p) \notin chars
  PROVE  PastAll(s, a, chars) = p
<1> DEFINE Found(x) == x \in a .. Len(s) + 1 /\ At(s, x) \notin chars
                       /\ \A q \in a .. x - 1 : s[q] \in chars
<1>1. Found(p)
  OBVIOUS
<1>2. ASSUME NEW x, Found(x) PROVE x = p
  <2>1. x \in Nat /\ a <= x /\ x <= Len(s) + 1
    BY <1>2
  <2>2. CASE x < p
    <3>1. x \in a .. p - 1 /\ x \in DOMAIN s
      BY <2>1, <2>2
    <3> QED BY <1>2, <3>1 DEF At
  <2>3. CASE p < x
    <3>1. p \in a .. x - 1 /\ p \in DOMAIN s
      BY <2>1, <2>3
    <3> QED BY <1>2, <3>1 DEF At
  <2> QED BY <2>1, <2>2, <2>3
<1>3. PastAll(s, a, chars) = CHOOSE x : Found(x)
  BY DEF PastAll
<1> HIDE DEF Found
<1> QED BY <1>1, <1>2, <1>3

-----------------------------------------------------------------------------
(* The recursive definitions                                               *)

(* The rounds of a loop.                                                   *)
Runs(left, s, ops, operand, pos) ==
  /\ left[0] = operand[pos]
  /\ \A k \in Nat : left[k + 1] = Round(s, ops, operand, left[k])

(* A loop has run its rounds.                                              *)
LEMMA LoopRuns ==
  ASSUME NEW s, NEW ops, NEW operand, NEW pos \in Places(s)
  PROVE  \E left : Runs(left, s, ops, operand, pos) /\ Loop(s, ops, operand)[pos] = left[Len(s)]
<1> DEFINE a == operand[pos]
           E(x) == Round(s, ops, operand, x)
           Fits(g, n) == g = [k \in 0 .. n |-> IF k = 0 THEN a ELSE E(g[k - 1])]
           d == CHOOSE g : g = [k \in Nat |-> IF k = 0 THEN a ELSE E(g[k - 1])]
<1>1. Loop(s, ops, operand)[pos] = d[Len(s)]
  BY DEF Loop
<1> HIDE DEF a, E
<1>2. ASSUME NEW g, NEW n \in Nat, Fits(g, n)
      PROVE  g[0] = a /\ \A k \in 0 .. n - 1 : g[k + 1] = E(g[k])
  <2>1. \A k \in 0 .. n : g[k] = IF k = 0 THEN a ELSE E(g[k - 1])
    BY <1>2
  <2>2. \A k \in 0 .. n - 1 : k + 1 \in 0 .. n /\ k + 1 # 0 /\ (k + 1) - 1 = k
    OBVIOUS
  <2> QED BY <2>1, <2>2
<1>3. ASSUME NEW m \in Nat PROVE \E g : Fits(g, m)
  <2> DEFINE Q == {n \in Nat : \E g : Fits(g, n)}
  <2>1. 0 \in Q
    <3>1. Fits([k \in 0 .. 0 |-> a], 0)
      OBVIOUS
    <3> HIDE DEF Fits
    <3> QED BY <3>1
  <2>2. ASSUME NEW n \in 0 .. m - 1, n \in Q PROVE n + 1 \in Q
    <3>1. PICK g : Fits(g, n)
      BY <2>2
    <3> DEFINE h == [k \in 0 .. n + 1 |-> IF k = n + 1 THEN E(g[n]) ELSE g[k]]
    <3>2. \A k \in 0 .. n : g[k] = IF k = 0 THEN a ELSE E(g[k - 1])
      BY <3>1
    <3>3. ASSUME NEW k \in 0 .. n + 1 PROVE h[k] = IF k = 0 THEN a ELSE E(h[k - 1])
      <4>1. CASE k = n + 1
        <5>1. k # 0 /\ k - 1 = n /\ n \in 0 .. n + 1 /\ n # n + 1
          BY <4>1
        <5> QED BY <4>1, <5>1
      <4>2. CASE k # n + 1
        <5>1. k \in 0 .. n /\ (k # 0 => k - 1 \in 0 .. n + 1 /\ k - 1 # n + 1)
          BY <4>2
        <5> QED BY <3>2, <4>2, <5>1
      <4> QED BY <4>1, <4>2
    <3>4. Fits(h, n + 1)
      <4>1. h = [k \in 0 .. n + 1 |-> h[k]]
        OBVIOUS
      <4> HIDE DEF h
      <4> QED BY <3>3, <4>1
    <3> HIDE DEF Fits, h
    <3>5. n + 1 \in Nat
      OBVIOUS
    <3> QED BY <3>4, <3>5
  <2> HIDE DEF Q
  <2>3. \A i \in 0 .. m : i \in Q
    BY <2>1, <2>2, UpTo
  <2> QED BY <2>3 DEF Q
<1>4. ASSUME NEW g, NEW h, NEW n \in Nat, NEW m \in Nat, n <= m, Fits(g, n), Fits(h, m)
      PROVE  \A k \in 0 .. n : g[k] = h[k]
  <2> DEFINE Q == {k \in Nat : g[k] = h[k]}
  <2>1. /\ g[0] = a /\ \A k \in 0 .. n - 1 : g[k + 1] = E(g[k])
        /\ h[0] = a /\ \A k \in 0 .. m - 1 : h[k + 1] = E(h[k])
    <3> HIDE DEF Fits
    <3> QED BY <1>2, <1>4
  <2>2. 0 \in Q
    BY <2>1
  <2>3. ASSUME NEW k \in 0 .. n - 1, k \in Q PROVE k + 1 \in Q
    <3>1. k \in 0 .. m - 1 /\ k + 1 \in Nat
      BY <1>4
    <3> QED BY <2>1, <2>3, <3>1
  <2> HIDE DEF Q
  <2>4. \A k \in 0 .. n : k \in Q
    BY <2>2, <2>3, UpTo
  <2> QED BY <2>4 DEF Q
<1> DEFINE pick(n) == CHOOSE g : Fits(g, n)
           f == [n \in Nat |-> pick(n)[n]]
<1>5. \A n \in Nat : Fits(pick(n), n)
  <2> HIDE DEF Fits
  <2> QED BY <1>3
<1>6. f[0] = a
  <2>1. pick(0)[0] = a
    <3> HIDE DEF Fits, pick
    <3> QED BY <1>2, <1>5
  <2> QED BY <2>1
<1>7. ASSUME NEW n \in Nat PROVE f[n + 1] = E(f[n])
  <2>1. n + 1 \in Nat /\ n <= n + 1 /\ n \in 0 .. (n + 1) - 1 /\ n \in 0 .. n
    OBVIOUS
  <2> HIDE DEF Fits, pick
  <2>2. pick(n + 1)[n + 1] = E(pick(n + 1)[n])
    BY <1>2, <1>5, <2>1
  <2>3. pick(n + 1)[n] = pick(n)[n]
    BY <1>4, <1>5, <2>1
  <2> QED BY <2>1, <2>2, <2>3
<1>8. f = [k \in Nat |-> IF k = 0 THEN a ELSE E(f[k - 1])]
  <2>1. f = [k \in Nat |-> f[k]]
    OBVIOUS
  <2> HIDE DEF f
  <2>2. ASSUME NEW k \in Nat PROVE f[k] = IF k = 0 THEN a ELSE E(f[k - 1])
    <3>1. k # 0 => k - 1 \in Nat /\ (k - 1) + 1 = k
      OBVIOUS
    <3> QED BY <1>6, <1>7, <3>1
  <2> QED BY <2>1, <2>2
<1>9. d = [k \in Nat |-> IF k = 0 THEN a ELSE E(d[k - 1])]
  <2> HIDE DEF f
  <2> QED BY <1>8
<1>10. d[0] = a /\ \A n \in Nat : d[n + 1] = E(d[n])
  <2> HIDE DEF d
  <2>1. \A k \in Nat : d[k] = IF k = 0 THEN a ELSE E(d[k - 1])
    BY <1>9
  <2>2. \A n \in Nat : n + 1 \in Nat /\ n + 1 # 0 /\ (n + 1) - 1 = n
    OBVIOUS
  <2> QED BY <2>1, <2>2
<1> HIDE DEF d
<1> QED BY <1>1, <1>10 DEF a, E, Runs

(* Inside one parenthesis more, factors are read by the expressions of     *)
(* those factors.                                                          *)
LEMMA FactorsNest ==
  ASSUME NEW s
  PROVE  \A n \in Nat : Factors(s)[n + 1] = ParseFactor(s, ParseExpression(s, Factors(s)[n]))
<1> DEFINE a == [pos \in Places(s) |-> Thrown]
           E(x) == ParseFactor(s, ParseExpression(s, x))
           Fits(g, n) == g = [k \in 0 .. n |-> IF k = 0 THEN a ELSE E(g[k - 1])]
           d == CHOOSE g : g = [k \in Nat |-> IF k = 0 THEN a ELSE E(g[k - 1])]
<1>1. Factors(s) = d
  BY DEF Factors
<1> HIDE DEF a, E
<1>2. ASSUME NEW g, NEW n \in Nat, Fits(g, n)
      PROVE  g[0] = a /\ \A k \in 0 .. n - 1 : g[k + 1] = E(g[k])
  <2>1. \A k \in 0 .. n : g[k] = IF k = 0 THEN a ELSE E(g[k - 1])
    BY <1>2
  <2>2. \A k \in 0 .. n - 1 : k + 1 \in 0 .. n /\ k + 1 # 0 /\ (k + 1) - 1 = k
    OBVIOUS
  <2> QED BY <2>1, <2>2
<1>3. ASSUME NEW m \in Nat PROVE \E g : Fits(g, m)
  <2> DEFINE Q == {n \in Nat : \E g : Fits(g, n)}
  <2>1. 0 \in Q
    <3>1. Fits([k \in 0 .. 0 |-> a], 0)
      OBVIOUS
    <3> HIDE DEF Fits
    <3> QED BY <3>1
  <2>2. ASSUME NEW n \in 0 .. m - 1, n \in Q PROVE n + 1 \in Q
    <3>1. PICK g : Fits(g, n)
      BY <2>2
    <3> DEFINE h == [k \in 0 .. n + 1 |-> IF k = n + 1 THEN E(g[n]) ELSE g[k]]
    <3>2. \A k \in 0 .. n : g[k] = IF k = 0 THEN a ELSE E(g[k - 1])
      BY <3>1
    <3>3. ASSUME NEW k \in 0 .. n + 1 PROVE h[k] = IF k = 0 THEN a ELSE E(h[k - 1])
      <4>1. CASE k = n + 1
        <5>1. k # 0 /\ k - 1 = n /\ n \in 0 .. n + 1 /\ n # n + 1
          BY <4>1
        <5> QED BY <4>1, <5>1
      <4>2. CASE k # n + 1
        <5>1. k \in 0 .. n /\ (k # 0 => k - 1 \in 0 .. n + 1 /\ k - 1 # n + 1)
          BY <4>2
        <5> QED BY <3>2, <4>2, <5>1
      <4> QED BY <4>1, <4>2
    <3>4. Fits(h, n + 1)
      <4>1. h = [k \in 0 .. n + 1 |-> h[k]]
        OBVIOUS
      <4> HIDE DEF h
      <4> QED BY <3>3, <4>1
    <3> HIDE DEF Fits, h
    <3>5. n + 1 \in Nat
      OBVIOUS
    <3> QED BY <3>4, <3>5
  <2> HIDE DEF Q
  <2>3. \A i \in 0 .. m : i \in Q
    BY <2>1, <2>2, UpTo
  <2> QED BY <2>3 DEF Q
<1>4. ASSUME NEW g, NEW h, NEW n \in Nat, NEW m \in Nat, n <= m, Fits(g, n), Fits(h, m)
      PROVE  \A k \in 0 .. n : g[k] = h[k]
  <2> DEFINE Q == {k \in Nat : g[k] = h[k]}
  <2>1. /\ g[0] = a /\ \A k \in 0 .. n - 1 : g[k + 1] = E(g[k])
        /\ h[0] = a /\ \A k \in 0 .. m - 1 : h[k + 1] = E(h[k])
    <3> HIDE DEF Fits
    <3> QED BY <1>2, <1>4
  <2>2. 0 \in Q
    BY <2>1
  <2>3. ASSUME NEW k \in 0 .. n - 1, k \in Q PROVE k + 1 \in Q
    <3>1. k \in 0 .. m - 1 /\ k + 1 \in Nat
      BY <1>4
    <3> QED BY <2>1, <2>3, <3>1
  <2> HIDE DEF Q
  <2>4. \A k \in 0 .. n : k \in Q
    BY <2>2, <2>3, UpTo
  <2> QED BY <2>4 DEF Q
<1> DEFINE pick(n) == CHOOSE g : Fits(g, n)
           f == [n \in Nat |-> pick(n)[n]]
<1>5. \A n \in Nat : Fits(pick(n), n)
  <2> HIDE DEF Fits
  <2> QED BY <1>3
<1>6. f[0] = a
  <2>1. pick(0)[0] = a
    <3> HIDE DEF Fits, pick
    <3> QED BY <1>2, <1>5
  <2> QED BY <2>1
<1>7. ASSUME NEW n \in Nat PROVE f[n + 1] = E(f[n])
  <2>1. n + 1 \in Nat /\ n <= n + 1 /\ n \in 0 .. (n + 1) - 1 /\ n \in 0 .. n
    OBVIOUS
  <2> HIDE DEF Fits, pick
  <2>2. pick(n + 1)[n + 1] = E(pick(n + 1)[n])
    BY <1>2, <1>5, <2>1
  <2>3. pick(n + 1)[n] = pick(n)[n]
    BY <1>4, <1>5, <2>1
  <2> QED BY <2>1, <2>2, <2>3
<1>8. f = [k \in Nat |-> IF k = 0 THEN a ELSE E(f[k - 1])]
  <2>1. f = [k \in Nat |-> f[k]]
    OBVIOUS
  <2> HIDE DEF f
  <2>2. ASSUME NEW k \in Nat PROVE f[k] = IF k = 0 THEN a ELSE E(f[k - 1])
    <3>1. k # 0 => k - 1 \in Nat /\ (k - 1) + 1 = k
      OBVIOUS
    <3> QED BY <1>6, <1>7, <3>1
  <2> QED BY <2>1, <2>2
<1>9. d = [k \in Nat |-> IF k = 0 THEN a ELSE E(d[k - 1])]
  <2> HIDE DEF f
  <2> QED BY <1>8
<1>10. d[0] = a /\ \A n \in Nat : d[n + 1] = E(d[n])
  <2> HIDE DEF d
  <2>1. \A k \in Nat : d[k] = IF k = 0 THEN a ELSE E(d[k - 1])
    BY <1>9
  <2>2. \A n \in Nat : n + 1 \in Nat /\ n + 1 # 0 /\ (n + 1) - 1 = n
    OBVIOUS
  <2> QED BY <2>1, <2>2
<1> HIDE DEF d
<1> QED BY <1>1, <1>10 DEF a, E

(* Expressions one operator deeper.                                        *)
LEMMA ExpressionsGrow ==
  ASSUME NEW numbers
  PROVE  /\ Expressions(numbers, 0) = {Number(v) : v \in numbers}
         /\ \A n \in Nat : Expressions(numbers, n + 1) = Deeper(Expressions(numbers, n))
<1> DEFINE a == {Number(v) : v \in numbers}
           E(x) == Deeper(x)
           Fits(g, n) == g = [k \in 0 .. n |-> IF k = 0 THEN a ELSE E(g[k - 1])]
           d == CHOOSE g : g = [k \in Nat |-> IF k = 0 THEN a ELSE E(g[k - 1])]
<1>1. \A n \in Nat : Expressions(numbers, n) = d[n]
  BY DEF Expressions
<1> HIDE DEF a, E
<1>2. ASSUME NEW g, NEW n \in Nat, Fits(g, n)
      PROVE  g[0] = a /\ \A k \in 0 .. n - 1 : g[k + 1] = E(g[k])
  <2>1. \A k \in 0 .. n : g[k] = IF k = 0 THEN a ELSE E(g[k - 1])
    BY <1>2
  <2>2. \A k \in 0 .. n - 1 : k + 1 \in 0 .. n /\ k + 1 # 0 /\ (k + 1) - 1 = k
    OBVIOUS
  <2> QED BY <2>1, <2>2
<1>3. ASSUME NEW m \in Nat PROVE \E g : Fits(g, m)
  <2> DEFINE Q == {n \in Nat : \E g : Fits(g, n)}
  <2>1. 0 \in Q
    <3>1. Fits([k \in 0 .. 0 |-> a], 0)
      OBVIOUS
    <3> HIDE DEF Fits
    <3> QED BY <3>1
  <2>2. ASSUME NEW n \in 0 .. m - 1, n \in Q PROVE n + 1 \in Q
    <3>1. PICK g : Fits(g, n)
      BY <2>2
    <3> DEFINE h == [k \in 0 .. n + 1 |-> IF k = n + 1 THEN E(g[n]) ELSE g[k]]
    <3>2. \A k \in 0 .. n : g[k] = IF k = 0 THEN a ELSE E(g[k - 1])
      BY <3>1
    <3>3. ASSUME NEW k \in 0 .. n + 1 PROVE h[k] = IF k = 0 THEN a ELSE E(h[k - 1])
      <4>1. CASE k = n + 1
        <5>1. k # 0 /\ k - 1 = n /\ n \in 0 .. n + 1 /\ n # n + 1
          BY <4>1
        <5> QED BY <4>1, <5>1
      <4>2. CASE k # n + 1
        <5>1. k \in 0 .. n /\ (k # 0 => k - 1 \in 0 .. n + 1 /\ k - 1 # n + 1)
          BY <4>2
        <5> QED BY <3>2, <4>2, <5>1
      <4> QED BY <4>1, <4>2
    <3>4. Fits(h, n + 1)
      <4>1. h = [k \in 0 .. n + 1 |-> h[k]]
        OBVIOUS
      <4> HIDE DEF h
      <4> QED BY <3>3, <4>1
    <3> HIDE DEF Fits, h
    <3>5. n + 1 \in Nat
      OBVIOUS
    <3> QED BY <3>4, <3>5
  <2> HIDE DEF Q
  <2>3. \A i \in 0 .. m : i \in Q
    BY <2>1, <2>2, UpTo
  <2> QED BY <2>3 DEF Q
<1>4. ASSUME NEW g, NEW h, NEW n \in Nat, NEW m \in Nat, n <= m, Fits(g, n), Fits(h, m)
      PROVE  \A k \in 0 .. n : g[k] = h[k]
  <2> DEFINE Q == {k \in Nat : g[k] = h[k]}
  <2>1. /\ g[0] = a /\ \A k \in 0 .. n - 1 : g[k + 1] = E(g[k])
        /\ h[0] = a /\ \A k \in 0 .. m - 1 : h[k + 1] = E(h[k])
    <3> HIDE DEF Fits
    <3> QED BY <1>2, <1>4
  <2>2. 0 \in Q
    BY <2>1
  <2>3. ASSUME NEW k \in 0 .. n - 1, k \in Q PROVE k + 1 \in Q
    <3>1. k \in 0 .. m - 1 /\ k + 1 \in Nat
      BY <1>4
    <3> QED BY <2>1, <2>3, <3>1
  <2> HIDE DEF Q
  <2>4. \A k \in 0 .. n : k \in Q
    BY <2>2, <2>3, UpTo
  <2> QED BY <2>4 DEF Q
<1> DEFINE pick(n) == CHOOSE g : Fits(g, n)
           f == [n \in Nat |-> pick(n)[n]]
<1>5. \A n \in Nat : Fits(pick(n), n)
  <2> HIDE DEF Fits
  <2> QED BY <1>3
<1>6. f[0] = a
  <2>1. pick(0)[0] = a
    <3> HIDE DEF Fits, pick
    <3> QED BY <1>2, <1>5
  <2> QED BY <2>1
<1>7. ASSUME NEW n \in Nat PROVE f[n + 1] = E(f[n])
  <2>1. n + 1 \in Nat /\ n <= n + 1 /\ n \in 0 .. (n + 1) - 1 /\ n \in 0 .. n
    OBVIOUS
  <2> HIDE DEF Fits, pick
  <2>2. pick(n + 1)[n + 1] = E(pick(n + 1)[n])
    BY <1>2, <1>5, <2>1
  <2>3. pick(n + 1)[n] = pick(n)[n]
    BY <1>4, <1>5, <2>1
  <2> QED BY <2>1, <2>2, <2>3
<1>8. f = [k \in Nat |-> IF k = 0 THEN a ELSE E(f[k - 1])]
  <2>1. f = [k \in Nat |-> f[k]]
    OBVIOUS
  <2> HIDE DEF f
  <2>2. ASSUME NEW k \in Nat PROVE f[k] = IF k = 0 THEN a ELSE E(f[k - 1])
    <3>1. k # 0 => k - 1 \in Nat /\ (k - 1) + 1 = k
      OBVIOUS
    <3> QED BY <1>6, <1>7, <3>1
  <2> QED BY <2>1, <2>2
<1>9. d = [k \in Nat |-> IF k = 0 THEN a ELSE E(d[k - 1])]
  <2> HIDE DEF f
  <2> QED BY <1>8
<1>10. d[0] = a /\ \A n \in Nat : d[n + 1] = E(d[n])
  <2> HIDE DEF d
  <2>1. \A k \in Nat : d[k] = IF k = 0 THEN a ELSE E(d[k - 1])
    BY <1>9
  <2>2. \A n \in Nat : n + 1 \in Nat /\ n + 1 # 0 /\ (n + 1) - 1 = n
    OBVIOUS
  <2> QED BY <2>1, <2>2
<1> HIDE DEF d
<1> QED BY <1>1, <1>10 DEF a, E

-----------------------------------------------------------------------------
(* Loops                                                                   *)

(* What is read and what is thrown.                                        *)
LEMMA ReadFacts ==
  /\ \A at, value : Read(at, value).ok /\ Read(at, value).at = at /\ Read(at, value).value = value
  /\ ~Thrown.ok
BY DEF Read, Thrown

(* After n rounds at most the loop has come to r.                          *)
Reaches(s, ops, operand, pos, n, r) ==
  \E k \in 0 .. n : \A left : Runs(left, s, ops, operand, pos) => left[k] = r

(* Before the first round it has come to its first operand.                *)
LEMMA ReachesAtOnce ==
  ASSUME NEW s, NEW ops, NEW operand, NEW pos, NEW n \in Nat, NEW r, operand[pos] = r
  PROVE  Reaches(s, ops, operand, pos, n, r)
<1>1. 0 \in 0 .. n
  OBVIOUS
<1>2. \A left : Runs(left, s, ops, operand, pos) => left[0] = r
  BY DEF Runs
<1> QED BY <1>1, <1>2 DEF Reaches

(* One round more.                                                         *)
LEMMA ReachesNext ==
  ASSUME NEW s, NEW ops, NEW operand, NEW pos, NEW n \in Nat, NEW m \in Nat, n < m,
         NEW r, NEW q, Reaches(s, ops, operand, pos, n, r), Round(s, ops, operand, r) = q
  PROVE  Reaches(s, ops, operand, pos, m, q)
<1>1. PICK k \in 0 .. n : \A left : Runs(left, s, ops, operand, pos) => left[k] = r
  BY DEF Reaches
<1>2. k \in Nat /\ k + 1 \in 0 .. m
  OBVIOUS
<1>3. ASSUME NEW left, Runs(left, s, ops, operand, pos) PROVE left[k + 1] = q
  <2>1. left[k] = r
    BY <1>1, <1>3
  <2>2. left[k + 1] = Round(s, ops, operand, left[k])
    BY <1>2, <1>3 DEF Runs
  <2> QED BY <2>1, <2>2
<1> QED BY <1>2, <1>3 DEF Reaches

(* Where a round changes nothing the loop ends.                            *)
LEMMA ReachesEnd ==
  ASSUME NEW s, NEW ops, NEW operand, NEW pos \in Places(s), NEW n \in Nat, n <= Len(s),
         Len(s) \in Nat, NEW r, Reaches(s, ops, operand, pos, n, r),
         Round(s, ops, operand, r) = r
  PROVE  Loop(s, ops, operand)[pos] = r
<1>1. PICK left : Runs(left, s, ops, operand, pos) /\ Loop(s, ops, operand)[pos] = left[Len(s)]
  BY LoopRuns
<1>2. PICK k \in 0 .. n : left[k] = r
  BY <1>1 DEF Reaches
<1>3. PICK m \in Nat : m = Len(s) - k
  BY <1>2
<1> DEFINE Q == {i \in Nat : left[k + i] = r}
<1>4. 0 \in Q
  BY <1>2
<1>5. ASSUME NEW i \in 0 .. m - 1, i \in Q PROVE i + 1 \in Q
  <2>1. k + i \in Nat /\ k + (i + 1) = (k + i) + 1 /\ i + 1 \in Nat
    OBVIOUS
  <2>2. left[(k + i) + 1] = Round(s, ops, operand, left[k + i])
    BY <1>1, <2>1 DEF Runs
  <2> QED BY <1>5, <2>1, <2>2
<1>6. m \in Q
  <2> HIDE DEF Q
  <2>1. \A i \in 0 .. m : i \in Q
    BY <1>4, <1>5, UpTo
  <2> QED BY <2>1
<1> QED
  <2>1. k + m = Len(s)
    BY <1>3
  <2> QED BY <1>1, <1>6, <2>1

(* It does so after an exception and where no operator of its level is.    *)
LEMMA RoundEnds ==
  ASSUME NEW s, NEW ops, NEW operand, NEW r, ~r.ok \/ Peek(s, r.at) \notin ops
  PROVE  Round(s, ops, operand, r) = r
BY DEF Round

-----------------------------------------------------------------------------
(* Reading                                                                 *)

(* Where no blank is nothing is skipped.                                   *)
LEMMA NoBlank ==
  ASSUME NEW s \in Seq(Chars), NEW a \in Places(s), At(s, a) # Blank
  PROVE  /\ SkipSpaces(s, a) = a /\ Peek(s, a) = At(s, a)
         /\ a <= Len(s) => Consume(s, a) = a + 1
<1>1. a \in Nat /\ a >= 1 /\ Len(s) \in Nat /\ DOMAIN s = 1 .. Len(s) /\ a <= Len(s) + 1
  BY DEF Places
<1>2. PICK blanks : blanks = {Blank}
  OBVIOUS
<1>3. At(s, a) \notin blanks /\ \A q \in a .. a - 1 : s[q] \in blanks
  BY <1>1, <1>2
<1>4. PastAll(s, a, blanks) = a
  BY <1>1, <1>3, PastAllIs
<1>5. SkipSpaces(s, a) = a
  BY <1>2, <1>4 DEF SkipSpaces
<1>6. a <= Len(s) => ~(a > Len(s))
  BY <1>1
<1> QED BY <1>5, <1>6 DEF Peek, Consume

(* A blank is skipped.                                                     *)
LEMMA OneBlank ==
  ASSUME NEW s \in Seq(Chars), NEW a \in 1 .. Len(s), s[a] = Blank, At(s, a + 1) # Blank
  PROVE  /\ SkipSpaces(s, a) = a + 1 /\ Peek(s, a) = At(s, a + 1)
         /\ a + 1 <= Len(s) => Consume(s, a) = a + 2
<1>1. a \in Nat /\ a >= 1 /\ Len(s) \in Nat /\ DOMAIN s = 1 .. Len(s) /\ a + 1 <= Len(s) + 1
  OBVIOUS
<1>2. PICK blanks : blanks = {Blank}
  OBVIOUS
<1>3. PICK p \in Nat : p = a + 1 /\ a <= p /\ p <= Len(s) + 1
  BY <1>1
<1>4. At(s, p) \notin blanks /\ \A q \in a .. p - 1 : s[q] \in blanks
  <2>1. \A q \in a .. p - 1 : q = a
    BY <1>1, <1>3
  <2> QED BY <1>2, <1>3, <2>1
<1>5. PastAll(s, a, blanks) = p
  BY <1>1, <1>3, <1>4, PastAllIs
<1>6. SkipSpaces(s, a) = p
  BY <1>2, <1>5 DEF SkipSpaces
<1>7. p <= Len(s) => ~(p > Len(s)) /\ p + 1 = a + 2
  BY <1>1, <1>3
<1> QED BY <1>3, <1>6, <1>7 DEF Peek, Consume

(* A factor after a blank is read as the factor.                           *)
LEMMA FactorAfterBlank ==
  ASSUME NEW s \in Seq(Chars), NEW a \in 1 .. Len(s), s[a] = Blank, At(s, a + 1) # Blank,
         NEW d \in Nat, d # 0
  PROVE  Factors(s)[d][a] = Factors(s)[d][a + 1]
<1>1. a \in Places(s) /\ a + 1 \in Places(s) /\ Len(s) \in Nat
  BY DEF Places
<1>2. SkipSpaces(s, a) = SkipSpaces(s, a + 1)
  BY <1>1, OneBlank, NoBlank
<1>3. /\ Peek(s, a) = Peek(s, a + 1) /\ Consume(s, a) = Consume(s, a + 1)
      /\ ParseNumber(s, a) = ParseNumber(s, a + 1)
  BY <1>2 DEF Peek, Consume, ParseNumber
<1>4. PICK c \in Nat : d = c + 1
  <2>1. d - 1 \in Nat /\ d = (d - 1) + 1
    OBVIOUS
  <2> QED BY <2>1
<1>5. Factors(s)[d] = ParseFactor(s, ParseExpression(s, Factors(s)[c]))
  BY <1>4, FactorsNest
<1> QED BY <1>1, <1>3, <1>5 DEF ParseFactor

(* Digits are passed over up to where they end.                            *)
LEMMA DigitsPassed ==
  ASSUME NEW u \in Seq(Digit), NEW s \in Seq(Chars), NEW a, NEW b, Spans(u, s, a, b),
         At(s, b) \notin Digit
  PROVE  PastAll(s, a, Digit) = b /\ SubSeq(s, a, b - 1) = u
<1>1. Digit \subseteq Chars
  BY DEF Chars
<1>2. PICK D, C : D = Digit /\ C = Chars
  OBVIOUS
<1>3. u \in Seq(D) /\ s \in Seq(C) /\ D \subseteq C
  BY <1>1, <1>2
<1>4. u \in Seq(C)
  BY ONLY <1>3
<1>5. SubSeq(s, a, b - 1) = u
  BY <1>3, <1>4, SpansPart
<1>6. Len(u) \in Nat /\ Len(s) \in Nat /\ DOMAIN s = 1 .. Len(s) /\ \A i \in 1 .. Len(u) : u[i] \in D
  BY <1>3
<1>7. a \in Nat /\ b \in Nat /\ a >= 1 /\ b = a + Len(u) /\ b <= Len(s) + 1
      /\ \A i \in a .. b - 1 : s[i] = u[i - a + 1]
  BY DEF Spans
<1>8. \A q \in a .. b - 1 : s[q] \in D
  <2>1. \A q \in a .. b - 1 : q - a + 1 \in 1 .. Len(u)
    BY <1>6, <1>7
  <2> QED BY <1>6, <1>7, <2>1
<1>9. a <= b
  BY <1>6, <1>7
<1>10. PastAll(s, a, D) = b
  BY <1>2, <1>6, <1>7, <1>8, <1>9, PastAllIs
<1> QED BY <1>2, <1>5, <1>10

(* A number is read as that number.                                        *)
LEMMA NumberRead ==
  ASSUME NEW v \in Numerals, NEW s \in Seq(Chars), NEW a, NEW b,
         Spans(Number(v).text, s, a, b), At(s, b) \notin Digit \cup {"."}
  PROVE  /\ ParseNumber(s, a) = Read(b, NumberValue(v.negative, v.whole, v.part))
         /\ Peek(s, a) # "("
<1> DEFINE sign == IF v.negative THEN <<"-">> ELSE <<>>
           tail == IF v.part = <<>> THEN <<>> ELSE <<".">> \o v.part
<1>1. /\ v.negative \in BOOLEAN /\ v.whole \in Seq(Digit) /\ v.whole # <<>> /\ v.part \in Seq(Digit)
  BY DEF Numerals
<1>2. Number(v).text = (sign \o v.whole) \o tail
  BY DEF Number, Expression
<1>3. PICK C : C = Chars
  OBVIOUS
<1>4. Digit \subseteq C /\ "-" \in C /\ "." \in C
  BY <1>3 DEF Chars
<1>5. v.whole \in Seq(C) /\ v.part \in Seq(C)
  <2>1. PICK D : D = Digit
    OBVIOUS
  <2>2. D \subseteq C /\ v.whole \in Seq(D) /\ v.part \in Seq(D)
    BY <1>1, <1>4, <2>1
  <2> QED BY ONLY <2>2
<1>6. sign \in Seq(C) /\ tail \in Seq(C) /\ s \in Seq(C)
  BY <1>3, <1>4, <1>5
<1>7. PICK whole, part : whole = v.whole /\ part = v.part
  OBVIOUS
<1>8. PICK w : w = sign \o whole
  OBVIOUS
<1>9. w \in Seq(C) /\ Spans(w \o tail, s, a, b)
  BY <1>2, <1>5, <1>6, <1>7, <1>8
<1> HIDE DEF sign, tail
<1>10. PICK dot \in Nat : Spans(w, s, a, dot) /\ Spans(tail, s, dot, b)
  BY <1>6, <1>9, SpansBoth
<1>11. PICK first \in Nat : first = a + Len(sign) /\ Spans(sign, s, a, first) /\ Spans(whole, s, first, dot)
  BY <1>5, <1>6, <1>7, <1>8, <1>10, SpansBoth
<1>12. a \in Nat /\ a >= 1 /\ Len(s) \in Nat /\ DOMAIN s = 1 .. Len(s) /\ Len(whole) \in Nat /\ Len(whole) # 0
       /\ dot = first + Len(whole) /\ dot <= Len(s) + 1
  <2>1. Len(whole) \in Nat /\ Len(whole) # 0
    <3>1. whole \in Seq(C) /\ whole # <<>>
      BY <1>1, <1>5, <1>7
    <3> QED BY ONLY <3>1
  <2>2. Len(s) \in Nat /\ DOMAIN s = 1 .. Len(s)
    BY <1>6
  <2>3. a \in Nat /\ a >= 1 /\ dot = first + Len(whole) /\ dot <= Len(s) + 1
    BY <1>11 DEF Spans
  <2> QED BY <2>1, <2>2, <2>3
<1>13. first \in 1 .. Len(s) /\ At(s, first) \in Digit
  <2>1. first >= 1 /\ \A i \in first .. dot - 1 : s[i] = whole[i - first + 1]
    BY <1>11 DEF Spans
  <2>2. first \in first .. dot - 1 /\ first - first + 1 = 1 /\ 1 \in 1 .. Len(whole) /\ first \in 1 .. Len(s)
    BY <1>12, <2>1
  <2>3. whole[1] \in Digit
    BY <1>1, <1>7, <2>2
  <2>4. s[first] = whole[1]
    BY <2>1, <2>2
  <2> QED BY <1>12, <2>2, <2>3, <2>4 DEF At
<1>14. At(s, dot) = (IF part = <<>> THEN At(s, b) ELSE ".") /\ (part = <<>> => dot = b)
       /\ (part # <<>> => Spans(part, s, dot + 1, b))
  <2>1. CASE part = <<>>
    <3>1. tail = <<>>
      BY <1>7, <2>1 DEF tail
    <3>2. dot = b
      BY <1>10, <3>1 DEF Spans
    <3> QED BY <2>1, <3>2
  <2>2. CASE part # <<>>
    <3>1. PICK point : point = <<".">>
      OBVIOUS
    <3>2. tail = point \o part /\ point \in Seq(C) /\ part \in Seq(C)
      BY <1>4, <1>5, <1>7, <2>2, <3>1 DEF tail
    <3>3. PICK m \in Nat : Spans(point, s, dot, m) /\ Spans(part, s, m, b)
      BY <1>6, <1>10, <3>2, SpansBoth
    <3>4. m = dot + 1 /\ At(s, dot) = "."
      BY <1>12, <3>1, <3>3, SpansOne
    <3> QED BY <2>2, <3>3, <3>4
  <2> QED BY <2>1, <2>2
<1>15. PastAll(s, first, Digit) = dot /\ SubSeq(s, first, dot - 1) = whole
  <2>1. At(s, dot) \notin Digit
    BY <1>14, SignsApart
  <2>2. whole \in Seq(Digit) /\ s \in Seq(Chars)
    BY <1>1, <1>7
  <2> QED BY <1>11, <2>1, <2>2, DigitsPassed
<1>16. /\ b = IF At(s, dot) = "." THEN PastAll(s, dot + 1, Digit) ELSE dot
       /\ SubSeq(s, dot + 1, b - 1) = part
  <2>1. CASE part = <<>>
    <3>1. At(s, dot) # "." /\ dot = b
      BY <1>14, <2>1
    <3>2. SubSeq(s, dot + 1, b - 1) = <<>>
      BY <3>1
    <3> QED BY <2>1, <3>1, <3>2
  <2>2. CASE part # <<>>
    <3>1. Spans(part, s, dot + 1, b) /\ At(s, dot) = "."
      BY <1>14, <2>2
    <3>2. part \in Seq(Digit) /\ s \in Seq(Chars) /\ At(s, b) \notin Digit
      BY <1>1, <1>7
    <3>3. PICK next : next = dot + 1
      OBVIOUS
    <3>4. PastAll(s, next, Digit) = b /\ SubSeq(s, next, b - 1) = part
      BY <3>1, <3>2, <3>3, DigitsPassed
    <3> QED BY <3>1, <3>3, <3>4
  <2> QED BY <2>1, <2>2
<1>17. /\ SkipSpaces(s, a) = a /\ Peek(s, a) = At(s, a) /\ At(s, a) # "("
       /\ first = IF At(s, a) = "-" THEN a + 1 ELSE a
       /\ (first > a) = v.negative
  <2>1. CASE v.negative
    <3>1. PICK minus : minus = "-"
      OBVIOUS
    <3>2. sign = <<minus>>
      BY <2>1, <3>1 DEF sign
    <3>3. a \in 1 .. Len(s) /\ first = a + 1 /\ At(s, a) = minus
      BY <1>11, <1>12, <3>2, SpansOne
    <3>4. At(s, a) = "-" /\ At(s, a) # Blank /\ At(s, a) # "("
      BY <3>1, <3>3, SignsApart
    <3>5. a \in Places(s)
      BY <1>12, <3>3 DEF Places
    <3>6. SkipSpaces(s, a) = a /\ Peek(s, a) = At(s, a)
      BY <3>4, <3>5, NoBlank
    <3>7. (first > a) = TRUE
      BY <1>12, <3>3
    <3> QED BY <2>1, <3>3, <3>4, <3>6, <3>7
  <2>2. CASE ~v.negative
    <3>1. sign = <<>>
      BY <2>2 DEF sign
    <3>2. first = a
      BY <1>11, <1>12, <3>1
    <3>3. At(s, a) # "-" /\ At(s, a) # Blank /\ At(s, a) # "("
      BY <1>13, <3>2, SignsApart
    <3>4. a \in Places(s)
      BY <1>12, <1>13, <3>2 DEF Places
    <3>5. SkipSpaces(s, a) = a /\ Peek(s, a) = At(s, a)
      BY <3>3, <3>4, NoBlank
    <3>6. (first > a) = FALSE
      BY <1>12, <3>2
    <3> QED BY <1>1, <2>2, <3>2, <3>3, <3>5, <3>6
  <2> QED BY <2>1, <2>2
<1>18. whole \o part # <<>>
  <2>1. Len(whole \o part) # 0
    <3>1. Len(part) \in Nat /\ Len(whole \o part) = Len(whole) + Len(part)
      BY <1>5, <1>7
    <3> QED BY <1>12, <3>1
  <2> QED BY <2>1
<1>19. ParseNumber(s, a) = Read(b, NumberValue(v.negative, whole, part))
  <2>1. PICK start, negative : start = a /\ negative = v.negative
    OBVIOUS
  <2>2. /\ start = SkipSpaces(s, a) /\ first = IF At(s, start) = "-" THEN start + 1 ELSE start
        /\ dot = PastAll(s, first, Digit)
        /\ b = IF At(s, dot) = "." THEN PastAll(s, dot + 1, Digit) ELSE dot
        /\ whole = SubSeq(s, first, dot - 1) /\ part = SubSeq(s, dot + 1, b - 1)
        /\ whole \o part # <<>>
    BY <1>15, <1>16, <1>17, <1>18, <2>1
  <2>3. (first > start) = negative
    BY <1>17, <2>1
  <2>4. ParseNumber(s, a) = Read(b, NumberValue(first > start, whole, part))
    BY ONLY <2>2 DEF ParseNumber
  <2>5. NumberValue(first > start, whole, part) = NumberValue(negative, whole, part)
    BY <2>3, Zenon
  <2> QED BY <2>1, <2>4, <2>5
<1> QED BY <1>7, <1>17, <1>19

-----------------------------------------------------------------------------
(* Arithmetic                                                              *)

(* What reading a text that means r leaves at its end.                     *)
Result(r, at) == IF r.ok THEN Read(at, r.value) ELSE Thrown

(* What two operands mean together.                                        *)
Together(op, r, q) ==
  IF ~r.ok \/ ~q.ok \/ (op = "/" /\ q.value.n = 0) THEN Thrown
  ELSE Read(1, Apply(op, r.value, q.value))

(* The result is what is meant, wherever it ends.                          *)
LEMMA ResultFacts ==
  ASSUME NEW r, NEW at
  PROVE  /\ Result(r, at).ok <=> r.ok
         /\ r.ok => Result(r, at).at = at /\ Result(r, at).value = r.value
         /\ ~r.ok => Result(r, at) = Thrown
BY DEF Result, Read, Thrown

(* One round joins two operands.                                           *)
LEMMA RoundJoins ==
  ASSUME NEW s, NEW ops, NEW operand, NEW op \in ops, NEW r, NEW q, NEW m, NEW b,
         Peek(s, m) = op, operand[Consume(s, m)] = Result(q, b)
  PROVE  Round(s, ops, operand, Result(r, m)) = Result(Together(op, r, q), b)
<1>1. CASE ~r.ok
  BY <1>1 DEF Round, Result, Together, Read, Thrown
<1>2. CASE r.ok
  <2>1. PICK left : left = Result(r, m) /\ left.ok /\ left.at = m /\ left.value = r.value
    BY <1>2, ResultFacts
  <2>2. PICK right : right = Result(q, b) /\ (right.ok <=> q.ok) /\ (q.ok => right.at = b /\ right.value = q.value)
    BY ResultFacts
  <2>3. Round(s, ops, operand, left)
          = IF ~right.ok \/ (op = "/" /\ right.value.n = 0) THEN Thrown
            ELSE Read(right.at, Apply(op, left.value, right.value))
    BY <2>1, <2>2 DEF Round
  <2>4. CASE ~q.ok \/ (op = "/" /\ q.value.n = 0)
    <3>1. Together(op, r, q) = Thrown
      BY <2>4 DEF Together
    <3>2. Result(Together(op, r, q), b) = Thrown
      BY <3>1, ReadFacts DEF Result
    <3>3. ~right.ok \/ (op = "/" /\ right.value.n = 0)
      BY <2>2, <2>4
    <3> QED BY <2>1, <2>3, <3>2, <3>3
  <2>5. CASE ~(~q.ok \/ (op = "/" /\ q.value.n = 0))
    <3>1. Together(op, r, q) = Read(1, Apply(op, r.value, q.value))
      BY <1>2, <2>5 DEF Together
    <3>2. Result(Together(op, r, q), b) = Read(b, Apply(op, r.value, q.value))
      BY <3>1, ReadFacts DEF Result
    <3>3. right.ok /\ ~(op = "/" /\ right.value.n = 0) /\ right.at = b /\ right.value = q.value
      BY <2>2, <2>5
    <3> QED BY <2>1, <2>3, <3>2, <3>3
  <2> QED BY <2>4, <2>5
<1> QED BY <1>1, <1>2

(* A text u stands in s from a to b, no number goes on behind it, and not  *)
(* more parentheses can be open in it than d.                              *)
Stands(u, s, a, b, d) ==
  /\ u \in Seq(Chars) /\ s \in Seq(Chars) /\ Spans(u, s, a, b)
  /\ At(s, b) \notin Digit \cup {"."} /\ d \in Nat /\ Len(u) <= d

(* u is read as one factor that means r.                                   *)
FactorReads(u, r) ==
  \A s, a, b, d : Stands(u, s, a, b, d) => Factors(s)[d][a] = Result(r, b)

(* The loop over the factors of u comes to r.                              *)
TermReads(u, r) ==
  \A s, a, b, d : Stands(u, s, a, b, d) =>
    Reaches(s, TermOperators, Factors(s)[d], a, b - a - 1, Result(r, b))

(* The loop over the terms of u comes to r.                                *)
SumReads(u, r) ==
  \A s, a, b, d : Stands(u, s, a, b, d) /\ Peek(s, b) \notin TermOperators =>
    Reaches(s, ExpressionOperators, ParseTerm(s, Factors(s)[d]), a, b - a - 1, Result(r, b))

(* Where a text stands.                                                    *)
LEMMA StandsFacts ==
  ASSUME NEW u, NEW s, NEW a, NEW b, NEW d, Stands(u, s, a, b, d), u # <<>>
  PROVE  /\ Len(u) \in Nat /\ Len(u) >= 1 /\ Len(s) \in Nat /\ DOMAIN s = 1 .. Len(s)
         /\ a \in Nat /\ a >= 1 /\ b \in Nat /\ b = a + Len(u) /\ b <= Len(s) + 1
         /\ d \in Nat /\ d >= Len(u) /\ b - a - 1 \in Nat /\ b - a - 1 <= Len(s)
         /\ a \in Places(s) /\ b \in Places(s) /\ a \in 1 .. Len(s) /\ At(s, a) = u[1]
<1>1. PICK C : C = Chars
  OBVIOUS
<1>2. u \in Seq(C) /\ s \in Seq(C) /\ Spans(u, s, a, b) /\ d \in Nat /\ Len(u) <= d
  BY <1>1 DEF Stands
<1>3. Len(u) \in Nat /\ Len(u) # 0 /\ Len(s) \in Nat /\ DOMAIN s = 1 .. Len(s)
  BY ONLY <1>2, u # <<>>
<1>4. a \in Nat /\ a >= 1 /\ b \in Nat /\ b = a + Len(u) /\ b <= Len(s) + 1
      /\ \A i \in a .. b - 1 : s[i] = u[i - a + 1]
  BY <1>2 DEF Spans
<1>5. a \in a .. b - 1 /\ a - a + 1 = 1 /\ a \in 1 .. Len(s)
  BY <1>3, <1>4
<1>6. At(s, a) = u[1]
  BY <1>3, <1>4, <1>5 DEF At
<1>7. b - a - 1 \in Nat /\ b - a - 1 <= Len(s)
  BY <1>3, <1>4
<1> QED BY <1>2, <1>3, <1>4, <1>5, <1>6, <1>7 DEF Places

(* A factor is a term.                                                     *)
LEMMA FactorsAreTerms ==
  ASSUME NEW u, NEW r, u # <<>>, FactorReads(u, r)
  PROVE  TermReads(u, r)
<1> SUFFICES ASSUME NEW s, NEW a, NEW b, NEW d, Stands(u, s, a, b, d)
             PROVE  Reaches(s, TermOperators, Factors(s)[d], a, b - a - 1, Result(r, b))
  BY DEF TermReads
<1>1. PICK n \in Nat : n = b - a - 1
  BY StandsFacts
<1>2. Factors(s)[d][a] = Result(r, b)
  BY DEF FactorReads
<1> QED BY <1>1, <1>2, ReachesAtOnce

(* After its last round a loop has ended.                                  *)
LEMMA LoopEnds ==
  ASSUME NEW s, NEW ops, NEW operand, NEW pos \in Places(s), NEW n \in Nat, n <= Len(s),
         Len(s) \in Nat, NEW r, NEW b, Reaches(s, ops, operand, pos, n, Result(r, b)),
         Peek(s, b) \notin ops
  PROVE  Loop(s, ops, operand)[pos] = Result(r, b)
<1>1. PICK q : q = Result(r, b)
  OBVIOUS
<1>2. ~q.ok \/ Peek(s, q.at) \notin ops
  BY <1>1, ResultFacts
<1>3. Round(s, ops, operand, q) = q
  BY <1>2, RoundEnds
<1> QED BY <1>1, <1>3, ReachesEnd

(* Where no more factor follows a term has been read.                      *)
LEMMA TermRead ==
  ASSUME NEW u, NEW r, u # <<>>, TermReads(u, r), NEW s, NEW a, NEW b, NEW d,
         Stands(u, s, a, b, d), Peek(s, b) \notin TermOperators
  PROVE  ParseTerm(s, Factors(s)[d])[a] = Result(r, b)
<1>1. PICK n \in Nat : n = b - a - 1 /\ n <= Len(s) /\ Len(s) \in Nat /\ a \in Places(s)
  BY StandsFacts
<1>2. Reaches(s, TermOperators, Factors(s)[d], a, n, Result(r, b))
  BY <1>1 DEF TermReads
<1>3. PICK ops : ops = TermOperators
  OBVIOUS
<1>4. Loop(s, ops, Factors(s)[d])[a] = Result(r, b)
  BY <1>1, <1>2, <1>3, LoopEnds
<1> QED BY <1>3, <1>4 DEF ParseTerm

(* A term is an expression.                                                *)
LEMMA TermsAreSums ==
  ASSUME NEW u, NEW r, u # <<>>, TermReads(u, r)
  PROVE  SumReads(u, r)
<1> SUFFICES ASSUME NEW s, NEW a, NEW b, NEW d, Stands(u, s, a, b, d), Peek(s, b) \notin TermOperators
             PROVE  Reaches(s, ExpressionOperators, ParseTerm(s, Factors(s)[d]), a, b - a - 1, Result(r, b))
  BY DEF SumReads
<1>1. PICK n \in Nat : n = b - a - 1
  BY StandsFacts
<1>2. ParseTerm(s, Factors(s)[d])[a] = Result(r, b)
  BY TermRead
<1> QED BY <1>1, <1>2, ReachesAtOnce

(* Where no more term follows an expression has been read.                 *)
LEMMA SumRead ==
  ASSUME NEW u, NEW r, u # <<>>, SumReads(u, r), NEW s, NEW a, NEW b, NEW d,
         Stands(u, s, a, b, d), Peek(s, b) \notin TermOperators \cup ExpressionOperators
  PROVE  ParseExpression(s, Factors(s)[d])[a] = Result(r, b)
<1>1. PICK n \in Nat : n = b - a - 1 /\ n <= Len(s) /\ Len(s) \in Nat /\ a \in Places(s)
  BY StandsFacts
<1>2. Reaches(s, ExpressionOperators, ParseTerm(s, Factors(s)[d]), a, n, Result(r, b))
  BY <1>1 DEF SumReads
<1>3. PICK ops, term : ops = ExpressionOperators /\ term = ParseTerm(s, Factors(s)[d])
  OBVIOUS
<1>4. Loop(s, ops, term)[a] = Result(r, b)
  BY <1>1, <1>2, <1>3, LoopEnds
<1> QED BY <1>3, <1>4 DEF ParseExpression

-----------------------------------------------------------------------------
(* Texts put together                                                      *)

(* What expressions are written with are characters.                       *)
LEMMA SignsAreChars ==
  /\ TermOperators \cup ExpressionOperators \subseteq Chars /\ Digit \subseteq Chars
  /\ Blank \in Chars /\ "(" \in Chars /\ ")" \in Chars /\ "-" \in Chars /\ "." \in Chars
BY DEF Chars, TermOperators, ExpressionOperators

(* Three texts stand in s one after the other, at a, m and k.              *)
Parts(u, x, v, s, a, m, k, b, d) ==
  /\ Spans(u, s, a, m) /\ Spans(x, s, m, k) /\ Spans(v, s, k, b)
  /\ Len(u) \in Nat /\ Len(x) \in Nat /\ Len(v) \in Nat /\ Len(s) \in Nat
  /\ Len(u) + Len(x) + Len(v) <= d /\ d \in Nat
  /\ a \in Nat /\ a >= 1 /\ m = a + Len(u) /\ k = m + Len(x) /\ b = k + Len(v)
  /\ b \in Nat /\ b <= Len(s) + 1 /\ s \in Seq(Chars) /\ DOMAIN s = 1 .. Len(s)
  /\ At(s, b) \notin Digit \cup {"."}

(* A text of three parts stands so.                                        *)
LEMMA StandsApart ==
  ASSUME NEW u \in Seq(Chars), NEW x \in Seq(Chars), NEW v \in Seq(Chars),
         NEW s, NEW a, NEW b, NEW d, Stands((u \o x) \o v, s, a, b, d)
  PROVE  \E m, k \in Nat : Parts(u, x, v, s, a, m, k, b, d)
<1>1. PICK C, y : C = Chars /\ y = u \o x
  OBVIOUS
<1>2. u \in Seq(C) /\ x \in Seq(C) /\ v \in Seq(C) /\ s \in Seq(C) /\ Spans(y \o v, s, a, b)
      /\ Len(y \o v) <= d /\ d \in Nat
  BY <1>1 DEF Stands
<1>3. y \in Seq(C) /\ Len(y) = Len(u) + Len(x) /\ Len(y \o v) = Len(y) + Len(v)
      /\ Len(u) \in Nat /\ Len(x) \in Nat /\ Len(v) \in Nat /\ Len(s) \in Nat
  <2>1. y \in Seq(C) /\ Len(y) = Len(u) + Len(x)
    BY ONLY <1>1, <1>2
  <2>2. Len(y \o v) = Len(y) + Len(v)
    BY ONLY <1>2, <2>1, ConcatProperties
  <2>3. Len(u) \in Nat /\ Len(x) \in Nat /\ Len(v) \in Nat /\ Len(s) \in Nat
    BY ONLY <1>2
  <2> QED BY <2>1, <2>2, <2>3
<1>4. PICK k \in Nat : k = a + Len(y) /\ Spans(y, s, a, k) /\ Spans(v, s, k, b)
  BY ONLY <1>2, <1>3, SpansBoth
<1>5. PICK m \in Nat : m = a + Len(u) /\ Spans(u, s, a, m) /\ Spans(x, s, m, k)
  BY ONLY <1>1, <1>2, <1>3, <1>4, SpansBoth
<1>6. /\ a \in Nat /\ a >= 1 /\ k = m + Len(x) /\ b = k + Len(v)
      /\ b \in Nat /\ b <= Len(s) + 1
  BY <1>4, <1>5 DEF Spans
<1>7. DOMAIN s = 1 .. Len(s) /\ s \in Seq(Chars) /\ At(s, b) \notin Digit \cup {"."}
  BY <1>1, <1>2 DEF Stands
<1> QED BY <1>2, <1>3, <1>4, <1>5, <1>6, <1>7 DEF Parts

(* Three characters.                                                       *)
LEMMA SpansThree ==
  ASSUME NEW c1, NEW c2, NEW c3, NEW s, NEW m, NEW k, Spans(<<c1, c2, c3>>, s, m, k), Len(s) \in Nat
  PROVE  m \in Nat /\ k = m + 3 /\ s[m] = c1 /\ s[m + 1] = c2 /\ s[m + 2] = c3 /\ m + 2 \in 1 .. Len(s)
         /\ m + 1 \in 1 .. Len(s) /\ m \in 1 .. Len(s)
<1>1. PICK x : x = <<c1, c2, c3>>
  OBVIOUS
<1>2. Len(x) = 3 /\ x[1] = c1 /\ x[2] = c2 /\ x[3] = c3
  BY <1>1
<1>3. m \in Nat /\ k \in Nat /\ m >= 1 /\ k = m + 3 /\ k <= Len(s) + 1
      /\ \A i \in m .. k - 1 : s[i] = x[i - m + 1]
  BY <1>1, <1>2 DEF Spans
<1>4. /\ m \in m .. k - 1 /\ m + 1 \in m .. k - 1 /\ m + 2 \in m .. k - 1
      /\ m - m + 1 = 1 /\ (m + 1) - m + 1 = 2 /\ (m + 2) - m + 1 = 3
      /\ m + 2 \in 1 .. Len(s) /\ m + 1 \in 1 .. Len(s) /\ m \in 1 .. Len(s)
  BY <1>3
<1>5. s[m] = x[1] /\ s[m + 1] = x[2] /\ s[m + 2] = x[3]
  BY <1>3, <1>4
<1> QED BY <1>2, <1>3, <1>4, <1>5

(* An expression in parentheses is a factor.                               *)
LEMMA BracketsAreFactors ==
  ASSUME NEW u \in Seq(Chars), NEW r, u # <<>>, SumReads(u, r)
  PROVE  FactorReads(Bracketed(u), r)
<1> SUFFICES ASSUME NEW s, NEW a, NEW b, NEW d, Stands(Bracketed(u), s, a, b, d)
             PROVE  Factors(s)[d][a] = Result(r, b)
  BY DEF FactorReads
<1>1. PICK c1, c2, x, y : c1 = "(" /\ c2 = ")" /\ x = <<c1>> /\ y = <<c2>>
  OBVIOUS
<1>2. Bracketed(u) = (x \o u) \o y
  BY <1>1 DEF Bracketed
<1>3. x \in Seq(Chars) /\ y \in Seq(Chars) /\ Len(x) = 1 /\ Len(y) = 1
  BY <1>1, SignsAreChars
<1>4. PICK m, k \in Nat : Parts(x, u, y, s, a, m, k, b, d)
  <2>1. Stands((x \o u) \o y, s, a, b, d)
    BY <1>2
  <2>2. u \in Seq(Chars)
    OBVIOUS
  <2> QED BY ONLY <1>3, <2>1, <2>2, StandsApart
<1> USE DEF Parts
<1>5. /\ a \in 1 .. Len(s) /\ m = a + 1 /\ At(s, a) = c1
      /\ k \in 1 .. Len(s) /\ b = k + 1 /\ At(s, k) = c2
  BY <1>1, <1>4, SpansOne
<1>6. PICK c \in Nat : d = c + 1 /\ Len(u) <= c
  <2>1. d - 1 \in Nat /\ d = (d - 1) + 1 /\ Len(u) <= d - 1
    BY <1>3, <1>4
  <2> QED BY <2>1
<1>7. At(s, k) \notin Digit \cup TermOperators \cup ExpressionOperators \cup {".", Blank}
      /\ At(s, a) = "(" /\ At(s, a) # Blank
  BY <1>1, <1>5, SignsApart
<1>8. a \in Places(s) /\ k \in Places(s) /\ a <= Len(s) /\ k <= Len(s)
  BY <1>4, <1>5 DEF Places
<1>9. Peek(s, a) = "(" /\ Consume(s, a) = m /\ Peek(s, k) = At(s, k) /\ Consume(s, k) = b
  BY <1>4, <1>5, <1>7, <1>8, NoBlank
<1>10. Stands(u, s, m, k, c)
  BY <1>4, <1>6, <1>7 DEF Stands
<1>11. ParseExpression(s, Factors(s)[c])[m] = Result(r, k)
  <2>1. Peek(s, k) \notin TermOperators \cup ExpressionOperators
    BY <1>7, <1>9
  <2> QED BY <1>10, <2>1, SumRead
<1>12. Factors(s)[d] = ParseFactor(s, ParseExpression(s, Factors(s)[c]))
  BY <1>6, FactorsNest
<1>13. Factors(s)[d][a] = IF Result(r, k).ok THEN Read(b, Result(r, k).value) ELSE Thrown
  <2>1. PICK expr, inner : expr = ParseExpression(s, Factors(s)[c]) /\ inner = Result(r, k)
    OBVIOUS
  <2>2. ParseFactor(s, expr)[a] = IF inner.ok THEN Read(Consume(s, inner.at), inner.value) ELSE Thrown
    BY ONLY <1>8, <1>9, <1>11, <2>1 DEF ParseFactor
  <2>3. inner.ok => inner.at = k
    BY <2>1, ResultFacts
  <2> QED BY ONLY <1>9, <1>12, <2>1, <2>2, <2>3
<1> QED BY <1>13, ResultFacts DEF Result

(* A term with one factor more is a term.                                  *)
LEMMA ProductsAreTerms ==
  ASSUME NEW u \in Seq(Chars), NEW v \in Seq(Chars), NEW r, NEW q, u # <<>>, v # <<>>,
         NEW op \in TermOperators, TermReads(u, r), FactorReads(v, q)
  PROVE  TermReads((u \o <<op>>) \o v, Together(op, r, q))
<1> DEFINE text == (u \o <<op>>) \o v
<1> SUFFICES ASSUME NEW s, NEW a, NEW b, NEW d, Stands(text, s, a, b, d)
             PROVE  Reaches(s, TermOperators, Factors(s)[d], a, b - a - 1, Result(Together(op, r, q), b))
  BY DEF TermReads
<1>1. PICK x : x = <<op>>
  OBVIOUS
<1>2. x \in Seq(Chars) /\ Len(x) = 1
  BY <1>1, SignsAreChars
<1>3. PICK m, k \in Nat : Parts(u, x, v, s, a, m, k, b, d)
  <2>1. Stands((u \o x) \o v, s, a, b, d)
    BY <1>1
  <2>2. u \in Seq(Chars) /\ v \in Seq(Chars)
    OBVIOUS
  <2> QED BY ONLY <1>2, <2>1, <2>2, StandsApart
<1> USE DEF Parts
<1>4. m \in 1 .. Len(s) /\ k = m + 1 /\ At(s, m) = op
  BY <1>1, <1>3, SpansOne
<1>5. At(s, m) \notin Digit \cup {".", Blank}
  BY <1>4, SignsApart
<1>6. At(s, b) \notin Digit \cup {"."}
  BY DEF Stands
<1>7. Stands(u, s, a, m, d) /\ Stands(v, s, k, b, d)
  <2>1. Len(u) <= d /\ Len(v) <= d
    BY <1>2, <1>3
  <2> QED BY <1>3, <1>5, <1>6, <2>1 DEF Stands
<1>8. PICK n, l \in Nat : n = m - a - 1 /\ l = b - a - 1 /\ n < l
  <2>1. Len(u) >= 1 /\ Len(v) >= 1
    BY <1>7, StandsFacts
  <2>2. m - a - 1 \in Nat /\ b - a - 1 \in Nat /\ m - a - 1 < b - a - 1
    BY <1>2, <1>3, <2>1
  <2> QED BY <2>2
<1>9. PICK ops, factor : ops = TermOperators /\ factor = Factors(s)[d]
  OBVIOUS
<1>10. Reaches(s, ops, factor, a, n, Result(r, m))
  BY <1>7, <1>8, <1>9 DEF TermReads
<1>11. factor[k] = Result(q, b)
  BY <1>7, <1>9 DEF FactorReads
<1>12. Peek(s, m) = op /\ Consume(s, m) = k
  <2>1. m \in Places(s) /\ m <= Len(s)
    BY <1>3, <1>4 DEF Places
  <2>2. At(s, m) # Blank
    BY <1>5
  <2> QED BY <1>3, <1>4, <2>1, <2>2, NoBlank
<1>13. Round(s, ops, factor, Result(r, m)) = Result(Together(op, r, q), b)
  <2>1. op \in ops /\ factor[Consume(s, m)] = Result(q, b)
    BY <1>9, <1>11, <1>12
  <2> QED BY ONLY <1>12, <2>1, RoundJoins
<1>14. Reaches(s, ops, factor, a, l, Result(Together(op, r, q), b))
  BY ONLY <1>8, <1>10, <1>13, ReachesNext
<1> QED BY <1>8, <1>9, <1>14

(* From where a loop starts only its first operand is taken.               *)
LEMMA ReachesSame ==
  ASSUME NEW s, NEW ops, NEW operand, NEW p1, NEW p2, NEW n, NEW r,
         operand[p1] = operand[p2], Reaches(s, ops, operand, p2, n, r)
  PROVE  Reaches(s, ops, operand, p1, n, r)
<1>1. \A left : Runs(left, s, ops, operand, p1) <=> Runs(left, s, ops, operand, p2)
  BY DEF Runs
<1> QED BY <1>1 DEF Reaches

(* An expression with one term more is an expression.                      *)
LEMMA SumsAreExpressions ==
  ASSUME NEW u \in Seq(Chars), NEW v \in Seq(Chars), NEW r, NEW q, u # <<>>, v # <<>>, v[1] # Blank,
         NEW op \in ExpressionOperators, SumReads(u, r), TermReads(v, q)
  PROVE  SumReads((u \o <<Blank, op, Blank>>) \o v, Together(op, r, q))
<1> DEFINE text == (u \o <<Blank, op, Blank>>) \o v
<1> SUFFICES ASSUME NEW s, NEW a, NEW b, NEW d, Stands(text, s, a, b, d), Peek(s, b) \notin TermOperators
             PROVE  Reaches(s, ExpressionOperators, ParseTerm(s, Factors(s)[d]), a, b - a - 1,
                            Result(Together(op, r, q), b))
  BY DEF SumReads
<1>1. PICK x : x = <<Blank, op, Blank>>
  OBVIOUS
<1>2. x \in Seq(Chars) /\ Len(x) = 3
  <2>1. Blank \in Chars /\ op \in Chars
    BY SignsAreChars
  <2> QED BY <1>1, <2>1
<1>3. PICK m, k \in Nat : Parts(u, x, v, s, a, m, k, b, d)
  <2>1. Stands((u \o x) \o v, s, a, b, d)
    BY <1>1
  <2>2. u \in Seq(Chars) /\ v \in Seq(Chars)
    OBVIOUS
  <2> QED BY ONLY <1>2, <2>1, <2>2, StandsApart
<1> USE DEF Parts
<1>4. m \in Nat /\ k = m + 3 /\ s[m] = Blank /\ s[m + 1] = op /\ s[m + 2] = Blank /\ m + 2 \in 1 .. Len(s)
      /\ m + 1 \in 1 .. Len(s) /\ m \in 1 .. Len(s) /\ DOMAIN s = 1 .. Len(s)
  <2>1. PICK c : c = Blank
    OBVIOUS
  <2>2. Spans(<<c, op, c>>, s, m, k) /\ Len(s) \in Nat /\ DOMAIN s = 1 .. Len(s)
    BY <1>1, <1>3, <2>1
  <2> QED BY ONLY <2>1, <2>2, SpansThree
<1>5. At(s, m) = Blank /\ At(s, m + 1) = op
  BY <1>4 DEF At
<1>6. At(s, m) \notin Digit \cup {"."} /\ op \notin TermOperators \cup {Blank}
  BY <1>5, SignsApart
<1>7. At(s, b) \notin Digit \cup {"."}
  BY DEF Stands
<1>8. Stands(u, s, a, m, d) /\ Stands(v, s, k, b, d)
  <2>1. Len(u) <= d /\ Len(v) <= d
    BY <1>2, <1>3
  <2> QED BY <1>3, <1>6, <1>7, <2>1 DEF Stands
<1>9. PICK n, l, i \in Nat : n = m - a - 1 /\ l = b - a - 1 /\ n < l /\ i = b - k - 1 /\ i <= Len(s)
  <2>1. Len(u) >= 1 /\ Len(v) >= 1
    BY <1>8, StandsFacts
  <2>2. m - a - 1 \in Nat /\ b - a - 1 \in Nat /\ m - a - 1 < b - a - 1 /\ b - k - 1 \in Nat /\ b - k - 1 <= Len(s)
    BY <1>2, <1>3, <2>1
  <2> QED BY <2>2
<1>10. PICK ops, factor, term : ops = ExpressionOperators /\ factor = Factors(s)[d] /\ term = ParseTerm(s, factor)
  OBVIOUS
<1>11. Peek(s, m) = op /\ Consume(s, m) = m + 2
  <2>1. At(s, m + 1) # Blank /\ m + 1 <= Len(s)
    BY <1>4, <1>5, <1>6
  <2> QED BY <1>3, <1>4, <1>5, <2>1, OneBlank
<1>12. Reaches(s, ops, term, a, n, Result(r, m))
  <2>1. Peek(s, m) \notin TermOperators
    BY <1>6, <1>11
  <2> QED BY <1>8, <1>9, <1>10, <2>1 DEF SumReads
<1>13. term[m + 2] = Result(q, b)
  <2>1. PICK after : after = m + 2 /\ after \in 1 .. Len(s) /\ after + 1 = k /\ s[after] = Blank
    BY <1>4
  <2>2. At(s, after + 1) # Blank
    BY <1>8, <2>1, StandsFacts
  <2>3. d # 0
    BY <1>2, <1>3
  <2>4. factor[after] = factor[k]
    <3>1. s \in Seq(Chars) /\ d \in Nat
      BY <1>3
    <3>2. Factors(s)[d][after] = Factors(s)[d][after + 1]
      BY ONLY <2>1, <2>2, <2>3, <3>1, FactorAfterBlank
    <3> QED BY <1>10, <2>1, <3>2
  <2>5. PICK tops : tops = TermOperators
    OBVIOUS
  <2>6. Reaches(s, tops, factor, k, i, Result(q, b))
    BY <1>8, <1>9, <1>10, <2>5 DEF TermReads
  <2>7. Reaches(s, tops, factor, after, i, Result(q, b))
    BY <2>4, <2>6, ReachesSame
  <2>8. after \in Places(s) /\ Peek(s, b) \notin tops
    BY <1>3, <2>1, <2>5 DEF Places
  <2>9. Loop(s, tops, factor)[after] = Result(q, b)
    <3>1. Len(s) \in Nat
      BY <1>3
    <3> QED BY ONLY <1>9, <2>7, <2>8, <3>1, LoopEnds
  <2> QED BY <1>10, <2>1, <2>5, <2>9 DEF ParseTerm
<1>14. Round(s, ops, term, Result(r, m)) = Result(Together(op, r, q), b)
  <2>1. op \in ops /\ term[Consume(s, m)] = Result(q, b)
    BY <1>10, <1>11, <1>13
  <2> QED BY ONLY <1>11, <2>1, RoundJoins
<1>15. Reaches(s, ops, term, a, l, Result(Together(op, r, q), b))
  BY ONLY <1>9, <1>12, <1>14, ReachesNext
<1> QED BY <1>9, <1>10, <1>15

-----------------------------------------------------------------------------
(* Every expression                                                        *)

(* A text that does not begin with a blank.                                *)
Begins(u) == u \in Seq(Chars) /\ u # <<>> /\ u[1] # Blank

(* It is a factor, a term or at least an expression, by how it binds.      *)
IsRead(e) ==
  /\ Begins(e.text) /\ e.binds \in 1 .. 3
  /\ SumReads(e.text, e.means)
  /\ e.binds >= 2 => TermReads(e.text, e.means)
  /\ e.binds = 3 => FactorReads(e.text, e.means)

(* So does what it begins.                                                 *)
LEMMA BeginsLonger ==
  ASSUME NEW u, NEW v \in Seq(Chars), Begins(u)
  PROVE  Begins(u \o v)
<1>1. PICK C : C = Chars
  OBVIOUS
<1>2. u \in Seq(C) /\ v \in Seq(C) /\ u # <<>> /\ u[1] # Blank
  BY <1>1 DEF Begins
<1>3. Len(u) \in Nat /\ Len(u) # 0 /\ Len(v) \in Nat
  BY ONLY <1>2
<1>4. /\ u \o v \in Seq(C) /\ Len(u \o v) = Len(u) + Len(v)
      /\ \A i \in 1 .. Len(u) + Len(v) : (u \o v)[i] = IF i <= Len(u) THEN u[i] ELSE v[i - Len(u)]
  BY ONLY <1>2, <1>3, ConcatProperties
<1>5. (u \o v)[1] = u[1] /\ Len(u \o v) # 0
  <2>1. 1 \in 1 .. Len(u) + Len(v) /\ 1 <= Len(u) /\ Len(u) + Len(v) # 0
    BY ONLY <1>3
  <2> QED BY ONLY <1>4, <2>1
<1>6. PICK w : w = u \o v
  OBVIOUS
<1>7. w \in Seq(C) /\ Len(w) # 0 /\ w[1] # Blank
  BY ONLY <1>2, <1>4, <1>5, <1>6
<1>8. w # <<>>
  BY ONLY <1>7
<1> QED BY <1>1, <1>6, <1>7, <1>8 DEF Begins

(* A parenthesis begins one.                                               *)
LEMMA BeginsBracketed ==
  ASSUME NEW u, Begins(u)
  PROVE  Begins(Bracketed(u))
<1>1. PICK c1, c2, x, y : c1 = "(" /\ c2 = ")" /\ x = <<c1>> /\ y = <<c2>>
  OBVIOUS
<1>2. Bracketed(u) = (x \o u) \o y
  BY <1>1 DEF Bracketed
<1>3. c1 \in Chars /\ c2 \in Chars /\ c1 # Blank
  BY <1>1, SignsAreChars, SignsApart
<1>4. Begins(x) /\ y \in Seq(Chars) /\ u \in Seq(Chars)
  BY <1>1, <1>3 DEF Begins
<1>5. Begins(x \o u)
  BY <1>4, BeginsLonger
<1>6. Begins((x \o u) \o y)
  BY <1>4, <1>5, BeginsLonger
<1> QED BY <1>2, <1>6

(* A product is read.                                                      *)
LEMMA ProductIsRead ==
  ASSUME NEW left, NEW right, IsRead(left), IsRead(right), NEW op \in TermOperators
  PROVE  IsRead(Combined(op, left, right))
<1> DEFINE before == IF left.binds < 2 THEN Bracketed(left.text) ELSE left.text
           after == IF right.binds <= 2 THEN Bracketed(right.text) ELSE right.text
<1>1. PICK u, v, r, q : u = before /\ v = after /\ r = left.means /\ q = right.means
  OBVIOUS
<1>2. Begins(u) /\ TermReads(u, r)
  <2>1. CASE left.binds < 2
    <3>1. u = Bracketed(left.text) /\ Begins(left.text) /\ SumReads(left.text, r)
      BY <1>1, <2>1 DEF IsRead
    <3>2. Begins(u)
      BY <3>1, BeginsBracketed
    <3>3. FactorReads(u, r)
      BY <3>1, BracketsAreFactors DEF Begins
    <3>4. u # <<>>
      BY <3>2 DEF Begins
    <3> QED BY <3>2, <3>3, <3>4, FactorsAreTerms
  <2>2. CASE ~(left.binds < 2)
    <3>1. u = left.text /\ left.binds >= 2
      BY <1>1, <2>2 DEF IsRead
    <3> QED BY <1>1, <3>1 DEF IsRead
  <2> QED BY <2>1, <2>2
<1>3. Begins(v) /\ FactorReads(v, q)
  <2>1. CASE right.binds <= 2
    <3>1. v = Bracketed(right.text) /\ Begins(right.text) /\ SumReads(right.text, q)
      BY <1>1, <2>1 DEF IsRead
    <3>2. Begins(v)
      BY <3>1, BeginsBracketed
    <3>3. FactorReads(v, q)
      BY <3>1, BracketsAreFactors DEF Begins
    <3> QED BY <3>2, <3>3
  <2>2. CASE ~(right.binds <= 2)
    <3>1. v = right.text /\ right.binds = 3
      BY <1>1, <2>2 DEF IsRead
    <3> QED BY <1>1, <3>1 DEF IsRead
  <2> QED BY <2>1, <2>2
<1>4. PICK x, text : x = <<op>> /\ text = (u \o x) \o v
  OBVIOUS
<1>5. Begins(text)
  <2>1. x \in Seq(Chars) /\ v \in Seq(Chars)
    BY <1>3, <1>4, SignsAreChars DEF Begins
  <2>2. Begins(u \o x)
    BY <1>2, <2>1, BeginsLonger
  <2>3. Begins((u \o x) \o v)
    BY <2>1, <2>2, BeginsLonger
  <2> QED BY <1>4, <2>3
<1>6. TermReads(text, Together(op, r, q))
  <2>1. u \in Seq(Chars) /\ v \in Seq(Chars) /\ u # <<>> /\ v # <<>>
    BY <1>2, <1>3 DEF Begins
  <2> QED BY <1>2, <1>3, <1>4, <2>1, ProductsAreTerms
<1>7. SumReads(text, Together(op, r, q))
  <2>1. text # <<>>
    BY <1>5 DEF Begins
  <2> QED BY <1>6, <2>1, TermsAreSums
<1>8. /\ Combined(op, left, right).text = text /\ Combined(op, left, right).means = Together(op, r, q)
      /\ Combined(op, left, right).binds = 2
  <2>1. Combined(op, left, right) = Expression(before \o <<op>> \o after, Together(op, left.means, right.means), 2)
    BY DEF Combined, Together
  <2> HIDE DEF before, after
  <2>2. Combined(op, left, right) = Expression(text, Together(op, r, q), 2)
    BY <1>1, <1>4, <2>1
  <2> QED BY <2>2 DEF Expression
<1> QED BY <1>5, <1>6, <1>7, <1>8 DEF IsRead

(* A sum is read.                                                          *)
LEMMA SumIsRead ==
  ASSUME NEW left, NEW right, IsRead(left), IsRead(right), NEW op \in ExpressionOperators
  PROVE  IsRead(Combined(op, left, right))
<1> DEFINE after == IF right.binds <= 1 THEN Bracketed(right.text) ELSE right.text
<1>1. PICK u, v, r, q : u = left.text /\ v = after /\ r = left.means /\ q = right.means
  OBVIOUS
<1>2. Begins(u) /\ SumReads(u, r)
  BY <1>1 DEF IsRead
<1>3. Begins(v) /\ TermReads(v, q)
  <2>1. CASE right.binds <= 1
    <3>1. v = Bracketed(right.text) /\ Begins(right.text) /\ SumReads(right.text, q)
      BY <1>1, <2>1 DEF IsRead
    <3>2. Begins(v)
      BY <3>1, BeginsBracketed
    <3>3. FactorReads(v, q)
      BY <3>1, BracketsAreFactors DEF Begins
    <3>4. v # <<>>
      BY <3>2 DEF Begins
    <3> QED BY <3>2, <3>3, <3>4, FactorsAreTerms
  <2>2. CASE ~(right.binds <= 1)
    <3>1. v = right.text /\ right.binds >= 2
      BY <1>1, <2>2 DEF IsRead
    <3> QED BY <1>1, <3>1 DEF IsRead
  <2> QED BY <2>1, <2>2
<1>4. PICK x, text : x = <<Blank, op, Blank>> /\ text = (u \o x) \o v
  OBVIOUS
<1>5. Begins(text)
  <2>1. Blank \in Chars /\ op \in Chars
    BY SignsAreChars
  <2>2. x \in Seq(Chars) /\ v \in Seq(Chars)
    BY <1>3, <1>4, <2>1 DEF Begins
  <2>3. Begins(u \o x)
    BY <1>2, <2>2, BeginsLonger
  <2>4. Begins((u \o x) \o v)
    BY <2>2, <2>3, BeginsLonger
  <2> QED BY <1>4, <2>4
<1>6. SumReads(text, Together(op, r, q))
  <2>1. u \in Seq(Chars) /\ v \in Seq(Chars) /\ u # <<>> /\ v # <<>> /\ v[1] # Blank
    BY <1>2, <1>3 DEF Begins
  <2> QED BY <1>2, <1>3, <1>4, <2>1, SumsAreExpressions
<1>7. /\ Combined(op, left, right).text = text /\ Combined(op, left, right).means = Together(op, r, q)
      /\ Combined(op, left, right).binds = 1
  <2>1. op \notin TermOperators /\ ~(left.binds < 1) /\ op # "/"
    BY SignsApart DEF IsRead, TermOperators
  <2>2. Combined(op, left, right)
          = Expression(left.text \o <<Blank, op, Blank>> \o after, Together(op, left.means, right.means), 1)
    BY <2>1 DEF Combined, Together
  <2> HIDE DEF after
  <2>3. Combined(op, left, right) = Expression(text, Together(op, r, q), 1)
    BY <1>1, <1>4, <2>2
  <2> QED BY <2>3 DEF Expression
<1> QED BY <1>5, <1>6, <1>7 DEF IsRead

(* A number is read.                                                       *)
LEMMA NumberIsRead ==
  ASSUME NEW v \in Numerals
  PROVE  IsRead(Number(v))
<1>1. /\ v.negative \in BOOLEAN /\ v.whole \in Seq(Digit) /\ v.whole # <<>> /\ v.part \in Seq(Digit)
  BY DEF Numerals
<1>2. Number(v).means = Read(1, NumberValue(v.negative, v.whole, v.part)) /\ Number(v).binds = 3
  BY DEF Number, Expression
<1>3. Begins(Number(v).text)
  <2>1. PICK whole, part, minus, point :
          whole = v.whole /\ part = v.part /\ minus = <<"-">> /\ point = <<".">>
    OBVIOUS
  <2>2. PICK D, C : D = Digit /\ C = Chars
    OBVIOUS
  <2>3. D \subseteq C /\ whole \in Seq(D) /\ part \in Seq(D) /\ whole # <<>>
    BY <1>1, <2>1, <2>2, SignsAreChars
  <2>4. whole \in Seq(C) /\ part \in Seq(C)
    BY ONLY <2>3
  <2>5. whole[1] \in D
    BY ONLY <2>3
  <2>6. Begins(whole)
    BY <2>2, <2>3, <2>4, <2>5, SignsApart DEF Begins
  <2>7. Begins(minus) /\ point \in Seq(Chars)
    <3>1. PICK c1, c2 : c1 = "-" /\ c2 = "."
      OBVIOUS
    <3>2. c1 \in Chars /\ c2 \in Chars /\ c1 # Blank /\ minus = <<c1>> /\ point = <<c2>>
      BY <2>1, <3>1, SignsAreChars, SignsApart
    <3> QED BY <3>2 DEF Begins
  <2> DEFINE sign == IF v.negative THEN minus ELSE <<>>
             tail == IF part = <<>> THEN <<>> ELSE point \o part
  <2>8. Number(v).text = (sign \o whole) \o tail
    BY <2>1 DEF Number, Expression
  <2>9. Begins(sign \o whole)
    <3>1. CASE v.negative
      <4>1. whole \in Seq(Chars)
        BY <2>2, <2>4
      <4>2. Begins(minus \o whole)
        BY <2>7, <4>1, BeginsLonger
      <4> QED BY <3>1, <4>2
    <3>2. CASE ~v.negative
      <4>1. <<>> \o whole = whole
        BY <2>4
      <4> QED BY <2>6, <3>2, <4>1
    <3> QED BY <3>1, <3>2
  <2>10. tail \in Seq(Chars)
    <3>1. point \o part \in Seq(Chars)
      BY <2>2, <2>4, <2>7
    <3> QED BY <3>1
  <2> HIDE DEF sign, tail
  <2>11. Begins((sign \o whole) \o tail)
    BY <2>9, <2>10, BeginsLonger
  <2> QED BY <2>8, <2>11
<1>4. PICK u, r : u = Number(v).text /\ r = Number(v).means
  OBVIOUS
<1>5. FactorReads(u, r)
  <2> SUFFICES ASSUME NEW s, NEW a, NEW b, NEW d, Stands(u, s, a, b, d)
               PROVE  Factors(s)[d][a] = Result(r, b)
    BY DEF FactorReads
  <2>1. s \in Seq(Chars) /\ Spans(Number(v).text, s, a, b) /\ At(s, b) \notin Digit \cup {"."}
    BY <1>4 DEF Stands
  <2>2. /\ ParseNumber(s, a) = Read(b, NumberValue(v.negative, v.whole, v.part))
        /\ Peek(s, a) # "("
    BY ONLY <2>1, v \in Numerals, NumberRead
  <2>3. a \in Places(s) /\ d \in Nat /\ d >= 1
    <3>1. u # <<>>
      BY <1>3, <1>4 DEF Begins
    <3>2. Len(u) \in Nat /\ Len(u) >= 1 /\ d \in Nat /\ d >= Len(u) /\ a \in Places(s)
      BY <3>1, StandsFacts
    <3> QED BY <3>2
  <2>4. PICK c \in Nat : d = c + 1
    <3>1. d - 1 \in Nat /\ d = (d - 1) + 1
      BY <2>3
    <3> QED BY <3>1
  <2>5. Factors(s)[d] = ParseFactor(s, ParseExpression(s, Factors(s)[c]))
    BY <2>4, FactorsNest
  <2>6. Factors(s)[d][a] = ParseNumber(s, a)
    BY <2>2, <2>3, <2>5 DEF ParseFactor
  <2> QED BY <1>2, <1>4, <2>2, <2>6, ReadFacts DEF Result
<1>6. u # <<>>
  BY <1>3, <1>4 DEF Begins
<1>7. TermReads(u, r)
  BY <1>5, <1>6, FactorsAreTerms
<1>8. SumReads(u, r)
  BY <1>6, <1>7, TermsAreSums
<1> QED BY <1>2, <1>3, <1>4, <1>5, <1>7, <1>8 DEF IsRead

(* So is every expression.                                                 *)
LEMMA ExpressionsAreRead ==
  ASSUME NEW numbers \in SUBSET Numerals, NEW n \in Nat
  PROVE  \A e \in Expressions(numbers, n) : IsRead(e)
<1> DEFINE Q == {k \in Nat : \A e \in Expressions(numbers, k) : IsRead(e)}
<1>1. 0 \in Q
  <2>1. Expressions(numbers, 0) = {Number(v) : v \in numbers}
    BY ExpressionsGrow
  <2>2. \A v \in numbers : IsRead(Number(v))
    BY NumberIsRead
  <2> QED BY <2>1, <2>2
<1>2. ASSUME NEW k \in 0 .. n - 1, k \in Q PROVE k + 1 \in Q
  <2>1. k \in Nat /\ k + 1 \in Nat
    OBVIOUS
  <2>2. PICK exprs : exprs = Expressions(numbers, k)
    OBVIOUS
  <2>3. Expressions(numbers, k + 1) = Deeper(exprs)
    BY <2>1, <2>2, ExpressionsGrow
  <2>4. \A e \in exprs : IsRead(e)
    BY <1>2, <2>2
  <2>5. ASSUME NEW e \in Deeper(exprs) PROVE IsRead(e)
    <3>1. CASE e \in exprs
      BY <2>4, <3>1
    <3>2. CASE e \notin exprs
      <4>1. PICK op \in TermOperators \cup ExpressionOperators, left \in exprs, right \in exprs :
              e = Combined(op, left, right)
        BY <3>2, SMTT(30) DEF Deeper
      <4>2. IsRead(left) /\ IsRead(right)
        BY <2>4
      <4>3. CASE op \in TermOperators
        BY <4>1, <4>2, <4>3, ProductIsRead
      <4>4. CASE op \in ExpressionOperators
        BY <4>1, <4>2, <4>4, SumIsRead
      <4> QED BY <4>3, <4>4
    <3> QED BY <3>1, <3>2
  <2> QED BY <2>1, <2>3, <2>5
<1> HIDE DEF Q
<1>3. \A k \in 0 .. n : k \in Q
  BY <1>1, <1>2, UpTo
<1>4. n \in Q
  BY <1>3
<1> QED BY <1>4 DEF Q

(* The calculator's answer to an expression is what it means.              *)
LEMMA ReadIsCalculated ==
  ASSUME NEW e, IsRead(e)
  PROVE  Calculated(e.text) = Outcome(e.means)
<1>1. PICK s, r : s = e.text /\ r = e.means
  OBVIOUS
<1>2. s \in Seq(Chars) /\ s # <<>> /\ SumReads(s, r)
  BY <1>1 DEF IsRead, Begins
<1>3. ExtractedValue(s) = s
  <2>1. \A i \in DOMAIN s : s[i] # "\n"
    <3>1. \A i \in DOMAIN s : s[i] \in Chars
      <4>1. PICK C : C = Chars
        OBVIOUS
      <4>2. s \in Seq(C)
        BY <1>2, <4>1
      <4>3. \A i \in DOMAIN s : s[i] \in C
        BY ONLY <4>2
      <4> QED BY <4>1, <4>3
    <3> QED BY <3>1, SignsApart, Zenon
  <2>2. ExtractedValue(s) = [i \in DOMAIN s |-> s[i]]
    BY <2>1, Zenon DEF ExtractedValue
  <2>3. [i \in DOMAIN s |-> s[i]] = s
    BY <1>2
  <2> QED BY <2>2, <2>3
<1>4. Len(s) \in Nat /\ Len(s) # 0 /\ DOMAIN s = 1 .. Len(s)
  BY <1>2
<1>5. PICK b \in Nat : b = Len(s) + 1
  BY <1>4
<1>6. At(s, b) = "\\0"
  BY <1>4, <1>5 DEF At
<1>7. Peek(s, b) \notin TermOperators \cup ExpressionOperators
  <2>1. b \in Places(s) /\ At(s, b) # Blank
    BY <1>4, <1>5, <1>6, SignsApart DEF Places
  <2>2. Peek(s, b) = At(s, b)
    BY <1>2, <2>1, NoBlank
  <2> QED BY <1>6, <2>2, SignsApart
<1>8. Stands(s, s, 1, b, Len(s))
  <2>1. Spans(s, s, 1, b)
    BY <1>4, <1>5 DEF Spans
  <2>2. At(s, b) \notin Digit \cup {"."}
    BY <1>6, SignsApart
  <2> QED BY <1>2, <1>4, <2>1, <2>2 DEF Stands
<1>9. ParseExpression(s, Factors(s)[Len(s)])[1] = Result(r, b)
  BY <1>2, <1>7, <1>8, SumRead
<1>10. Execute(s) = Result(r, b)
  BY <1>2, <1>3, <1>9 DEF Execute
<1>11. Outcome(Result(r, b)) = Outcome(r)
  BY ResultFacts DEF Outcome
<1> QED BY <1>1, <1>10, <1>11 DEF Calculated

(* Every expression over any numbers, of any depth, in the notation with   *)
(* no more parentheses than it needs: the answer of CalculatorTool::execute*)
(* (tool.cpp:81-124, 161-204) is its value, or an error exactly if it      *)
(* divides by zero.                                                        *)
THEOREM ExpressionsEvaluate ==
  ASSUME NEW numbers \in SUBSET Numerals, NEW n \in Nat, NEW e \in Expressions(numbers, n)
  PROVE  Calculated(e.text) = Outcome(e.means)
BY ExpressionsAreRead, ReadIsCalculated

(* A calculator an Agent calls (agent.cpp:55-59) is one that evaluates     *)
(* every expression, for any Numbers and any Nesting.                      *)
THEOREM CalculatorIsRight == Spec => []CalculatorEvaluates
<1>1. Misread = {}
  <2>1. Numbers \in SUBSET Numerals /\ Nesting \in Nat
    BY ToolUseAssumption
  <2>2. \A e \in Expressions(Numbers, Nesting) : Calculated(e.text) = Outcome(e.means)
    BY <2>1, ExpressionsEvaluate
  <2> QED BY <2>2 DEF Misread
<1>2. CalculatorEvaluates
  BY <1>1 DEF CalculatorEvaluates
<1> QED BY <1>2, PTL
=============================================================================
