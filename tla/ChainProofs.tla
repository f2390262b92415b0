---------------------------- MODULE ChainProofs ----------------------------
(***************************************************************************)
(* Theorems about Chain for any templates, inputs and answers.             *)
(*                                                                         *)
(* ChainInv is inductive: the types; the LLM nodes executed were asked     *)
(* once each, in order (AskedOnce), what the one before answered           *)
(* (LatestAsked); what has accumulated (Accumulates); and what is returned *)
(* (UnderWay, Returned).  The types take most of the work: that what is    *)
(* rendered, asked and loaded is a text or a chain again.                  *)
(*                                                                         *)
(* What render computes is read in leaps, from hole to hole (TextLemmas):  *)
(* that reading can be cut where no hole is open, so a template's parts    *)
(* are rendered apart.                                                     *)
(*                                                                         *)
(* deserialize ends the array where the depth of brackets is 0 and reads   *)
(* the nodes before it, one token after the other: scanning a text is      *)
(* scanning its parts (ScannedConcat).  Whatever part of the text is read, *)
(* what stands in a node that is read stood in a template (Fine,           *)
(* ReadIsSaved), though a quote in a model's name may swallow nodes.       *)
(* Without one in the nodes before, a text cut between two nodes or inside *)
(* one (EveryCut) is read as it was written (BetweenRead, InsideRead): the *)
(* prompts before come back, the one that is cut up to a bracket           *)
(* (FirstComeBack).                                                        *)
(***************************************************************************)
EXTENDS Chain, TextLemmas, FiniteSetTheorems, TLAPS

-----------------------------------------------------------------------------
(* Finding and rendering                                                   *)

(* What find returns: the first place from where it looks.                 *)
LEMMA FindFacts ==
  ASSUME NEW S, NEW s \in Seq(S), NEW token, NEW from \in Nat \ {0}
  PROVE  LET p == Find(s, token, from)
         IN  /\ p # 0 => /\ p \in from .. Len(s) /\ s[p] = token
                         /\ \A i \in from .. p - 1 : s[i] # token
             /\ p = 0 => \A i \in from .. Len(s) : s[i] # token
<1> DEFINE places == {i \in from .. Len(s) : s[i] = token}
<1>1. places \in SUBSET Nat /\ 0 \notin places
  OBVIOUS
<1>2. CASE places = {}
  BY <1>2 DEF Find
<1>3. CASE places # {}
  <2> DEFINE p == CHOOSE i \in places : \A j \in places : i <= j
  <2>1. p \in places /\ \A j \in places : p <= j
    <3> HIDE DEF places
    <3>1. \E x \in places : \A y \in places : x <= y
      BY <1>1, <1>3, LeastNatural
    <3> QED BY <3>1
  <2>2. Find(s, token, from) = p
    BY <1>3 DEF Find
  <2> HIDE DEF p
  <2>3. p \in from .. Len(s) /\ s[p] = token /\ p # 0
    BY <1>1, <2>1
  <2>4. \A i \in from .. p - 1 : i \in from .. Len(s) /\ ~(p <= i)
    BY <2>3
  <2>5. \A i \in from .. p - 1 : s[i] # token
    BY <2>1, <2>4
  <2> QED BY <2>2, <2>3, <2>5
<1> QED BY <1>2, <1>3

(* A hole closes after it opens.                                           *)
LEMMA HoleFacts ==
  ASSUME NEW S, NEW t \in Seq(S), NEW from \in Nat \ {0}
  PROVE  LET hole == HoleFrom(t, from)
         IN  hole.close # 0 => /\ hole.open \in from .. Len(t)
                               /\ hole.close \in hole.open + 1 .. Len(t)
<1>1. Len(t) \in Nat /\ from \in Nat /\ from > 0
  OBVIOUS
<1>2. PICK open, close :
        /\ open = Find(t, "{{", from)
        /\ close = IF open = 0 THEN 0 ELSE Find(t, "}}", open)
        /\ HoleFrom(t, from).open = open /\ HoleFrom(t, from).close = close
  BY DEF HoleFrom
<1>3. CASE close # 0
  <2>1. open # 0 /\ close = Find(t, "}}", open)
    BY <1>2, <1>3
  <2>2. open = Find(t, "{{", from)
    BY <1>2
  <2>3. open \in from .. Len(t)
    BY <2>1, <2>2, FindFacts
  <2>4. open \in Nat \ {0}
    BY <1>1, <2>3
  <2>5. close \in open .. Len(t)
    BY <1>3, <2>1, <2>4, FindFacts
  <2>6. close # open
    <3>1. t[open] = "{{"
      BY <2>1, <2>2, FindFacts
    <3>2. t[close] = "}}"
      BY <1>3, <2>1, <2>4, FindFacts
    <3> QED BY <3>1, <3>2
  <2>7. close \in open + 1 .. Len(t)
    BY <1>1, <2>4, <2>5, <2>6
  <2> QED BY <1>2, <2>3, <2>7
<1> QED BY <1>2, <1>3

(* It is the only such place.                                              *)
LEMMA FindIs ==
  ASSUME NEW S, NEW s \in Seq(S), NEW token, NEW from \in Nat \ {0},
         NEW p \in Nat,
         p # 0 => /\ p \in from .. Len(s) /\ s[p] = token
                  /\ \A i \in from .. p - 1 : s[i] # token,
         p = 0 => \A i \in from .. Len(s) : s[i] # token
  PROVE  Find(s, token, from) = p
<1> DEFINE q == Find(s, token, from)
<1>1. Len(s) \in Nat
  OBVIOUS
<1>2. q \in Nat
  <2>1. q = 0 \/ q \in from .. Len(s)
    BY FindFacts
  <2> QED BY <1>1, <2>1
<1>3. /\ q # 0 => /\ q \in from .. Len(s) /\ s[q] = token
                  /\ \A i \in from .. q - 1 : s[i] # token
      /\ q = 0 => \A i \in from .. Len(s) : s[i] # token
  BY FindFacts
<1> HIDE DEF q
<1>4. p = 0 => q = 0
  BY <1>3
<1>5. ASSUME p # 0 PROVE q = p
  <2>1. q # 0
    BY <1>3, <1>5
  <2>2. ~(q < p)
    <3>1. q < p => q \in from .. p - 1
      BY <1>3, <2>1
    <3> QED BY <1>3, <1>5, <2>1, <3>1
  <2>3. ~(p < q)
    <3>1. p < q => p \in from .. q - 1
      BY <1>2, <1>5
    <3> QED BY <1>3, <1>5, <2>1, <3>1
  <2> QED BY <1>2, <2>2, <2>3
<1>6. q = p
  BY <1>4, <1>5
<1> QED BY <1>6 DEF q

(* Where a place of a text is in the part of m tokens after d, 0 if not.   *)
Within(p, d, m) == IF p # 0 /\ p <= d + m THEN p - d ELSE 0

(* Looking in a part of a text is looking in the text, no further than the *)
(* part goes.                                                              *)
LEMMA FindInPart ==
  ASSUME NEW S, NEW t \in Seq(S), NEW u \in Seq(S), NEW d \in Nat, StandsAt(u, t, d),
         NEW token, NEW from \in Nat \ {0}, NEW x \in Nat \ {0}, x = d + from
  PROVE  Find(u, token, from) = Within(Find(t, token, x), d, Len(u))
<1> DEFINE m == Len(u)
           n == Len(t)
<1>1. m \in Nat /\ n \in Nat /\ d \in Nat /\ d + m <= n /\ d + from \in Nat \ {0}
  BY DEF StandsAt
<1>2. \A i \in 1 .. m : u[i] = t[d + i]
  BY DEF StandsAt
<1>3. PICK q : q = Find(t, token, x)
  OBVIOUS
<1>4. /\ q # 0 => /\ q \in d + from .. n /\ t[q] = token
                  /\ \A i \in d + from .. q - 1 : t[i] # token
      /\ q = 0 => \A i \in d + from .. n : t[i] # token
  BY <1>1, <1>3, FindFacts
<1> HIDE DEF m, n
<1>5. CASE q # 0 /\ q <= d + m
  <2>1. PICK p \in from .. m : p = q - d /\ p # 0
    BY <1>1, <1>4, <1>5
  <2>2. u[p] = token
    <3>1. p \in 1 .. m /\ d + p = q
      BY <1>1, <1>4, <1>5, <2>1
    <3> QED BY <1>2, <1>4, <1>5, <3>1
  <2>3. ASSUME NEW i \in from .. p - 1 PROVE u[i] # token
    <3>1. i \in 1 .. m /\ d + i \in d + from .. q - 1
      BY <1>1, <1>4, <1>5, <2>1
    <3> QED BY <1>2, <1>4, <1>5, <3>1
  <2>4. p \in Nat /\ p \in from .. Len(u)
    BY <1>1, <2>1 DEF m
  <2>5. Find(u, token, from) = p
    BY <2>1, <2>2, <2>3, <2>4, FindIs
  <2> QED BY <1>3, <1>5, <2>1, <2>5 DEF m, Within
<1>6. CASE ~(q # 0 /\ q <= d + m)
  <2>1. ASSUME NEW i \in from .. m PROVE u[i] # token
    <3>1. i \in 1 .. m /\ d + i \in d + from .. n
      BY <1>1
    <3>2. q # 0 => d + i \in d + from .. q - 1
      BY <1>1, <1>4, <1>6
    <3>3. t[d + i] # token
      BY <1>4, <3>1, <3>2
    <3> QED BY <1>2, <3>1, <3>3
  <2>2. Find(u, token, from) = 0
    BY <2>1, FindIs DEF m
  <2> QED BY <1>3, <1>6, <2>2 DEF m, Within
<1> QED BY <1>5, <1>6

(* The holes of a part of a text are those of the text in that part.       *)
LEMMA HoleInPart ==
  ASSUME NEW S, NEW t \in Seq(S), NEW u \in Seq(S), NEW d \in Nat, StandsAt(u, t, d),
         NEW from \in Nat \ {0}, NEW x \in Nat \ {0}, x = d + from
  PROVE  LET hole == HoleFrom(t, x)
             same == HoleFrom(u, from)
         IN  IF hole.close # 0 /\ hole.close <= d + Len(u)
             THEN same.close = hole.close - d /\ same.open = hole.open - d
             ELSE same.close = 0
<1>1. Len(u) \in Nat /\ d \in Nat /\ d + from \in Nat \ {0} /\ Len(t) \in Nat /\ d + Len(u) <= Len(t)
  BY DEF StandsAt
<1>2. PICK open, close :
        /\ open = Find(t, "{{", x)
        /\ close = IF open = 0 THEN 0 ELSE Find(t, "}}", open)
        /\ HoleFrom(t, x).open = open /\ HoleFrom(t, x).close = close
  BY DEF HoleFrom
<1>3. PICK o, c :
        /\ o = Find(u, "{{", from)
        /\ c = IF o = 0 THEN 0 ELSE Find(u, "}}", o)
        /\ HoleFrom(u, from).open = o /\ HoleFrom(u, from).close = c
  BY DEF HoleFrom
<1>4. open = Find(t, "{{", x)
  BY <1>2
<1>5. PICK left, right : left = "{{" /\ right = "}}"
  OBVIOUS
<1>6. o = Within(open, d, Len(u))
  <2>1. open = Find(t, left, x) /\ o = Find(u, left, from)
    BY <1>2, <1>3, <1>5
  <2> QED BY <2>1, FindInPart
<1>7. close # 0 => open # 0 /\ close \in open + 1 .. Len(t)
  BY <1>1, <1>2, HoleFacts
<1>8. open # 0 => open \in d + from .. Len(t)
  <2>1. open # 0 => open \in x .. Len(t)
    BY <1>4, FindFacts
  <2> QED BY <2>1
<1>9. CASE o = 0
  <2>1. c = 0
    BY <1>3, <1>9
  <2>2. ~(close # 0 /\ close <= d + Len(u))
    BY <1>1, <1>6, <1>7, <1>8, <1>9 DEF Within
  <2> QED BY <1>2, <1>3, <2>1, <2>2
<1>10. CASE o # 0
  <2>1. open # 0 /\ open <= d + Len(u) /\ o = open - d
    BY <1>6, <1>10 DEF Within
  <2>2. o \in Nat \ {0} /\ d + o = open
    BY <1>1, <1>8, <1>10, <2>1
  <2>3. c = Within(close, d, Len(u))
    <3>1. c = Find(u, right, o) /\ close = Find(t, right, open)
      BY <1>2, <1>3, <1>10, <1>5, <2>1, <2>2
    <3>2. open \in Nat \ {0} /\ open = d + o
      BY <1>1, <2>2
    <3> QED BY <2>2, <3>1, <3>2, FindInPart
  <2> QED BY <1>2, <1>3, <2>1, <2>2, <2>3 DEF Within
<1> QED BY <1>9, <1>10

(* A part of a part is a part.                                             *)
LEMMA PartOfPart ==
  ASSUME NEW S, NEW t \in Seq(S), NEW u \in Seq(S), NEW d \in Nat, StandsAt(u, t, d),
         NEW a \in Nat \ {0}, NEW b \in Nat, b <= Len(u),
         NEW x \in Nat \ {0}, NEW y \in Nat, x = d + a, y = d + b
  PROVE  SubSeq(u, a, b) = SubSeq(t, x, y) /\ SubSeq(u, a, b) \in Seq(S)
<1>1. Len(u) \in Nat /\ d \in Nat /\ Len(t) \in Nat /\ d + Len(u) <= Len(t)
  BY DEF StandsAt
<1>2. \A i \in a .. b : i \in 1 .. Len(u)
  BY <1>1
<1>3. \A i \in a .. b : u[i] \in S /\ u[i] = t[d + i]
  BY <1>2 DEF StandsAt
<1>4. /\ SubSeq(u, a, b) \in Seq(S)
      /\ Len(SubSeq(u, a, b)) = IF a <= b THEN b - a + 1 ELSE 0
      /\ \A i \in 1 .. b - a + 1 : SubSeq(u, a, b)[i] = u[a + i - 1]
  <2>1. a \in Int /\ b \in Int
    OBVIOUS
  <2> QED BY <1>3, <2>1, SubSeqProperties
<1>5. x \in Int /\ y \in Int /\ x = d + a /\ y = d + b
  BY <1>1
<1>6. \A i \in x .. y : t[i] \in S
  <2>1. \A i \in x .. y : i \in 1 .. Len(t)
    BY <1>1, <1>5
  <2> QED BY <2>1
<1>7. /\ SubSeq(t, x, y) \in Seq(S)
      /\ Len(SubSeq(t, x, y)) = IF x <= y THEN y - x + 1 ELSE 0
      /\ \A i \in 1 .. y - x + 1 : SubSeq(t, x, y)[i] = t[x + i - 1]
  BY <1>5, <1>6, SubSeqProperties
<1>8. y - x + 1 = b - a + 1 /\ (x <= y <=> a <= b)
  BY <1>1, <1>5
<1>9. PICK v \in Seq(S), w \in Seq(S) : v = SubSeq(u, a, b) /\ w = SubSeq(t, x, y)
  BY <1>4, <1>7
<1>10. PICK k \in Nat : Len(v) = k /\ Len(w) = k /\ (k = b - a + 1 \/ k = 0)
  <2>1. Len(v) = Len(w)
    BY <1>4, <1>7, <1>8, <1>9
  <2>2. Len(v) = b - a + 1 \/ Len(v) = 0
    BY <1>4, <1>9
  <2> QED BY <2>1, <2>2
<1>11. ASSUME NEW i \in 1 .. k PROVE v[i] = w[i]
  <2>1. i \in 1 .. b - a + 1 /\ a + i - 1 \in a .. b /\ x + i - 1 = d + (a + i - 1)
    BY <1>1, <1>5, <1>10
  <2>2. v[i] = u[a + i - 1] /\ w[i] = t[x + i - 1]
    BY <1>4, <1>7, <1>8, <1>9, <2>1
  <2> QED BY <1>3, <2>1, <2>2
<1>12. v = w
  <2>1. Len(v) = Len(w) /\ \A i \in 1 .. Len(v) : v[i] = w[i]
    BY <1>10, <1>11
  <2> QED BY ONLY <2>1, v \in Seq(S), w \in Seq(S), SeqEqual
<1> QED BY <1>5, <1>9, <1>12

(* SubSeq gives such a part.                                               *)
LEMMA SubSeqStands ==
  ASSUME NEW S, NEW t \in Seq(S), NEW a \in Nat \ {0}, NEW b \in Nat, b <= Len(t), a <= b + 1
  PROVE  /\ SubSeq(t, a, b) \in Seq(S) /\ Len(SubSeq(t, a, b)) = b - a + 1
         /\ StandsAt(SubSeq(t, a, b), t, a - 1)
<1>1. Len(t) \in Nat /\ a \in Int /\ b \in Int
  OBVIOUS
<1>2. \A i \in a .. b : t[i] \in S
  <2>1. \A i \in a .. b : i \in 1 .. Len(t)
    BY <1>1
  <2> QED BY <2>1
<1>3. /\ SubSeq(t, a, b) \in Seq(S)
      /\ Len(SubSeq(t, a, b)) = IF a <= b THEN b - a + 1 ELSE 0
      /\ \A i \in 1 .. b - a + 1 : SubSeq(t, a, b)[i] = t[a + i - 1]
  BY <1>1, <1>2, SubSeqProperties
<1>4. (IF a <= b THEN b - a + 1 ELSE 0) = b - a + 1
  BY <1>1
<1>5. PICK u \in Seq(S) : u = SubSeq(t, a, b)
  BY <1>3
<1>6. Len(u) = b - a + 1
  BY <1>3, <1>4, <1>5
<1>7. a - 1 \in Nat /\ a - 1 + Len(u) <= Len(t)
  BY <1>1, <1>6
<1>8. ASSUME NEW i \in 1 .. Len(u) PROVE t[a - 1 + i] = u[i]
  <2>1. i \in 1 .. b - a + 1 /\ a + i - 1 = a - 1 + i
    BY <1>6
  <2> QED BY <1>3, <1>5, <2>1
<1>9. StandsAt(u, t, a - 1)
  BY <1>7, <1>8 DEF StandsAt
<1> QED BY <1>5, <1>6, <1>9

(* A name is a text.                                                       *)
LEMMA TrimTypes ==
  ASSUME NEW S, NEW s \in Seq(S)
  PROVE  Trim(s) \in Seq(S)
<1> DEFINE black == {i \in DOMAIN s : s[i] \notin White}
           first == CHOOSE i \in black : \A j \in black : i <= j
           last == CHOOSE i \in black : \A j \in black : i >= j
           n == Len(s)
<1>1. n \in Nat /\ black \in SUBSET (1 .. n)
  <2>1. DOMAIN s = 1 .. n /\ n \in Nat
    OBVIOUS
  <2>2. black \in SUBSET DOMAIN s
    OBVIOUS
  <2> HIDE DEF black, n
  <2> QED BY <2>1, <2>2
<1>2. CASE black = {}
  <2>1. <<>> \in Seq(S)
    OBVIOUS
  <2> QED BY <1>2, <2>1 DEF Trim
<1>3. CASE black # {}
  <2> HIDE DEF black
  <2>1. first \in black
    <3>1. black \in SUBSET Nat
      BY <1>1
    <3>2. \E i \in black : \A j \in black : i <= j
      BY <1>3, <3>1, LeastNatural
    <3> QED BY <3>2
  <2>2. last \in black
    <3> DEFINE mirror == {n - i : i \in black}
    <3>1. mirror \in SUBSET Nat /\ mirror # {}
      <4>1. \A i \in black : n - i \in Nat
        <5> HIDE DEF n
        <5> QED BY <1>1
      <4>2. \E i \in black : TRUE
        BY <1>3
      <4> QED BY <4>1, <4>2
    <3>2. PICK x \in mirror : \A y \in mirror : x <= y
      <4> HIDE DEF mirror
      <4> QED BY <3>1, LeastNatural
    <3>3. PICK i \in black : x = n - i
      OBVIOUS
    <3>4. ASSUME NEW j \in black PROVE i >= j
      <4>1. n - i <= n - j
        BY <3>2, <3>3
      <4> QED BY <1>1, <4>1
    <3> QED BY <3>4
  <2> HIDE DEF first, last
  <2>3. first \in 1 .. n /\ last \in 1 .. n
    BY <1>1, <2>1, <2>2
  <2>4. \A i \in first .. last : i \in 1 .. n
    BY <1>1, <2>3
  <2>5. \A i \in first .. last : s[i] \in S
    BY <2>4
  <2>6. SubSeq(s, first, last) \in Seq(S)
    <3>1. first \in Int /\ last \in Int
      BY <1>1, <2>3
    <3> QED BY <2>5, <3>1, SubSeqProperties
  <2> QED BY <1>3, <2>6 DEF Trim, black, first, last
<1> QED BY <1>2, <1>3
-----------------------------------------------------------------------------
(* The two passes of render, as reading in leaps                           *)

(* The values of the variables are texts.                                  *)
ValuesIn(vs, S) == \A v \in DOMAIN vs : vs[v] \in Seq(S)

(* What replaces a name is the value it is bound to, or nothing.           *)
LEMMA ReplacementTypes ==
  ASSUME NEW S, NEW vs, ValuesIn(vs, S)
  PROVE  \A name : Replacement(vs, name) \in Seq(S)
<1> SUFFICES ASSUME NEW name PROVE Replacement(vs, name) \in Seq(S)
  OBVIOUS
<1>1. CASE Bound(vs, name)
  <2> DEFINE v == CHOOSE v \in DOMAIN vs : name = NameText(v)
  <2>1. v \in DOMAIN vs
    BY <1>1 DEF Bound
  <2>2. Replacement(vs, name) = vs[v]
    BY <1>1 DEF Replacement
  <2> HIDE DEF v
  <2> QED BY <2>1, <2>2 DEF ValuesIn
<1>2. CASE ~Bound(vs, name)
  BY <1>2 DEF Replacement
<1> QED BY <1>1, <1>2

(* Names are told apart by their texts.                                    *)
LEMMA NamesApart ==
  ASSUME NEW v, NEW w, NameText(v) = NameText(w)
  PROVE  v = w
<1>1. (IF v = EmptyName THEN <<>> ELSE <<v>>) = (IF w = EmptyName THEN <<>> ELSE <<w>>)
  BY DEF NameText
<1> QED BY <1>1

(* A bound name is replaced by its own value.                              *)
LEMMA NameIsReplaced ==
  ASSUME NEW vs, NEW name \in DOMAIN vs
  PROVE  Bound(vs, NameText(name)) /\ Replacement(vs, NameText(name)) = vs[name]
<1>1. Bound(vs, NameText(name))
  BY DEF Bound
<1>2. (CHOOSE v \in DOMAIN vs : NameText(name) = NameText(v)) = name
  BY NamesApart
<1> QED BY <1>1, <1>2 DEF Replacement

ConcatOn(S) == [p \in Seq(S) \X Seq(S) |-> p[1] \o p[2]]
UnionOn(N) == [p \in (SUBSET N) \X (SUBSET N) |-> p[1] \cup p[2]]

(* Joining texts.                                                          *)
LEMMA ConcatJoins ==
  ASSUME NEW S
  PROVE  /\ Joins(ConcatOn(S), Seq(S))
         /\ \A x, y \in Seq(S) : ConcatOn(S)[<<x, y>>] = x \o y
         /\ Associates(ConcatOn(S), Seq(S))
<1> DEFINE T == Seq(S)
<1>1. \A x, y \in T : x \o y \in T
  BY ConcatProperties
<1>2. \A p \in T \X T : p[1] \o p[2] \in T
  BY <1>1
<1>3. Joins(ConcatOn(S), T)
  BY <1>2 DEF Joins, ConcatOn
<1>4. \A x, y \in T : ConcatOn(S)[<<x, y>>] = x \o y
  BY DEF ConcatOn
<1>5. ASSUME NEW x \in T, NEW y \in T, NEW z \in T
      PROVE  ConcatOn(S)[<<ConcatOn(S)[<<x, y>>], z>>]
               = ConcatOn(S)[<<x, ConcatOn(S)[<<y, z>>]>>]
  <2>1. PICK xy \in T, yz \in T : xy = x \o y /\ yz = y \o z
    BY <1>1
  <2>2. xy \o z = x \o yz
    BY <2>1, Associative
  <2>3. PICK f : f = ConcatOn(S)
    OBVIOUS
  <2>4. \A a, b \in T : f[<<a, b>>] = a \o b
    BY <1>4, <2>3
  <2>5. f[<<x, y>>] = xy /\ f[<<y, z>>] = yz /\ f[<<xy, z>>] = xy \o z /\ f[<<x, yz>>] = x \o yz
    BY ONLY <2>1, <2>4, x \in T, y \in T, z \in T, xy \in T, yz \in T
  <2> HIDE DEF T
  <2> QED BY ONLY <2>2, <2>3, <2>5
<1> QED BY <1>3, <1>4, <1>5 DEF Associates

(* Joining sets of names.                                                  *)
LEMMA UnionJoins ==
  ASSUME NEW N
  PROVE  /\ Joins(UnionOn(N), SUBSET N)
         /\ \A x, y \in SUBSET N : UnionOn(N)[<<x, y>>] = x \cup y
         /\ Associates(UnionOn(N), SUBSET N)
<1> DEFINE T == SUBSET N
<1>1. \A p \in T \X T : p[1] \cup p[2] \in T
  OBVIOUS
<1>2. Joins(UnionOn(N), T)
  BY <1>1 DEF Joins, UnionOn
<1>3. \A x, y \in T : UnionOn(N)[<<x, y>>] = x \cup y
  BY DEF UnionOn
<1>4. ASSUME NEW x \in T, NEW y \in T, NEW z \in T
      PROVE  UnionOn(N)[<<UnionOn(N)[<<x, y>>], z>>]
               = UnionOn(N)[<<x, UnionOn(N)[<<y, z>>]>>]
  <2>1. PICK xy \in T, yz \in T : xy = x \cup y /\ yz = y \cup z
    OBVIOUS
  <2>2. xy \cup z = x \cup yz
    BY <2>1
  <2>3. UnionOn(N)[<<x, y>>] = xy /\ UnionOn(N)[<<y, z>>] = yz
    BY <1>3, <2>1
  <2>4. UnionOn(N)[<<xy, z>>] = xy \cup z /\ UnionOn(N)[<<x, yz>>] = x \cup yz
    BY <1>3
  <2> QED BY <2>2, <2>3, <2>4
<1> QED BY <1>2, <1>3, <1>4 DEF Associates

NextHole(t) ==
  [i \in 1 .. Len(t) + 1 |->
     IF HoleFrom(t, i).close = 0 THEN 0 ELSE HoleFrom(t, i).close + 1]

(* What stands before a hole, with what replaces it, or all that is left.  *)
Chunks(t, vs) ==
  [i \in 1 .. Len(t) + 1 |->
     IF HoleFrom(t, i).close = 0 THEN SubSeq(t, i, Len(t))
     ELSE SubSeq(t, i, HoleFrom(t, i).open - 1)
          \o Replacement(vs, NameIn(t, HoleFrom(t, i)))]

NamesAt(t) ==
  [i \in 1 .. Len(t) + 1 |->
     IF HoleFrom(t, i).close = 0 THEN {} ELSE {NameIn(t, HoleFrom(t, i))}]

(* The holes lead on, to the end of the text at most.                      *)
LEMMA HolesLeadOn ==
  ASSUME NEW S, NEW t \in Seq(S)
  PROVE  /\ Len(t) + 1 \in Nat /\ 1 \in 1 .. Len(t) + 1
         /\ NextHole(t) \in [1 .. Len(t) + 1 -> Nat]
         /\ \A i \in 1 .. Len(t) + 1 :
              NextHole(t)[i] # 0 => NextHole(t)[i] \in i + 1 .. Len(t) + 1
<1>1. Len(t) \in Nat
  OBVIOUS
<1>2. PICK n \in Nat : n = Len(t) + 1
  BY <1>1
<1>3. ASSUME NEW i \in 1 .. n, NEW c, c = HoleFrom(t, i).close, c # 0
      PROVE  c + 1 \in Nat /\ c + 1 \in i + 1 .. n
  <2>1. PICK o : o = HoleFrom(t, i).open
    OBVIOUS
  <2>2. i \in Nat \ {0}
    OBVIOUS
  <2>3. o \in i .. Len(t) /\ c \in o + 1 .. Len(t)
    BY <1>3, <2>1, <2>2, HoleFacts
  <2> QED BY <1>1, <1>2, <2>3
<1>4. ASSUME NEW i \in 1 .. n
      PROVE  /\ NextHole(t)[i] \in Nat
             /\ NextHole(t)[i] # 0 => NextHole(t)[i] \in i + 1 .. n
  <2>1. PICK c : c = HoleFrom(t, i).close
    OBVIOUS
  <2>2. NextHole(t)[i] = IF c = 0 THEN 0 ELSE c + 1
    BY <1>2, <2>1 DEF NextHole
  <2> QED BY <1>3, <2>1, <2>2
<1>5. NextHole(t) \in [1 .. n -> Nat]
  <2>1. NextHole(t) = [i \in 1 .. n |-> NextHole(t)[i]]
    BY <1>2 DEF NextHole
  <2> QED BY <1>4, <2>1
<1> QED BY <1>2, <1>4, <1>5

(* The second pass, read in leaps.                                         *)
RendersBy(f, t, vs, S) ==
  /\ Leaps(f, Len(t) + 1, NextHole(t), Chunks(t, vs), ConcatOn(S))
  /\ ReadIn(f, Len(t) + 1, Seq(S))
  /\ Render(t, vs) = f[1]

(* render writes what it does so.                                          *)
LEMMA RenderLeaps ==
  ASSUME NEW S, NEW t \in Seq(S), NEW vs, ValuesIn(vs, S)
  PROVE  /\ LeapForward(Seq(S), Len(t) + 1, NextHole(t), Chunks(t, vs), ConcatOn(S))
         /\ \E f : RendersBy(f, t, vs, S)
<1> DEFINE n == Len(t) + 1
           hole(i) == HoleFrom(t, i)
           Eq(f) == f = [i \in 1 .. n |->
                           IF hole(i).close = 0 THEN SubSeq(t, i, Len(t))
                           ELSE SubSeq(t, i, hole(i).open - 1)
                                \o Replacement(vs, NameIn(t, hole(i)))
                                \o f[hole(i).close + 1]]
<1> DEFINE next == NextHole(t)
           piece == Chunks(t, vs)
           join == ConcatOn(S)
<1>1. n \in Nat /\ 1 \in 1 .. n /\ next \in [1 .. n -> Nat]
      /\ \A i \in 1 .. n : next[i] # 0 => next[i] \in i + 1 .. n
  BY HolesLeadOn
<1>2. \A name : Replacement(vs, name) \in Seq(S)
  BY ReplacementTypes
<1>3. Render(t, vs) = (CHOOSE f : Eq(f))[1]
  BY DEF Render
<1>4. \A i \in 1 .. n : hole(i).close # 0 => /\ hole(i).open \in i .. Len(t)
                                             /\ hole(i).close \in hole(i).open + 1 .. Len(t)
  BY HoleFacts
<1>5. ASSUME NEW i \in 1 .. n
      PROVE  /\ piece[i] = IF hole(i).close = 0 THEN SubSeq(t, i, Len(t))
                           ELSE SubSeq(t, i, hole(i).open - 1)
                                \o Replacement(vs, NameIn(t, hole(i)))
             /\ next[i] = IF hole(i).close = 0 THEN 0 ELSE hole(i).close + 1
             /\ hole(i).close # 0 => hole(i).close + 1 # 0
  <2>1. hole(i).close # 0 => hole(i).close + 1 # 0
    BY <1>4
  <2> QED BY <2>1 DEF Chunks, NextHole
<1>6. ASSUME NEW i \in 1 .. n PROVE piece[i] \in Seq(S)
  <2>1. SubSeq(t, i, Len(t)) \in Seq(S)
    OBVIOUS
  <2>2. hole(i).close # 0 => SubSeq(t, i, hole(i).open - 1) \in Seq(S)
    BY <1>4
  <2> HIDE DEF piece
  <2>3. CASE hole(i).close = 0
    BY <1>5, <2>1, <2>3
  <2>4. CASE hole(i).close # 0
    <3>1. PICK x \in Seq(S), y \in Seq(S) :
            x = SubSeq(t, i, hole(i).open - 1) /\ y = Replacement(vs, NameIn(t, hole(i)))
      BY <1>2, <2>2, <2>4
    <3>2. piece[i] = x \o y
      BY <1>5, <2>4, <3>1
    <3> QED BY <3>2
  <2> QED BY <2>3, <2>4
<1>7. piece \in [1 .. n -> Seq(S)]
  <2>1. piece = [i \in 1 .. n |-> piece[i]]
    BY DEF Chunks
  <2> HIDE DEF piece
  <2> QED BY <1>6, <2>1
<1>8. Joins(join, Seq(S)) /\ \A x, y \in Seq(S) : join[<<x, y>>] = x \o y
  BY ConcatJoins
<1> HIDE DEF hole, next, piece, join, n
<1>9. LeapForward(Seq(S), n, next, piece, join)
  BY <1>1, <1>7, <1>8 DEF LeapForward
<1>10. ASSUME NEW f, \A i \in 1 .. n : f[i] \in Seq(S) PROVE Eq(f) <=> Leaps(f, n, next, piece, join)
  <2>1. ASSUME NEW i \in 1 .. n
        PROVE  From(f, i, next, piece, join)
                 = IF hole(i).close = 0 THEN SubSeq(t, i, Len(t))
                   ELSE SubSeq(t, i, hole(i).open - 1)
                        \o Replacement(vs, NameIn(t, hole(i)))
                        \o f[hole(i).close + 1]
    <3>1. CASE hole(i).close = 0
      BY <1>5, <3>1 DEF From
    <3>2. CASE hole(i).close # 0
      <4>1. next[i] = hole(i).close + 1 /\ next[i] # 0 /\ next[i] \in 1 .. n
        <5>1. next[i] = hole(i).close + 1 /\ next[i] # 0
          BY <1>5, <3>2
        <5> QED BY <1>1, <5>1
      <4>2. PICK x \in Seq(S), y \in Seq(S) : x = piece[i] /\ y = f[next[i]]
        BY <1>6, <1>10, <4>1
      <4>3. From(f, i, next, piece, join) = x \o y
        BY <1>8, <4>1, <4>2 DEF From
      <4> QED BY <1>5, <3>2, <4>1, <4>2, <4>3
    <3> QED BY <3>1, <3>2
  <2> QED BY <2>1 DEF Leaps
<1>11. PICK f : /\ Leaps(f, n, next, piece, join)
                /\ \A i \in 1 .. n : f[i] \in Seq(S)
                /\ \A h : Leaps(h, n, next, piece, join) => h = f
  BY ONLY <1>9, LeapsDefine
<1>12. ASSUME NEW h, Eq(h) PROVE h = f
  <2>1. ASSUME NEW i \in 1 .. n, next[i] = 0 PROVE h[i] \in Seq(S)
    <3>1. hole(i).close = 0 /\ h[i] = SubSeq(t, i, Len(t))
      BY <1>5, <1>12, <2>1
    <3> QED BY <1>5, <1>6, <3>1
  <2>2. ASSUME NEW i \in 1 .. n, next[i] # 0, h[next[i]] \in Seq(S) PROVE h[i] \in Seq(S)
    <3>1. hole(i).close # 0 /\ next[i] = hole(i).close + 1
      BY <1>5, <2>2
    <3>2. h[i] = piece[i] \o h[next[i]]
      BY <1>5, <1>12, <3>1
    <3> QED BY <1>6, <2>2, <3>2
  <2>3. \A i \in 1 .. n : h[i] \in Seq(S)
    <3> HIDE DEF Eq
    <3> QED BY <1>9, <2>1, <2>2, LeapsTyped
  <2> HIDE DEF Eq
  <2> QED BY <1>10, <1>11, <1>12, <2>3
<1>13. (CHOOSE h : Eq(h)) = f
  <2>1. Eq(f)
    <3> HIDE DEF Eq
    <3> QED BY <1>10, <1>11
  <2> HIDE DEF Eq
  <2> QED BY <1>12, <2>1
<1> QED BY <1>1, <1>3, <1>9, <1>11, <1>13 DEF n, next, piece, join, RendersBy, ReadIn

(* Nothing is rendered that was not in the template or its variables.      *)
LEMMA RenderTypes ==
  ASSUME NEW S, NEW t \in Seq(S), NEW vs, \A n \in DOMAIN vs : vs[n] \in Seq(S)
  PROVE  Render(t, vs) \in Seq(S)
<1>1. ValuesIn(vs, S)
  BY DEF ValuesIn
<1>2. PICK f : RendersBy(f, t, vs, S)
  BY <1>1, RenderLeaps
<1>3. 1 \in 1 .. Len(t) + 1
  OBVIOUS
<1> QED BY <1>2, <1>3 DEF RendersBy, ReadIn

(* A name is a text.                                                       *)
LEMMA NameTypes ==
  ASSUME NEW S, NEW t \in Seq(S), NEW i \in Nat \ {0}, HoleFrom(t, i).close # 0
  PROVE  NameIn(t, HoleFrom(t, i)) \in Seq(S)
<1>1. PICK o, c : o = HoleFrom(t, i).open /\ c = HoleFrom(t, i).close
  OBVIOUS
<1>2. o \in i .. Len(t) /\ c \in o + 1 .. Len(t) /\ Len(t) \in Nat
  BY <1>1, HoleFacts
<1>3. o + 1 \in Int /\ c - 1 \in Int /\ \A j \in o + 1 .. c - 1 : j \in 1 .. Len(t)
  BY <1>2
<1>4. \A j \in o + 1 .. c - 1 : t[j] \in S
  BY <1>3
<1>5. SubSeq(t, o + 1, c - 1) \in Seq(S)
  BY <1>3, <1>4, SubSeqProperties
<1>6. Trim(SubSeq(t, o + 1, c - 1)) \in Seq(S)
  BY <1>5, TrimTypes
<1> QED BY <1>1, <1>6 DEF NameIn

(* The first pass, read in leaps; N are the names it may find.             *)
AsksBy(f, t, N) ==
  /\ Leaps(f, Len(t) + 1, NextHole(t), NamesAt(t), UnionOn(N))
  /\ ReadIn(f, Len(t) + 1, SUBSET N)
  /\ Required(t) = f[1] \ {<<>>}

(* And collects the names so.                                              *)
LEMMA NamesLeaps ==
  ASSUME NEW S, NEW t \in Seq(S), NEW N, N = Seq(S)
  PROVE  /\ LeapForward(SUBSET N, Len(t) + 1, NextHole(t), NamesAt(t), UnionOn(N))
         /\ \E f : AsksBy(f, t, N)
<1> DEFINE n == Len(t) + 1
           hole(i) == HoleFrom(t, i)
           Eq(f) == f = [i \in 1 .. n |->
                           IF hole(i).close = 0 THEN {}
                           ELSE {NameIn(t, hole(i))} \cup f[hole(i).close + 1]]
           next == NextHole(t)
           piece == NamesAt(t)
           join == UnionOn(N)
<1>1. n \in Nat /\ 1 \in 1 .. n /\ next \in [1 .. n -> Nat]
      /\ \A i \in 1 .. n : next[i] # 0 => next[i] \in i + 1 .. n
  BY HolesLeadOn
<1>2. Required(t) = (CHOOSE f : Eq(f))[1] \ {<<>>}
  BY DEF Required
<1>3. \A i \in 1 .. n : hole(i).close # 0 => NameIn(t, hole(i)) \in N
  BY NameTypes
<1>4. \A i \in 1 .. n : hole(i).close # 0 => /\ hole(i).open \in i .. Len(t)
                                             /\ hole(i).close \in hole(i).open + 1 .. Len(t)
  BY HoleFacts
<1>5. ASSUME NEW i \in 1 .. n
      PROVE  /\ piece[i] = IF hole(i).close = 0 THEN {} ELSE {NameIn(t, hole(i))}
             /\ next[i] = IF hole(i).close = 0 THEN 0 ELSE hole(i).close + 1
             /\ hole(i).close # 0 => hole(i).close + 1 # 0
  <2>1. hole(i).close # 0 => hole(i).close + 1 # 0
    BY <1>4
  <2> QED BY <2>1 DEF NamesAt, NextHole
<1> HIDE DEF hole
<1>6. ASSUME NEW i \in 1 .. n PROVE piece[i] \in SUBSET N
  <2> HIDE DEF piece, n
  <2> QED BY <1>3, <1>5
<1>7. piece \in [1 .. n -> SUBSET N]
  <2>1. piece = [i \in 1 .. n |-> piece[i]]
    BY DEF NamesAt
  <2> HIDE DEF piece
  <2> QED BY <1>6, <2>1
<1>8. Joins(join, SUBSET N) /\ \A x, y \in SUBSET N : join[<<x, y>>] = x \cup y
  <2>1. Joins(UnionOn(N), SUBSET N)
    BY UnionJoins
  <2>2. \A x, y \in SUBSET N : UnionOn(N)[<<x, y>>] = x \cup y
    BY DEF UnionOn
  <2> QED BY <2>1, <2>2
<1> HIDE DEF next, piece, join, n
<1>9. LeapForward(SUBSET N, n, next, piece, join)
  BY <1>1, <1>7, <1>8 DEF LeapForward
<1>10. ASSUME NEW f, \A i \in 1 .. n : f[i] \in SUBSET N PROVE Eq(f) <=> Leaps(f, n, next, piece, join)
  <2>1. ASSUME NEW i \in 1 .. n
        PROVE  From(f, i, next, piece, join)
                 = IF hole(i).close = 0 THEN {}
                   ELSE {NameIn(t, hole(i))} \cup f[hole(i).close + 1]
    <3>1. CASE hole(i).close = 0
      BY <1>5, <3>1 DEF From
    <3>2. CASE hole(i).close # 0
      <4>1. next[i] = hole(i).close + 1 /\ next[i] # 0 /\ next[i] \in 1 .. n
        <5>1. next[i] = hole(i).close + 1 /\ next[i] # 0
          BY <1>5, <3>2
        <5> QED BY <1>1, <5>1
      <4>2. PICK x \in SUBSET N, y \in SUBSET N : x = piece[i] /\ y = f[next[i]]
        BY <1>6, <1>10, <4>1
      <4>3. From(f, i, next, piece, join) = x \cup y
        BY <1>8, <4>1, <4>2 DEF From
      <4> QED BY <1>5, <3>2, <4>1, <4>2, <4>3
    <3> QED BY <3>1, <3>2
  <2> QED BY <2>1 DEF Leaps
<1>11. PICK f : /\ Leaps(f, n, next, piece, join)
                /\ \A i \in 1 .. n : f[i] \in SUBSET N
                /\ \A h : Leaps(h, n, next, piece, join) => h = f
  BY ONLY <1>9, LeapsDefine
<1>12. ASSUME NEW h, Eq(h) PROVE h = f
  <2>1. ASSUME NEW i \in 1 .. n, next[i] = 0 PROVE h[i] \in SUBSET N
    BY <1>5, <1>12, <2>1
  <2>2. ASSUME NEW i \in 1 .. n, next[i] # 0, h[next[i]] \in SUBSET N PROVE h[i] \in SUBSET N
    <3>1. hole(i).close # 0 /\ next[i] = hole(i).close + 1
      BY <1>5, <2>2
    <3>2. h[i] = piece[i] \cup h[next[i]]
      BY <1>5, <1>12, <3>1
    <3> QED BY <1>6, <2>2, <3>2
  <2>3. \A i \in 1 .. n : h[i] \in SUBSET N
    <3> HIDE DEF Eq
    <3> QED BY <1>9, <2>1, <2>2, LeapsTyped
  <2> HIDE DEF Eq
  <2> QED BY <1>10, <1>11, <1>12, <2>3
<1>13. (CHOOSE h : Eq(h)) = f
  <2>1. Eq(f)
    <3> HIDE DEF Eq
    <3> QED BY <1>10, <1>11
  <2> HIDE DEF Eq
  <2> QED BY <1>12, <2>1
<1> QED BY <1>1, <1>2, <1>9, <1>11, <1>13 DEF n, next, piece, join, AsksBy, ReadIn

-----------------------------------------------------------------------------
(* Cutting a template                                                      *)

(* In the first c tokens every hole that opens closes.                     *)
LEMMA NothingOpens ==
  ASSUME NEW S, NEW p \in Seq(S), Closed(p), NEW i \in 1 .. Len(p) + 1,
         HoleFrom(p, i).close = 0
  PROVE  \A j \in i .. Len(p) : p[j] # "{{"
<1>1. PICK left, right : left = "{{" /\ right = "}}"
  OBVIOUS
<1>2. i \in Nat \ {0} /\ Len(p) \in Nat
  OBVIOUS
<1>3. PICK o, c : o = Find(p, left, i) /\ (o # 0 => c = Find(p, right, o)) /\ (o # 0 => c = 0)
  BY <1>1 DEF HoleFrom
<1>4. CASE o = 0
  <2>1. Find(p, left, i) = 0
    BY <1>3, <1>4
  <2>2. \A j \in i .. Len(p) : p[j] # left
    BY <1>2, <2>1, FindFacts
  <2> QED BY <1>1, <2>2
<1>5. CASE o # 0
  <2>1. o \in i .. Len(p) /\ p[o] = left
    BY <1>2, <1>3, <1>5, FindFacts
  <2>2. o \in Nat \ {0} /\ o \in DOMAIN p
    BY <1>2, <2>1
  <2>3. PICK j \in o + 1 .. Len(p) : p[j] = right
    BY <1>1, <2>1, <2>2 DEF Closed
  <2>4. \A k \in o .. Len(p) : p[k] # right
    <3>1. Find(p, right, o) = 0
      BY <1>3, <1>5
    <3> QED BY <2>2, <3>1, FindFacts
  <2>5. j \in o .. Len(p)
    BY <2>2
  <2> QED BY <2>3, <2>4, <2>5
<1> QED BY <1>4, <1>5

(* The search may begin after such tokens.                                 *)
LEMMA FindSkips ==
  ASSUME NEW S, NEW t \in Seq(S), NEW token, NEW i \in Nat \ {0}, NEW m \in Nat \ {0}, i <= m,
         \A j \in i .. m - 1 : t[j] # token
  PROVE  Find(t, token, i) = Find(t, token, m)
<1>1. PICK q : q = Find(t, token, m)
  OBVIOUS
<1>2. /\ q # 0 => /\ q \in m .. Len(t) /\ t[q] = token
                  /\ \A j \in m .. q - 1 : t[j] # token
      /\ q = 0 => \A j \in m .. Len(t) : t[j] # token
  BY <1>1, FindFacts
<1>3. q \in Nat
  BY <1>2
<1>4. q # 0 => /\ q \in i .. Len(t) /\ t[q] = token
               /\ \A j \in i .. q - 1 : t[j] # token
  <2> SUFFICES ASSUME q # 0
               PROVE  /\ q \in i .. Len(t) /\ t[q] = token
                      /\ \A j \in i .. q - 1 : t[j] # token
    OBVIOUS
  <2>1. \A j \in i .. q - 1 : j \in i .. m - 1 \/ j \in m .. q - 1
    BY <1>3
  <2> QED BY <1>2, <2>1
<1>5. q = 0 => \A j \in i .. Len(t) : t[j] # token
  <2>1. \A j \in i .. Len(t) : j \in i .. m - 1 \/ j \in m .. Len(t)
    OBVIOUS
  <2> QED BY <1>2, <2>1
<1>6. Find(t, token, i) = q
  BY <1>3, <1>4, <1>5, FindIs
<1> QED BY <1>1, <1>6

(* Two parts, one after the other, are one.                                *)
LEMMA PartsJoin ==
  ASSUME NEW S, NEW t \in Seq(S), NEW i \in Nat \ {0}, NEW c \in Nat, NEW e \in Nat,
         i <= c + 1, c <= e, e <= Len(t)
  PROVE  SubSeq(t, i, c) \o SubSeq(t, c + 1, e) = SubSeq(t, i, e)
<1>1. Len(t) \in Nat
  OBVIOUS
<1>2. PICK a \in Seq(S), b \in Seq(S), w \in Seq(S) :
        /\ a = SubSeq(t, i, c) /\ Len(a) = c - i + 1 /\ StandsAt(a, t, i - 1)
        /\ b = SubSeq(t, c + 1, e) /\ Len(b) = e - c /\ StandsAt(b, t, c)
        /\ w = SubSeq(t, i, e) /\ Len(w) = e - i + 1 /\ StandsAt(w, t, i - 1)
  <2>1. PICK m \in Nat \ {0} : m = c + 1 /\ m - 1 = c /\ e - m + 1 = e - c
    OBVIOUS
  <2>2. /\ SubSeq(t, i, c) \in Seq(S) /\ Len(SubSeq(t, i, c)) = c - i + 1
        /\ StandsAt(SubSeq(t, i, c), t, i - 1)
    BY <1>1, SubSeqStands
  <2>3. /\ SubSeq(t, i, e) \in Seq(S) /\ Len(SubSeq(t, i, e)) = e - i + 1
        /\ StandsAt(SubSeq(t, i, e), t, i - 1)
    BY <1>1, SubSeqStands
  <2>4. /\ SubSeq(t, m, e) \in Seq(S) /\ Len(SubSeq(t, m, e)) = e - m + 1
        /\ StandsAt(SubSeq(t, m, e), t, m - 1)
    BY <1>1, <2>1, SubSeqStands
  <2> QED BY <2>1, <2>2, <2>3, <2>4
<1>3. PICK both \in Seq(S) : both = a \o b
  BY ConcatProperties
<1>4. /\ Len(both) = Len(a) + Len(b)
      /\ \A j \in 1 .. Len(a) + Len(b) : both[j] = IF j <= Len(a) THEN a[j] ELSE b[j - Len(a)]
  BY <1>3, ConcatProperties
<1>5. PICK x \in Nat, y \in Nat, k \in Nat :
        x = c - i + 1 /\ y = e - c /\ k = x + y /\ k = e - i + 1
  OBVIOUS
<1>6. ASSUME NEW j \in 1 .. k PROVE both[j] = w[j]
  <2>1. w[j] = t[i - 1 + j]
    BY <1>2, <1>5 DEF StandsAt
  <2>2. CASE j <= x
    <3>1. j \in 1 .. Len(a) /\ both[j] = a[j]
      <4>1. Len(a) = x /\ Len(b) = y /\ j \in 1 .. x
        BY <1>2, <1>5, <2>2
      <4>2. j \in 1 .. Len(a) + Len(b) /\ j <= Len(a)
        BY <1>5, <4>1
      <4> QED BY <1>4, <4>1, <4>2
    <3>2. t[i - 1 + j] = a[j]
      BY <1>2, <3>1 DEF StandsAt
    <3> QED BY <2>1, <3>1, <3>2
  <2>3. CASE ~(j <= x)
    <3>1. j - x \in 1 .. Len(b) /\ both[j] = b[j - x] /\ c + (j - x) = i - 1 + j
      BY <1>2, <1>4, <1>5, <2>3
    <3>2. t[c + (j - x)] = b[j - x]
      BY <1>2, <3>1 DEF StandsAt
    <3> QED BY <2>1, <3>1, <3>2
  <2> QED BY <2>2, <2>3
<1>7. Len(both) = k /\ Len(w) = k
  BY <1>2, <1>4, <1>5
<1>8. both = w
  <2>1. Len(both) = Len(w) /\ \A j \in 1 .. Len(both) : both[j] = w[j]
    BY <1>6, <1>7
  <2> QED BY ONLY <2>1, both \in Seq(S), w \in Seq(S), SeqEqual
<1> QED BY <1>2, <1>3, <1>8

(* A hole in a part of a template is read as in the template.              *)
LEMMA HoleOfPart ==
  ASSUME NEW S, NEW t \in Seq(S), NEW u \in Seq(S), NEW d \in Nat, StandsAt(u, t, d),
         NEW i \in 1 .. Len(u) + 1, NEW x \in 1 .. Len(t) + 1, x = d + i,
         HoleFrom(u, i).close # 0
  PROVE  /\ NextHole(u)[i] # 0 /\ NextHole(t)[x] = d + NextHole(u)[i]
         /\ NextHole(u)[i] \in 1 .. Len(u) + 1
         /\ \A vs : Chunks(t, vs)[x] = Chunks(u, vs)[i]
         /\ NamesAt(t)[x] = NamesAt(u)[i]
<1>1. /\ i \in Nat \ {0} /\ x \in Nat \ {0} /\ Len(u) \in Nat /\ Len(t) \in Nat
      /\ d + Len(u) <= Len(t)
  BY DEF StandsAt
<1>2. PICK o, c, open, close :
        /\ o = HoleFrom(u, i).open /\ c = HoleFrom(u, i).close
        /\ open = HoleFrom(t, x).open /\ close = HoleFrom(t, x).close
  OBVIOUS
<1>3. c # 0 /\ o \in i .. Len(u) /\ c \in o + 1 .. Len(u)
  BY <1>1, <1>2, HoleFacts
<1>4. close # 0 /\ c = close - d /\ o = open - d
  BY <1>1, <1>2, <1>3, HoleInPart
<1>5. open \in x .. Len(t) /\ close \in open + 1 .. Len(t)
  BY <1>1, <1>2, <1>4, HoleFacts
<1>6. o \in Nat \ {0} /\ c \in Nat \ {0} /\ close = d + c /\ open = d + o /\ close + 1 # 0
  BY <1>1, <1>3, <1>4, <1>5
<1>7. NextHole(u)[i] = c + 1 /\ NextHole(t)[x] = close + 1
  BY <1>2, <1>3, <1>4 DEF NextHole
<1>8. NameIn(u, HoleFrom(u, i)) = NameIn(t, HoleFrom(t, x))
  <2>1. PICK a \in Nat \ {0}, b \in Nat, y \in Nat \ {0}, z \in Nat :
          /\ a = o + 1 /\ b = c - 1 /\ b <= Len(u) /\ y = open + 1 /\ z = close - 1
          /\ y = d + a /\ z = d + b
    BY <1>3, <1>6
  <2>2. SubSeq(u, a, b) = SubSeq(t, y, z)
    <3>1. b <= Len(u) /\ y = d + a /\ z = d + b
      BY <2>1
    <3> QED BY ONLY <3>1, a \in Nat \ {0}, b \in Nat, y \in Nat \ {0}, z \in Nat,
               d \in Nat, t \in Seq(S), u \in Seq(S), StandsAt(u, t, d), PartOfPart, SMTT(30)
  <2>3. SubSeq(u, o + 1, c - 1) = SubSeq(t, open + 1, close - 1)
    BY <2>1, <2>2
  <2> QED BY <1>2, <2>3 DEF NameIn
<1>9. SubSeq(u, i, o - 1) = SubSeq(t, x, open - 1)
  <2>1. PICK b \in Nat, z \in Nat : b = o - 1 /\ b <= Len(u) /\ z = open - 1 /\ z = d + b
    BY <1>3, <1>6
  <2>2. SubSeq(u, i, b) = SubSeq(t, x, z)
    <3>1. b <= Len(u) /\ x = d + i /\ z = d + b /\ i \in Nat \ {0} /\ x \in Nat \ {0}
      BY <1>1, <2>1
    <3> QED BY ONLY <3>1, b \in Nat, z \in Nat,
               d \in Nat, t \in Seq(S), u \in Seq(S), StandsAt(u, t, d), PartOfPart, SMTT(30)
  <2> QED BY <2>1, <2>2
<1>10. ASSUME NEW vs PROVE Chunks(t, vs)[x] = Chunks(u, vs)[i]
  BY <1>2, <1>3, <1>4, <1>8, <1>9 DEF Chunks
<1>11. NamesAt(t)[x] = NamesAt(u)[i]
  BY <1>2, <1>3, <1>4, <1>8 DEF NamesAt
<1>12. c + 1 # 0 /\ close + 1 = d + (c + 1) /\ c + 1 \in 1 .. Len(u) + 1
  BY <1>1, <1>3, <1>6
<1> QED BY <1>7, <1>10, <1>11, <1>12

(* In the last part of a template there is no hole but those of the part.  *)
LEMMA LastPart ==
  ASSUME NEW S, NEW t \in Seq(S), NEW u \in Seq(S), NEW d \in Nat, StandsAt(u, t, d), NEW vs,
         d + Len(u) = Len(t),
         NEW i \in 1 .. Len(u) + 1
  PROVE  /\ Chunks(u, vs)[i] = Chunks(t, vs)[d + i]
         /\ NamesAt(u)[i] = NamesAt(t)[d + i]
         /\ NextHole(t)[d + i] = IF NextHole(u)[i] = 0 THEN 0 ELSE d + NextHole(u)[i]
<1>1. Len(u) \in Nat /\ Len(t) \in Nat /\ i \in Nat \ {0}
  OBVIOUS
<1>2. PICK x \in 1 .. Len(t) + 1 : x = d + i /\ x \in Nat \ {0}
  BY <1>1
<1>3. CASE HoleFrom(u, i).close # 0
  <2>1. /\ NextHole(u)[i] # 0 /\ NextHole(t)[x] = d + NextHole(u)[i]
        /\ Chunks(t, vs)[x] = Chunks(u, vs)[i]
        /\ NamesAt(t)[x] = NamesAt(u)[i]
    <3>1. x = d + i
      BY <1>2
    <3> QED BY ONLY <1>3, <3>1, i \in 1 .. Len(u) + 1, x \in 1 .. Len(t) + 1,
               d \in Nat, t \in Seq(S), u \in Seq(S), StandsAt(u, t, d), HoleOfPart
  <2> QED BY <1>2, <2>1
<1>4. CASE HoleFrom(u, i).close = 0
  <2>1. PICK close, open : close = HoleFrom(t, x).close /\ open = HoleFrom(t, x).open
    OBVIOUS
  <2>2. ASSUME close # 0 PROVE FALSE
    <3>1. open \in x .. Len(t) /\ close \in open + 1 .. Len(t)
      BY <1>2, <2>1, <2>2, HoleFacts
    <3>2. close <= d + Len(u)
      BY <3>1
    <3>3. HoleFrom(u, i).close = close - d
      BY <1>1, <1>2, <2>1, <2>2, <3>2, HoleInPart
    <3> QED BY <1>1, <1>2, <1>4, <3>1, <3>3
  <2>3. SubSeq(u, i, Len(u)) = SubSeq(t, x, Len(t))
    <3>1. PICK b \in Nat, z \in Nat : b = Len(u) /\ z = Len(t) /\ b <= Len(u) /\ z = d + b
      BY <1>1
    <3>2. SubSeq(u, i, b) = SubSeq(t, x, z)
      <4>1. b <= Len(u) /\ x = d + i /\ z = d + b /\ i \in Nat \ {0} /\ x \in Nat \ {0}
        BY <1>1, <1>2, <3>1
      <4> QED BY ONLY <4>1, b \in Nat, z \in Nat,
                 d \in Nat, t \in Seq(S), u \in Seq(S), StandsAt(u, t, d), PartOfPart, SMTT(30)
    <3> QED BY <3>1, <3>2
  <2>4. NextHole(u)[i] = 0 /\ NextHole(t)[x] = 0
    BY <1>4, <2>1, <2>2 DEF NextHole
  <2>5. Chunks(u, vs)[i] = Chunks(t, vs)[x] /\ NamesAt(u)[i] = NamesAt(t)[x]
    BY <1>4, <2>1, <2>2, <2>3 DEF Chunks, NamesAt
  <2> QED BY <1>2, <2>4, <2>5
<1> QED BY <1>3, <1>4

(* Cut where no hole is open: up to the cut a hole is one of the first     *)
(* part, or else the next hole is the first after the cut.                 *)
FirstFits(t, u, vs, m, i) ==
  \/ /\ NextHole(u)[i] # 0 /\ NextHole(t)[i] = NextHole(u)[i]
     /\ Chunks(t, vs)[i] = Chunks(u, vs)[i]
     /\ NamesAt(t)[i] = NamesAt(u)[i]
  \/ /\ NextHole(u)[i] = 0 /\ NextHole(t)[i] = NextHole(t)[m]
     /\ Chunks(t, vs)[i] = Chunks(u, vs)[i] \o Chunks(t, vs)[m]
     /\ NamesAt(t)[i] = NamesAt(u)[i] \cup NamesAt(t)[m]

(* Each place of the first part is so.                                     *)
LEMMA FirstPart ==
  ASSUME NEW S, NEW t \in Seq(S), NEW u \in Seq(S), StandsAt(u, t, 0), Closed(u),
         NEW vs, ValuesIn(vs, S),
         NEW m \in Nat, m = Len(u) + 1, NEW i \in 1 .. m
  PROVE  FirstFits(t, u, vs, m, i)
<1>1. PICK c \in Nat, n \in Nat : c = Len(u) /\ n = Len(t) /\ c <= n
  BY DEF StandsAt
<1>2. i \in Nat \ {0} /\ m \in Nat \ {0} /\ m = c + 1 /\ i \in 1 .. n + 1 /\ m \in 1 .. n + 1
      /\ i \in 1 .. c + 1
  BY <1>1
<1>3. CASE HoleFrom(u, i).close # 0
  <2>1. /\ NextHole(u)[i] # 0 /\ NextHole(t)[i] = 0 + NextHole(u)[i]
        /\ NextHole(u)[i] \in 1 .. c + 1
        /\ Chunks(t, vs)[i] = Chunks(u, vs)[i]
        /\ NamesAt(t)[i] = NamesAt(u)[i]
    <3>1. PICK d \in Nat : d = 0
      OBVIOUS
    <3>2. i = d + i /\ i \in 1 .. Len(u) + 1 /\ i \in 1 .. Len(t) + 1 /\ StandsAt(u, t, d)
      BY <1>1, <1>2, <3>1
    <3>3. /\ NextHole(u)[i] # 0 /\ NextHole(t)[i] = d + NextHole(u)[i]
          /\ NextHole(u)[i] \in 1 .. Len(u) + 1
          /\ Chunks(t, vs)[i] = Chunks(u, vs)[i]
          /\ NamesAt(t)[i] = NamesAt(u)[i]
      BY ONLY <1>3, <3>2, d \in Nat, t \in Seq(S), u \in Seq(S), HoleOfPart
    <3> QED BY <1>1, <3>1, <3>3
  <2>2. NextHole(t)[i] = NextHole(u)[i]
    BY <2>1
  <2> QED BY <2>1, <2>2 DEF FirstFits
<1>4. CASE HoleFrom(u, i).close = 0
  <2>1. \A j \in i .. c : u[j] # "{{"
    BY <1>1, <1>2, <1>4, NothingOpens
  <2>2. \A j \in i .. m - 1 : t[j] # "{{"
    <3>1. \A j \in i .. m - 1 : j \in i .. c /\ j \in 1 .. Len(u) /\ 0 + j = j
      BY <1>1, <1>2
    <3>2. \A j \in 1 .. Len(u) : t[0 + j] = u[j]
      BY DEF StandsAt
    <3>3. \A j \in i .. m - 1 : t[j] = u[j]
      BY <3>1, <3>2
    <3> QED BY <2>1, <3>1, <3>3
  <2>3. Find(t, "{{", i) = Find(t, "{{", m)
    <3>1. PICK left : left = "{{"
      OBVIOUS
    <3>2. \A j \in i .. m - 1 : t[j] # left
      BY <2>2, <3>1
    <3>3. i \in Nat \ {0} /\ m \in Nat \ {0} /\ i <= m
      BY <1>2
    <3>4. Find(t, left, i) = Find(t, left, m)
      BY <3>2, <3>3, FindSkips
    <3> QED BY <3>1, <3>4
  <2>4. HoleFrom(t, i) = HoleFrom(t, m)
    BY <2>3 DEF HoleFrom
  <2>5. PICK close, open : close = HoleFrom(t, m).close /\ open = HoleFrom(t, m).open
    OBVIOUS
  <2>6. close # 0 => open \in m .. n /\ close \in open + 1 .. n
    BY <1>1, <1>2, <2>5, HoleFacts
  <2>7. NextHole(u)[i] = 0 /\ NextHole(t)[i] = NextHole(t)[m]
    BY <1>1, <1>2, <1>4, <2>4 DEF NextHole
  <2>8. NamesAt(t)[i] = NamesAt(u)[i] \cup NamesAt(t)[m]
    <3>1. NamesAt(u)[i] = {} /\ NamesAt(t)[i] = NamesAt(t)[m]
      BY <1>1, <1>2, <1>4, <2>4 DEF NamesAt
    <3> QED BY <3>1
  <2>9. PICK a \in Seq(S) : a = SubSeq(t, i, c) /\ a = Chunks(u, vs)[i]
    <3>1. i = 0 + i /\ c = 0 + c /\ c <= Len(u) /\ 0 \in Nat
      BY <1>1, <1>2
    <3>2. SubSeq(u, i, c) = SubSeq(t, i, c) /\ SubSeq(u, i, c) \in Seq(S)
      BY <1>2, <3>1, PartOfPart
    <3>3. Chunks(u, vs)[i] = SubSeq(u, i, c)
      BY <1>1, <1>2, <1>4 DEF Chunks
    <3> QED BY <3>2, <3>3
  <2>10. \A e \in Nat : c <= e /\ e <= n =>
           /\ SubSeq(t, i, e) = a \o SubSeq(t, m, e)
           /\ SubSeq(t, m, e) \in Seq(S)
    <3> SUFFICES ASSUME NEW e \in Nat, c <= e, e <= n
                 PROVE  /\ SubSeq(t, i, e) = a \o SubSeq(t, m, e)
                        /\ SubSeq(t, m, e) \in Seq(S)
      OBVIOUS
    <3>1. SubSeq(t, i, c) \o SubSeq(t, c + 1, e) = SubSeq(t, i, e)
      <4>1. i <= c + 1 /\ i \in Nat \ {0} /\ e <= Len(t)
        BY <1>1, <1>2
      <4> QED BY <4>1, PartsJoin
    <3>2. m <= e + 1
      BY <1>2
    <3>3. SubSeq(t, m, e) \in Seq(S)
      BY <1>1, <1>2, <3>2, SubSeqStands
    <3> QED BY <1>2, <2>9, <3>1, <3>3
  <2>11. \A name : Replacement(vs, name) \in Seq(S)
    BY ReplacementTypes
  <2>12. Chunks(t, vs)[i] = a \o Chunks(t, vs)[m]
    <3>1. CASE close = 0
      <4>1. Chunks(t, vs)[i] = SubSeq(t, i, n) /\ Chunks(t, vs)[m] = SubSeq(t, m, n)
        BY <1>1, <1>2, <2>4, <2>5, <3>1 DEF Chunks
      <4>2. SubSeq(t, i, n) = a \o SubSeq(t, m, n)
        <5>1. n \in Nat /\ c <= n /\ n <= n
          BY <1>1
        <5> QED BY <2>10, <5>1, Zenon
      <4> QED BY <4>1, <4>2
    <3>2. CASE close # 0
      <4>1. PICK e \in Nat : e = open - 1 /\ c <= e /\ e <= n
        BY <1>1, <1>2, <2>6, <3>2
      <4>2. PICK x \in Seq(S) : x = SubSeq(t, m, e)
        BY <2>10, <4>1
      <4>3. PICK r \in Seq(S) : r = Replacement(vs, NameIn(t, HoleFrom(t, m)))
        BY <2>11
      <4>4. Chunks(t, vs)[i] = SubSeq(t, i, e) \o r /\ Chunks(t, vs)[m] = x \o r
        BY <1>1, <1>2, <2>4, <2>5, <3>2, <4>1, <4>2, <4>3 DEF Chunks
      <4>5. SubSeq(t, i, e) = a \o x
        BY <2>10, <4>1, <4>2
      <4>6. (a \o x) \o r = a \o (x \o r)
        BY ONLY a \in Seq(S), x \in Seq(S), r \in Seq(S), Associative
      <4> QED BY <4>4, <4>5, <4>6
    <3> QED BY <3>1, <3>2
  <2> QED BY <2>7, <2>8, <2>9, <2>12, Zenon DEF FirstFits
<1> QED BY <1>3, <1>4

(* Where no hole is open the parts are rendered, and ask for names, apart. *)
LEMMA RenderedApart ==
  ASSUME NEW S, NEW t \in Seq(S), NEW u \in Seq(S), NEW w \in Seq(S), NEW c \in Nat,
         c = Len(u), StandsAt(u, t, 0), Closed(u),
         StandsAt(w, t, c), c + Len(w) = Len(t),
         NEW vs, ValuesIn(vs, S)
  PROVE  /\ Render(t, vs) = Render(u, vs) \o Render(w, vs)
         /\ Required(t) = Required(u) \cup Required(w)
<1>1. Len(t) \in Nat /\ Len(u) \in Nat /\ Len(w) \in Nat
  OBVIOUS
<1>2. PICK n \in Nat : n = Len(t) + 1
  BY <1>1
<1>3. PICK m \in Nat : m = Len(u) + 1
  BY <1>1
<1>4. PICK k \in Nat : k = Len(w) + 1
  BY <1>1
<1>5. /\ n = Len(t) + 1 /\ m = Len(u) + 1 /\ k = Len(w) + 1
      /\ m \in 1 .. n /\ c + k = n /\ m = c + 1 /\ 1 \in 1 .. m /\ 1 \in 1 .. k
  BY <1>1, <1>2, <1>3, <1>4
<1>6. ASSUME NEW i \in 1 .. m PROVE FirstFits(t, u, vs, m, i)
  <2>1. m = Len(u) + 1
    BY <1>5
  <2> QED BY ONLY <2>1, m \in Nat, i \in 1 .. m, t \in Seq(S), u \in Seq(S), StandsAt(u, t, 0),
             Closed(u), ValuesIn(vs, S), FirstPart
<1>7. ASSUME NEW i \in 1 .. k
      PROVE  /\ Chunks(w, vs)[i] = Chunks(t, vs)[c + i]
             /\ NamesAt(w)[i] = NamesAt(t)[c + i]
             /\ NextHole(t)[c + i] = IF NextHole(w)[i] = 0 THEN 0 ELSE c + NextHole(w)[i]
  <2>1. i \in 1 .. Len(w) + 1
    BY <1>5
  <2> QED BY ONLY <2>1, c \in Nat, t \in Seq(S), w \in Seq(S), StandsAt(w, t, c),
             c + Len(w) = Len(t), LastPart
<1>8. Render(t, vs) = Render(u, vs) \o Render(w, vs)
  <2> DEFINE join == ConcatOn(S)
             T == Seq(S)
  <2>1. /\ LeapForward(T, n, NextHole(t), Chunks(t, vs), join)
        /\ LeapForward(T, m, NextHole(u), Chunks(u, vs), join)
        /\ LeapForward(T, k, NextHole(w), Chunks(w, vs), join)
    BY <1>5, RenderLeaps
  <2>2. PICK f : /\ Leaps(f, n, NextHole(t), Chunks(t, vs), join)
                 /\ ReadIn(f, n, T)
                 /\ Render(t, vs) = f[1]
    <3>1. PICK f : RendersBy(f, t, vs, S)
      BY RenderLeaps
    <3> QED BY <1>5, <3>1 DEF RendersBy
  <2>3. PICK g : /\ Leaps(g, m, NextHole(u), Chunks(u, vs), join)
                 /\ ReadIn(g, m, T)
                 /\ Render(u, vs) = g[1]
    <3>1. PICK g : RendersBy(g, u, vs, S)
      BY RenderLeaps
    <3> QED BY <1>5, <3>1 DEF RendersBy
  <2>4. PICK h : /\ Leaps(h, k, NextHole(w), Chunks(w, vs), join)
                 /\ ReadIn(h, k, T)
                 /\ Render(w, vs) = h[1]
    <3>1. PICK h : RendersBy(h, w, vs, S)
      BY RenderLeaps
    <3> QED BY <1>5, <3>1 DEF RendersBy
  <2>5. /\ \A x, y \in T : join[<<x, y>>] = x \o y
        /\ Associates(join, T)
    BY ConcatJoins
  <2>6. \A i \in 1 .. m : Chunks(u, vs)[i] \in T
    BY <2>1 DEF LeapForward
  <2>7. Chunks(t, vs)[m] \in T
    BY <1>5, <2>1 DEF LeapForward
  <2> HIDE DEF join, T
  <2>8. CutAt(m, NextHole(t), Chunks(t, vs), NextHole(u), Chunks(u, vs), join)
    <3>1. ASSUME NEW i \in 1 .. m
          PROVE  join[<<Chunks(u, vs)[i], Chunks(t, vs)[m]>>] = Chunks(u, vs)[i] \o Chunks(t, vs)[m]
      BY <2>5, <2>6, <2>7
    <3> QED BY <1>6, <3>1 DEF CutAt, FirstFits
  <2>9. ShiftedBy(c, k, NextHole(t), Chunks(t, vs), NextHole(w), Chunks(w, vs))
    BY <1>7 DEF ShiftedBy
  <2>10. \A i \in 1 .. m : f[i] = join[<<g[i], f[m]>>]
    <3>1. m \in 1 .. n
      BY <1>5
    <3> QED BY ONLY <2>1, <2>2, <2>3, <2>5, <2>8, <3>1, LeapsCut
  <2>11. \A i \in 1 .. k : h[i] = f[c + i]
    <3>1. c + k = n
      BY <1>5
    <3>2. /\ LeapForward(T, n, NextHole(t), Chunks(t, vs), join)
          /\ LeapForward(T, k, NextHole(w), Chunks(w, vs), join)
          /\ Leaps(f, n, NextHole(t), Chunks(t, vs), join)
          /\ Leaps(h, k, NextHole(w), Chunks(w, vs), join)
      BY <2>1, <2>2, <2>4
    <3>3. Continued(h, f, c, k)
      BY ONLY <2>9, <3>1, <3>2, c \in Nat, k \in Nat, n \in Nat, LeapsShift
    <3> QED BY <3>3 DEF Continued
  <2>12. f[1] = join[<<g[1], f[m]>>] /\ h[1] = f[m] /\ g[1] \in T /\ f[m] \in T
    BY <1>5, <2>2, <2>3, <2>10, <2>11 DEF ReadIn
  <2> QED BY <2>2, <2>3, <2>4, <2>5, <2>12
<1>9. Required(t) = Required(u) \cup Required(w)
  <2>1. PICK N : N = Seq(S)
    OBVIOUS
  <2> DEFINE join == UnionOn(N)
             T == SUBSET N
  <2>2. /\ LeapForward(T, n, NextHole(t), NamesAt(t), join)
        /\ LeapForward(T, m, NextHole(u), NamesAt(u), join)
        /\ LeapForward(T, k, NextHole(w), NamesAt(w), join)
    BY <1>5, <2>1, NamesLeaps
  <2>3. PICK f : /\ Leaps(f, n, NextHole(t), NamesAt(t), join)
                 /\ ReadIn(f, n, T)
                 /\ Required(t) = f[1] \ {<<>>}
    <3>1. PICK f : AsksBy(f, t, N)
      BY <2>1, NamesLeaps
    <3> QED BY <1>5, <3>1 DEF AsksBy
  <2>4. PICK g : /\ Leaps(g, m, NextHole(u), NamesAt(u), join)
                 /\ ReadIn(g, m, T)
                 /\ Required(u) = g[1] \ {<<>>}
    <3>1. PICK g : AsksBy(g, u, N)
      BY <2>1, NamesLeaps
    <3> QED BY <1>5, <3>1 DEF AsksBy
  <2>5. PICK h : /\ Leaps(h, k, NextHole(w), NamesAt(w), join)
                 /\ ReadIn(h, k, T)
                 /\ Required(w) = h[1] \ {<<>>}
    <3>1. PICK h : AsksBy(h, w, N)
      BY <2>1, NamesLeaps
    <3> QED BY <1>5, <3>1 DEF AsksBy
  <2>6. /\ \A x, y \in T : join[<<x, y>>] = x \cup y
        /\ Associates(join, T)
    BY UnionJoins
  <2>7. \A i \in 1 .. m : NamesAt(u)[i] \in T
    BY <2>2 DEF LeapForward
  <2>8. NamesAt(t)[m] \in T
    BY <1>5, <2>2 DEF LeapForward
  <2> HIDE DEF join, T
  <2>9. CutAt(m, NextHole(t), NamesAt(t), NextHole(u), NamesAt(u), join)
    <3>1. ASSUME NEW i \in 1 .. m
          PROVE  join[<<NamesAt(u)[i], NamesAt(t)[m]>>] = NamesAt(u)[i] \cup NamesAt(t)[m]
      BY <2>6, <2>7, <2>8
    <3> QED BY <1>6, <3>1 DEF CutAt, FirstFits
  <2>10. ShiftedBy(c, k, NextHole(t), NamesAt(t), NextHole(w), NamesAt(w))
    BY <1>7 DEF ShiftedBy
  <2>11. \A i \in 1 .. m : f[i] = join[<<g[i], f[m]>>]
    <3>1. m \in 1 .. n
      BY <1>5
    <3> QED BY ONLY <2>2, <2>3, <2>4, <2>6, <2>9, <3>1, LeapsCut
  <2>12. \A i \in 1 .. k : h[i] = f[c + i]
    <3>1. c + k = n
      BY <1>5
    <3>2. /\ LeapForward(T, n, NextHole(t), NamesAt(t), join)
          /\ LeapForward(T, k, NextHole(w), NamesAt(w), join)
          /\ Leaps(f, n, NextHole(t), NamesAt(t), join)
          /\ Leaps(h, k, NextHole(w), NamesAt(w), join)
      BY <2>2, <2>3, <2>5
    <3>3. Continued(h, f, c, k)
      BY ONLY <2>10, <3>1, <3>2, c \in Nat, k \in Nat, n \in Nat, LeapsShift
    <3> QED BY <3>3 DEF Continued
  <2>13. f[1] = join[<<g[1], f[m]>>] /\ h[1] = f[m] /\ g[1] \in T /\ f[m] \in T
    BY <1>5, <2>3, <2>4, <2>11, <2>12 DEF ReadIn
  <2>14. f[1] = g[1] \cup h[1]
    BY <2>6, <2>13
  <2> QED BY <2>3, <2>4, <2>5, <2>14
<1> QED BY <1>8, <1>9

-----------------------------------------------------------------------------
(* The clauses of RenderedByPieces                                         *)

(* A text without an opening marker stays as it is.                        *)
Plain(u) == \A i \in 1 .. Len(u) : u[i] # "{{"

(* render changes nothing in it.                                           *)
LEMMA PlainStays ==
  ASSUME NEW S, NEW u \in Seq(S), NEW vs, ValuesIn(vs, S), Plain(u)
  PROVE  PromptOutput(u, vs) = u
<1>1. PICK left : left = "{{"
  OBVIOUS
<1>2. Len(u) \in Nat
  OBVIOUS
<1>3. Find(u, left, 1) = 0
  <2>1. \A i \in 1 .. Len(u) : u[i] # left
    BY <1>1 DEF Plain
  <2>2. PICK from \in Nat \ {0}, p \in Nat : from = 1 /\ p = 0
    OBVIOUS
  <2>3. Find(u, left, from) = p
    BY <2>1, <2>2, FindIs
  <2> QED BY <2>2, <2>3
<1>4. HoleFrom(u, 1).close = 0
  BY <1>1, <1>3 DEF HoleFrom
<1>5. PICK n \in Nat : n = Len(u) + 1 /\ 1 \in 1 .. n
  BY <1>2
<1>6. NextHole(u)[1] = 0 /\ Chunks(u, vs)[1] = SubSeq(u, 1, Len(u))
  BY <1>4, <1>5 DEF NextHole, Chunks
<1>7. PICK f : RendersBy(f, u, vs, S)
  BY RenderLeaps
<1>8. f[1] = SubSeq(u, 1, Len(u)) /\ Render(u, vs) = f[1]
  BY <1>5, <1>6, <1>7 DEF RendersBy, Leaps, From
<1>9. SubSeq(u, 1, Len(u)) = u
  BY RestOfAll
<1> QED BY <1>8, <1>9 DEF PromptOutput

(* A text that is a hole and nothing else, with this text for its name.    *)
HoleOnly(u, name) ==
  /\ Len(u) >= 2
  /\ u[1] = "{{" /\ u[Len(u)] = "}}"
  /\ \A j \in 2 .. Len(u) - 1 : u[j] # "{{" /\ u[j] # "}}"
  /\ Trim(SubSeq(u, 2, Len(u) - 1)) = name

(* It is found, and no other.                                              *)
LEMMA OneHole ==
  ASSUME NEW S, NEW u \in Seq(S), NEW name, HoleOnly(u, name)
  PROVE  /\ HoleFrom(u, 1).open = 1 /\ HoleFrom(u, 1).close = Len(u)
         /\ NameIn(u, HoleFrom(u, 1)) = name
         /\ HoleFrom(u, Len(u) + 1).close = 0
<1>1. PICK left, right : left = "{{" /\ right = "}}"
  OBVIOUS
<1>2. PICK k \in Nat : k = Len(u)
  OBVIOUS
<1>3. /\ k >= 2 /\ u[1] = left /\ u[k] = right /\ left # right
      /\ \A j \in 2 .. k - 1 : u[j] # left /\ u[j] # right
  BY <1>1, <1>2 DEF HoleOnly
<1>4. Find(u, left, 1) = 1
  <2>1. PICK from \in Nat \ {0}, p \in Nat : from = 1 /\ p = 1
    OBVIOUS
  <2>2. p \in from .. Len(u) /\ u[p] = left /\ \A i \in from .. p - 1 : u[i] # left
    BY <1>2, <1>3, <2>1
  <2>3. Find(u, left, from) = p
    BY ONLY u \in Seq(S), from \in Nat \ {0}, p \in Nat, <2>1, <2>2, FindIs
  <2> QED BY <2>1, <2>3
<1>5. Find(u, right, 1) = k
  <2>1. PICK from \in Nat \ {0} : from = 1
    OBVIOUS
  <2>2. k # 0 /\ k \in from .. Len(u) /\ u[k] = right
    BY <1>2, <1>3, <2>1
  <2>3. \A i \in from .. k - 1 : u[i] # right
    <3> SUFFICES ASSUME NEW i \in from .. k - 1 PROVE u[i] # right
      OBVIOUS
    <3>1. i = 1 \/ i \in 2 .. k - 1
      BY <2>1
    <3> QED BY <1>3, <3>1
  <2>4. Find(u, right, from) = k
    BY ONLY u \in Seq(S), from \in Nat \ {0}, k \in Nat, <2>2, <2>3, FindIs
  <2> QED BY <2>1, <2>4
<1>6. Find(u, left, k + 1) = 0
  <2>1. PICK from \in Nat \ {0}, p \in Nat : from = k + 1 /\ p = 0
    OBVIOUS
  <2>2. \A i \in from .. Len(u) : u[i] # left
    BY <1>2, <2>1
  <2>3. Find(u, left, from) = p
    BY ONLY u \in Seq(S), from \in Nat \ {0}, p \in Nat, <2>1, <2>2, FindIs
  <2> QED BY <2>1, <2>3
<1>7. HoleFrom(u, 1).open = 1 /\ HoleFrom(u, 1).close = k /\ HoleFrom(u, k + 1).close = 0
  <2>1. Find(u, "{{", 1) = 1 /\ Find(u, "}}", 1) = k /\ Find(u, "{{", k + 1) = 0
    BY ONLY <1>1, <1>4, <1>5, <1>6
  <2>2. HoleFrom(u, 1) = [open |-> 1, close |-> k]
    <3>1. PICK open : open = Find(u, "{{", 1)
      OBVIOUS
    <3>2. HoleFrom(u, 1) = [open |-> open, close |-> IF open = 0 THEN 0 ELSE Find(u, "}}", open)]
      BY ONLY <3>1 DEF HoleFrom
    <3>3. open = 1
      BY ONLY <2>1, <3>1
    <3>4. Find(u, "}}", open) = k
      BY ONLY <2>1, <3>3, Zenon
    <3>5. open # 0
      BY ONLY <3>3
    <3> QED BY ONLY <3>2, <3>3, <3>4, <3>5
  <2>3. HoleFrom(u, k + 1) = [open |-> 0, close |-> 0]
    BY ONLY <2>1 DEF HoleFrom
  <2> QED BY ONLY <2>2, <2>3
<1>8. NameIn(u, HoleFrom(u, 1)) = name
  <2>1. Trim(SubSeq(u, 2, k - 1)) = name
    BY <1>2 DEF HoleOnly
  <2>2. NameIn(u, HoleFrom(u, 1)) = Trim(SubSeq(u, 1 + 1, k - 1))
    BY ONLY <1>7 DEF NameIn
  <2> QED BY ONLY <2>1, <2>2
<1> QED BY <1>2, <1>7, <1>8

(* A bound name becomes its value; the empty one is not asked for.         *)
LEMMA HoleIsReplaced ==
  ASSUME NEW S, NEW u \in Seq(S), NEW vs, ValuesIn(vs, S),
         NEW name, HoleOnly(u, name), name = <<>> \/ Bound(vs, name)
  PROVE  PromptOutput(u, vs) = Replacement(vs, name)
<1>1. PICK k \in Nat : k = Len(u) /\ k >= 2
  <2>1. Len(u) >= 2
    BY Zenon DEF HoleOnly
  <2> QED BY ONLY <2>1, u \in Seq(S)
<1>2. PICK n \in Nat : n = k + 1 /\ 1 \in 1 .. n /\ n \in 1 .. n /\ n # 0
  BY <1>1
<1>3. /\ HoleFrom(u, 1).open = 1 /\ HoleFrom(u, 1).close = k
      /\ NameIn(u, HoleFrom(u, 1)) = name
      /\ HoleFrom(u, n).close = 0
  BY <1>1, <1>2, OneHole
<1>4. NextHole(u)[1] = n /\ NextHole(u)[n] = 0
  BY <1>1, <1>2, <1>3 DEF NextHole
<1>5. PICK value \in Seq(S) : value = Replacement(vs, name)
  BY ReplacementTypes
<1>6. Render(u, vs) = value
  <2>1. SubSeq(u, 1, 0) = <<>> /\ SubSeq(u, n, k) = <<>>
    <3>1. k < n /\ n \in Int /\ k \in Int
      BY <1>2
    <3> QED BY <3>1, SubSeqEmpty
  <2>2. /\ Chunks(u, vs)[1] = SubSeq(u, 1, 0) \o value
        /\ Chunks(u, vs)[n] = SubSeq(u, n, k)
    BY <1>1, <1>2, <1>3, <1>5 DEF Chunks
  <2>3. <<>> \in Seq(S)
    OBVIOUS
  <2>4. Chunks(u, vs)[1] = value /\ Chunks(u, vs)[n] = <<>>
    BY <1>5, <2>1, <2>2, ConcatEmptySeq
  <2>5. PICK f : RendersBy(f, u, vs, S)
    BY RenderLeaps
  <2>6. f[n] = <<>> /\ f[1] = ConcatOn(S)[<<value, f[n]>>] /\ Render(u, vs) = f[1]
    BY <1>1, <1>2, <1>4, <2>4, <2>5 DEF RendersBy, Leaps, From
  <2>7. ConcatOn(S)[<<value, <<>> >>] = value \o <<>>
    BY <1>5, <2>3, ConcatJoins
  <2> QED BY <1>5, <2>6, <2>7, ConcatEmptySeq
<1>7. Missing(u, vs) = {}
  <2>1. PICK N : N = Seq(S)
    OBVIOUS
  <2>2. /\ NamesAt(u)[1] = {name} /\ NamesAt(u)[n] = {}
    BY <1>1, <1>2, <1>3 DEF NamesAt
  <2>3. PICK g : AsksBy(g, u, N)
    BY <2>1, NamesLeaps
  <2>4. /\ g[n] = {} /\ g[1] = UnionOn(N)[<<{name}, g[n]>>] /\ Required(u) = g[1] \ {<<>>}
    BY <1>1, <1>2, <1>4, <2>2, <2>3 DEF AsksBy, Leaps, From
  <2>5. {name} \in SUBSET N
    <3>1. LeapForward(SUBSET N, Len(u) + 1, NextHole(u), NamesAt(u), UnionOn(N))
      BY <2>1, NamesLeaps
    <3> QED BY <1>1, <1>2, <2>2, <3>1 DEF LeapForward
  <2>6. UnionOn(N)[<<{name}, {}>>] = {name} \cup {}
    BY <2>5, UnionJoins
  <2>7. Required(u) \subseteq {name} \ {<<>>}
    BY <2>4, <2>6
  <2> QED BY <2>7 DEF Missing
<1> QED BY <1>5, <1>6, <1>7 DEF PromptOutput

(* Where no hole is open a template that misses nothing can be cut.        *)
LEMMA PartsRenderApart ==
  ASSUME NEW S, NEW t \in Seq(S), NEW vs, ValuesIn(vs, S), Missing(t, vs) = {},
         NEW c \in 1 .. Len(t) - 1, Closed(SubSeq(t, 1, c))
  PROVE  PromptOutput(SubSeq(t, 1, Len(t)), vs)
           = PromptOutput(SubSeq(t, 1, c), vs) \o PromptOutput(SubSeq(t, c + 1, Len(t)), vs)
<1>1. PICK n \in Nat : n = Len(t) /\ c \in Nat /\ c < n
  OBVIOUS
<1>2. PICK u \in Seq(S) : u = SubSeq(t, 1, c) /\ Len(u) = c /\ StandsAt(u, t, 0)
  <2>1. PICK a \in Nat \ {0} : a = 1
    OBVIOUS
  <2>2. c - a + 1 = c /\ a - 1 = 0 /\ c <= Len(t) /\ a <= c + 1
    BY <1>1, <2>1
  <2>3. /\ SubSeq(t, a, c) \in Seq(S) /\ Len(SubSeq(t, a, c)) = c - a + 1
        /\ StandsAt(SubSeq(t, a, c), t, a - 1)
    BY ONLY <1>1, <2>2, t \in Seq(S), a \in Nat \ {0}, SubSeqStands
  <2> QED BY ONLY <2>1, <2>2, <2>3
<1>3. PICK w \in Seq(S) : w = SubSeq(t, c + 1, n) /\ Len(w) = n - c /\ StandsAt(w, t, c)
  <2>1. PICK a \in Nat \ {0} : a = c + 1
    BY <1>1
  <2>2. n - a + 1 = n - c /\ a - 1 = c /\ n <= Len(t) /\ a <= n + 1
    BY <1>1, <2>1
  <2>3. /\ SubSeq(t, a, n) \in Seq(S) /\ Len(SubSeq(t, a, n)) = n - a + 1
        /\ StandsAt(SubSeq(t, a, n), t, a - 1)
    BY ONLY <2>2, t \in Seq(S), a \in Nat \ {0}, n \in Nat, SubSeqStands
  <2> QED BY ONLY <2>1, <2>2, <2>3
<1>4. SubSeq(t, 1, Len(t)) = t
  BY RestOfAll
<1>5. /\ Render(t, vs) = Render(u, vs) \o Render(w, vs)
      /\ Required(t) = Required(u) \cup Required(w)
  <2>1. /\ c = Len(u) /\ c + Len(w) = Len(t) /\ Closed(u)
        /\ StandsAt(u, t, 0) /\ StandsAt(w, t, c) /\ c \in Nat
    BY <1>1, <1>2, <1>3
  <2> QED BY ONLY <2>1, c \in Nat, t \in Seq(S), u \in Seq(S), w \in Seq(S),
             ValuesIn(vs, S), RenderedApart
<1>6. Missing(u, vs) = {} /\ Missing(w, vs) = {}
  BY <1>5 DEF Missing
<1> QED BY <1>1, <1>2, <1>3, <1>4, <1>5, <1>6 DEF PromptOutput

(* So render keeps its promise.                                            *)
LEMMA RenderKeepsItsPromise ==
  ASSUME NEW S, NEW t \in Seq(S), NEW vs, ValuesIn(vs, S)
  PROVE  RendersByPieces(t, vs)
<1>1. Len(t) \in Nat
  OBVIOUS
<1>2. ASSUME NEW a \in 1 .. Len(t), "{{" \notin ToSet(SubSeq(t, a, Len(t)))
      PROVE  PromptOutput(SubSeq(t, a, Len(t)), vs) = SubSeq(t, a, Len(t))
  <2>1. PICK u \in Seq(S) : u = SubSeq(t, a, Len(t))
    <3>1. a \in Nat \ {0} /\ Len(t) <= Len(t) /\ a <= Len(t) + 1
      BY <1>1
    <3> QED BY <1>1, <3>1, SubSeqStands
  <2>2. Plain(u)
    <3>1. \A i \in 1 .. Len(u) : u[i] \in ToSet(u)
      BY DEF ToSet
    <3> QED BY <1>2, <2>1, <3>1 DEF Plain
  <2> QED BY <2>1, <2>2, PlainStays
<1>3. ASSUME NEW a \in 1 .. Len(t), NEW b \in 1 .. Len(t), a < b,
             t[a] = "{{", t[b] = "}}", \A j \in a + 1 .. b - 1 : t[j] \notin {"{{", "}}"},
             NEW name, Trim(SubSeq(t, a + 1, b - 1)) = name, name = <<>> \/ Bound(vs, name)
      PROVE  PromptOutput(SubSeq(t, a, b), vs) = Replacement(vs, name)
  <2>1. a \in Nat \ {0} /\ b \in Nat \ {0} /\ a # b /\ a < b
    BY ONLY <1>1, a < b, a \in 1 .. Len(t), b \in 1 .. Len(t)
  <2>3. PICK u \in Seq(S) : u = SubSeq(t, a, b) /\ Len(u) = b - a + 1 /\ StandsAt(u, t, a - 1)
    <3>1. b <= Len(t) /\ a <= b + 1
      BY <2>1
    <3> QED BY <2>1, <3>1, SubSeqStands
  <2>4. PICK k \in Nat, d \in Nat : k = Len(u) /\ k >= 2 /\ d = a - 1 /\ d + k = b /\ d + 1 = a
    BY <2>1, <2>3
  <2>5. \A i \in 1 .. k : u[i] = t[d + i]
    BY <2>3, <2>4 DEF StandsAt
  <2>6. u[1] = "{{" /\ u[k] = "}}"
    <3>1. 1 \in 1 .. k /\ k \in 1 .. k
      BY <2>4
    <3>2. u[1] = t[a] /\ u[k] = t[b]
      BY <2>4, <2>5, <3>1
    <3> QED BY <1>3, <3>2
  <2>7. ASSUME NEW j \in 2 .. k - 1 PROVE u[j] # "{{" /\ u[j] # "}}"
    <3>1. d + j \in a + 1 .. b - 1 /\ j \in 1 .. k
      BY <2>1, <2>4
    <3> QED BY <1>3, <2>5, <3>1
  <2>8. SubSeq(u, 2, k - 1) = SubSeq(t, a + 1, b - 1)
    <3>1. PICK p \in Nat \ {0}, q \in Nat, x \in Nat \ {0}, y \in Nat :
             p = 2 /\ q = k - 1 /\ x = a + 1 /\ y = b - 1
      <4>1. 2 \in Nat \ {0} /\ k - 1 \in Nat /\ a + 1 \in Nat \ {0} /\ b - 1 \in Nat
        BY ONLY <2>1, <2>4
      <4> QED BY ONLY <4>1
    <3>2. q <= Len(u) /\ x = d + p /\ y = d + q /\ StandsAt(u, t, d)
      BY <2>3, <2>4, <3>1
    <3>3. SubSeq(u, p, q) = SubSeq(t, x, y)
      BY <3>2, PartOfPart, SMTT(30)
    <3> QED BY <3>1, <3>3
  <2>9. HoleOnly(u, name)
    BY <1>3, <2>4, <2>6, <2>7, <2>8 DEF HoleOnly
  <2> QED BY <2>3, <2>9, <1>3, HoleIsReplaced
<1>4. ASSUME NEW c \in 1 .. Len(t) - 1, Closed(SubSeq(t, 1, c)), Missing(t, vs) = {}
      PROVE  PromptOutput(SubSeq(t, 1, Len(t)), vs)
               = PromptOutput(SubSeq(t, 1, c), vs) \o PromptOutput(SubSeq(t, c + 1, Len(t)), vs)
  BY <1>4, PartsRenderApart
<1>5. ASSUME NEW a \in 1 .. Len(t), NEW b \in 1 .. Len(t), NEW name \in DOMAIN vs, a < b,
             t[a] = "{{", t[b] = "}}", \A j \in a + 1 .. b - 1 : t[j] \notin {"{{", "}}"},
             Trim(SubSeq(t, a + 1, b - 1)) = NameText(name)
      PROVE  PromptOutput(SubSeq(t, a, b), vs) = vs[name]
  <2>1. Bound(vs, NameText(name)) /\ Replacement(vs, NameText(name)) = vs[name]
    BY NameIsReplaced
  <2>2. PICK x : x = NameText(name)
    OBVIOUS
  <2> QED BY <1>3, <1>5, <2>1, <2>2
<1>6. ASSUME NEW a \in 1 .. Len(t), NEW b \in 1 .. Len(t), a < b, EmptyName \notin DOMAIN vs,
             t[a] = "{{", t[b] = "}}", \A j \in a + 1 .. b - 1 : t[j] \notin {"{{", "}}"},
             Trim(SubSeq(t, a + 1, b - 1)) = <<>>
      PROVE  PromptOutput(SubSeq(t, a, b), vs) = <<>>
  <2>1. PICK x : x = <<>>
    OBVIOUS
  <2>2. PromptOutput(SubSeq(t, a, b), vs) = Replacement(vs, x)
    BY <1>3, <1>6, <2>1
  <2>3. ~Bound(vs, x)
    <3>1. \A v \in DOMAIN vs : v # EmptyName
      BY ONLY <1>6
    <3>2. \A v \in DOMAIN vs : NameText(v) # <<>>
      BY ONLY <3>1 DEF NameText
    <3> QED BY <2>1, <3>2 DEF Bound
  <2> QED BY <2>1, <2>2, <2>3 DEF Replacement
<1> DEFINE part(a, b) == PromptOutput(SubSeq(t, a, b), vs)
           hole(a, b) == /\ a < b /\ t[a] = "{{" /\ t[b] = "}}"
                         /\ \A j \in a + 1 .. b - 1 : t[j] \notin {"{{", "}}"}
<1>7. \A a \in 1 .. Len(t) : "{{" \notin ToSet(SubSeq(t, a, Len(t))) =>
                            part(a, Len(t)) = SubSeq(t, a, Len(t))
  BY ONLY <1>2, Zenon
<1>8. \A a, b \in 1 .. Len(t), name \in DOMAIN vs :
        hole(a, b) /\ Trim(SubSeq(t, a + 1, b - 1)) = NameText(name) => part(a, b) = vs[name]
  BY ONLY <1>5, Zenon
<1>9. \A a, b \in 1 .. Len(t) :
        hole(a, b) /\ Trim(SubSeq(t, a + 1, b - 1)) = <<>> /\ EmptyName \notin DOMAIN vs =>
          part(a, b) = <<>>
  BY ONLY <1>6, Zenon
<1> QED BY ONLY <1>4, <1>7, <1>8, <1>9, Zenon DEF RendersByPieces

-----------------------------------------------------------------------------
(* What an LLM is asked                                                    *)

(* A name and its value, as a question has them.                           *)
LineHead(name) == NameText(name) \o <<Colon>>
Line(name, vs) == LineHead(name) \o vs[name]

(* A question is a text, and without last_output it has every variable.    *)
LEMMA QuestionFacts ==
  ASSUME NEW vs, IsVariables(vs)
  PROVE  /\ Question(vs) \in Texts
         /\ "last_output" \notin DOMAIN vs =>
              \A n \in DOMAIN vs : Line(n, vs) \in SubSeqs(Question(vs))
<1>1. CASE "last_output" \in DOMAIN vs
  BY <1>1 DEF Question, IsVariables
<1>2. CASE "last_output" \notin DOMAIN vs
  <2> DEFINE order == NameOrder
             before(i) == IF \E j \in 1 .. i - 1 : order[j] \in DOMAIN vs
                          THEN <<Newline>> ELSE <<>>
             part(i) == IF order[i] \notin DOMAIN vs THEN <<>>
                        ELSE before(i) \o NameText(order[i]) \o <<Colon>> \o vs[order[i]]
             parts == [i \in DOMAIN order |-> part(i)]
             n == Len(order)
  <2>1. Question(vs) = FlattenSeq(parts)
    BY <1>2 DEF Question
  <2>2. order \in Seq(Names) /\ n \in Nat /\ DOMAIN order = 1 .. n
        /\ \A i \in 1 .. n : order[i] \in Names
    BY ChainAssumption
  <2>3. Names \subseteq Tokens \cup {EmptyName} /\ Colon \in Tokens /\ Newline \in Tokens
    BY DEF Tokens
  <2>4. \A i \in 1 .. n : before(i) \in Texts
    <3>1. <<Newline>> \in Seq(Tokens) /\ <<>> \in Seq(Tokens)
      BY <2>3
    <3> QED BY <3>1 DEF Texts
  <2> HIDE DEF n, order, before
  <2>5. ASSUME NEW i \in 1 .. n, order[i] \in DOMAIN vs
        PROVE  /\ Line(order[i], vs) \in Texts
               /\ part(i) = before(i) \o Line(order[i], vs)
    <3> DEFINE head == LineHead(order[i])
    <3>1. head \in Texts /\ NameText(order[i]) \in Texts /\ <<Colon>> \in Texts
      <4>1. NameText(order[i]) \in Seq(Tokens)
        BY <2>2, <2>3 DEF NameText
      <4>2. <<Colon>> \in Seq(Tokens)
        BY <2>3
      <4> QED BY <4>1, <4>2 DEF Texts, LineHead
    <3>2. vs[order[i]] \in Texts /\ before(i) \in Texts
      BY <2>4, <2>5 DEF IsVariables
    <3>3. part(i) = (before(i) \o head) \o vs[order[i]] /\ Line(order[i], vs) = head \o vs[order[i]]
      <4>1. PICK a, b, c \in Seq(Tokens) : a = before(i) /\ b = NameText(order[i]) /\ c = <<Colon>>
        BY <3>1, <3>2 DEF Texts
      <4>2. (a \o b) \o c = a \o (b \o c)
        BY ConcatAssociative
      <4>3. part(i) = ((a \o b) \o c) \o vs[order[i]] /\ head = b \o c
        BY <2>5, <4>1 DEF LineHead
      <4> QED BY <4>1, <4>2, <4>3 DEF Line
    <3> HIDE DEF head, part
    <3>4. head \in Seq(Tokens) /\ vs[order[i]] \in Seq(Tokens) /\ before(i) \in Seq(Tokens)
      BY <3>1, <3>2 DEF Texts
    <3>5. head \o vs[order[i]] \in Seq(Tokens)
      BY <3>4, ConcatProperties
    <3>6. \A a, b, c \in Seq(Tokens) : (a \o b) \o c = a \o (b \o c)
      BY ConcatAssociative
    <3>7. part(i) = before(i) \o Line(order[i], vs)
      <4>1. PICK a, b, c \in Seq(Tokens) : a = before(i) /\ b = head /\ c = vs[order[i]]
        BY <3>4
      <4>2. part(i) = (a \o b) \o c /\ Line(order[i], vs) = b \o c
        BY <3>3, <4>1
      <4>3. (a \o b) \o c = a \o (b \o c)
        BY <3>6
      <4> QED BY <4>1, <4>2, <4>3
    <3> QED BY <3>3, <3>5, <3>7 DEF Texts
  <2>6. \A i \in 1 .. n : part(i) \in Texts
    <3> SUFFICES ASSUME NEW i \in 1 .. n PROVE part(i) \in Texts
      OBVIOUS
    <3>1. CASE order[i] \notin DOMAIN vs
      BY <3>1 DEF Texts
    <3>2. CASE order[i] \in DOMAIN vs
      BY <2>4, <2>5, <3>2, ConcatProperties DEF Texts
    <3> QED BY <3>1, <3>2
  <2>7. parts \in Seq(Texts) /\ Len(parts) = n /\ \A i \in 1 .. n : parts[i] = part(i)
    BY <2>2, <2>6
  <2> HIDE DEF parts
  <2> DEFINE Has(s, i) == order[i] \in DOMAIN vs => \E p : StandsAt(Line(order[i], vs), s, p)
             Q == {q \in Nat \X Texts : \A i \in 1 .. n : i <= q[1] => Has(q[2], i)}
  <2>8. <<0, <<>>>> \in Q
    <3>1. <<>> \in Texts
      BY DEF Texts
    <3>2. \A i \in 1 .. n : ~(i <= 0)
      BY <2>2
    <3> HIDE DEF Has
    <3> QED BY <3>1, <3>2
  <2>9. ASSUME NEW i \in 1 .. Len(parts), NEW s \in Seq(Tokens), <<i - 1, s>> \in Q
        PROVE  <<i, s \o parts[i]>> \in Q
    <3>1. i \in 1 .. n /\ i \in Nat
      BY <2>2, <2>7
    <3>2. parts[i] \in Texts /\ s \in Texts
      BY <2>7, <3>1 DEF Texts
    <3>3. s \o parts[i] \in Texts
      BY <3>2, ConcatProperties DEF Texts
    <3>4. ASSUME NEW j \in 1 .. n, j <= i PROVE Has(s \o parts[i], j)
      <4> SUFFICES ASSUME order[j] \in DOMAIN vs
                   PROVE  \E p : StandsAt(Line(order[j], vs), s \o parts[i], p)
        OBVIOUS
      <4>1. Line(order[j], vs) \in Texts
        BY <2>5
      <4>2. CASE j = i
        <5>1. parts[i] = before(i) \o Line(order[i], vs) /\ before(i) \in Texts
          BY <2>4, <2>5, <2>7, <3>1, <4>2
        <5>2. s \o parts[i] = (s \o before(i)) \o Line(order[i], vs)
          BY <3>2, <4>1, <4>2, <5>1, ConcatAssociative DEF Texts
        <5>3. s \o before(i) \in Texts
          BY <3>2, <5>1, ConcatProperties DEF Texts
        <5>4. StandsAt(Line(order[i], vs), (s \o before(i)) \o Line(order[i], vs), Len(s \o before(i)))
          BY <4>1, <4>2, <5>3, StandsLast DEF Texts
        <5> QED BY <4>2, <5>2, <5>4
      <4>3. CASE j # i
        <5>1. j <= i - 1
          BY <3>1, <3>4, <4>3
        <5>2. PICK p : StandsAt(Line(order[j], vs), s, p)
          BY <2>9, <5>1
        <5>3. StandsAt(Line(order[j], vs), s \o parts[i], p)
          BY <3>2, <4>1, <5>2, StandsStill DEF Texts
        <5> QED BY <5>3
      <4> QED BY <4>2, <4>3
    <3> HIDE DEF Has
    <3> QED BY <3>1, <3>3, <3>4
  <2> HIDE DEF Has
  <2>10. FlattenSeq(parts) \in Texts /\ <<n, FlattenSeq(parts)>> \in Q
    <3> HIDE DEF Q
    <3> QED BY <2>7, <2>8, <2>9, FlattenInduction DEF Texts
  <2>11. \A i \in 1 .. n : Has(FlattenSeq(parts), i)
    BY <2>2, <2>10
  <2>12. ASSUME NEW name \in DOMAIN vs PROVE Line(name, vs) \in SubSeqs(FlattenSeq(parts))
    <3>1. PICK i \in 1 .. n : order[i] = name
      <4>1. name \in ToSet(NameOrder)
        BY DEF IsVariables, Names
      <4> QED BY <2>2, <4>1 DEF ToSet, order
    <3>2. PICK p : StandsAt(Line(name, vs), FlattenSeq(parts), p)
      BY <2>11, <3>1 DEF Has
    <3>3. Line(name, vs) \in Texts
      BY <2>5, <3>1
    <3> QED BY <2>10, <3>2, <3>3, PartsStand DEF Texts
  <2> QED BY <2>1, <2>10, <2>12
<1> QED BY <1>1, <1>2


-----------------------------------------------------------------------------
(* Saving and loading                                                      *)

(* The tokens of templates and of model names, those of a chain's text,    *)
(* and its nodes; a template that was read may end in half a marker.       *)
TemplateTokens == TokensOf(Templates) \cup {"}"}
NameTokens == TokensOf(Models)
Alphabet == TemplateTokens \cup NameTokens \cup Markers \cup {ArrayEnd}
LoadedNode == [type : {"prompt"}, text : Seq(TemplateTokens)]
Node == LoadedNode \cup [type : {"llm", "null"}, text : Seq(NameTokens)]

(* Tokens that change nothing inside a string.                             *)
Quiet(x) == x \notin Markers /\ x \notin Unescaped

(* The markers are told apart, from each other and from what templates     *)
(* and names hold.                                                         *)
LEMMA MarkersApart ==
  /\ PromptBegin # LLMBegin /\ PromptBegin # NodeEnd /\ PromptBegin # NullText
  /\ LLMBegin # NodeEnd /\ LLMBegin # NullText /\ NodeEnd # NullText
  /\ \A x \in Markers : x \in Alphabet /\ x # ArrayEnd
  /\ PromptBegin \in Markers /\ LLMBegin \in Markers
  /\ NodeEnd \in Markers /\ NullText \in Markers
  /\ ArrayEnd \in Alphabet /\ TemplateTokens \subseteq Alphabet /\ NameTokens \subseteq Alphabet
  /\ \A x \in TemplateTokens : Quiet(x)
  /\ \A x \in NameTokens : x \notin Markers
<1>1. /\ PromptBegin # LLMBegin /\ PromptBegin # NodeEnd /\ PromptBegin # NullText
      /\ LLMBegin # NodeEnd /\ LLMBegin # NullText /\ NodeEnd # NullText
      /\ \A x \in Markers : x # ArrayEnd /\ x # "}"
      /\ \A x \in Unescaped : x # "}"
  BY DEF PromptBegin, LLMBegin, NodeEnd, NullText, ArrayEnd, Markers, Unescaped, Quote, Backslash
<1>2. \A t \in Templates : ToSet(t) \cap (Markers \cup Unescaped) = {}
  BY ChainAssumption
<1>3. ASSUME NEW x \in TemplateTokens PROVE Quiet(x)
  <2>1. CASE x = "}"
    BY <1>1, <2>1 DEF Quiet
  <2>2. CASE x # "}"
    <3>1. PICK t \in Templates : x \in ToSet(t)
      BY <2>2 DEF TemplateTokens, TokensOf
    <3> QED BY <1>2, <3>1 DEF Quiet
  <2> QED BY <2>1, <2>2
<1>4. ASSUME NEW x \in NameTokens PROVE x \notin Markers
  <2>1. PICK t \in Models : x \in ToSet(t)
    BY DEF NameTokens, TokensOf
  <2>2. \A m \in Models : ToSet(m) \cap (Markers \cup {Escaped}) = {}
    BY ChainAssumption
  <2> QED BY <2>1, <2>2
<1>5. PromptBegin \in Markers /\ LLMBegin \in Markers /\ NodeEnd \in Markers /\ NullText \in Markers
  BY DEF Markers
<1> QED BY <1>1, <1>3, <1>4, <1>5 DEF Alphabet

-----------------------------------------------------------------------------
(* Scanning                                                                *)

(* The states scanning goes through.                                       *)
States(f, start, text, n) ==
  /\ f[0] = start
  /\ \A i \in 1 .. n : f[i] = Scan(f[i - 1], text[i])

(* There are such, and they are the ones Scanned chooses.                  *)
LEMMA StatesExist ==
  ASSUME NEW S, NEW text \in Seq(S), NEW start
  PROVE  \E f : States(f, start, text, Len(text)) /\ Scanned(start, text) = f[Len(text)]
<1> DEFINE n == Len(text)
           Eq(h) == h = [i \in 0 .. n |-> IF i = 0 THEN start ELSE Scan(h[i - 1], text[i])]
           Q == {k \in 0 .. n : \E f : DOMAIN f = 0 .. k /\ f = [i \in 0 .. k |-> f[i]]
                                      /\ States(f, start, text, k)}
<1>1. n \in Nat
  OBVIOUS
<1>2. 0 \in Q
  <2> DEFINE f == [i \in 0 .. 0 |-> start]
  <2>1. DOMAIN f = 0 .. 0 /\ f = [i \in 0 .. 0 |-> f[i]] /\ States(f, start, text, 0)
    BY DEF States
  <2> HIDE DEF f
  <2> QED BY <1>1, <2>1
<1>3. ASSUME NEW k \in 0 .. n - 1, k \in Q PROVE k + 1 \in Q
  <2>1. PICK f : DOMAIN f = 0 .. k /\ f = [i \in 0 .. k |-> f[i]] /\ States(f, start, text, k)
    BY <1>3
  <2> DEFINE g == [i \in 0 .. k + 1 |-> IF i = k + 1 THEN Scan(f[k], text[k + 1]) ELSE f[i]]
  <2>2. DOMAIN g = 0 .. k + 1 /\ g = [i \in 0 .. k + 1 |-> g[i]]
    OBVIOUS
  <2>3. k + 1 \in 0 .. n /\ k \in Nat /\ 0 \in 0 .. k + 1 /\ 0 # k + 1
    BY <1>1
  <2>4. g[0] = start
    BY <2>1, <2>3 DEF States
  <2>5. ASSUME NEW i \in 1 .. k + 1 PROVE g[i] = Scan(g[i - 1], text[i])
    <3>1. i \in 0 .. k + 1 /\ i - 1 \in 0 .. k + 1 /\ i - 1 # k + 1
      BY <2>3
    <3>2. g[i - 1] = f[i - 1]
      BY <3>1
    <3>3. CASE i = k + 1
      <4>1. i - 1 = k
        BY <2>3, <3>3
      <4> QED BY <3>1, <3>2, <3>3, <4>1
    <3>4. CASE i # k + 1
      <4>1. i \in 1 .. k
        BY <2>3, <3>4
      <4>2. f[i] = Scan(f[i - 1], text[i])
        BY <2>1, <4>1 DEF States
      <4> QED BY <3>1, <3>2, <3>4, <4>2
    <3> QED BY <3>3, <3>4
  <2> HIDE DEF g
  <2>6. States(g, start, text, k + 1)
    BY <2>4, <2>5 DEF States
  <2> QED BY <2>2, <2>3, <2>6
<1>4. n \in Q
  <2> HIDE DEF Q, n
  <2>1. \A i \in 0 .. n : i \in Q
    BY <1>1, <1>2, <1>3, UpTo
  <2> QED BY <1>1, <2>1
<1>5. PICK f : f = [i \in 0 .. n |-> f[i]] /\ States(f, start, text, n)
  BY <1>4
<1>6. Eq(f)
  <2>1. \A i \in 0 .. n : f[i] = IF i = 0 THEN start ELSE Scan(f[i - 1], text[i])
    <3>1. \A i \in 0 .. n : i # 0 => i \in 1 .. n
      BY <1>1
    <3> QED BY <1>5, <3>1 DEF States
  <2> QED BY <1>5, <2>1
<1>7. PICK h : h = (CHOOSE g : Eq(g)) /\ Eq(h)
  <2> HIDE DEF Eq
  <2> QED BY <1>6
<1>8. Scanned(start, text) = h[n]
  BY <1>7 DEF Scanned
<1>9. States(h, start, text, n)
  <2>1. \A i \in 0 .. n : h[i] = IF i = 0 THEN start ELSE Scan(h[i - 1], text[i])
    BY <1>7
  <2>2. 0 \in 0 .. n /\ \A i \in 1 .. n : i \in 0 .. n /\ i # 0
    BY <1>1
  <2> QED BY <2>1, <2>2 DEF States
<1> QED BY <1>8, <1>9

(* Scanning nothing.                                                       *)
LEMMA ScannedNothing ==
  ASSUME NEW start
  PROVE  Scanned(start, <<>>) = start
<1>1. PICK e \in Seq({}) : e = <<>> /\ Len(e) = 0
  <2>1. <<>> \in Seq({}) /\ Len(<<>>) = 0
    OBVIOUS
  <2> QED BY <2>1
<1>2. PICK f : States(f, start, e, Len(e)) /\ Scanned(start, e) = f[Len(e)]
  BY StatesExist
<1> QED BY <1>1, <1>2 DEF States

(* Scanning one token more.                                                *)
LEMMA ScannedAppend ==
  ASSUME NEW S, NEW start, NEW text \in Seq(S), NEW x \in S
  PROVE  Scanned(start, Append(text, x)) = Scan(Scanned(start, text), x)
<1>1. PICK n \in Nat : n = Len(text)
  OBVIOUS
<1>2. PICK more \in Seq(S) : /\ more = Append(text, x) /\ Len(more) = n + 1
                             /\ more[n + 1] = x /\ \A i \in 1 .. n : more[i] = text[i]
  <2>1. /\ Append(text, x) \in Seq(S) /\ Len(Append(text, x)) = n + 1
        /\ Append(text, x)[n + 1] = x /\ \A i \in 1 .. n : Append(text, x)[i] = text[i]
    BY <1>1
  <2> QED BY <2>1
<1>3. PICK f : States(f, start, text, n) /\ Scanned(start, text) = f[n]
  BY <1>1, StatesExist
<1>4. PICK g : States(g, start, more, n + 1) /\ Scanned(start, more) = g[n + 1]
  BY <1>2, StatesExist
<1> DEFINE Q == {i \in 0 .. n : f[i] = g[i]}
<1>5. 0 \in Q
  BY <1>3, <1>4 DEF States
<1>6. ASSUME NEW i \in 0 .. n - 1, i \in Q PROVE i + 1 \in Q
  <2>1. i + 1 \in 1 .. n /\ i + 1 \in 1 .. n + 1 /\ (i + 1) - 1 = i /\ i + 1 \in 0 .. n
    OBVIOUS
  <2>2. f[i + 1] = Scan(f[i], text[i + 1]) /\ g[i + 1] = Scan(g[i], more[i + 1])
    BY <1>3, <1>4, <2>1 DEF States
  <2> QED BY <1>2, <1>6, <2>1, <2>2
<1>7. f[n] = g[n]
  <2> HIDE DEF Q
  <2>1. \A i \in 0 .. n : i \in Q
    BY <1>5, <1>6, UpTo
  <2>2. n \in Q
    BY <2>1
  <2> QED BY <2>2 DEF Q
<1>8. g[n + 1] = Scan(g[n], more[n + 1])
  <2>1. n + 1 \in 1 .. n + 1 /\ (n + 1) - 1 = n
    OBVIOUS
  <2> QED BY <1>4, <2>1 DEF States
<1> QED BY <1>2, <1>3, <1>4, <1>7, <1>8

(* Scanning one text after another.                                        *)
LEMMA ScannedConcat ==
  ASSUME NEW S, NEW start, NEW u \in Seq(S), NEW v \in Seq(S)
  PROVE  Scanned(start, u \o v) = Scanned(Scanned(start, u), v)
<1> DEFINE Q == {w \in Seq(S) : Scanned(start, u \o w) = Scanned(Scanned(start, u), w)}
<1>1. <<>> \in Q
  <2>1. u \o <<>> = u /\ <<>> \in Seq(S)
    OBVIOUS
  <2>2. PICK now : now = Scanned(start, u)
    OBVIOUS
  <2>3. Scanned(now, <<>>) = now
    BY ScannedNothing
  <2> QED BY <2>1, <2>2, <2>3
<1>2. ASSUME NEW w \in Seq(S), NEW x \in S, w \in Q PROVE Append(w, x) \in Q
  <2>1. u \o Append(w, x) = Append(u \o w, x) /\ u \o w \in Seq(S) /\ Append(w, x) \in Seq(S)
    OBVIOUS
  <2>2. PICK uw \in Seq(S) : uw = u \o w
    BY <2>1
  <2>3. PICK now : now = Scanned(start, u)
    OBVIOUS
  <2>6. Scanned(start, Append(uw, x)) = Scan(Scanned(start, uw), x)
    BY ScannedAppend
  <2>7. Scanned(now, Append(w, x)) = Scan(Scanned(now, w), x)
    BY ScannedAppend
  <2>8. Scanned(start, uw) = Scanned(now, w)
    BY <1>2, <2>2, <2>3
  <2>9. Scanned(start, u \o Append(w, x)) = Scanned(now, Append(w, x))
    BY <2>1, <2>2, <2>6, <2>7, <2>8
  <2> QED BY <2>1, <2>3, <2>9
<1>3. v \in Q
  <2> HIDE DEF Q
  <2> QED BY <1>1, <1>2, SeqInduction
<1> QED BY <1>3

(* The beginning of a text.                                                *)
LEMMA PrefixFacts ==
  ASSUME NEW S, NEW s \in Seq(S), NEW n \in 0 .. Len(s)
  PROVE  /\ SubSeq(s, 1, n) \in Seq(S) /\ Len(SubSeq(s, 1, n)) = n
         /\ \A i \in 1 .. n : SubSeq(s, 1, n)[i] = s[i]
<1>1. n \in Nat /\ n <= Len(s) /\ 1 \in Nat \ {0} /\ 1 <= n + 1
  OBVIOUS
<1>2. PICK p : p = SubSeq(s, 1, n)
  OBVIOUS
<1>3. p \in Seq(S) /\ Len(p) = n - 1 + 1 /\ StandsAt(p, s, 1 - 1)
  BY <1>1, <1>2, SubSeqStands
<1>4. Len(p) = n
  BY <1>1, <1>3
<1>5. \A i \in 1 .. n : p[i] = s[(1 - 1) + i] /\ (1 - 1) + i = i
  BY <1>3, <1>4 DEF StandsAt
<1> QED BY <1>2, <1>3, <1>4, <1>5

(* What ends in the second of two texts.                                   *)
LEMMA PrefixOfConcat ==
  ASSUME NEW S, NEW u \in Seq(S), NEW v \in Seq(S), NEW r \in 0 .. Len(v)
  PROVE  SubSeq(u \o v, 1, Len(u) + r) = u \o SubSeq(v, 1, r)
<1>1. PICK m \in Nat, n \in Nat : m = Len(u) /\ n = Len(v)
  OBVIOUS
<1>2. r \in Nat /\ r <= n
  BY <1>1
<1>3. PICK b \in Seq(S) : b = u \o v
  BY ConcatProperties
<1>4. Len(b) = m + n /\ \A i \in 1 .. m + n : b[i] = IF i <= m THEN u[i] ELSE v[i - m]
  BY <1>1, <1>3, ConcatProperties
<1>5. PICK p \in Seq(S) : p = SubSeq(v, 1, r) /\ Len(p) = r /\ \A i \in 1 .. r : p[i] = v[i]
  BY PrefixFacts
<1>6. PICK k \in 0 .. Len(b) : k = m + r
  BY <1>2, <1>4
<1>7. PICK q \in Seq(S) : q = SubSeq(b, 1, k) /\ Len(q) = k /\ \A i \in 1 .. k : q[i] = b[i]
  BY PrefixFacts
<1>8. PICK w \in Seq(S) : w = u \o p
  BY ConcatProperties
<1>9. Len(w) = m + r /\ \A i \in 1 .. m + r : w[i] = IF i <= m THEN u[i] ELSE p[i - m]
  BY <1>1, <1>5, <1>8, ConcatProperties
<1>10. ASSUME NEW i \in 1 .. k PROVE q[i] = w[i]
  <2>1. i \in 1 .. m + n /\ i \in 1 .. m + r
    BY <1>2, <1>6
  <2>2. ~(i <= m) => i - m \in 1 .. r
    BY <1>2, <2>1
  <2> QED BY <1>4, <1>5, <1>7, <1>9, <2>1, <2>2
<1>11. q = w
  <2>1. Len(q) = Len(w) /\ \A i \in 1 .. Len(q) : q[i] = w[i]
    BY <1>6, <1>7, <1>9, <1>10
  <2> QED BY ONLY <2>1, q \in Seq(S), w \in Seq(S), SeqEqual
<1> QED BY <1>1, <1>3, <1>5, <1>6, <1>7, <1>8, <1>11

(* Inside a prompt node, in its template, and inside an LLM node, in the   *)
(* model's name.                                                           *)
InTemplate(text, read) ==
  [depth |-> 1, string |-> "in", type |-> "prompt",
   reading |-> TRUE, text |-> text, read |-> read]
InName(read) ==
  [depth |-> 1, string |-> "in", type |-> "llm",
   reading |-> FALSE, text |-> <<>>, read |-> read]

(* What a marker does between two nodes.                                   *)
LEMMA ScanBetween ==
  ASSUME NEW read
  PROVE  /\ Scan(Between(read), PromptBegin) = InTemplate(<<>>, read)
         /\ Scan(Between(read), LLMBegin) = InName(read)
         /\ Scan(Between(read), NullText) = Between(read)
<1>1. PICK s : s = Between(read)
  OBVIOUS
<1>2. /\ s.depth = 0 /\ s.string = "out" /\ s.type = "none" /\ s.reading = FALSE
      /\ s.text = <<>> /\ s.read = read
  BY <1>1 DEF Between
<1>3. 0 \notin 1 .. 0
  OBVIOUS
<1>4. Scan(s, PromptBegin) = InTemplate(<<>>, read)
  <2>1. PICK token, type : token = PromptBegin /\ type = "prompt"
    OBVIOUS
  <2>2. /\ Opening(token) = 1 /\ Closing(token) = 0 /\ TypeIn(token) = type
        /\ StringAfter(s.string, token) = "in" /\ token # NodeEnd
    BY <1>2, <2>1 DEF Opening, Closing, TypeIn, StringAfter, PromptBegin, LLMBegin, NodeEnd,
                      NullText, Quote, Backslash, Escaped
  <2>3. PICK text, reading : reading \in BOOLEAN /\ reading = TRUE /\ text = <<>>
    OBVIOUS
  <2>4. reading = (token = PromptBegin)
    BY <2>1, <2>3
  <2>5. Scan(s, token) = [depth |-> 1, string |-> "in", type |-> type, reading |-> reading,
                          text |-> text, read |-> read]
    BY <1>2, <1>3, <2>2, <2>3, <2>4 DEF Scan
  <2> QED BY <2>1, <2>3, <2>5 DEF InTemplate
<1>5. Scan(s, LLMBegin) = InName(read)
  <2>1. PICK token, type : token = LLMBegin /\ type = "llm"
    OBVIOUS
  <2>2. /\ Opening(token) = 1 /\ Closing(token) = 0 /\ TypeIn(token) = type
        /\ StringAfter(s.string, token) = "in" /\ token # NodeEnd /\ token # PromptBegin
    BY <1>2, <2>1 DEF Opening, Closing, TypeIn, StringAfter, PromptBegin, LLMBegin, NodeEnd,
                      NullText, Quote, Backslash, Escaped
  <2>3. PICK text, reading : reading \in BOOLEAN /\ reading = FALSE /\ text = <<>>
    OBVIOUS
  <2>4. reading = (token = PromptBegin)
    BY <2>2, <2>3
  <2>5. Scan(s, token) = [depth |-> 1, string |-> "in", type |-> type, reading |-> reading,
                          text |-> text, read |-> read]
    BY <1>2, <1>3, <2>2, <2>3, <2>4 DEF Scan
  <2> QED BY <2>1, <2>3, <2>5 DEF InName
<1>6. Scan(s, NullText) = s
  <2>1. Opening(NullText) = 0
    BY DEF Opening, PromptBegin, LLMBegin, NullText
  <2> QED BY <1>2, <2>1 DEF Scan
<1> QED BY <1>1, <1>4, <1>5, <1>6

(* What a quiet token does inside a node: a template that is read gets it. *)
LEMMA ScanQuiet ==
  ASSUME NEW x, NEW s, s.reading \in BOOLEAN, s.type # "none", s.depth = 1, s.string = "in",
         x # NodeEnd, x # PromptBegin, StringAfter("in", x) = "in"
  PROVE  Scan(s, x) = [depth |-> 1, string |-> "in", type |-> s.type, reading |-> s.reading,
                       text |-> IF s.reading THEN Append(s.text, x) ELSE s.text, read |-> s.read]
<1>1. PICK r \in BOOLEAN : r = s.reading
  OBVIOUS
<1>2. Scan(s, x) = [depth |-> 1, string |-> "in", type |-> s.type, reading |-> r,
                    text |-> IF r THEN Append(s.text, x) ELSE s.text, read |-> s.read]
  BY <1>1 DEF Scan
<1> QED BY <1>1, <1>2

(* In a template it stands there, in a name it is passed over.             *)
LEMMA ScanInside ==
  ASSUME NEW x, Quiet(x), NEW text, NEW read
  PROVE  /\ Scan(InTemplate(text, read), x) = InTemplate(Append(text, x), read)
         /\ Scan(InName(read), x) = InName(read)
<1>1. x # NodeEnd /\ x # PromptBegin /\ StringAfter("in", x) = "in"
  <2>1. x # NodeEnd /\ x # PromptBegin /\ x # LLMBegin /\ x # Quote /\ x # Backslash
    BY DEF Quiet, Markers, Unescaped
  <2> QED BY <2>1 DEF StringAfter
<1>2. Scan(InTemplate(text, read), x) = InTemplate(Append(text, x), read)
  <2>1. PICK s : s = InTemplate(text, read)
    OBVIOUS
  <2>2. /\ s.depth = 1 /\ s.string = "in" /\ s.reading = TRUE /\ s.reading \in BOOLEAN
        /\ s.text = text /\ s.read = read /\ s.type = "prompt"
    BY <2>1 DEF InTemplate
  <2>3. s.type # "none"
    BY <2>2
  <2>4. Scan(s, x) = [depth |-> 1, string |-> "in", type |-> s.type, reading |-> s.reading,
                      text |-> IF s.reading THEN Append(s.text, x) ELSE s.text, read |-> s.read]
    BY ONLY <1>1, <2>2, <2>3, ScanQuiet
  <2> QED BY <2>1, <2>2, <2>4 DEF InTemplate
<1>3. Scan(InName(read), x) = InName(read)
  <2>1. PICK s : s = InName(read)
    OBVIOUS
  <2>2. /\ s.depth = 1 /\ s.string = "in" /\ s.reading = FALSE /\ s.reading \in BOOLEAN
        /\ s.text = <<>> /\ s.read = read /\ s.type = "llm"
    BY <2>1 DEF InName
  <2>3. s.type # "none"
    BY <2>2
  <2>4. Scan(s, x) = [depth |-> 1, string |-> "in", type |-> s.type, reading |-> s.reading,
                      text |-> IF s.reading THEN Append(s.text, x) ELSE s.text, read |-> s.read]
    BY ONLY <1>1, <2>2, <2>3, ScanQuiet
  <2> QED BY <2>1, <2>2, <2>4 DEF InName
<1> QED BY <1>2, <1>3

(* And what its end does.                                                  *)
LEMMA ScanEnd ==
  ASSUME NEW text, NEW read
  PROVE  /\ ReadAt(InTemplate(text, read)) = Append(read, PromptNode(text))
         /\ ReadAt(InName(read)) = read
         /\ Scan(InTemplate(text, read), NodeEnd) = Between(Append(read, PromptNode(text)))
         /\ Scan(InName(read), NodeEnd) = Between(read)
<1>1. /\ ReadAt(InTemplate(text, read)) = Append(read, PromptNode(text))
      /\ ReadAt(InName(read)) = read
  BY DEF ReadAt, InTemplate, InName
<1>2. ASSUME NEW s, s.depth = 1, s.string = "in", [s EXCEPT !.text = s.text] = s
      PROVE  Scan(s, NodeEnd) = Between(ReadAt(s))
  <2>1. Closing(NodeEnd) = 1
    BY DEF Closing, NodeEnd
  <2>2. 1 \in 1 .. 1 /\ ~(1 < 1) /\ 1 # 0
    OBVIOUS
  <2> QED BY <1>2, <2>1, <2>2 DEF Scan
<1>3. Scan(InTemplate(text, read), NodeEnd) = Between(ReadAt(InTemplate(text, read)))
  <2>1. PICK s : s = InTemplate(text, read)
    OBVIOUS
  <2>2. s.depth = 1 /\ s.string = "in" /\ [s EXCEPT !.text = s.text] = s
    BY <2>1 DEF InTemplate
  <2> QED BY <1>2, <2>1, <2>2
<1>4. Scan(InName(read), NodeEnd) = Between(ReadAt(InName(read)))
  <2>1. PICK s : s = InName(read)
    OBVIOUS
  <2>2. s.depth = 1 /\ s.string = "in" /\ [s EXCEPT !.text = s.text] = s
    BY <2>1 DEF InName
  <2> QED BY <1>2, <2>1, <2>2
<1> QED BY <1>1, <1>3, <1>4

(* Quiet tokens one after the other.                                       *)
LEMMA QuietText ==
  ASSUME NEW S, \A x \in S : Quiet(x), NEW read, NEW w \in Seq(S)
  PROVE  /\ Scanned(InTemplate(<<>>, read), w) = InTemplate(w, read)
         /\ Scanned(InName(read), w) = InName(read)
<1>1. PICK a, b : a = InTemplate(<<>>, read) /\ b = InName(read)
  OBVIOUS
<1> DEFINE Q == {v \in Seq(S) : Scanned(a, v) = InTemplate(v, read) /\ Scanned(b, v) = b}
<1>2. <<>> \in Q
  <2>1. <<>> \in Seq(S)
    OBVIOUS
  <2>2. Scanned(a, <<>>) = a /\ Scanned(b, <<>>) = b
    BY ScannedNothing
  <2> QED BY <1>1, <2>1, <2>2
<1>3. ASSUME NEW v \in Seq(S), NEW x \in S, v \in Q PROVE Append(v, x) \in Q
  <2>1. Append(v, x) \in Seq(S)
    OBVIOUS
  <2>2. Scanned(a, Append(v, x)) = Scan(Scanned(a, v), x) /\ Scanned(b, Append(v, x)) = Scan(Scanned(b, v), x)
    BY ScannedAppend
  <2>3. Scan(InTemplate(v, read), x) = InTemplate(Append(v, x), read) /\ Scan(b, x) = b
    BY <1>1, ScanInside
  <2> QED BY <1>3, <2>1, <2>2, <2>3
<1>4. w \in Q
  <2> HIDE DEF Q
  <2> QED BY <1>2, <1>3, SeqInduction
<1> QED BY <1>1, <1>4

-----------------------------------------------------------------------------
(* The text of a chain                                                     *)

(* How the text of a node begins that has a text of its own.               *)
Beginning(node) == IF node.type = "prompt" THEN PromptBegin ELSE LLMBegin
Headed(node, w) == <<Beginning(node)>> \o w

(* What a node writes, token by token.                                     *)
LEMMA NodeTextFacts ==
  ASSUME NEW x \in Node
  PROVE  /\ x.text \in Seq(Alphabet) /\ Beginning(x) \in Markers
         /\ NodeText(x) \in Seq(Alphabet)
         /\ x.type = "null" => NodeText(x) = <<NullText>>
         /\ x.type # "null" =>
              /\ NodeText(x) = Headed(x, x.text) \o <<NodeEnd>>
              /\ Len(NodeText(x)) = Len(x.text) + 2
              /\ NodeText(x)[1] = Beginning(x)
              /\ \A i \in 1 .. Len(x.text) : NodeText(x)[i + 1] = x.text[i]
              /\ NodeText(x)[Len(x.text) + 2] = NodeEnd
<1>1. x.text \in Seq(Alphabet) /\ x.type \in {"prompt", "llm", "null"}
  <2>1. CASE x \in LoadedNode
    <3>1. x.text \in Seq(TemplateTokens) /\ x.type = "prompt"
      BY <2>1 DEF LoadedNode
    <3> QED BY <3>1, MarkersApart
  <2>2. CASE x \in [type : {"llm", "null"}, text : Seq(NameTokens)]
    <3>1. x.text \in Seq(NameTokens) /\ x.type \in {"llm", "null"}
      BY <2>2
    <3> QED BY <3>1, MarkersApart
  <2> QED BY <2>1, <2>2 DEF Node
<1>2. Beginning(x) \in Markers
  BY MarkersApart DEF Beginning
<1>3. CASE x.type = "null"
  <2>1. NodeText(x) = <<NullText>>
    BY <1>3 DEF NodeText
  <2>2. <<NullText>> \in Seq(Alphabet)
    BY MarkersApart
  <2> QED BY <1>1, <1>2, <1>3, <2>1, <2>2
<1>4. CASE x.type # "null"
  <2>1. NodeText(x) = Headed(x, x.text) \o <<NodeEnd>>
    <3>1. CASE x.type = "prompt"
      BY <3>1 DEF NodeText, Headed, Beginning
    <3>2. CASE x.type = "llm"
      BY <3>2 DEF NodeText, Headed, Beginning
    <3> QED BY <1>1, <1>4, <3>1, <3>2
  <2>2. PICK w \in Seq(Alphabet), n \in Nat : w = x.text /\ n = Len(w)
    <3>1. Len(x.text) \in Nat
      BY <1>1
    <3> QED BY <1>1, <3>1
  <2>3. PICK a \in Seq(Alphabet), z \in Seq(Alphabet) :
          /\ a = <<Beginning(x)>> /\ Len(a) = 1 /\ a[1] = Beginning(x)
          /\ z = <<NodeEnd>> /\ Len(z) = 1 /\ z[1] = NodeEnd
    <3>1. <<Beginning(x)>> \in Seq(Alphabet) /\ <<NodeEnd>> \in Seq(Alphabet)
      BY <1>2, MarkersApart
    <3> QED BY <3>1
  <2>4. PICK h \in Seq(Alphabet) :
          /\ h = a \o w /\ Len(h) = 1 + n
          /\ \A i \in 1 .. 1 + n : h[i] = IF i <= 1 THEN a[i] ELSE w[i - 1]
    <3>1. /\ a \o w \in Seq(Alphabet) /\ Len(a \o w) = 1 + n
          /\ \A i \in 1 .. 1 + n : (a \o w)[i] = IF i <= 1 THEN a[i] ELSE w[i - 1]
      BY <2>2, <2>3, ConcatProperties
    <3> QED BY <3>1
  <2>5. PICK t \in Seq(Alphabet) :
          /\ t = h \o z /\ Len(t) = n + 2
          /\ \A i \in 1 .. n + 2 : t[i] = IF i <= n + 1 THEN h[i] ELSE z[i - (n + 1)]
    <3>1. /\ h \o z \in Seq(Alphabet) /\ Len(h \o z) = Len(h) + Len(z)
          /\ \A i \in 1 .. Len(h) + Len(z) : (h \o z)[i] = IF i <= Len(h) THEN h[i] ELSE z[i - Len(h)]
      BY ConcatProperties
    <3>2. Len(h) = n + 1 /\ Len(z) = 1 /\ (n + 1) + 1 = n + 2
      BY <2>3, <2>4
    <3> QED BY <3>1, <3>2
  <2>6. t[1] = Beginning(x)
    <3>1. 1 \in 1 .. n + 2 /\ 1 <= n + 1 /\ 1 \in 1 .. 1 + n /\ 1 <= 1
      OBVIOUS
    <3> QED BY <2>3, <2>4, <2>5, <3>1
  <2>7. ASSUME NEW i \in 1 .. n PROVE t[i + 1] = w[i]
    <3>1. i + 1 \in 1 .. n + 2 /\ i + 1 <= n + 1 /\ i + 1 \in 1 .. 1 + n /\ ~(i + 1 <= 1) /\ (i + 1) - 1 = i
      OBVIOUS
    <3> QED BY <2>4, <2>5, <3>1
  <2>8. t[n + 2] = NodeEnd
    <3>1. n + 2 \in 1 .. n + 2 /\ ~(n + 2 <= n + 1) /\ (n + 2) - (n + 1) = 1
      OBVIOUS
    <3> QED BY <2>3, <2>5, <3>1
  <2>9. NodeText(x) = t
    BY <2>1, <2>2, <2>3, <2>4, <2>5 DEF Headed
  <2> QED BY <1>1, <1>2, <1>4, <2>1, <2>2, <2>5, <2>6, <2>7, <2>8, <2>9
<1> QED BY <1>3, <1>4

(* What was scanned of a node whose text breaks off after w, and the nodes *)
(* that are read if the array ends there.                                  *)
Inside(node, w, read) ==
  IF node.type = "prompt" THEN InTemplate(w, read) ELSE InName(read)
ReadWith(node, w, read) ==
  IF node.type = "prompt" THEN Append(read, PromptNode(w)) ELSE read

(* A node without a quote or backslash that is not escaped is scanned as   *)
(* it was written.                                                         *)
LEMMA ScanNode ==
  ASSUME NEW x \in Node, Clean(x), NEW read
  PROVE  /\ x.type # "null" => \A k \in 0 .. Len(x.text) :
              /\ Scanned(Between(read), Headed(x, SubSeq(x.text, 1, k)))
                   = Inside(x, SubSeq(x.text, 1, k), read)
              /\ ReadAt(Inside(x, SubSeq(x.text, 1, k), read))
                   = ReadWith(x, SubSeq(x.text, 1, k), read)
         /\ Scanned(Between(read), NodeText(x))
              = Between(IF x.type = "prompt" THEN Append(read, x) ELSE read)
<1>1. CASE x.type = "null"
  <2>1. PICK e \in Seq(Alphabet), y \in Alphabet : e = <<>> /\ y = NullText
    <3>1. <<>> \in Seq(Alphabet) /\ NullText \in Alphabet
      BY MarkersApart
    <3> QED BY <3>1
  <2>2. Append(e, y) = <<y>>
    BY <2>1
  <2>3. PICK start : start = Between(read)
    OBVIOUS
  <2>4. Scanned(start, Append(e, y)) = Scan(Scanned(start, e), y)
    BY ScannedAppend
  <2>5. Scanned(start, e) = start
    BY <2>1, ScannedNothing
  <2>6. Scan(start, y) = start
    BY <2>1, <2>3, ScanBetween
  <2>7. NodeText(x) = <<y>>
    BY <1>1, <2>1, NodeTextFacts
  <2>8. x.type # "prompt"
    BY <1>1
  <2> QED BY <1>1, <2>2, <2>3, <2>4, <2>5, <2>6, <2>7, <2>8
<1>2. CASE x.type # "null"
  <2>1. PICK S : S = {y \in Alphabet : Quiet(y)}
    OBVIOUS
  <2>2. PICK text \in Seq(S) : text = x.text /\ text \in Seq(Alphabet)
    <3>1. PICK t \in Seq(Alphabet) : t = x.text
      BY NodeTextFacts
    <3>2. ASSUME NEW i \in 1 .. Len(t) PROVE Quiet(t[i])
      <4>1. CASE x \in LoadedNode
        <5>1. t \in Seq(TemplateTokens)
          BY <3>1, <4>1 DEF LoadedNode
        <5> QED BY <3>2, <5>1, MarkersApart
      <4>2. CASE x \in [type : {"llm", "null"}, text : Seq(NameTokens)]
        <5>1. t \in Seq(NameTokens) /\ x.type = "llm"
          BY <1>2, <3>1, <4>2
        <5>2. t[i] \notin Markers
          BY <3>2, <5>1, MarkersApart
        <5>3. t[i] \in ToSet(t)
          BY <3>2 DEF ToSet
        <5> QED BY <3>1, <5>1, <5>2, <5>3 DEF Clean, Quiet
      <4> QED BY <4>1, <4>2 DEF Node
    <3>3. t \in Seq(S)
      BY <2>1, <3>1, <3>2
    <3> QED BY <3>1, <3>3
  <2>3. \A y \in S : Quiet(y)
    BY <2>1
  <2>4. ASSUME NEW w \in Seq(S), w \in Seq(Alphabet)
        PROVE  /\ Scanned(Between(read), Headed(x, w)) = Inside(x, w, read)
               /\ ReadAt(Inside(x, w, read)) = ReadWith(x, w, read)
    <3>1. PICK one \in Seq(Alphabet), b \in Alphabet : b = Beginning(x) /\ one = <<b>>
      <4>1. Beginning(x) \in Alphabet
        BY NodeTextFacts, MarkersApart
      <4>2. <<Beginning(x)>> \in Seq(Alphabet)
        BY <4>1
      <4> QED BY <4>1, <4>2
    <3>2. PICK e \in Seq(Alphabet), start \in {Between(read)} :
             e = <<>> /\ start = Between(read) /\ Append(e, b) = one
      <4>1. <<>> \in Seq(Alphabet) /\ Append(<<>>, b) = <<b>>
        OBVIOUS
      <4> QED BY <3>1, <4>1
    <3>3. Scanned(start, one \o w) = Scanned(Scanned(start, one), w)
      BY <2>4, ScannedConcat
    <3>4. Scanned(start, one) = Scan(start, b)
      <4>1. Scanned(start, Append(e, b)) = Scan(Scanned(start, e), b)
        BY ScannedAppend
      <4>2. Scanned(start, e) = start
        BY <3>2, ScannedNothing
      <4> QED BY <3>2, <4>1, <4>2
    <3>5. PICK a, c : a = InTemplate(<<>>, read) /\ c = InName(read)
      OBVIOUS
    <3>6. Scanned(a, w) = InTemplate(w, read) /\ Scanned(c, w) = c
      BY <2>3, <3>5, QuietText
    <3>7. CASE x.type = "prompt"
      <4>1. Scan(start, b) = a
        BY <3>1, <3>2, <3>5, <3>7, ScanBetween DEF Beginning
      <4>2. Scanned(Between(read), Headed(x, w)) = InTemplate(w, read)
        BY <3>1, <3>2, <3>3, <3>4, <3>6, <4>1 DEF Headed
      <4> QED BY <3>7, <4>2, ScanEnd DEF Inside, ReadWith
    <3>8. CASE x.type # "prompt"
      <4>1. Scan(start, b) = c
        BY <3>1, <3>2, <3>5, <3>8, ScanBetween DEF Beginning
      <4>2. Scanned(Between(read), Headed(x, w)) = InName(read)
        BY <3>1, <3>2, <3>3, <3>4, <3>5, <3>6, <4>1 DEF Headed
      <4> QED BY <3>8, <4>2, ScanEnd DEF Inside, ReadWith
    <3> QED BY <3>7, <3>8
  <2>5. ASSUME NEW k \in 0 .. Len(x.text)
        PROVE  SubSeq(x.text, 1, k) \in Seq(S) /\ SubSeq(x.text, 1, k) \in Seq(Alphabet)
    <3>1. k \in 0 .. Len(text)
      BY <2>2
    <3> QED BY <2>2, <3>1, PrefixFacts
  <2>6. Scanned(Between(read), NodeText(x)) = Between(ReadWith(x, text, read))
    <3>1. PICK h \in Seq(Alphabet), y \in Alphabet : h = Headed(x, text) /\ y = NodeEnd
      <4>1. <<Beginning(x)>> \in Seq(Alphabet)
        BY NodeTextFacts, MarkersApart
      <4>2. Headed(x, text) \in Seq(Alphabet)
        BY <2>2, <4>1, ConcatProperties DEF Headed
      <4> QED BY <4>2, MarkersApart
    <3>2. NodeText(x) = Append(h, y)
      <4>1. NodeText(x) = h \o <<y>>
        BY <1>2, <2>2, <3>1, NodeTextFacts
      <4>2. h \o <<y>> = Append(h, y)
        BY ONLY h \in Seq(Alphabet), y \in Alphabet, AppendIsConcat
      <4> QED BY <4>1, <4>2
    <3>3. PICK start : start = Between(read)
      OBVIOUS
    <3>4. Scanned(start, Append(h, y)) = Scan(Scanned(start, h), y)
      BY ScannedAppend
    <3>5. Scanned(start, h) = Inside(x, text, read)
      BY <2>2, <2>4, <3>1, <3>3
    <3>6. Scan(Inside(x, text, read), y) = Between(ReadWith(x, text, read))
      BY <3>1, ScanEnd DEF Inside, ReadWith
    <3> QED BY <3>2, <3>3, <3>4, <3>5, <3>6
  <2>7. ReadWith(x, text, read) = IF x.type = "prompt" THEN Append(read, x) ELSE read
    <3>1. x.type = "prompt" => PromptNode(text) = x
      BY <2>2 DEF PromptNode, Node, LoadedNode
    <3> QED BY <3>1 DEF ReadWith
  <2> QED BY <1>2, <2>4, <2>5, <2>6, <2>7
<1> QED BY <1>1, <1>2

(* The text of the nodes of a list.                                        *)
Body(list) == FlattenSeq([i \in DOMAIN list |-> NodeText(list[i])])

(* The text of a list is that of its nodes, one after the other, then the  *)
(* end of the array.                                                       *)
LEMMA BodyFacts ==
  /\ Body(<<>>) = <<>>
  /\ \A list \in Seq(Node) : Body(list) \in Seq(Alphabet)
  /\ \A list \in Seq(Node), x \in Node : Body(Append(list, x)) = Body(list) \o NodeText(x)
  /\ \A list \in Seq(Node) : Serialized(list) = Body(list) \o <<ArrayEnd>>
<1> DEFINE F == [x \in Node |-> NodeText(x)]
<1>1. Maps(F, Node, Seq(Alphabet))
  BY NodeTextFacts DEF Maps
<1>2. ASSUME NEW list \in Seq(Node) PROVE Body(list) = Gathered(F, list)
  <2>1. \A i \in DOMAIN list : list[i] \in Node
    OBVIOUS
  <2>2. Mapped(F, list) = [i \in DOMAIN list |-> NodeText(list[i])]
    BY <2>1 DEF Mapped
  <2> QED BY <2>2 DEF Body, Gathered
<1>3. \A x \in Node : F[x] = NodeText(x)
  OBVIOUS
<1> HIDE DEF F
<1>4. \A list \in Seq(Node), x \in Node :
        /\ Gathered(F, list) \in Seq(Alphabet)
        /\ Gathered(F, Append(list, x)) = Gathered(F, list) \o F[x]
  BY <1>1, GatheredAppend
<1>5. Gathered(F, <<>>) = <<>> /\ \A list \in Seq(Node) : Gathered(F, list) \in Seq(Alphabet)
  BY <1>1, GatheredConcat
<1>6. Body(<<>>) = <<>>
  <2>1. <<>> \in Seq(Node)
    OBVIOUS
  <2> QED BY <1>2, <1>5, <2>1
<1>7. ASSUME NEW list \in Seq(Node), NEW x \in Node
      PROVE  Body(Append(list, x)) = Body(list) \o NodeText(x)
  <2>1. Append(list, x) \in Seq(Node)
    OBVIOUS
  <2> QED BY <1>2, <1>3, <1>4, <2>1
<1>8. ASSUME NEW list \in Seq(Node) PROVE Serialized(list) = Body(list) \o <<ArrayEnd>>
  BY DEF Serialized, Body, NodeText
<1> QED BY <1>2, <1>5, <1>6, <1>7, <1>8

(* The prompt nodes of a list with one node more.                          *)
LEMMA PromptsFacts ==
  /\ PromptsOf(<<>>) = <<>>
  /\ \A list \in Seq(Node) : PromptsOf(list) \in Seq(Node)
  /\ \A list \in Seq(Node), x \in Node :
       /\ x.type = "prompt" => PromptsOf(Append(list, x)) = Append(PromptsOf(list), x)
       /\ x.type # "prompt" => PromptsOf(Append(list, x)) = PromptsOf(list)
<1> DEFINE F == [x \in Node |-> IF x.type = "prompt" THEN <<x>> ELSE <<>>]
<1>1. Maps(F, Node, Seq(Node))
  <2>1. \A x \in Node : <<x>> \in Seq(Node) /\ <<>> \in Seq(Node)
    OBVIOUS
  <2> QED BY <2>1 DEF Maps
<1>2. ASSUME NEW list \in Seq(Node) PROVE PromptsOf(list) = Gathered(F, list)
  <2>1. \A i \in DOMAIN list : list[i] \in Node
    OBVIOUS
  <2>2. Mapped(F, list) =
          [i \in DOMAIN list |-> IF list[i].type = "prompt" THEN <<list[i]>> ELSE <<>>]
    BY <2>1 DEF Mapped
  <2> QED BY <2>2 DEF PromptsOf, Gathered
<1>3. \A x \in Node : F[x] = IF x.type = "prompt" THEN <<x>> ELSE <<>>
  OBVIOUS
<1> HIDE DEF F
<1>4. \A list \in Seq(Node), x \in Node :
        /\ Gathered(F, list) \in Seq(Node)
        /\ Gathered(F, Append(list, x)) = Gathered(F, list) \o F[x]
  BY <1>1, GatheredAppend
<1>5. Gathered(F, <<>>) = <<>> /\ \A list \in Seq(Node) : Gathered(F, list) \in Seq(Node)
  BY <1>1, GatheredConcat
<1>6. PromptsOf(<<>>) = <<>>
  <2>1. <<>> \in Seq(Node)
    OBVIOUS
  <2> QED BY <1>2, <1>5, <2>1
<1>7. ASSUME NEW list \in Seq(Node), NEW x \in Node
      PROVE  /\ x.type = "prompt" => PromptsOf(Append(list, x)) = Append(PromptsOf(list), x)
             /\ x.type # "prompt" => PromptsOf(Append(list, x)) = PromptsOf(list)
  <2>1. Append(list, x) \in Seq(Node)
    OBVIOUS
  <2>2. PromptsOf(Append(list, x)) = PromptsOf(list) \o F[x] /\ PromptsOf(list) \in Seq(Node)
    BY <1>2, <1>4, <2>1
  <2>3. PICK p \in Seq(Node) : p = PromptsOf(list)
    BY <2>2
  <2>4. p \o <<>> = p
    OBVIOUS
  <2>5. p \o <<x>> = Append(p, x)
    BY ONLY p \in Seq(Node), x \in Node, AppendIsConcat
  <2> QED BY <1>3, <2>2, <2>3, <2>4, <2>5
<1> QED BY <1>2, <1>5, <1>6, <1>7

(* What is written is read: the prompt nodes, up to the first name with a  *)
(* quote or backslash.                                                     *)
LEMMA WrittenIsRead ==
  ASSUME NEW list \in Seq(Node), \A i \in 1 .. Len(list) : Clean(list[i])
  PROVE  Scanned(Between(<<>>), Body(list)) = Between(PromptsOf(list))
<1> DEFINE All(l) == \A i \in 1 .. Len(l) : Clean(l[i])
           Good(l) == Scanned(Between(<<>>), Body(l)) = Between(PromptsOf(l))
           Q == {l \in Seq(Node) : All(l) => Good(l)}
<1>1. <<>> \in Q
  <2>1. <<>> \in Seq(Node)
    OBVIOUS
  <2>2. PICK start : start = Between(<<>>)
    OBVIOUS
  <2>3. Scanned(start, <<>>) = start
    BY ScannedNothing
  <2> QED BY <2>1, <2>2, <2>3, BodyFacts, PromptsFacts
<1>2. ASSUME NEW l \in Seq(Node), NEW x \in Node, l \in Q PROVE Append(l, x) \in Q
  <2>1. PICK longer \in Seq(Node) : /\ longer = Append(l, x)
                                    /\ Len(longer) = Len(l) + 1 /\ longer[Len(l) + 1] = x
                                    /\ \A i \in 1 .. Len(l) : longer[i] = l[i]
    <3>1. /\ Append(l, x) \in Seq(Node)
          /\ Len(Append(l, x)) = Len(l) + 1 /\ Append(l, x)[Len(l) + 1] = x
          /\ \A i \in 1 .. Len(l) : Append(l, x)[i] = l[i]
      OBVIOUS
    <3> QED BY <3>1
  <2>2. ASSUME All(longer) PROVE Good(longer)
    <3>1. Len(l) \in Nat /\ Len(l) + 1 \in 1 .. Len(longer) /\ \A i \in 1 .. Len(l) : i \in 1 .. Len(longer)
      BY <2>1
    <3>2. Clean(x) /\ All(l)
      BY <2>1, <2>2, <3>1
    <3>3. PICK u \in Seq(Alphabet), v \in Seq(Alphabet) : u = Body(l) /\ v = NodeText(x)
      BY BodyFacts, NodeTextFacts
    <3>4. PICK start, now, p : start = Between(<<>>) /\ p = PromptsOf(l) /\ now = Between(p)
      OBVIOUS
    <3>5. Scanned(start, u) = now
      BY <1>2, <3>2, <3>3, <3>4
    <3>6. Scanned(start, u \o v) = Scanned(Scanned(start, u), v)
      BY ScannedConcat
    <3>7. Scanned(Between(p), NodeText(x)) = Between(IF x.type = "prompt" THEN Append(p, x) ELSE p)
      BY <3>2, ScanNode
    <3>8. Body(longer) = u \o v
      BY <2>1, <3>3, BodyFacts
    <3>9. PromptsOf(longer) = IF x.type = "prompt" THEN Append(p, x) ELSE p
      BY <2>1, <3>4, PromptsFacts
    <3> QED BY <3>3, <3>4, <3>5, <3>6, <3>7, <3>8, <3>9
  <2> HIDE DEF All, Good
  <2> QED BY <2>1, <2>2
<1>3. list \in Q
  <2> HIDE DEF Q
  <2> QED BY <1>1, <1>2, SeqInduction
<1> QED BY <1>3

-----------------------------------------------------------------------------
(* What is read                                                            *)

(* The states of scanning a text.                                          *)
Rough == [type : {"prompt"}, text : Seq(Alphabet)]
Fields ==
  [depth : Nat, string : {"out", "in", "escape"}, type : {"none", "prompt", "llm"},
   reading : BOOLEAN, text : Seq(Alphabet), read : Seq(Rough)]
State == {s \in Fields : s.depth = 0 => s = Between(s.read)}

(* The marker that ends a hole, and half of it.                            *)
Braces == "}}"
Brace == "}"

(* A template goes on with a token, perhaps with half of a marker, unless  *)
(* the token ends it.                                                      *)
GoesOn(s, x) == s.reading /\ x # NodeEnd
Part(s, x, t) ==
  t = s.text \/ (GoesOn(s, x) /\ (t = Append(s.text, x) \/ (x = Braces /\ t = Append(s.text, Brace))))

(* What a token does: it ends a node, or the node goes on.                 *)
Ends(s, r, x) ==
  \E t \in Seq(Alphabet) : Part(s, x, t) /\ r = Between(ReadAt([s EXCEPT !.text = t]))
Continues(s, r, x) ==
  /\ r \in State /\ r.depth # 0 /\ r.read = s.read
  /\ r.type = IF s.type = "none" THEN TypeIn(x) ELSE s.type
  /\ r.reading <=> GoesOn(s, x) \/ (s.type = "none" /\ x = PromptBegin)
  /\ GoesOn(s, x) => r.text = Append(s.text, x)
  /\ ~GoesOn(s, x) => r.text = s.text

(* What a token adds to the depth, and takes from it.                      *)
LEMMA OpeningClosing ==
  ASSUME NEW x
  PROVE  /\ Opening(x) \in {0, 1, 2} /\ Closing(x) \in {0, 1, 2}
         /\ Closing(x) = 2 => x = Braces
         /\ Opening(x) # 0 => Closing(x) = 0
<1>1. Opening(x) \in {0, 1, 2}
  <2>1. CASE x = "{{"
    BY <2>1 DEF Opening
  <2>2. CASE x # "{{" /\ x \in {"{", PromptBegin, LLMBegin}
    BY <2>2 DEF Opening
  <2>3. CASE x # "{{" /\ x \notin {"{", PromptBegin, LLMBegin}
    BY <2>3 DEF Opening
  <2> QED BY <2>1, <2>2, <2>3
<1>2. ASSUME x = Braces PROVE Closing(x) \in {0, 1, 2}
  <2>1. x = "}}"
    BY <1>2 DEF Braces
  <2> QED BY <2>1 DEF Closing
<1>3. x # Braces => Closing(x) \in {0, 1}
  <2>1. CASE x \in {"}", NodeEnd}
    BY <2>1 DEF Closing, Braces
  <2>2. CASE x \notin {"}", NodeEnd}
    BY <2>2 DEF Closing, Braces
  <2> QED BY <2>1, <2>2
<1>4. ASSUME x \in {"{{", "{", PromptBegin, LLMBegin} PROVE Closing(x) = 0
  <2>1. x # "}}" /\ x # "}" /\ x # NodeEnd
    BY <1>4 DEF PromptBegin, LLMBegin, NodeEnd
  <2> QED BY <2>1 DEF Closing
<1>5. x \notin {"{{", "{", PromptBegin, LLMBegin} => Opening(x) = 0
  BY DEF Opening
<1>6. Opening(x) # 0 => Closing(x) = 0
  BY <1>4, <1>5, Zenon
<1> QED BY <1>1, <1>2, <1>3, <1>6

(* Every token does one or the other, or nothing at all.                   *)
LEMMA ScanCases ==
  ASSUME NEW s \in State, NEW x \in Alphabet
  PROVE  \/ s.depth = 0 /\ Scan(s, x) = s
         \/ Ends(s, Scan(s, x), x) \/ Continues(s, Scan(s, x), x)
<1>1. /\ Opening(x) \in Nat /\ Closing(x) \in {0, 1, 2}
      /\ Closing(x) = 2 => x = Braces
  BY OpeningClosing
<1>2. StringAfter(s.string, x) \in {"out", "in", "escape"} /\ TypeIn(x) \in {"none", "prompt", "llm"}
  BY DEF State, Fields, StringAfter, TypeIn
<1>3. /\ s.text \in Seq(Alphabet) /\ s.depth \in Nat /\ s.reading \in BOOLEAN
      /\ s.read \in Seq(Rough) /\ s.type \in {"none", "prompt", "llm"}
  BY DEF State, Fields
<1>4. Brace \in Alphabet
  BY DEF Alphabet, TemplateTokens, Brace
<1>5. PICK bare \in BOOLEAN, going \in BOOLEAN, first \in BOOLEAN :
        /\ bare = (s.string = IF x = NodeEnd THEN "in" ELSE "out")
        /\ going = GoesOn(s, x)
        /\ first = (s.type = "none" /\ x = PromptBegin)
  <2>1. PICK bare : bare = (s.string = IF x = NodeEnd THEN "in" ELSE "out")
    OBVIOUS
  <2>2. PICK going : going = GoesOn(s, x)
    OBVIOUS
  <2>3. PICK first : first = (s.type = "none" /\ x = PromptBegin)
    OBVIOUS
  <2>4. bare \in BOOLEAN
    BY <2>1
  <2>5. going \in BOOLEAN
    BY <1>3, <2>2 DEF GoesOn
  <2>6. first \in BOOLEAN
    BY <2>3
  <2> QED BY <2>1, <2>2, <2>3, <2>4, <2>5, <2>6, Zenon
<1>6. PICK type \in {"none", "prompt", "llm"}, string \in {"out", "in", "escape"} :
        /\ type = IF s.type = "none" THEN TypeIn(x) ELSE s.type
        /\ string = StringAfter(s.string, x)
  BY <1>2, <1>3
<1>7. PICK half \in Seq(Alphabet), full \in Seq(Alphabet) :
        half = Append(s.text, Brace) /\ full = Append(s.text, x)
  <2>1. Append(s.text, Brace) \in Seq(Alphabet) /\ Append(s.text, x) \in Seq(Alphabet)
    BY <1>3, <1>4
  <2> QED BY <2>1
<1>8. Scan(s, x) =
        IF s.depth = 0 /\ Opening(x) = 0 THEN s
        ELSE IF bare /\ s.depth \in 1 .. Closing(x)
        THEN Between(ReadAt([s EXCEPT !.text = IF going THEN IF s.depth < Closing(x) THEN half ELSE full
                                                        ELSE s.text]))
        ELSE [depth   |-> IF bare THEN s.depth + Opening(x) - Closing(x) ELSE s.depth,
              string  |-> string, type |-> type, reading |-> going \/ first,
              text    |-> IF going THEN full ELSE s.text, read |-> s.read]
  BY <1>5, <1>6, <1>7 DEF Scan, GoesOn, Brace
<1>9. CASE s.depth = 0 /\ Opening(x) = 0
  BY <1>8, <1>9
<1>10. CASE ~(s.depth = 0 /\ Opening(x) = 0) /\ bare /\ s.depth \in 1 .. Closing(x)
  <2>1. PICK t \in Seq(Alphabet) : t = IF going THEN IF s.depth < Closing(x) THEN half ELSE full
                                                ELSE s.text
    BY <1>3
  <2>2. Part(s, x, t)
    <3>1. s.depth < Closing(x) => x = Braces
      BY <1>1, <1>3, <1>10
    <3> QED BY <1>5, <1>7, <2>1, <3>1 DEF Part
  <2>3. Scan(s, x) = Between(ReadAt([s EXCEPT !.text = t]))
    BY <1>8, <1>10, <2>1
  <2> QED BY <2>2, <2>3 DEF Ends
<1>11. CASE ~(s.depth = 0 /\ Opening(x) = 0) /\ ~(bare /\ s.depth \in 1 .. Closing(x))
  <2>1. PICK reading \in BOOLEAN : reading = (going \/ first)
    OBVIOUS
  <2>2. PICK depth \in Nat : /\ depth = IF bare THEN s.depth + Opening(x) - Closing(x) ELSE s.depth
                             /\ depth # 0
    <3>1. CASE s.depth = 0
      <4>1. Opening(x) # 0 /\ Closing(x) = 0 /\ x # NodeEnd
        <5>1. Opening(NodeEnd) = 0
          BY DEF Opening, NodeEnd, PromptBegin, LLMBegin
        <5> QED BY <1>11, <3>1, <5>1, OpeningClosing
      <4>2. s.string = "out"
        <5>1. s = Between(s.read)
          BY <3>1 DEF State
        <5> QED BY <5>1 DEF Between
      <4>3. bare
        BY <1>5, <4>1, <4>2
      <4> QED BY <1>1, <3>1, <4>1, <4>3
    <3>2. CASE s.depth # 0 /\ bare
      <4>1. ~(s.depth <= Closing(x))
        BY <1>1, <1>3, <1>11, <3>2
      <4> QED BY <1>1, <1>3, <3>2, <4>1
    <3>3. CASE s.depth # 0 /\ ~bare
      BY <1>3, <3>3
    <3> QED BY <3>1, <3>2, <3>3
  <2>3. PICK text \in Seq(Alphabet), read \in Seq(Rough) :
          text = (IF going THEN full ELSE s.text) /\ read = s.read
    BY <1>3
  <2>4. PICK r \in State : r = Scan(s, x) /\ r = [depth |-> depth, string |-> string, type |-> type,
                             reading |-> reading, text |-> text, read |-> read]
    <3>1. Scan(s, x) = [depth |-> depth, string |-> string, type |-> type,
                        reading |-> reading, text |-> text, read |-> read]
      BY <1>8, <1>11, <2>1, <2>2, <2>3
    <3> QED BY <2>2, <3>1 DEF State, Fields
  <2>5. /\ r.read = s.read /\ r.type = type /\ r.reading = reading /\ r.text = text
        /\ r.depth # 0
    BY <2>2, <2>3, <2>4
  <2> QED BY <1>5, <1>6, <1>7, <2>1, <2>3, <2>4, <2>5 DEF Continues
<1> QED BY <1>5, <1>9, <1>10, <1>11

-----------------------------------------------------------------------------
(* The depth                                                               *)

(* How a token changes the depth.                                          *)
Weight(x) == IF x = "[" THEN 1 ELSE IF x = ArrayEnd THEN -1 ELSE 0

(* How often a token was read, one token further.                          *)
LEMMA CountFacts ==
  ASSUME NEW t, NEW token
  PROVE  /\ Count(t, 0, token) = 0
         /\ \A n \in Nat :
              /\ Count(t, n, token) \in Nat
              /\ Count(t, n + 1, token) = Count(t, n, token) + (IF t[n + 1] = token THEN 1 ELSE 0)
<1> DEFINE P(n) == {i \in 1 .. n : t[i] = token}
<1>1. P(0) = {}
  OBVIOUS
<1>2. Count(t, 0, token) = 0
  BY <1>1, FS_EmptySet DEF Count
<1>3. ASSUME NEW n \in Nat
      PROVE  /\ Count(t, n, token) \in Nat
             /\ Count(t, n + 1, token) = Count(t, n, token) + (IF t[n + 1] = token THEN 1 ELSE 0)
  <2>1. IsFiniteSet(P(n))
    <3>1. IsFiniteSet(1 .. n)
      <4>1. 1 \in Int /\ n \in Int
        OBVIOUS
      <4> QED BY <4>1, FS_Interval
    <3>2. P(n) \subseteq 1 .. n
      OBVIOUS
    <3> HIDE DEF P
    <3> QED BY <3>1, <3>2, FS_Subset
  <2>2. P(n + 1) = IF t[n + 1] = token THEN P(n) \cup {n + 1} ELSE P(n)
    <3>1. 1 .. n + 1 = (1 .. n) \cup {n + 1}
      OBVIOUS
    <3> QED BY <3>1
  <2>3. n + 1 \notin P(n)
    OBVIOUS
  <2>4. Count(t, n, token) = Cardinality(P(n)) /\ Count(t, n + 1, token) = Cardinality(P(n + 1))
    BY DEF Count
  <2> HIDE DEF P
  <2>5. Cardinality(P(n)) \in Nat
    BY <2>1, FS_CardinalityType
  <2>6. Cardinality(P(n) \cup {n + 1}) = Cardinality(P(n)) + 1
    BY <2>1, <2>3, FS_AddElement
  <2> QED BY <2>2, <2>4, <2>5, <2>6
<1> QED BY <1>2, <1>3

(* The depth, one token further.                                           *)
LEMMA DepthFacts ==
  ASSUME NEW t
  PROVE  /\ Depth(t, 0) = 1
         /\ \A n \in Nat : /\ Depth(t, n) \in Int
                           /\ Depth(t, n) = 1 + Count(t, n, "[") - Count(t, n, ArrayEnd)
                           /\ Depth(t, n + 1) = Depth(t, n) + Weight(t[n + 1])
<1>1. PICK opening, closing : opening = "[" /\ closing = ArrayEnd
  OBVIOUS
<1>2. opening # closing
  BY <1>1 DEF ArrayEnd
<1>3. \A n : Depth(t, n) = 1 + Count(t, n, opening) - Count(t, n, closing)
  BY <1>1 DEF Depth, Count
<1>4. \A x : Weight(x) = IF x = opening THEN 1 ELSE IF x = closing THEN -1 ELSE 0
  BY <1>1 DEF Weight
<1>5. Count(t, 0, opening) = 0 /\ Count(t, 0, closing) = 0
  BY CountFacts
<1>6. ASSUME NEW n \in Nat
      PROVE  /\ Depth(t, n) \in Int
             /\ Depth(t, n + 1) = Depth(t, n) + Weight(t[n + 1])
  <2>1. /\ Count(t, n, opening) \in Nat /\ Count(t, n, closing) \in Nat
        /\ Count(t, n + 1, opening) = Count(t, n, opening) + (IF t[n + 1] = opening THEN 1 ELSE 0)
        /\ Count(t, n + 1, closing) = Count(t, n, closing) + (IF t[n + 1] = closing THEN 1 ELSE 0)
    BY CountFacts
  <2>2. PICK a \in Nat, b \in Nat : a = Count(t, n, opening) /\ b = Count(t, n, closing)
    BY <2>1
  <2>3. Depth(t, n) = 1 + a - b
    BY <1>3, <2>2
  <2>4. CASE t[n + 1] = opening
    <3>1. t[n + 1] # closing
      BY <1>2, <2>4
    <3>2. Depth(t, n + 1) = 1 + (a + 1) - (b + 0)
      BY <1>3, <2>1, <2>2, <2>4, <3>1
    <3> QED BY <1>4, <2>3, <2>4, <3>2
  <2>5. CASE t[n + 1] # opening /\ t[n + 1] = closing
    <3>1. Depth(t, n + 1) = 1 + (a + 0) - (b + 1)
      BY <1>3, <2>1, <2>2, <2>5
    <3>2. Weight(t[n + 1]) = -1
      BY <1>4, <2>5
    <3> QED BY <2>3, <3>1, <3>2
  <2>6. CASE t[n + 1] # opening /\ t[n + 1] # closing
    <3>1. Depth(t, n + 1) = 1 + (a + 0) - (b + 0)
      BY <1>3, <2>1, <2>2, <2>6
    <3>2. Weight(t[n + 1]) = 0
      BY <1>4, <2>6
    <3> QED BY <2>3, <3>1, <3>2
  <2> QED BY <2>4, <2>5, <2>6
<1>7. Depth(t, 0) = 1
  BY <1>3, <1>5
<1> QED BY <1>1, <1>3, <1>6, <1>7

(* The depth depends on what was read only.                                *)
LEMMA DepthLocal ==
  ASSUME NEW s, NEW u, NEW n \in Nat, \A i \in 1 .. n : s[i] = u[i]
  PROVE  Depth(s, n) = Depth(u, n)
<1>1. \A token : {i \in 1 .. n : s[i] = token} = {i \in 1 .. n : u[i] = token}
  OBVIOUS
<1> QED BY <1>1 DEF Depth

(* Whether the array stays open all through a text, and the depth at its   *)
(* end.                                                                    *)
Opens(s) == \A n \in 0 .. Len(s) : Depth(s, n) >= 1
Level(s) == Depth(s, Len(s))
Steady(s) == Opens(s) /\ Level(s) = 1
Alike(s, u) == (Opens(s) <=> Opens(u)) /\ Level(s) = Level(u)

(* The depth in two texts together: the second begins at the level the     *)
(* first ends with.                                                        *)
LEMMA DepthConcat ==
  ASSUME NEW S, NEW s \in Seq(S), NEW f \in Seq(S)
  PROVE  /\ Level(s) \in Int /\ Level(f) \in Int
         /\ Level(s \o f) = Level(s) + Level(f) - 1
         /\ Opens(s \o f) <=> Opens(s) /\ \A i \in 0 .. Len(f) : Level(s) + Depth(f, i) >= 2
<1>1. PICK m \in Nat, k \in Nat : m = Len(s) /\ k = Len(f)
  OBVIOUS
<1>2. PICK b \in Seq(S) : b = s \o f
  BY ConcatProperties
<1>3. Len(b) = m + k /\ \A i \in 1 .. m + k : b[i] = IF i <= m THEN s[i] ELSE f[i - m]
  BY <1>1, <1>2, ConcatProperties
<1>4. \A n \in 0 .. m : Depth(b, n) = Depth(s, n)
  <2> SUFFICES ASSUME NEW n \in 0 .. m PROVE Depth(b, n) = Depth(s, n)
    OBVIOUS
  <2>1. \A i \in 1 .. n : i \in 1 .. m + k /\ i <= m
    OBVIOUS
  <2>2. n \in Nat /\ \A i \in 1 .. n : b[i] = s[i]
    BY <1>3, <2>1
  <2> QED BY <2>2, DepthLocal
<1>5. Level(s) = Depth(s, m) /\ Level(f) = Depth(f, k) /\ Level(b) = Depth(b, m + k)
  BY <1>1, <1>3 DEF Level
<1>6. \A i \in Nat : Depth(s, i) \in Int /\ Depth(f, i) \in Int /\ Depth(b, i) \in Int
  BY DepthFacts
<1> DEFINE Q == {i \in 0 .. k : Depth(b, m + i) = Level(s) + Depth(f, i) - 1}
<1>7. 0 \in Q
  <2>1. Depth(f, 0) = 1
    BY DepthFacts
  <2>2. m + 0 = m /\ m \in 0 .. m /\ 0 \in 0 .. k
    OBVIOUS
  <2> QED BY <1>4, <1>5, <1>6, <2>1, <2>2
<1>8. ASSUME NEW i \in 0 .. k - 1, i \in Q PROVE i + 1 \in Q
  <2>1. i \in Nat /\ m + i \in Nat /\ m + (i + 1) = (m + i) + 1 /\ i + 1 \in 0 .. k
    OBVIOUS
  <2>2. (m + i) + 1 \in 1 .. m + k /\ ~((m + i) + 1 <= m) /\ ((m + i) + 1) - m = i + 1
    OBVIOUS
  <2>3. b[(m + i) + 1] = f[i + 1]
    BY <1>3, <2>2
  <2>4. PICK w : w = Weight(f[i + 1])
    OBVIOUS
  <2>5. w \in Int
    BY <2>4 DEF Weight
  <2>6. Depth(b, (m + i) + 1) = Depth(b, m + i) + w
    BY <2>1, <2>3, <2>4, DepthFacts
  <2>7. Depth(f, i + 1) = Depth(f, i) + w
    BY <2>1, <2>4, DepthFacts
  <2>8. Depth(b, m + i) = Level(s) + Depth(f, i) - 1
    BY <1>8
  <2>9. Depth(f, i) \in Int /\ Level(s) \in Int
    BY <1>5, <1>6, <2>1
  <2>10. Depth(b, m + (i + 1)) = Level(s) + Depth(f, i + 1) - 1
    BY <2>1, <2>5, <2>6, <2>7, <2>8, <2>9
  <2> QED BY <2>1, <2>10
<1>9. \A i \in 0 .. k : Depth(b, m + i) = Level(s) + Depth(f, i) - 1
  <2> HIDE DEF Q
  <2>1. \A i \in 0 .. k : i \in Q
    BY <1>7, <1>8, UpTo
  <2> QED BY <2>1 DEF Q
<1> HIDE DEF Q
<1>10. Level(b) = Level(s) + Level(f) - 1
  <2>1. k \in 0 .. k
    OBVIOUS
  <2> QED BY <1>5, <1>9, <2>1
<1>11. ASSUME Opens(b) PROVE Opens(s) /\ \A i \in 0 .. k : Level(s) + Depth(f, i) >= 2
  <2>1. \A n \in 0 .. m + k : Depth(b, n) >= 1
    BY <1>3, <1>11 DEF Opens
  <2>2. ASSUME NEW n \in 0 .. m PROVE Depth(s, n) >= 1
    <3>1. n \in 0 .. m + k
      OBVIOUS
    <3> QED BY <1>4, <2>1, <3>1
  <2>3. ASSUME NEW i \in 0 .. k PROVE Level(s) + Depth(f, i) >= 2
    <3>1. m + i \in 0 .. m + k /\ i \in Nat /\ m + i \in Nat
      OBVIOUS
    <3>2. Depth(b, m + i) >= 1 /\ Depth(b, m + i) = Level(s) + Depth(f, i) - 1
      BY <1>9, <2>1, <3>1
    <3>3. Level(s) \in Int /\ Depth(f, i) \in Int
      BY <1>5, <1>6, <3>1
    <3> QED BY <3>2, <3>3
  <2> QED BY <1>1, <2>2, <2>3 DEF Opens
<1>12. ASSUME Opens(s), \A i \in 0 .. k : Level(s) + Depth(f, i) >= 2 PROVE Opens(b)
  <2>1. \A n \in 0 .. m : Depth(s, n) >= 1
    BY <1>1, <1>12 DEF Opens
  <2>2. ASSUME NEW n \in 0 .. m + k PROVE Depth(b, n) >= 1
    <3>1. CASE n <= m
      <4>1. n \in 0 .. m
        BY <3>1
      <4> QED BY <1>4, <2>1, <4>1
    <3>2. CASE ~(n <= m)
      <4>1. PICK i \in 0 .. k : n = m + i /\ i \in Nat
        <5>1. n - m \in 0 .. k /\ n = m + (n - m) /\ n - m \in Nat
          BY <3>2
        <5> QED BY <5>1
      <4>2. Depth(b, n) = Level(s) + Depth(f, i) - 1 /\ Level(s) + Depth(f, i) >= 2
        BY <1>9, <1>12, <4>1
      <4>3. Level(s) \in Int /\ Depth(f, i) \in Int
        BY <1>5, <1>6, <4>1
      <4> QED BY <4>2, <4>3
    <3> QED BY <3>1, <3>2
  <2> QED BY <1>3, <2>2 DEF Opens
<1>13. Level(s) \in Int /\ Level(f) \in Int
  BY <1>5, <1>6
<1> QED BY <1>1, <1>2, <1>10, <1>11, <1>12, <1>13

(* Where the array stays open it is open at the end.                       *)
LEMMA OpenAtEnd ==
  ASSUME NEW S, NEW s \in Seq(S), Opens(s)
  PROVE  Level(s) >= 1
<1>1. Len(s) \in 0 .. Len(s)
  OBVIOUS
<1> QED BY <1>1 DEF Opens, Level

(* One token that is no bracket.                                           *)
LEMMA TokenSteady ==
  ASSUME NEW S, NEW f \in Seq(S), Len(f) = 1, Weight(f[1]) = 0
  PROVE  Steady(f) /\ \A i \in 0 .. 1 : Depth(f, i) = 1
<1>1. Depth(f, 0) = 1
  BY DepthFacts
<1>2. Depth(f, 0 + 1) = Depth(f, 0) + Weight(f[0 + 1])
  BY DepthFacts
<1>3. 0 + 1 = 1
  OBVIOUS
<1>4. Depth(f, 1) = 1
  BY <1>1, <1>2, <1>3
<1>5. \A i \in 0 .. 1 : Depth(f, i) = 1
  <2>1. \A i \in 0 .. 1 : i = 0 \/ i = 1
    OBVIOUS
  <2> QED BY <1>1, <1>4, <2>1
<1>6. Opens(f) /\ Level(f) = 1
  BY <1>4, <1>5 DEF Opens, Level
<1> QED BY <1>5, <1>6 DEF Steady

(* Two steady texts are one.                                               *)
LEMMA SteadyConcat ==
  ASSUME NEW S, NEW s \in Seq(S), NEW f \in Seq(S), Steady(s), Steady(f)
  PROVE  Steady(s \o f)
<1>1. Opens(s) /\ Level(s) = 1 /\ Level(f) = 1 /\ \A i \in 0 .. Len(f) : Depth(f, i) >= 1
  BY DEF Steady, Opens
<1>2. \A i \in 0 .. Len(f) : Depth(f, i) \in Int
  <2>1. \A i \in 0 .. Len(f) : i \in Nat
    OBVIOUS
  <2> QED BY <2>1, DepthFacts
<1>3. \A i \in 0 .. Len(f) : Level(s) + Depth(f, i) >= 2
  BY <1>1, <1>2
<1>4. Opens(s \o f) /\ Level(s \o f) = 1 + 1 - 1
  BY <1>1, <1>3, DepthConcat
<1> QED BY <1>4 DEF Steady

(* Texts that are alike stay so with the same text after them.             *)
LEMMA AlikeConcat ==
  ASSUME NEW S, NEW s \in Seq(S), NEW u \in Seq(S), NEW f \in Seq(S), Alike(s, u)
  PROVE  Alike(s \o f, u \o f)
<1>1. (Opens(s) <=> Opens(u)) /\ Level(s) = Level(u)
  BY DEF Alike
<1>2. /\ Level(s \o f) = Level(s) + Level(f) - 1
      /\ Opens(s \o f) <=> Opens(s) /\ \A i \in 0 .. Len(f) : Level(s) + Depth(f, i) >= 2
  BY DepthConcat
<1>3. /\ Level(u \o f) = Level(u) + Level(f) - 1
      /\ Opens(u \o f) <=> Opens(u) /\ \A i \in 0 .. Len(f) : Level(u) + Depth(f, i) >= 2
  BY DepthConcat
<1> QED BY <1>1, <1>2, <1>3 DEF Alike

(* A steady text makes no difference after another.                        *)
LEMMA AlikeSteady ==
  ASSUME NEW S, NEW s \in Seq(S), NEW f \in Seq(S), Steady(f)
  PROVE  Alike(s \o f, s)
<1>1. Level(f) = 1 /\ \A i \in 0 .. Len(f) : Depth(f, i) >= 1
  BY DEF Steady, Opens
<1>2. /\ Level(s) \in Int
      /\ Level(s \o f) = Level(s) + Level(f) - 1
      /\ Opens(s \o f) <=> Opens(s) /\ \A i \in 0 .. Len(f) : Level(s) + Depth(f, i) >= 2
  BY DepthConcat
<1>3. Level(s \o f) = Level(s)
  BY <1>1, <1>2
<1>4. Opens(s) => \A i \in 0 .. Len(f) : Level(s) + Depth(f, i) >= 2
  <2>1. \A i \in 0 .. Len(f) : Depth(f, i) \in Int
    <3>1. \A i \in 0 .. Len(f) : i \in Nat
      OBVIOUS
    <3> QED BY <3>1, DepthFacts
  <2>2. Opens(s) => Level(s) >= 1
    BY OpenAtEnd
  <2> QED BY <1>1, <1>2, <2>1, <2>2
<1> QED BY <1>2, <1>3, <1>4 DEF Alike

(* The markers are no brackets.                                            *)
LEMMA MarkersWeighNothing ==
  \A x \in Markers : /\ Weight(x) = 0 /\ <<x>> \in Seq(Alphabet)
                    /\ Len(<<x>>) = 1 /\ <<x>>[1] = x
<1>1. \A x \in Markers : x # "[" /\ x # ArrayEnd
  BY DEF Markers, PromptBegin, LLMBegin, NodeEnd, NullText, ArrayEnd
<1>2. \A x \in Markers : x \in Alphabet
  BY DEF Alphabet
<1> QED BY <1>1, <1>2 DEF Weight

(* A node whose brackets match.                                            *)
Matched(x) == x.type # "null" => Balanced(x.text)

(* So far as it goes, a text whose brackets match is open, and at its end  *)
(* it is as deep as at its start.                                          *)
LEMMA BalancedSteady ==
  ASSUME NEW t \in Seq(Alphabet), Balanced(t)
  PROVE  Steady(t)
<1>1. PICK opening, closing : opening = "[" /\ closing = ArrayEnd
  OBVIOUS
<1>2. PICK n \in Nat : n = Len(t)
  OBVIOUS
<1>3. /\ Count(t, n, opening) = Count(t, n, closing)
      /\ \A i \in 1 .. n : Count(t, i, opening) >= Count(t, i, closing)
  BY <1>1, <1>2 DEF Balanced, ArrayEnd
<1>4. \A i \in 0 .. n : /\ Depth(t, i) = 1 + Count(t, i, opening) - Count(t, i, closing)
                        /\ Count(t, i, opening) \in Nat /\ Count(t, i, closing) \in Nat
  <2>1. \A i \in 0 .. n : i \in Nat
    OBVIOUS
  <2> QED BY <1>1, <2>1, DepthFacts, CountFacts
<1>5. ASSUME NEW i \in 0 .. n PROVE Depth(t, i) >= 1
  <2>1. CASE i = 0
    <3>1. Depth(t, 0) = 1
      BY DepthFacts
    <3> QED BY <2>1, <3>1
  <2>2. CASE i # 0
    <3>1. i \in 1 .. n
      BY <2>2
    <3> QED BY <1>3, <1>4, <3>1
  <2> QED BY <2>1, <2>2
<1>6. Depth(t, n) = 1
  <2>1. n \in 0 .. n
    OBVIOUS
  <2> QED BY <1>3, <1>4, <2>1
<1> QED BY <1>2, <1>5, <1>6 DEF Steady, Opens, Level

(* A marker is steady.                                                     *)
LEMMA MarkerSteady ==
  ASSUME NEW y \in Markers
  PROVE  <<y>> \in Seq(Alphabet) /\ Steady(<<y>>)
<1>1. PICK f \in Seq(Alphabet) : f = <<y>> /\ Len(f) = 1 /\ Weight(f[1]) = 0
  BY MarkersWeighNothing
<1> QED BY <1>1, TokenSteady

(* The text of a node whose brackets match is steady.                      *)
LEMMA MatchedSteady ==
  ASSUME NEW x \in Node, Matched(x)
  PROVE  Steady(NodeText(x))
<1>1. PICK a \in Seq(Alphabet), b \in Seq(Alphabet), c \in Seq(Alphabet) :
        /\ a = <<Beginning(x)>> /\ b = <<NodeEnd>> /\ c = <<NullText>>
        /\ Steady(a) /\ Steady(b) /\ Steady(c)
  <2>1. Beginning(x) \in Markers /\ NodeEnd \in Markers /\ NullText \in Markers
    BY NodeTextFacts, MarkersApart
  <2> QED BY <2>1, MarkerSteady
<1>2. CASE x.type = "null"
  BY <1>1, <1>2, NodeTextFacts
<1>3. CASE x.type # "null"
  <2>1. PICK t \in Seq(Alphabet) : t = x.text
    BY NodeTextFacts
  <2>2. Steady(t)
    BY <1>3, <2>1, BalancedSteady DEF Matched
  <2>3. PICK h \in Seq(Alphabet) : h = a \o t
    BY ConcatProperties
  <2>4. Steady(h)
    BY <1>1, <2>2, <2>3, SteadyConcat
  <2>5. Steady(h \o b)
    BY <1>1, <2>4, SteadyConcat
  <2>6. NodeText(x) = h \o b
    BY <1>1, <1>3, <2>1, <2>3, NodeTextFacts DEF Headed
  <2> QED BY <2>5, <2>6
<1> QED BY <1>2, <1>3

(* Nodes without a template make no difference to the depth if their       *)
(* brackets match.                                                         *)
LEMMA BodyAlike ==
  ASSUME NEW list \in Seq(Node), \A i \in 1 .. Len(list) : list[i].type # "prompt" => Matched(list[i])
  PROVE  Alike(Body(list), Body(PromptsOf(list)))
<1> DEFINE All(l) == \A i \in 1 .. Len(l) : l[i].type # "prompt" => Matched(l[i])
           Good(l) == Alike(Body(l), Body(PromptsOf(l)))
           Q == {l \in Seq(Node) : All(l) => Good(l)}
<1>1. <<>> \in Q
  <2>1. Alike(Body(<<>>), Body(PromptsOf(<<>>)))
    BY PromptsFacts DEF Alike
  <2>2. <<>> \in Seq(Node)
    OBVIOUS
  <2> QED BY <2>1, <2>2
<1>2. ASSUME NEW l \in Seq(Node), NEW x \in Node, l \in Q PROVE Append(l, x) \in Q
  <2>1. PICK longer \in Seq(Node) : /\ longer = Append(l, x)
                                    /\ Len(longer) = Len(l) + 1 /\ longer[Len(l) + 1] = x
                                    /\ \A i \in 1 .. Len(l) : longer[i] = l[i]
    <3>1. /\ Append(l, x) \in Seq(Node)
          /\ Len(Append(l, x)) = Len(l) + 1 /\ Append(l, x)[Len(l) + 1] = x
          /\ \A i \in 1 .. Len(l) : Append(l, x)[i] = l[i]
      OBVIOUS
    <3> QED BY <3>1
  <2>2. ASSUME All(longer) PROVE Good(longer)
    <3>1. Len(l) \in Nat /\ Len(l) + 1 \in 1 .. Len(longer) /\ \A i \in 1 .. Len(l) : i \in 1 .. Len(longer)
      BY <2>1
    <3>2. (x.type # "prompt" => Matched(x)) /\ All(l)
      BY <2>1, <2>2, <3>1
    <3>3. PICK u \in Seq(Alphabet), v \in Seq(Alphabet), f \in Seq(Alphabet), p \in Seq(Node) :
            u = Body(l) /\ p = PromptsOf(l) /\ v = Body(p) /\ f = NodeText(x)
      BY BodyFacts, NodeTextFacts, PromptsFacts
    <3>4. Alike(u, v)
      BY <1>2, <3>2, <3>3
    <3>5. Body(longer) = u \o f
      BY <2>1, <3>3, BodyFacts
    <3>6. CASE x.type = "prompt"
      <4>1. Body(PromptsOf(longer)) = v \o f
        BY <2>1, <3>3, <3>6, BodyFacts, PromptsFacts
      <4>2. Alike(u \o f, v \o f)
        BY <3>4, AlikeConcat
      <4> QED BY <3>5, <4>1, <4>2
    <3>7. CASE x.type # "prompt"
      <4>1. PromptsOf(longer) = p
        BY <2>1, <3>3, <3>7, PromptsFacts
      <4>2. Steady(f)
        BY <3>2, <3>3, <3>7, MatchedSteady
      <4>3. Alike(u \o f, u)
        BY <4>2, AlikeSteady
      <4> QED BY <3>3, <3>4, <3>5, <4>1, <4>3 DEF Alike
    <3> QED BY <3>6, <3>7
  <2> HIDE DEF All, Good
  <2> QED BY <2>1, <2>2
<1>3. list \in Q
  <2> HIDE DEF Q
  <2> QED BY <1>1, <1>2, SeqInduction
<1> QED BY <1>3

(* So is the text of a list of such nodes.                                 *)
LEMMA BodySteady ==
  ASSUME NEW list \in Seq(Node), \A i \in 1 .. Len(list) : Matched(list[i])
  PROVE  Steady(Body(list))
<1> DEFINE All(l) == \A i \in 1 .. Len(l) : Matched(l[i])
           Q == {l \in Seq(Node) : All(l) => Steady(Body(l))}
<1>1. <<>> \in Q
  <2>1. PICK e \in Seq(Alphabet) : e = <<>> /\ Len(e) = 0 /\ e = Body(<<>>)
    <3>1. <<>> \in Seq(Alphabet) /\ Len(<<>>) = 0
      OBVIOUS
    <3> QED BY <3>1, BodyFacts
  <2>2. Depth(e, 0) = 1
    BY DepthFacts
  <2>3. Steady(e)
    <3>1. \A n \in 0 .. 0 : n = 0
      OBVIOUS
    <3> QED BY <2>1, <2>2, <3>1 DEF Steady, Opens, Level
  <2>4. <<>> \in Seq(Node)
    OBVIOUS
  <2> QED BY <2>1, <2>3, <2>4
<1>2. ASSUME NEW l \in Seq(Node), NEW x \in Node, l \in Q PROVE Append(l, x) \in Q
  <2>1. ASSUME All(Append(l, x)) PROVE Steady(Body(Append(l, x)))
    <3>1. PICK k \in Nat : k = Len(l)
      OBVIOUS
    <3>2. /\ Len(Append(l, x)) = k + 1 /\ Append(l, x)[k + 1] = x
          /\ \A i \in 1 .. k : Append(l, x)[i] = l[i]
      BY <3>1
    <3>3. \A i \in 1 .. k + 1 : Matched(Append(l, x)[i])
      BY <2>1, <3>2
    <3>4. k + 1 \in 1 .. k + 1 /\ \A i \in 1 .. k : i \in 1 .. k + 1
      OBVIOUS
    <3>5. Matched(x)
      BY <3>2, <3>3, <3>4
    <3>6. All(l)
      BY <3>1, <3>2, <3>3, <3>4
    <3>7. PICK u \in Seq(Alphabet), f \in Seq(Alphabet) : u = Body(l) /\ f = NodeText(x)
      BY BodyFacts, NodeTextFacts
    <3>8. Steady(u) /\ Steady(f)
      BY <1>2, <3>5, <3>6, <3>7, MatchedSteady
    <3>9. Steady(u \o f)
      BY <3>8, SteadyConcat
    <3> QED BY <3>7, <3>9, BodyFacts
  <2>2. Append(l, x) \in Seq(Node)
    OBVIOUS
  <2> QED BY <2>1, <2>2
<1>3. Seq(Node) \subseteq Q
  <2> HIDE DEF Q
  <2> QED BY <1>1, <1>2, SeqInduction
<1> QED BY <1>3

(* The array ends where the depth first is 0: at a bracket, with all       *)
(* before it at depth 1 again.                                             *)
LEMMA FirstEnd ==
  ASSUME NEW S, NEW text \in Seq(S), NEW e \in ArrayEnds(text),
         \A i \in ArrayEnds(text) : e <= i
  PROVE  /\ e \in 1 .. Len(text) /\ text[e] = ArrayEnd
         /\ Steady(SubSeq(text, 1, e - 1))
<1>1. e \in 1 .. Len(text) /\ Depth(text, e) = 0 /\ Len(text) \in Nat
  BY DEF ArrayEnds
<1>2. PICK n \in 0 .. Len(text) : n \in Nat /\ n = e - 1 /\ e = n + 1
  BY <1>1
<1> DEFINE Q == {i \in 0 .. n : Depth(text, i) >= 1}
<1>3. 0 \in Q
  <2>1. Depth(text, 0) = 1
    BY DepthFacts
  <2> QED BY <2>1
<1>4. ASSUME NEW i \in 0 .. n - 1, i \in Q PROVE i + 1 \in Q
  <2>1. i \in Nat /\ i + 1 \in Nat /\ i + 1 \in 0 .. n /\ i + 1 \in 1 .. Len(text) /\ ~(e <= i + 1)
    BY <1>1, <1>2
  <2>2. PICK w \in Int : w = Weight(text[i + 1]) /\ w >= -1
    <3>1. Weight(text[i + 1]) \in Int /\ Weight(text[i + 1]) >= -1
      BY DEF Weight
    <3> QED BY <3>1
  <2>3. Depth(text, i + 1) = Depth(text, i) + w /\ Depth(text, i) \in Int
    BY <2>1, <2>2, DepthFacts
  <2>4. Depth(text, i) >= 1
    BY <1>4
  <2>5. Depth(text, i + 1) # 0
    <3>1. i + 1 \notin ArrayEnds(text)
      BY <2>1
    <3>2. DOMAIN text = 1 .. Len(text)
      OBVIOUS
    <3> QED BY <2>1, <3>1, <3>2 DEF ArrayEnds
  <2>6. Depth(text, i + 1) >= 1
    BY <2>2, <2>3, <2>4, <2>5
  <2> QED BY <2>1, <2>6
<1>5. \A i \in 0 .. n : Depth(text, i) >= 1
  <2> HIDE DEF Q
  <2>1. \A i \in 0 .. n : i \in Q
    BY <1>3, <1>4, UpTo
  <2> QED BY <2>1 DEF Q
<1> HIDE DEF Q
<1>6. PICK w \in Int : w = Weight(text[e]) /\ (w = -1 => text[e] = ArrayEnd) /\ w >= -1
  <2>1. Weight(text[e]) \in Int /\ Weight(text[e]) >= -1
        /\ (Weight(text[e]) = -1 => text[e] = ArrayEnd)
    BY DEF Weight
  <2> QED BY <2>1
<1>7. Depth(text, n) = 1 /\ w = -1
  <2>1. Depth(text, n + 1) = Depth(text, n) + w /\ Depth(text, n) \in Int
    BY <1>2, <1>6, DepthFacts
  <2>2. Depth(text, n) >= 1
    <3>1. n \in 0 .. n
      OBVIOUS
    <3> QED BY <1>5, <3>1
  <2>3. Depth(text, n + 1) = 0
    BY <1>1, <1>2
  <2> QED BY <1>6, <2>1, <2>2, <2>3
<1>8. PICK p \in Seq(S) : p = SubSeq(text, 1, n) /\ Len(p) = n /\ \A i \in 1 .. n : p[i] = text[i]
  <2>1. /\ SubSeq(text, 1, n) \in Seq(S) /\ Len(SubSeq(text, 1, n)) = n
        /\ \A i \in 1 .. n : SubSeq(text, 1, n)[i] = text[i]
    BY ONLY text \in Seq(S), n \in 0 .. Len(text), PrefixFacts
  <2> QED BY ONLY <2>1
<1>9. \A i \in 0 .. n : Depth(p, i) = Depth(text, i)
  <2> SUFFICES ASSUME NEW i \in 0 .. n PROVE Depth(p, i) = Depth(text, i)
    OBVIOUS
  <2>1. i \in Nat /\ \A j \in 1 .. i : j \in 1 .. n
    OBVIOUS
  <2>2. \A j \in 1 .. i : p[j] = text[j]
    BY <1>8, <2>1
  <2> QED BY <2>1, <2>2, DepthLocal
<1>10. Steady(p)
  <2>1. n \in 0 .. n
    OBVIOUS
  <2> QED BY <1>5, <1>7, <1>8, <1>9, <2>1 DEF Steady, Opens, Level
<1> QED BY <1>1, <1>2, <1>6, <1>7, <1>8, <1>10

(* And if it stays open until its last bracket, it ends there.             *)
LEMMA SteadyEnds ==
  ASSUME NEW b \in Seq(Alphabet), Steady(b)
  PROVE  LET text == b \o <<ArrayEnd>>
         IN  /\ ArrayEnds(text) # {} /\ Deserialized(text) = Parsed(b)
             /\ \A n \in 0 .. Len(b) : ArrayEnds(SubSeq(text, 1, n)) = {}
<1>1. PICK m \in Nat, one \in Seq(Alphabet) :
        m = Len(b) /\ one = <<ArrayEnd>> /\ Len(one) = 1 /\ one[1] = ArrayEnd
  <2>1. <<ArrayEnd>> \in Seq(Alphabet) /\ Len(b) \in Nat
    BY MarkersApart
  <2> QED BY <2>1
<1>2. PICK text \in Seq(Alphabet) : text = b \o one
  BY ConcatProperties
<1>3. Len(text) = m + 1 /\ \A i \in 1 .. m + 1 : text[i] = IF i <= m THEN b[i] ELSE one[i - m]
  BY <1>1, <1>2, ConcatProperties
<1>4. \A n \in 0 .. m : Depth(text, n) >= 1
  <2> SUFFICES ASSUME NEW n \in 0 .. m PROVE Depth(text, n) >= 1
    OBVIOUS
  <2>1. n \in Nat /\ \A i \in 1 .. n : i \in 1 .. m + 1 /\ i <= m
    OBVIOUS
  <2>2. Depth(text, n) = Depth(b, n)
    BY <1>3, <2>1, DepthLocal
  <2> QED BY <1>1, <2>2 DEF Steady, Opens
<1>5. Depth(text, m + 1) = 0
  <2>1. Level(text) = Level(b) + Level(one) - 1 /\ Level(b) = 1
    BY <1>2, DepthConcat DEF Steady
  <2>2. Level(one) = 0
    <3>1. Depth(one, 0) = 1 /\ Depth(one, 0 + 1) = Depth(one, 0) + Weight(one[0 + 1]) /\ 0 + 1 = 1
      BY DepthFacts
    <3>2. Weight(ArrayEnd) = -1
      BY DEF Weight, ArrayEnd
    <3>3. Depth(one, 1) = 1 + (-1)
      BY <1>1, <3>1, <3>2
    <3> QED BY <1>1, <3>3 DEF Level
  <2> QED BY <1>3, <2>1, <2>2 DEF Level
<1>6. ArrayEnds(text) = {m + 1}
  <2>1. DOMAIN text = 1 .. m + 1
    BY <1>3
  <2>2. \A n \in 1 .. m + 1 : Depth(text, n) = 0 <=> n = m + 1
    <3>1. \A n \in 1 .. m + 1 : n # m + 1 => n \in 0 .. m
      OBVIOUS
    <3>2. \A n \in 0 .. m : Depth(text, n) # 0
      BY <1>4
    <3> QED BY <1>5, <3>1, <3>2
  <2>3. m + 1 \in 1 .. m + 1
    OBVIOUS
  <2> QED BY <2>1, <2>2, <2>3 DEF ArrayEnds
<1>7. Deserialized(text) = Parsed(b)
  <2>1. PICK e : e = CHOOSE n \in ArrayEnds(text) : \A k \in ArrayEnds(text) : n <= k
    OBVIOUS
  <2>2. \E n \in ArrayEnds(text) : \A k \in ArrayEnds(text) : n <= k
    BY <1>6
  <2>3. e = m + 1
    BY <1>6, <2>1, <2>2
  <2>4. e - 1 = m
    BY <2>3
  <2>5. Deserialized(text) = Parsed(SubSeq(text, 1, e - 1))
    BY <2>1 DEF Deserialized
  <2>6. SubSeq(text, 1, m) = b
    <3>1. m \in 0 .. Len(b)
      BY <1>1
    <3>2. SubSeq(b \o one, 1, m) = SubSeq(b, 1, m)
      BY <3>1, PartStays
    <3> QED BY <1>1, <1>2, <3>2, RestOfAll
  <2> QED BY <2>4, <2>5, <2>6
<1>8. ASSUME NEW n \in 0 .. m PROVE ArrayEnds(SubSeq(text, 1, n)) = {}
  <2>1. PICK p \in Seq(Alphabet) :
          p = SubSeq(text, 1, n) /\ Len(p) = n /\ \A i \in 1 .. n : p[i] = text[i]
    <3>1. n \in 0 .. Len(text)
      BY <1>3
    <3> QED BY <3>1, PrefixFacts
  <2>2. ASSUME NEW i \in 1 .. n PROVE Depth(p, i) # 0
    <3>1. i \in Nat /\ i \in 0 .. m /\ \A j \in 1 .. i : j \in 1 .. n
      OBVIOUS
    <3>2. Depth(p, i) = Depth(text, i)
      BY <2>1, <3>1, DepthLocal
    <3> QED BY <1>4, <3>1, <3>2
  <2>3. DOMAIN p = 1 .. n
    BY <2>1
  <2> QED BY <2>1, <2>2, <2>3 DEF ArrayEnds
<1> QED BY <1>1, <1>2, <1>6, <1>7, <1>8


-----------------------------------------------------------------------------
(* What is read comes from the text                                        *)

(* A list goes on with another.                                            *)
Extends(p, q) == Len(p) <= Len(q) /\ \A i \in 1 .. Len(p) : q[i] = p[i]

(* A prompt node of any text of the alphabet.                              *)
LEMMA PromptNodeFacts ==
  ASSUME NEW t \in Seq(Alphabet)
  PROVE  PromptNode(t) \in Rough /\ PromptNode(t).text = t /\ PromptNode(t).type = "prompt"
BY DEF PromptNode, Rough

(* What is added to what was read.                                         *)
LEMMA ReadMore ==
  ASSUME NEW p \in Seq(Rough), NEW t \in Seq(Alphabet)
  PROVE  LET q == Append(p, PromptNode(t))
         IN  /\ q \in Seq(Rough) /\ Len(q) = Len(p) + 1 /\ q[Len(p) + 1].text = t
             /\ \A i \in 1 .. Len(p) : q[i] = p[i]
             /\ Extends(p, q)
<1>1. PICK x \in Rough : x = PromptNode(t) /\ x.text = t
  BY PromptNodeFacts
<1>2. /\ Append(p, x) \in Seq(Rough) /\ Len(Append(p, x)) = Len(p) + 1
      /\ Append(p, x)[Len(p) + 1] = x /\ Len(p) \in Nat
      /\ \A i \in 1 .. Len(p) : Append(p, x)[i] = p[i]
  OBVIOUS
<1>3. PICK q \in Seq(Rough) : q = Append(p, x) /\ Len(q) = Len(p) + 1 /\ q[Len(p) + 1] = x
                              /\ Len(p) \in Nat /\ \A i \in 1 .. Len(p) : q[i] = p[i]
  BY <1>2
<1>4. Extends(p, q)
  BY <1>3 DEF Extends
<1> QED BY <1>1, <1>3, <1>4

(* The end of a node: a prompt node is read, or nothing.                   *)
NodeRead(s, x, read) ==
  \/ s.type # "prompt" /\ read = s.read
  \/ \E t \in Seq(Alphabet) :
       s.type = "prompt" /\ Part(s, x, t) /\ read = Append(s.read, PromptNode(t))

(* Whatever ends a node, what was read is one of these.                    *)
LEMMA EndsFacts ==
  ASSUME NEW s \in State, NEW r, NEW x \in Alphabet, Ends(s, r, x)
  PROVE  /\ r \in State /\ r.type = "none" /\ ~r.reading /\ r.text = <<>>
         /\ NodeRead(s, x, r.read)
<1>1. PICK t \in Seq(Alphabet) : Part(s, x, t) /\ r = Between(ReadAt([s EXCEPT !.text = t]))
  BY DEF Ends
<1>2. s.read \in Seq(Rough)
  BY DEF State, Fields
<1>3. PICK more \in Seq(Rough) : more = Append(s.read, PromptNode(t))
  BY <1>2, ReadMore
<1>4. PICK read \in Seq(Rough) :
        /\ read = ReadAt([s EXCEPT !.text = t])
        /\ read = IF s.type = "prompt" THEN more ELSE s.read
  <2>1. ReadAt([s EXCEPT !.text = t]) = IF s.type = "prompt" THEN more ELSE s.read
    BY <1>3 DEF ReadAt, State
  <2> QED BY <1>2, <2>1
<1>5. PICK e \in Seq(Alphabet) : e = <<>>
  <2>1. <<>> \in Seq(Alphabet)
    OBVIOUS
  <2> QED BY <2>1
<1>6. r = [depth |-> 0, string |-> "out", type |-> "none", reading |-> FALSE, text |-> e, read |-> read]
  BY <1>1, <1>4, <1>5 DEF Between
<1>7. r \in State
  <2>1. r \in Fields
    BY <1>6 DEF Fields
  <2>2. r = Between(r.read)
    <3>1. r = Between(read) /\ r.read = read
      BY <1>1, <1>4, <1>6
    <3> QED BY <3>1
  <2> QED BY <2>1, <2>2 DEF State
<1>8. r.type = "none" /\ ~r.reading /\ r.text = <<>> /\ r.read = read
  BY <1>5, <1>6
<1>9. NodeRead(s, x, read)
  BY <1>1, <1>3, <1>4 DEF NodeRead
<1> QED BY <1>7, <1>8, <1>9

(* Scanning keeps what was read.                                           *)
LEMMA ScanGrows ==
  ASSUME NEW s \in State, NEW x \in Alphabet
  PROVE  Scan(s, x) \in State /\ Extends(s.read, Scan(s, x).read)
<1>1. PICK r : r = Scan(s, x)
  OBVIOUS
<1>2. s.read \in Seq(Rough)
  BY DEF State, Fields
<1>3. Extends(s.read, s.read)
  BY <1>2 DEF Extends
<1>4. CASE r = s
  BY <1>1, <1>3, <1>4
<1>5. CASE Ends(s, r, x)
  <2>1. r \in State /\ NodeRead(s, x, r.read)
    BY <1>5, EndsFacts
  <2>2. Extends(s.read, r.read)
    BY <1>2, <1>3, <2>1, ReadMore DEF NodeRead
  <2> QED BY <1>1, <2>1, <2>2
<1>6. CASE Continues(s, r, x)
  BY <1>1, <1>3, <1>6 DEF Continues
<1> QED BY <1>1, <1>4, <1>5, <1>6, ScanCases

(* Of three lists that go on, the last goes on with the first.             *)
LEMMA ExtendsOn ==
  ASSUME NEW S, NEW p \in Seq(S), NEW q \in Seq(S), NEW r \in Seq(S), Extends(p, q), Extends(q, r)
  PROVE  Extends(p, r)
<1>1. Len(p) \in Nat /\ Len(q) \in Nat /\ Len(r) \in Nat
  OBVIOUS
<1> QED BY <1>1 DEF Extends

(* So does scanning a whole text.                                          *)
LEMMA ScannedGrows ==
  ASSUME NEW s \in State, NEW w \in Seq(Alphabet)
  PROVE  Scanned(s, w) \in State /\ Extends(s.read, Scanned(s, w).read)
<1> DEFINE Q == {v \in Seq(Alphabet) : Scanned(s, v) \in State /\ Extends(s.read, Scanned(s, v).read)}
<1>1. <<>> \in Q
  <2>1. <<>> \in Seq(Alphabet) /\ Scanned(s, <<>>) = s
    BY ScannedNothing
  <2>2. Extends(s.read, s.read)
    <3>1. s.read \in Seq(Rough)
      BY DEF State, Fields
    <3> QED BY <3>1 DEF Extends
  <2> QED BY <2>1, <2>2
<1>2. ASSUME NEW v \in Seq(Alphabet), NEW x \in Alphabet, v \in Q PROVE Append(v, x) \in Q
  <2>1. PICK now \in State : now = Scanned(s, v) /\ Extends(s.read, now.read)
    BY <1>2
  <2>2. PICK next \in State : next = Scan(now, x) /\ Extends(now.read, next.read)
    BY ScanGrows
  <2>3. Scanned(s, Append(v, x)) = Scan(Scanned(s, v), x)
    BY ScannedAppend
  <2>4. s.read \in Seq(Rough) /\ now.read \in Seq(Rough) /\ next.read \in Seq(Rough)
    BY DEF State, Fields
  <2>5. Extends(s.read, next.read)
    BY ONLY <2>1, <2>2, <2>4, ExtendsOn
  <2>6. Append(v, x) \in Seq(Alphabet)
    OBVIOUS
  <2> QED BY <2>1, <2>2, <2>3, <2>5, <2>6
<1>3. w \in Q
  <2> HIDE DEF Q
  <2> QED BY <1>1, <1>2, SeqInduction
<1> QED BY <1>3

(* And the end of the array.                                               *)
LEMMA ReadAtGrows ==
  ASSUME NEW s \in State
  PROVE  ReadAt(s) \in Seq(Rough) /\ Extends(s.read, ReadAt(s))
<1>1. s.read \in Seq(Rough) /\ s.text \in Seq(Alphabet)
  BY DEF State, Fields
<1>2. Extends(s.read, s.read)
  BY <1>1 DEF Extends
<1> QED BY <1>1, <1>2, ReadMore DEF ReadAt

(* Scanning starts between two nodes.                                      *)
LEMMA BetweenState ==
  ASSUME NEW read \in Seq(Rough)
  PROVE  Between(read) \in State /\ Between(read).read = read
<1>1. PICK e \in Seq(Alphabet) : e = <<>>
  <2>1. <<>> \in Seq(Alphabet)
    OBVIOUS
  <2> QED BY <2>1
<1>2. PICK s : s = Between(read)
  OBVIOUS
<1>3. s = [depth |-> 0, string |-> "out", type |-> "none", reading |-> FALSE, text |-> e, read |-> read]
  BY <1>1, <1>2 DEF Between
<1>4. s \in Fields /\ s.read = read
  BY <1>3 DEF Fields
<1>5. s = Between(s.read)
  BY <1>2, <1>4
<1>6. s \in State
  BY <1>4, <1>5 DEF State
<1> QED BY <1>2, <1>4, <1>6

(* A text stands in another after a prompt node's beginning, up to its end *)
(* at most; its last token may be half of a marker.                        *)
Stands(t, b, p, m) ==
  /\ b[p] = PromptBegin /\ p + Len(t) <= m
  /\ \A i \in 1 .. Len(t) : b[p + i] # NodeEnd
Drawn(t, b, m) ==
  \E p \in 1 .. m : /\ Stands(t, b, p, m)
                    /\ \A i \in 1 .. Len(t) : \/ t[i] = b[p + i]
                                              \/ i = Len(t) /\ b[p + i] = Braces /\ t[i] = Brace
Going(t, b, m) ==
  \E p \in 1 .. m : /\ Stands(t, b, p, m) /\ p + Len(t) = m
                    /\ \A i \in 1 .. Len(t) : t[i] = b[p + i]

(* What holds after m tokens: a prompt node was begun for each that was    *)
(* read, and all they hold stands in the text.                             *)
Begun(s) == Len(s.read) + (IF s.type = "prompt" THEN 1 ELSE 0)
Fine(s, b, m) ==
  /\ Begun(s) <= Count(b, m, PromptBegin)
  /\ \A i \in 1 .. Len(s.read) : Drawn(s.read[i].text, b, m)
  /\ s.type = "prompt" => Drawn(s.text, b, m)
  /\ s.type = "none" => ~s.reading /\ s.text = <<>>
  /\ s.reading => Going(s.text, b, m)

(* What stands in a text still does when more of it is read.               *)
LEMMA DrawnStays ==
  ASSUME NEW b, NEW m \in Nat, NEW t \in Seq(Alphabet)
  PROVE  /\ Drawn(t, b, m) => Drawn(t, b, m + 1)
         /\ Going(t, b, m) => Drawn(t, b, m)
<1>1. Len(t) \in Nat
  OBVIOUS
<1>2. ASSUME Drawn(t, b, m) PROVE Drawn(t, b, m + 1)
  <2>1. PICK p \in 1 .. m : /\ Stands(t, b, p, m)
                            /\ \A i \in 1 .. Len(t) : \/ t[i] = b[p + i]
                                                      \/ i = Len(t) /\ b[p + i] = Braces /\ t[i] = Brace
    BY <1>2 DEF Drawn
  <2>2. p \in 1 .. m + 1 /\ Stands(t, b, p, m + 1)
    BY <1>1, <2>1 DEF Stands
  <2> QED BY <2>1, <2>2 DEF Drawn
<1>3. ASSUME Going(t, b, m) PROVE Drawn(t, b, m)
  BY <1>3 DEF Going, Drawn
<1> QED BY <1>2, <1>3

(* A template that goes on stands there with the next token too, perhaps   *)
(* with half of it.                                                        *)
LEMMA GoingOn ==
  ASSUME NEW b, NEW m \in Nat, NEW t \in Seq(Alphabet), Going(t, b, m),
         NEW x \in Alphabet, x = b[m + 1], x # NodeEnd
  PROVE  /\ Going(Append(t, x), b, m + 1)
         /\ x = Braces => Drawn(Append(t, Brace), b, m + 1)
<1>1. PICK p \in 1 .. m : /\ Stands(t, b, p, m) /\ p + Len(t) = m
                          /\ \A i \in 1 .. Len(t) : t[i] = b[p + i]
  BY DEF Going
<1>2. PICK k \in Nat : k = Len(t) /\ p + k = m /\ p + (k + 1) = m + 1 /\ p \in 1 .. m + 1
  <2>1. Len(t) \in Nat
    OBVIOUS
  <2> QED BY <1>1, <2>1
<1>3. \A i \in 1 .. k + 1 : i # k + 1 => i \in 1 .. k
  OBVIOUS
<1>4. PICK u \in Seq(Alphabet) : /\ u = Append(t, x) /\ Len(u) = k + 1 /\ u[k + 1] = x
                                 /\ \A i \in 1 .. k : u[i] = t[i]
  <2>1. /\ Append(t, x) \in Seq(Alphabet) /\ Len(Append(t, x)) = k + 1 /\ Append(t, x)[k + 1] = x
        /\ \A i \in 1 .. k : Append(t, x)[i] = t[i]
    BY <1>2
  <2> QED BY <2>1
<1>5. ASSUME NEW w, Len(w) = k + 1 PROVE Stands(w, b, p, m + 1)
  <2>1. b[p] = PromptBegin /\ \A i \in 1 .. k : b[p + i] # NodeEnd
    BY <1>1, <1>2 DEF Stands
  <2>2. \A i \in 1 .. k + 1 : b[p + i] # NodeEnd
    BY <1>2, <1>3, <2>1
  <2> QED BY <1>2, <1>5, <2>1, <2>2 DEF Stands
<1>6. Going(u, b, m + 1)
  <2>1. \A i \in 1 .. k + 1 : u[i] = b[p + i]
    BY <1>1, <1>2, <1>3, <1>4
  <2>2. Stands(u, b, p, m + 1) /\ p + Len(u) = m + 1
    BY <1>2, <1>4, <1>5
  <2> QED BY <1>2, <1>4, <2>1, <2>2 DEF Going
<1>7. ASSUME x = Braces PROVE Drawn(Append(t, Brace), b, m + 1)
  <2>1. Brace \in Alphabet
    BY DEF Alphabet, TemplateTokens, Brace
  <2>2. PICK v \in Seq(Alphabet) : /\ v = Append(t, Brace) /\ Len(v) = k + 1 /\ v[k + 1] = Brace
                                   /\ \A i \in 1 .. k : v[i] = t[i]
    <3>1. /\ Append(t, Brace) \in Seq(Alphabet) /\ Len(Append(t, Brace)) = k + 1
          /\ Append(t, Brace)[k + 1] = Brace /\ \A i \in 1 .. k : Append(t, Brace)[i] = t[i]
      BY <1>2, <2>1
    <3> QED BY <3>1
  <2>3. \A i \in 1 .. k + 1 : v[i] = b[p + i] \/ (i = k + 1 /\ b[p + i] = Braces /\ v[i] = Brace)
    BY <1>1, <1>2, <1>3, <1>7, <2>2
  <2> QED BY <1>2, <1>5, <2>2, <2>3 DEF Drawn
<1> QED BY <1>4, <1>6, <1>7

(* One token more.                                                         *)
LEMMA FineStep ==
  ASSUME NEW b, NEW m \in Nat, NEW s \in State, Fine(s, b, m), b[m + 1] \in Alphabet
  PROVE  Fine(Scan(s, b[m + 1]), b, m + 1)
<1>1. PICK x \in Alphabet : x = b[m + 1]
  OBVIOUS
<1>2. PICK r \in State : r = Scan(s, x)
  BY ScanGrows
<1> SUFFICES Fine(r, b, m + 1)
  BY <1>1, <1>2
<1>3. PICK c \in Nat, d \in Nat :
        /\ c = Count(b, m, PromptBegin) /\ d = Count(b, m + 1, PromptBegin)
        /\ d = c + (IF x = PromptBegin THEN 1 ELSE 0)
  <2>1. /\ Count(b, m, PromptBegin) \in Nat /\ Count(b, m + 1, PromptBegin) \in Nat
        /\ Count(b, m + 1, PromptBegin) = Count(b, m, PromptBegin) + (IF x = PromptBegin THEN 1 ELSE 0)
    <3>1. m + 1 \in Nat
      OBVIOUS
    <3> QED BY <1>1, <3>1, CountFacts
  <2> QED BY <2>1
<1>4. /\ s.read \in Seq(Rough) /\ s.text \in Seq(Alphabet) /\ s.reading \in BOOLEAN
      /\ \A i \in 1 .. Len(s.read) : s.read[i].text \in Seq(Alphabet)
      /\ Len(s.read) \in Nat
  <2>1. PICK read \in Seq(Rough) : read = s.read
    BY DEF State, Fields
  <2>2. Len(read) \in Nat /\ \A i \in 1 .. Len(read) : read[i] \in Rough
    OBVIOUS
  <2>3. \A i \in 1 .. Len(read) : read[i].text \in Seq(Alphabet)
    BY <2>2 DEF Rough
  <2> QED BY <2>1, <2>2, <2>3 DEF State, Fields
<1>5. /\ Begun(s) <= c
      /\ \A i \in 1 .. Len(s.read) : Drawn(s.read[i].text, b, m + 1)
      /\ s.type = "prompt" => Drawn(s.text, b, m + 1)
      /\ s.type = "none" => ~s.reading /\ s.text = <<>>
      /\ s.reading => Going(s.text, b, m)
  BY <1>3, <1>4, DrawnStays DEF Fine
<1>6. PICK k \in Nat : /\ k = Len(s.read) /\ k <= c
                       /\ s.type = "prompt" => k + 1 <= c
  <2>1. CASE s.type = "prompt"
    BY <1>3, <1>4, <1>5, <2>1 DEF Begun
  <2>2. CASE s.type # "prompt"
    <3>1. Len(s.read) + 0 <= c
      BY <1>5, <2>2 DEF Begun
    <3> QED BY <1>3, <1>4, <2>2, <3>1
  <2> QED BY <2>1, <2>2
<1>66. \A t \in Seq(Alphabet) : s.type = "prompt" /\ Part(s, x, t) => Drawn(t, b, m + 1)
  <2> SUFFICES ASSUME NEW t \in Seq(Alphabet), s.type = "prompt", Part(s, x, t)
               PROVE  Drawn(t, b, m + 1)
    OBVIOUS
  <2>1. CASE t = s.text
    BY <1>5, <2>1
  <2>2. CASE t # s.text
    <3>1. /\ Going(s.text, b, m) /\ x # NodeEnd
          /\ (t = Append(s.text, x) \/ (x = Braces /\ t = Append(s.text, Brace)))
      BY <1>5, <2>2 DEF Part, GoesOn
    <3>2. /\ Going(Append(s.text, x), b, m + 1)
          /\ x = Braces => Drawn(Append(s.text, Brace), b, m + 1)
      BY <1>1, <1>4, <3>1, GoingOn
    <3>3. m + 1 \in Nat /\ Append(s.text, x) \in Seq(Alphabet)
      BY <1>4
    <3> QED BY <3>1, <3>2, <3>3, DrawnStays
  <2> QED BY <2>1, <2>2
<1>7. CASE s.depth = 0 /\ r = s
  <2>1. ~r.reading /\ r.type = "none" /\ r.text = <<>> /\ r.read = s.read
    BY <1>7 DEF State, Between
  <2>2. Begun(r) <= d
    <3>1. Begun(r) = k + 0
      BY <1>6, <2>1 DEF Begun
    <3> QED BY <1>3, <1>6, <3>1
  <2> QED BY <1>3, <1>5, <2>1, <2>2 DEF Fine
<1>8. CASE Ends(s, r, x)
  <2>1. r.type = "none" /\ ~r.reading /\ r.text = <<>> /\ NodeRead(s, x, r.read)
    BY <1>8, EndsFacts
  <2>2. CASE s.type # "prompt" /\ r.read = s.read
    <3>1. Begun(r) <= d
      <4>1. Begun(r) = k + 0
        BY <1>6, <2>1, <2>2 DEF Begun
      <4> QED BY <1>3, <1>6, <4>1
    <3> QED BY <1>3, <1>5, <2>1, <2>2, <3>1 DEF Fine
  <2>3. ASSUME NEW t \in Seq(Alphabet), s.type = "prompt", Part(s, x, t),
               r.read = Append(s.read, PromptNode(t))
        PROVE  Fine(r, b, m + 1)
    <3>1. PICK q \in Seq(Rough) : /\ q = r.read /\ Len(q) = Len(s.read) + 1
                                  /\ q[Len(s.read) + 1].text = t
                                  /\ \A i \in 1 .. Len(s.read) : q[i] = s.read[i]
      BY <1>4, <2>3, ReadMore
    <3>2. Begun(r) <= d
      <4>1. Begun(r) = (k + 1) + 0
        BY <1>6, <2>1, <3>1 DEF Begun
      <4> QED BY <1>3, <1>6, <2>3, <4>1
    <3>3. \A i \in 1 .. Len(q) : i \in 1 .. Len(s.read) \/ i = Len(s.read) + 1
      BY <1>4, <3>1
    <3>4. \A i \in 1 .. Len(q) : Drawn(q[i].text, b, m + 1)
      BY <1>5, <1>66, <2>3, <3>1, <3>3
    <3> QED BY <1>3, <2>1, <3>1, <3>2, <3>4 DEF Fine
  <2>4. Fine(r, b, m + 1)
    BY <2>1, <2>2, <2>3 DEF NodeRead
  <2> QED BY <1>1, <1>2, <2>4
<1>9. CASE Continues(s, r, x)
  <2>1. /\ r.read = s.read
        /\ r.type = IF s.type = "none" THEN TypeIn(x) ELSE s.type
        /\ r.reading <=> GoesOn(s, x) \/ (s.type = "none" /\ x = PromptBegin)
        /\ GoesOn(s, x) => r.text = Append(s.text, x)
        /\ ~GoesOn(s, x) => r.text = s.text
        /\ r.text \in Seq(Alphabet) /\ r.reading \in BOOLEAN
    BY <1>9 DEF Continues, State, Fields
  <2>2. TypeIn(x) = "prompt" <=> x = PromptBegin
    BY MarkersApart DEF TypeIn
  <2>3. Begun(r) <= d
    <3>1. CASE r.type = "prompt"
      <4>1. s.type = "prompt" \/ x = PromptBegin
        BY <2>1, <2>2, <3>1
      <4>2. Begun(r) = k + 1
        BY <1>6, <2>1, <3>1 DEF Begun
      <4>3. CASE s.type = "prompt"
        BY <1>3, <1>6, <4>2, <4>3
      <4>4. CASE x = PromptBegin
        BY <1>3, <1>6, <4>2, <4>4
      <4> QED BY <4>1, <4>3, <4>4
    <3>2. CASE r.type # "prompt"
      <4>1. Begun(r) = k + 0
        BY <1>6, <2>1, <3>2 DEF Begun
      <4> QED BY <1>3, <1>6, <4>1
    <3> QED BY <3>1, <3>2
  <2>4. CASE GoesOn(s, x)
    <3>1. s.reading /\ x # NodeEnd /\ s.type # "none" /\ Going(s.text, b, m)
      BY <1>4, <1>5, <2>4 DEF GoesOn
    <3>2. Going(r.text, b, m + 1)
      BY <1>1, <1>4, <2>1, <2>4, <3>1, GoingOn
    <3>3. Drawn(r.text, b, m + 1)
      BY <2>1, <3>2, DrawnStays
    <3> QED BY <1>3, <1>5, <2>1, <2>3, <3>1, <3>2, <3>3 DEF Fine
  <2>5. CASE ~GoesOn(s, x) /\ s.type = "none" /\ x = PromptBegin
    <3>1. PICK t \in Seq(Alphabet) : t = r.text /\ t = <<>> /\ Len(t) = 0
      BY <1>5, <2>1, <2>5
    <3>2. Going(t, b, m + 1)
      <4>1. m + 1 \in 1 .. m + 1 /\ (m + 1) + 0 = m + 1 /\ \A i \in 1 .. 0 : FALSE
        OBVIOUS
      <4>2. Stands(t, b, m + 1, m + 1)
        BY <1>1, <2>5, <3>1, <4>1 DEF Stands
      <4> QED BY <3>1, <4>1, <4>2 DEF Going
    <3>3. Drawn(t, b, m + 1)
      <4>1. m + 1 \in Nat
        OBVIOUS
      <4> QED BY <3>2, <4>1, DrawnStays
    <3>4. r.type = "prompt"
      BY <2>1, <2>2, <2>5
    <3> QED BY <1>3, <1>5, <2>1, <2>3, <3>1, <3>2, <3>3, <3>4 DEF Fine
  <2>6. CASE ~GoesOn(s, x) /\ ~(s.type = "none" /\ x = PromptBegin)
    <3>1. ~r.reading /\ r.text = s.text
      BY <2>1, <2>6
    <3>2. r.type = "prompt" => s.type = "prompt"
      BY <2>1, <2>2, <2>6
    <3>3. r.type = "none" => s.type = "none"
      BY <2>1
    <3> QED BY <1>3, <1>5, <2>1, <2>3, <3>1, <3>2, <3>3 DEF Fine
  <2> QED BY <1>1, <1>2, <2>4, <2>5, <2>6
<1> QED BY <1>2, <1>7, <1>8, <1>9, ScanCases

(* So it is at every place of a text, and with what is read of it all.     *)
LEMMA ReadFromText ==
  ASSUME NEW b \in Seq(Alphabet)
  PROVE  /\ Parsed(b) \in Seq(Rough) /\ Len(Parsed(b)) <= Count(b, Len(b), PromptBegin)
         /\ \A i \in 1 .. Len(Parsed(b)) : Drawn(Parsed(b)[i].text, b, Len(b))
<1>1. PICK n \in Nat : n = Len(b)
  OBVIOUS
<1>2. PICK e \in Seq(Rough) : e = <<>> /\ Len(e) = 0
  <2>1. <<>> \in Seq(Rough) /\ Len(<<>>) = 0
    OBVIOUS
  <2> QED BY <2>1
<1>3. PICK start \in State : start = Between(e) /\ start.read = e
  BY BetweenState
<1>4. PICK f : States(f, start, b, n) /\ Scanned(start, b) = f[n]
  BY <1>1, StatesExist
<1> DEFINE Good(k) == f[k] \in State /\ Fine(f[k], b, k)
           Q == {k \in 0 .. n : Good(k)}
<1>5. 0 \in Q
  <2>1. start.type = "none" /\ ~start.reading /\ start.text = <<>>
    BY <1>3 DEF Between
  <2>2. Begun(start) <= Count(b, 0, PromptBegin)
    <3>1. Begun(start) = 0
      <4>1. Len(start.read) = 0
        BY <1>2, <1>3
      <4>2. Begun(start) = Len(start.read) + 0
        BY <2>1 DEF Begun
      <4> QED BY <4>1, <4>2
    <3>2. Count(b, 0, PromptBegin) = 0
      BY CountFacts
    <3> QED BY <3>1, <3>2
  <2>3. \A i \in 1 .. Len(start.read) : FALSE
    BY <1>2, <1>3
  <2>4. Fine(start, b, 0)
    BY <2>1, <2>2, <2>3 DEF Fine
  <2> QED BY <1>1, <1>4, <2>4 DEF States
<1>6. ASSUME NEW k \in 0 .. n - 1, k \in Q PROVE k + 1 \in Q
  <2>1. k \in Nat /\ k + 1 \in 1 .. n /\ k + 1 \in 0 .. n /\ (k + 1) - 1 = k
    BY <1>1
  <2>2. f[k + 1] = Scan(f[k], b[k + 1]) /\ b[k + 1] \in Alphabet
    BY <1>1, <1>4, <2>1 DEF States
  <2>3. PICK s \in State : s = f[k] /\ Fine(s, b, k)
    BY <1>6
  <2>4. Scan(s, b[k + 1]) \in State /\ Fine(Scan(s, b[k + 1]), b, k + 1)
    BY <2>1, <2>2, <2>3, ScanGrows, FineStep
  <2> QED BY <2>1, <2>2, <2>3, <2>4
<1>7. Good(n)
  <2> HIDE DEF Good
  <2>1. \A k \in 0 .. n : k \in Q
    <3> HIDE DEF Q
    <3> QED BY <1>5, <1>6, UpTo
  <2>2. n \in 0 .. n
    OBVIOUS
  <2> QED BY <2>1, <2>2
<1>8. PICK s \in State : s = f[n] /\ Fine(s, b, n) /\ Parsed(b) = ReadAt(s)
  BY <1>2, <1>3, <1>4, <1>7 DEF Parsed
<1>9. s.read \in Seq(Rough) /\ s.text \in Seq(Alphabet) /\ Len(s.read) \in Nat
  <2>1. s.read \in Seq(Rough) /\ s.text \in Seq(Alphabet)
    BY DEF State, Fields
  <2> QED BY <2>1
<1>10. PICK c \in Nat : c = Count(b, n, PromptBegin)
  BY CountFacts
<1>11. CASE s.type # "prompt"
  <2>1. ReadAt(s) = s.read
    BY <1>11 DEF ReadAt
  <2>2. Len(s.read) + 0 <= c
    BY <1>8, <1>10, <1>11 DEF Fine, Begun
  <2> QED BY <1>1, <1>8, <1>9, <1>10, <2>1, <2>2 DEF Fine
<1>12. CASE s.type = "prompt"
  <2>1. PICK q \in Seq(Rough) : /\ q = ReadAt(s) /\ Len(q) = Len(s.read) + 1
                                /\ q[Len(s.read) + 1].text = s.text
                                /\ \A i \in 1 .. Len(s.read) : q[i] = s.read[i]
    BY <1>9, <1>12, ReadMore DEF ReadAt
  <2>2. Len(s.read) + 1 <= c
    BY <1>8, <1>10, <1>12 DEF Fine, Begun
  <2>3. \A i \in 1 .. Len(q) : i \in 1 .. Len(s.read) \/ i = Len(s.read) + 1
    BY <1>9, <2>1
  <2>4. /\ \A i \in 1 .. Len(s.read) : Drawn(s.read[i].text, b, n)
        /\ Drawn(s.text, b, n)
    BY <1>8, <1>12 DEF Fine
  <2>5. \A i \in 1 .. Len(q) : Drawn(q[i].text, b, n)
    BY <2>1, <2>3, <2>4
  <2> QED BY <1>1, <1>8, <1>10, <2>1, <2>2, <2>5
<1> QED BY <1>11, <1>12

(* Where a node's text holds the beginning of a prompt node.               *)
LEMMA BeginningsInNode ==
  ASSUME NEW x \in Node, NEW i \in 1 .. Len(NodeText(x)), NodeText(x)[i] = PromptBegin
  PROVE  i = 1 /\ x.type = "prompt"
<1>1. CASE x.type = "null"
  <2>1. NodeText(x) = <<NullText>>
    BY <1>1, NodeTextFacts
  <2>2. Len(<<NullText>>) = 1 /\ <<NullText>>[1] = NullText /\ \A j \in 1 .. 1 : j = 1
    OBVIOUS
  <2>3. i = 1
    BY <2>1, <2>2
  <2> QED BY <2>1, <2>2, <2>3, MarkersApart
<1>2. CASE x.type # "null"
  <2>1. PICK n \in Nat : n = Len(x.text) /\ Len(NodeText(x)) = n + 2
    <3>1. x.text \in Seq(Alphabet) /\ Len(NodeText(x)) = Len(x.text) + 2
      BY <1>2, NodeTextFacts
    <3> QED BY <3>1
  <2>2. /\ NodeText(x)[1] = Beginning(x) /\ NodeText(x)[n + 2] = NodeEnd
        /\ \A j \in 1 .. n : NodeText(x)[j + 1] = x.text[j]
    BY <1>2, <2>1, NodeTextFacts
  <2>3. ASSUME NEW j \in 1 .. n PROVE x.text[j] # PromptBegin
    <3>1. CASE x \in LoadedNode
      <4>1. x.text \in Seq(TemplateTokens)
        BY <3>1 DEF LoadedNode
      <4>2. x.text[j] \in TemplateTokens
        BY <2>1, <4>1
      <4>3. Quiet(x.text[j])
        BY <4>2, MarkersApart
      <4> QED BY <4>3, MarkersApart DEF Quiet
    <3>2. CASE x \in [type : {"llm", "null"}, text : Seq(NameTokens)]
      <4>1. x.text \in Seq(NameTokens)
        BY <3>2
      <4>2. x.text[j] \in NameTokens
        BY <2>1, <4>1
      <4> QED BY <4>2, MarkersApart
    <3> QED BY <3>1, <3>2 DEF Node
  <2>4. CASE i = 1
    BY <2>2, <2>4, MarkersApart DEF Beginning
  <2>5. CASE i = n + 2
    BY <2>2, <2>5, MarkersApart
  <2>6. CASE i # 1 /\ i # n + 2
    <3>1. PICK j \in 1 .. n : i = j + 1
      <4>1. i - 1 \in 1 .. n /\ i = (i - 1) + 1
        BY <2>1, <2>6
      <4> QED BY <4>1
    <3> QED BY <2>2, <2>3, <3>1
  <2> QED BY <2>4, <2>5, <2>6
<1> QED BY <1>1, <1>2

(* Every beginning of a prompt node in a text is that of one of the prompt *)
(* nodes, whose template and end stand after it; and there are no more of  *)
(* them.                                                                   *)
After(w, b, p) ==
  /\ p + Len(w) + 1 <= Len(b) /\ b[p + Len(w) + 1] = NodeEnd
  /\ \A i \in 1 .. Len(w) : b[p + i] = w[i]
Written(list) ==
  /\ Count(Body(list), Len(Body(list)), PromptBegin) = Len(PromptsOf(list))
  /\ \A p \in 1 .. Len(Body(list)) :
       Body(list)[p] = PromptBegin =>
         \E j \in 1 .. Len(PromptsOf(list)) : /\ PromptsOf(list)[j] \in LoadedNode
                                              /\ After(PromptsOf(list)[j].text, Body(list), p)

(* It stays so with one node more.                                         *)
LEMMA WrittenAppend ==
  ASSUME NEW l \in Seq(Node), NEW x \in Node, Written(l)
  PROVE  Written(Append(l, x))
<1>1. PICK u \in Seq(Alphabet), f \in Seq(Alphabet), m \in Nat, k \in Nat :
        u = Body(l) /\ f = NodeText(x) /\ m = Len(u) /\ k = Len(f)
  <2>1. Body(l) \in Seq(Alphabet) /\ NodeText(x) \in Seq(Alphabet)
    BY BodyFacts, NodeTextFacts
  <2>2. Len(Body(l)) \in Nat /\ Len(NodeText(x)) \in Nat
    BY <2>1
  <2> QED BY <2>1, <2>2
<1>2. PICK b \in Seq(Alphabet) : b = u \o f
  BY ConcatProperties
<1>3. Len(b) = m + k /\ \A i \in 1 .. m + k : b[i] = IF i <= m THEN u[i] ELSE f[i - m]
  BY <1>1, <1>2, ConcatProperties
<1>4. PICK longer : longer = Append(l, x) /\ Body(longer) = b
  BY <1>1, <1>2, BodyFacts
<1>5. PICK p \in Seq(Node), n \in Nat : p = PromptsOf(l) /\ n = Len(p)
  <2>1. PromptsOf(l) \in Seq(Node)
    BY PromptsFacts
  <2> QED BY <2>1
<1>6. PICK q \in Seq(Node) :
        /\ q = PromptsOf(longer) /\ \A j \in 1 .. n : q[j] = p[j]
        /\ x.type = "prompt" => Len(q) = n + 1 /\ q[n + 1] = x
        /\ x.type # "prompt" => Len(q) = n
  <2>1. /\ Append(p, x) \in Seq(Node) /\ Len(Append(p, x)) = n + 1 /\ Append(p, x)[n + 1] = x
        /\ \A j \in 1 .. n : Append(p, x)[j] = p[j]
    BY <1>5
  <2>2. PromptsOf(longer) = IF x.type = "prompt" THEN Append(p, x) ELSE p
    BY <1>4, <1>5, PromptsFacts
  <2> QED BY <1>5, <2>1, <2>2
<1>7. Count(b, m + k, PromptBegin) = Len(q)
  <2> DEFINE P == {i \in 1 .. m : u[i] = PromptBegin}
             R == {i \in 1 .. m + k : b[i] = PromptBegin}
  <2>1. Cardinality(P) = n
    BY <1>1, <1>5 DEF Written, Count
  <2>2. IsFiniteSet(P)
    <3>1. IsFiniteSet(1 .. m)
      <4>1. 1 \in Int /\ m \in Int
        OBVIOUS
      <4> QED BY <4>1, FS_Interval
    <3>2. P \subseteq 1 .. m
      OBVIOUS
    <3> HIDE DEF P
    <3> QED BY <3>1, <3>2, FS_Subset
  <2>3. m + 1 \notin P
    OBVIOUS
  <2>4. ASSUME NEW i \in 1 .. m + k PROVE i \in R <=> i \in P \/ (i = m + 1 /\ x.type = "prompt")
    <3>1. CASE i <= m
      <4>1. i \in 1 .. m /\ b[i] = u[i] /\ i # m + 1
        BY <1>3, <3>1
      <4> QED BY <4>1
    <3>2. CASE ~(i <= m)
      <4>1. PICK a \in 1 .. k : i = m + a /\ b[i] = f[a]
        <5>1. i - m \in 1 .. k /\ i = m + (i - m) /\ b[i] = f[i - m]
          BY <1>3, <3>2
        <5> QED BY <5>1
      <4>2. f[a] = PromptBegin => a = 1 /\ x.type = "prompt"
        BY <1>1, BeginningsInNode
      <4>3. x.type = "prompt" => f[1] = PromptBegin
        BY <1>1, NodeTextFacts DEF Beginning
      <4>4. i \notin P /\ (i \in R <=> f[a] = PromptBegin)
        BY <3>2, <4>1
      <4>5. i = m + 1 <=> a = 1
        BY <4>1
      <4> QED BY <4>2, <4>3, <4>4, <4>5
    <3> QED BY <3>1, <3>2
  <2>5. R = IF x.type = "prompt" THEN P \cup {m + 1} ELSE P
    <3>1. x.type = "prompt" => m + 1 \in 1 .. m + k
      <4>1. x.type = "prompt" => k = Len(x.text) + 2 /\ x.text \in Seq(Alphabet)
        BY <1>1, NodeTextFacts
      <4> QED BY <4>1
    <3>2. P \subseteq 1 .. m + k /\ R \subseteq 1 .. m + k
      OBVIOUS
    <3> HIDE DEF P, R
    <3> QED BY <2>4, <3>1, <3>2
  <2>6. Count(b, m + k, PromptBegin) = Cardinality(R)
    BY DEF Count
  <2> HIDE DEF P, R
  <2>7. Cardinality(P \cup {m + 1}) = n + 1
    BY <2>1, <2>2, <2>3, FS_AddElement
  <2> QED BY <1>6, <2>1, <2>5, <2>6, <2>7
<1>8. ASSUME NEW i \in 1 .. m + k, b[i] = PromptBegin
      PROVE  \E j \in 1 .. Len(q) : q[j] \in LoadedNode /\ After(q[j].text, b, i)
  <2>1. CASE i <= m
    <3>1. i \in 1 .. m /\ u[i] = PromptBegin
      BY <1>3, <1>8, <2>1
    <3>2. PICK j \in 1 .. n : p[j] \in LoadedNode /\ After(p[j].text, u, i)
      BY <1>1, <1>5, <3>1 DEF Written
    <3>3. PICK w \in Seq(TemplateTokens), r \in Nat : w = p[j].text /\ r = Len(w)
      <4>1. p[j].text \in Seq(TemplateTokens)
        BY <3>2 DEF LoadedNode
      <4> QED BY <4>1
    <3>4. i + r + 1 <= m /\ u[i + r + 1] = NodeEnd /\ \A a \in 1 .. r : u[i + a] = w[a]
      BY <1>1, <3>2, <3>3 DEF After
    <3>5. /\ i + r + 1 \in 1 .. m + k /\ i + r + 1 <= m + k
          /\ \A a \in 1 .. r : i + a \in 1 .. m + k /\ i + a <= m
      BY <3>1, <3>4
    <3>6. After(w, b, i)
      BY <1>3, <3>3, <3>4, <3>5 DEF After
    <3>7. j \in 1 .. Len(q) /\ q[j] = p[j]
      BY <1>6
    <3> QED BY <3>2, <3>3, <3>6, <3>7
  <2>2. CASE ~(i <= m)
    <3>1. PICK a \in 1 .. k : i = m + a /\ b[i] = f[a]
      <4>1. i - m \in 1 .. k /\ i = m + (i - m) /\ b[i] = f[i - m]
        BY <1>3, <2>2
      <4> QED BY <4>1
    <3>2. a = 1 /\ x.type = "prompt"
      BY <1>1, <1>8, <3>1, BeginningsInNode
    <3>3. PICK w \in Seq(TemplateTokens), r \in Nat : w = x.text /\ r = Len(w) /\ x \in LoadedNode
      <4>1. x \in LoadedNode
        BY <3>2 DEF Node
      <4>2. x.text \in Seq(TemplateTokens)
        BY <4>1 DEF LoadedNode
      <4> QED BY <4>1, <4>2
    <3>4. k = r + 2 /\ f[r + 2] = NodeEnd /\ \A c \in 1 .. r : f[c + 1] = w[c]
      BY <1>1, <3>2, <3>3, NodeTextFacts
    <3>5. /\ i = m + 1 /\ i + r + 1 <= m + k /\ i + r + 1 \in 1 .. m + k
          /\ ~(i + r + 1 <= m) /\ (i + r + 1) - m = r + 2
          /\ \A c \in 1 .. r : i + c \in 1 .. m + k /\ ~(i + c <= m) /\ (i + c) - m = c + 1
      BY <3>1, <3>2, <3>4
    <3>6. After(w, b, i)
      BY <1>3, <3>3, <3>4, <3>5 DEF After
    <3>7. n + 1 \in 1 .. Len(q) /\ q[n + 1] = x
      BY <1>6, <3>2
    <3> QED BY <3>3, <3>6, <3>7
  <2> QED BY <2>1, <2>2
<1> QED BY <1>3, <1>4, <1>6, <1>7, <1>8 DEF Written

(* So it is with the text of any list.                                     *)
LEMMA BodyWritten ==
  ASSUME NEW list \in Seq(Node)
  PROVE  Written(list)
<1> DEFINE Q == {l \in Seq(Node) : Written(l)}
<1>1. <<>> \in Q
  <2>1. PICK e \in Seq(Node), b \in Seq(Alphabet) :
          e = <<>> /\ Len(e) = 0 /\ b = <<>> /\ Len(b) = 0 /\ Body(e) = b /\ PromptsOf(e) = e
    <3>1. <<>> \in Seq(Node) /\ <<>> \in Seq(Alphabet) /\ Len(<<>>) = 0
      OBVIOUS
    <3> QED BY <3>1, BodyFacts, PromptsFacts
  <2>2. Count(b, 0, PromptBegin) = 0 /\ \A p \in 1 .. 0 : FALSE
    BY CountFacts
  <2>3. Written(e)
    BY <2>1, <2>2 DEF Written
  <2> QED BY <2>1, <2>3
<1>2. ASSUME NEW l \in Seq(Node), NEW x \in Node, l \in Q PROVE Append(l, x) \in Q
  <2>1. Append(l, x) \in Seq(Node)
    OBVIOUS
  <2> QED BY <1>2, <2>1, WrittenAppend
<1>3. list \in Q
  <2> HIDE DEF Q
  <2> QED BY <1>1, <1>2, SeqInduction
<1> QED BY <1>3

(* A beginning is what goes on with the rest.                              *)
LEMMA PrefixIs ==
  ASSUME NEW S, NEW s \in Seq(S), NEW t \in Seq(S)
  PROVE  IsPrefix(s, t) <=> Extends(s, t)
<1>1. Len(s) \in Nat /\ Len(t) \in Nat
  OBVIOUS
<1>2. SubSeq(s, 1, Len(s)) = s
  BY RestOfAll
<1>3. CASE Len(s) <= Len(t)
  <2>1. PICK k \in 0 .. Len(t) : k = Len(s)
    BY <1>1, <1>3
  <2>2. PICK p \in Seq(S) : p = SubSeq(t, 1, k) /\ Len(p) = k /\ \A i \in 1 .. k : p[i] = t[i]
    BY PrefixFacts
  <2>3. s = p <=> \A i \in 1 .. k : p[i] = s[i]
    <3>1. ASSUME \A i \in 1 .. k : p[i] = s[i] PROVE s = p
      <4>1. Len(s) = Len(p) /\ \A i \in 1 .. Len(s) : s[i] = p[i]
        BY <2>1, <2>2, <3>1
      <4> QED BY ONLY <4>1, s \in Seq(S), p \in Seq(S), SeqEqual
    <3> QED BY <3>1
  <2>4. IsPrefix(s, t) <=> s = p
    BY <1>2, <1>3, <2>1, <2>2 DEF IsPrefix
  <2>5. Extends(s, t) <=> \A i \in 1 .. k : p[i] = s[i]
    BY <1>3, <2>1, <2>2 DEF Extends
  <2> QED BY <2>3, <2>4, <2>5
<1>4. CASE ~(Len(s) <= Len(t))
  BY <1>4 DEF IsPrefix, Extends
<1> QED BY <1>3, <1>4

(* A token stands no more often in the beginning of a text.                *)
LEMMA CountPrefix ==
  ASSUME NEW S, NEW b \in Seq(S), NEW m \in 0 .. Len(b), NEW token
  PROVE  Count(SubSeq(b, 1, m), m, token) <= Count(b, Len(b), token)
<1>1. PICK n \in Nat : n = Len(b) /\ m <= n /\ m \in Nat
  OBVIOUS
<1>2. PICK p : p = SubSeq(b, 1, m) /\ \A i \in 1 .. m : p[i] = b[i]
  BY PrefixFacts
<1> DEFINE P == {i \in 1 .. m : p[i] = token}
           R == {i \in 1 .. n : b[i] = token}
<1>3. IsFiniteSet(R)
  <2>1. IsFiniteSet(1 .. n)
    <3>1. 1 \in Int /\ n \in Int
      OBVIOUS
    <3> QED BY <3>1, FS_Interval
  <2>2. R \subseteq 1 .. n
    OBVIOUS
  <2> HIDE DEF R
  <2> QED BY <2>1, <2>2, FS_Subset
<1>4. P \subseteq R
  <2>1. \A i \in 1 .. m : i \in 1 .. n
    BY <1>1
  <2> QED BY <1>2, <2>1
<1>5. Count(p, m, token) = Cardinality(P) /\ Count(b, n, token) = Cardinality(R)
  BY DEF Count
<1> HIDE DEF P, R
<1>6. Cardinality(P) <= Cardinality(R)
  BY <1>3, <1>4, FS_Subset
<1> QED BY <1>1, <1>2, <1>5, <1>6

(* What stands in the beginning of a text, up to the end of a node, is a   *)
(* beginning of what the node holds.                                       *)
LEMMA DrawnBegins ==
  ASSUME NEW b, NEW t \in Seq(Alphabet), NEW p \in Nat, NEW w \in Seq(TemplateTokens), After(w, b, p),
         \A i \in 1 .. Len(t) : b[p + i] # NodeEnd,
         \A i \in 1 .. Len(t) : \/ t[i] = b[p + i]
                                \/ i = Len(t) /\ b[p + i] = Braces /\ t[i] = Brace
  PROVE  t \in Seq(TemplateTokens) /\ Begins(t, w)
<1>1. PICK k \in Nat, r \in Nat : k = Len(t) /\ r = Len(w)
  OBVIOUS
<1>2. k <= r
  <2>1. ASSUME k > r PROVE FALSE
    <3>1. r + 1 \in 1 .. k /\ p + (r + 1) = p + r + 1
      BY <2>1
    <3>2. b[p + r + 1] = NodeEnd
      BY <1>1 DEF After
    <3> QED BY <1>1, <3>1, <3>2
  <2> QED BY <2>1
<1>3. \A i \in 1 .. k : t[i] = w[i] \/ (i = k /\ w[i] = Braces /\ t[i] = Brace)
  <2>1. \A i \in 1 .. r : b[p + i] = w[i]
    BY <1>1 DEF After
  <2>2. \A i \in 1 .. k : i \in 1 .. r
    BY <1>2
  <2> QED BY <1>1, <2>1, <2>2
<1>4. Brace \in TemplateTokens /\ TemplateTokens \subseteq Alphabet
  BY MarkersApart DEF TemplateTokens, Brace
<1>5. \A i \in 1 .. k : i \in 1 .. r /\ w[i] \in TemplateTokens
  BY <1>1, <1>2
<1>6. t \in Seq(TemplateTokens)
  <2>1. \A i \in 1 .. k : t[i] \in TemplateTokens
    BY <1>3, <1>4, <1>5
  <2> QED BY <1>1, <2>1
<1>7. CASE \A i \in 1 .. k : t[i] = w[i]
  <2>1. Extends(t, w)
    BY <1>1, <1>2, <1>7 DEF Extends
  <2> QED BY <1>6, <2>1, PrefixIs DEF Begins
<1>8. CASE ~(\A i \in 1 .. k : t[i] = w[i])
  <2>1. k \in 1 .. k /\ w[k] = Braces /\ t[k] = Brace
    BY <1>3, <1>8
  <2>2. \A i \in 1 .. k - 1 : i \in 1 .. k /\ i # k
    OBVIOUS
  <2>3. PICK a \in 0 .. Len(w) : a = k - 1 /\ a + 1 = k /\ a \in Nat
    BY <1>1, <1>2, <2>1
  <2>4. PICK u \in Seq(TemplateTokens) : u = SubSeq(w, 1, a) /\ Len(u) = a /\ \A i \in 1 .. a : u[i] = w[i]
    BY ONLY w \in Seq(TemplateTokens), a \in 0 .. Len(w), PrefixFacts
  <2>5. PICK z \in Seq(TemplateTokens) : z = Append(u, Brace) /\ Len(z) = a + 1 /\ z[a + 1] = Brace
                                         /\ \A i \in 1 .. a : z[i] = u[i]
    <3>1. /\ Append(u, Brace) \in Seq(TemplateTokens) /\ Len(Append(u, Brace)) = a + 1
          /\ Append(u, Brace)[a + 1] = Brace /\ \A i \in 1 .. a : Append(u, Brace)[i] = u[i]
      BY <1>4, <2>4
    <3> QED BY <3>1
  <2>6. z = t
    <3>1. \A i \in 1 .. k : i \in 1 .. a \/ i = k
      BY <2>3
    <3>2. \A i \in 1 .. a : z[i] = t[i]
      BY <1>3, <2>2, <2>3, <2>4, <2>5
    <3>3. Len(z) = Len(t) /\ \A i \in 1 .. Len(z) : z[i] = t[i]
      BY <1>1, <2>1, <2>3, <2>5, <3>1, <3>2
    <3> QED BY ONLY <3>3, z \in Seq(TemplateTokens), t \in Seq(TemplateTokens), <1>6, SeqEqual
  <2>7. t = SubSeq(w, 1, k - 1) \o <<Brace>>
    <3>1. Append(u, Brace) = u \o <<Brace>>
      BY ONLY u \in Seq(TemplateTokens), <1>4, AppendIsConcat
    <3> QED BY <2>3, <2>4, <2>5, <2>6, <3>1
  <2>8. k \in DOMAIN w
    BY <1>1, <1>5, <2>1
  <2>9. w[k] = "}}" /\ t = SubSeq(w, 1, k - 1) \o <<"}">>
    BY <2>1, <2>7 DEF Braces, Brace
  <2>10. Begins(t, w)
    BY <2>8, <2>9, Zenon DEF Begins
  <2> QED BY <1>6, <2>10
<1> QED BY <1>7, <1>8

(* All that is read, of whatever part of a chain's text, was saved, or     *)
(* begins something that was; and there is no more of it.                  *)
LEMMA ReadIsSaved ==
  ASSUME NEW list \in Seq(Node), NEW m \in 0 .. Len(Body(list))
  PROVE  LET got == Parsed(SubSeq(Body(list), 1, m))
         IN  /\ got \in Seq(LoadedNode) /\ Len(got) <= Len(PromptsOf(list))
             /\ \A i \in 1 .. Len(got) : \E j \in 1 .. Len(PromptsOf(list)) :
                  Begins(got[i].text, PromptsOf(list)[j].text)
<1>1. PICK b \in Seq(Alphabet) : b = Body(list)
  BY BodyFacts
<1>2. PICK c \in Seq(Alphabet) : c = SubSeq(b, 1, m) /\ Len(c) = m /\ \A i \in 1 .. m : c[i] = b[i]
  BY <1>1, PrefixFacts
<1>3. PICK got \in Seq(Rough) : /\ got = Parsed(c) /\ Len(got) <= Count(c, m, PromptBegin)
                                /\ \A i \in 1 .. Len(got) : Drawn(got[i].text, c, m)
  BY <1>2, ReadFromText
<1>4. Len(got) <= Len(PromptsOf(list))
  <2>1. Count(c, m, PromptBegin) <= Count(b, Len(b), PromptBegin)
    BY <1>1, <1>2, CountPrefix
  <2>2. Count(b, Len(b), PromptBegin) = Len(PromptsOf(list))
    BY <1>1, BodyWritten DEF Written
  <2>3. Count(c, m, PromptBegin) \in Nat /\ Count(b, Len(b), PromptBegin) \in Nat /\ Len(got) \in Nat
    <3>1. m \in Nat /\ Len(b) \in Nat /\ Len(got) \in Nat
      BY <1>1
    <3> QED BY <3>1, CountFacts
  <2> QED BY <1>3, <2>1, <2>2, <2>3
<1>5. ASSUME NEW i \in 1 .. Len(got)
      PROVE  /\ got[i] \in LoadedNode
             /\ \E j \in 1 .. Len(PromptsOf(list)) : Begins(got[i].text, PromptsOf(list)[j].text)
  <2>1. PICK t \in Seq(Alphabet) : t = got[i].text /\ got[i] = [type |-> "prompt", text |-> t]
    <3>1. got[i] \in Rough
      OBVIOUS
    <3> QED BY <3>1 DEF Rough
  <2>2. PICK p \in 1 .. m : /\ Stands(t, c, p, m)
                            /\ \A a \in 1 .. Len(t) : \/ t[a] = c[p + a]
                                                      \/ a = Len(t) /\ c[p + a] = Braces /\ t[a] = Brace
    BY <1>3, <2>1 DEF Drawn
  <2>3. PICK k \in Nat : k = Len(t) /\ p + k <= m /\ \A a \in 1 .. k : p + a \in 1 .. m
    <3>1. Len(t) \in Nat /\ p + Len(t) <= m
      BY <2>2 DEF Stands
    <3> QED BY <3>1
  <2>4. /\ p \in 1 .. Len(b) /\ p \in Nat /\ b[p] = PromptBegin
        /\ \A a \in 1 .. k : b[p + a] # NodeEnd
        /\ \A a \in 1 .. k : t[a] = b[p + a] \/ (a = k /\ b[p + a] = Braces /\ t[a] = Brace)
    <3>1. p \in 1 .. Len(b) /\ p \in Nat
      BY <1>1
    <3>2. c[p] = b[p] /\ \A a \in 1 .. k : c[p + a] = b[p + a]
      BY <1>2, <2>2, <2>3
    <3>3. c[p] = PromptBegin /\ \A a \in 1 .. k : c[p + a] # NodeEnd
      BY <2>2, <2>3 DEF Stands
    <3> QED BY <2>2, <2>3, <3>1, <3>2, <3>3
  <2>5. PICK j \in 1 .. Len(PromptsOf(list)) : /\ PromptsOf(list)[j] \in LoadedNode
                                              /\ After(PromptsOf(list)[j].text, b, p)
    BY <1>1, <2>4, BodyWritten DEF Written
  <2>6. PICK w \in Seq(TemplateTokens) : w = PromptsOf(list)[j].text
    BY <2>5 DEF LoadedNode
  <2>7. t \in Seq(TemplateTokens) /\ Begins(t, w)
    BY <2>3, <2>4, <2>5, <2>6, DrawnBegins
  <2>8. got[i] \in LoadedNode
    BY <2>1, <2>7 DEF LoadedNode
  <2> QED BY <2>1, <2>6, <2>7, <2>8
<1>6. got \in Seq(LoadedNode)
  BY <1>5
<1> QED BY <1>1, <1>2, <1>3, <1>4, <1>5, <1>6

-----------------------------------------------------------------------------
(* Where a text can be cut                                                 *)

(* The first nodes of a list.                                              *)
FirstOf(list, j) == SubSeq(list, 1, j)

(* They are as many as asked for, as they stand in the list.               *)
LEMMA FirstOfFacts ==
  ASSUME NEW list \in Seq(Node), NEW j \in 0 .. Len(list)
  PROVE  /\ FirstOf(list, j) \in Seq(Node) /\ Len(FirstOf(list, j)) = j
         /\ \A i \in 1 .. j : FirstOf(list, j)[i] = list[i]
BY PrefixFacts DEF FirstOf

(* And of one that is longer by a node.                                    *)
LEMMA FirstOfAppend ==
  ASSUME NEW list \in Seq(Node), NEW x \in Node
  PROVE  /\ \A j \in 0 .. Len(list) : FirstOf(Append(list, x), j) = FirstOf(list, j)
         /\ FirstOf(list, Len(list)) = list
<1>1. PICK longer \in Seq(Node) : /\ longer = Append(list, x) /\ Len(longer) = Len(list) + 1
                                  /\ \A i \in 1 .. Len(list) : longer[i] = list[i]
  <2>1. /\ Append(list, x) \in Seq(Node) /\ Len(Append(list, x)) = Len(list) + 1
        /\ \A i \in 1 .. Len(list) : Append(list, x)[i] = list[i]
    OBVIOUS
  <2> QED BY <2>1
<1>2. Len(list) \in Nat
  OBVIOUS
<1>3. ASSUME NEW j \in 0 .. Len(list) PROVE FirstOf(longer, j) = FirstOf(list, j)
  <2>1. j \in 0 .. Len(longer) /\ \A i \in 1 .. j : i \in 1 .. Len(list)
    BY <1>1, <1>2
  <2>2. PICK p \in Seq(Node) : p = FirstOf(list, j) /\ Len(p) = j /\ \A i \in 1 .. j : p[i] = list[i]
    BY FirstOfFacts
  <2>3. PICK q \in Seq(Node) : q = FirstOf(longer, j) /\ Len(q) = j /\ \A i \in 1 .. j : q[i] = longer[i]
    BY <2>1, FirstOfFacts
  <2>4. Len(p) = Len(q) /\ \A i \in 1 .. Len(p) : p[i] = q[i]
    BY <1>1, <2>1, <2>2, <2>3
  <2> QED BY ONLY <2>2, <2>3, <2>4, p \in Seq(Node), q \in Seq(Node), SeqEqual
<1>4. FirstOf(list, Len(list)) = list
  BY RestOfAll DEF FirstOf
<1> QED BY <1>1, <1>3, <1>4

(* A text can be cut between two nodes, or in a node's text or before its  *)
(* end.                                                                    *)
CutBetween(list, m, j) ==
  j \in 0 .. Len(list) /\ SubSeq(Body(list), 1, m) = Body(FirstOf(list, j))
CutInside(list, m, j, k) ==
  /\ j \in Nat /\ j + 1 \in 1 .. Len(list) /\ list[j + 1].type # "null"
  /\ k \in 0 .. Len(list[j + 1].text)
  /\ SubSeq(Body(list), 1, m)
       = Body(FirstOf(list, j)) \o Headed(list[j + 1], SubSeq(list[j + 1].text, 1, k))
  /\ m + 1 \in 1 .. Len(Body(list))
  /\ Body(list)[m + 1] = IF k = Len(list[j + 1].text) THEN NodeEnd ELSE list[j + 1].text[k + 1]
CanCut(list, m) == \E j : CutBetween(list, m, j) \/ \E k : CutInside(list, m, j, k)

(* A cut in the text of some nodes is one too when there is one more.      *)
LEMMA CutEarlier ==
  ASSUME NEW l \in Seq(Node), NEW x \in Node, NEW m \in 0 .. Len(Body(l)), CanCut(l, m)
  PROVE  CanCut(Append(l, x), m)
<1>1. PICK longer \in Seq(Node) : /\ longer = Append(l, x) /\ Len(longer) = Len(l) + 1
                                  /\ \A i \in 1 .. Len(l) : longer[i] = l[i]
  <2>1. /\ Append(l, x) \in Seq(Node) /\ Len(Append(l, x)) = Len(l) + 1
        /\ \A i \in 1 .. Len(l) : Append(l, x)[i] = l[i]
    OBVIOUS
  <2> QED BY <2>1
<1>2. PICK u \in Seq(Alphabet), f \in Seq(Alphabet) : u = Body(l) /\ f = NodeText(x)
  BY BodyFacts, NodeTextFacts
<1>3. PICK b \in Seq(Alphabet) : /\ b = u \o f /\ Len(b) = Len(u) + Len(f)
                                 /\ \A i \in 1 .. Len(u) + Len(f) :
                                      b[i] = IF i <= Len(u) THEN u[i] ELSE f[i - Len(u)]
  <2>1. u \o f \in Seq(Alphabet)
    BY ConcatProperties
  <2> QED BY <2>1, ConcatProperties
<1>4. Body(longer) = b
  BY <1>1, <1>2, <1>3, BodyFacts
<1>5. SubSeq(b, 1, m) = SubSeq(u, 1, m)
  BY <1>2, <1>3, PartStays
<1>6. Len(l) \in Nat /\ Len(u) \in Nat /\ Len(f) \in Nat
  OBVIOUS
<1>7. PICK j : CutBetween(l, m, j) \/ \E k : CutInside(l, m, j, k)
  BY DEF CanCut
<1>8. CASE CutBetween(l, m, j)
  <2>1. j \in 0 .. Len(l) /\ SubSeq(u, 1, m) = Body(FirstOf(l, j))
    BY <1>2, <1>8 DEF CutBetween
  <2>2. j \in 0 .. Len(longer) /\ FirstOf(longer, j) = FirstOf(l, j)
    BY <1>1, <1>6, <2>1, FirstOfAppend
  <2> QED BY <1>1, <1>4, <1>5, <2>1, <2>2 DEF CanCut, CutBetween
<1>9. ASSUME NEW k, CutInside(l, m, j, k) PROVE CanCut(longer, m)
  <2>1. PICK y : y = l[j + 1]
    OBVIOUS
  <2>2. /\ j \in Nat /\ j + 1 \in 1 .. Len(l) /\ y.type # "null" /\ k \in 0 .. Len(y.text)
        /\ SubSeq(u, 1, m) = Body(FirstOf(l, j)) \o Headed(y, SubSeq(y.text, 1, k))
        /\ m + 1 \in 1 .. Len(u)
        /\ u[m + 1] = IF k = Len(y.text) THEN NodeEnd ELSE y.text[k + 1]
    BY <1>2, <1>9, <2>1 DEF CutInside
  <2>3. /\ j \in 0 .. Len(l) /\ j + 1 \in 1 .. Len(longer) /\ longer[j + 1] = y
        /\ FirstOf(longer, j) = FirstOf(l, j)
    BY <1>1, <1>6, <2>1, <2>2, FirstOfAppend
  <2>4. m + 1 \in 1 .. Len(b) /\ b[m + 1] = u[m + 1]
    BY <1>3, <1>6, <2>2
  <2> QED BY <1>4, <1>5, <2>2, <2>3, <2>4 DEF CanCut, CutInside
<1> QED BY <1>1, <1>7, <1>8, <1>9

(* The first tokens of a node's text, up to its end.                       *)
LEMMA NodeTextCut ==
  ASSUME NEW x \in Node, x.type # "null", NEW k \in 0 .. Len(x.text)
  PROVE  /\ SubSeq(NodeText(x), 1, k + 1) = Headed(x, SubSeq(x.text, 1, k))
         /\ k + 2 \in 1 .. Len(NodeText(x))
         /\ NodeText(x)[k + 2] = IF k = Len(x.text) THEN NodeEnd ELSE x.text[k + 1]
<1>1. PICK w \in Seq(Alphabet), f \in Seq(Alphabet), n \in Nat :
        w = x.text /\ f = NodeText(x) /\ n = Len(w) /\ k \in 0 .. n
  <2>1. x.text \in Seq(Alphabet) /\ NodeText(x) \in Seq(Alphabet)
    BY NodeTextFacts
  <2>2. Len(x.text) \in Nat
    BY <2>1
  <2> QED BY <2>1, <2>2
<1>2. /\ Len(f) = n + 2 /\ f[1] = Beginning(x) /\ f[n + 2] = NodeEnd
      /\ \A i \in 1 .. n : f[i + 1] = w[i]
  BY <1>1, NodeTextFacts
<1>3. PICK p \in Seq(Alphabet) : p = SubSeq(f, 1, k + 1) /\ Len(p) = k + 1
                                /\ \A i \in 1 .. k + 1 : p[i] = f[i]
  <2>1. k + 1 \in 0 .. Len(f)
    BY <1>1, <1>2
  <2>2. PICK c \in 0 .. Len(f) : c = k + 1
    BY <2>1
  <2>3. /\ SubSeq(f, 1, c) \in Seq(Alphabet) /\ Len(SubSeq(f, 1, c)) = c
        /\ \A i \in 1 .. c : SubSeq(f, 1, c)[i] = f[i]
    BY ONLY f \in Seq(Alphabet), c \in 0 .. Len(f), PrefixFacts
  <2> QED BY <2>2, <2>3
<1>4. PICK v \in Seq(Alphabet) : v = SubSeq(w, 1, k) /\ Len(v) = k /\ \A i \in 1 .. k : v[i] = w[i]
  <2>1. k \in 0 .. Len(w)
    BY <1>1
  <2>2. /\ SubSeq(w, 1, k) \in Seq(Alphabet) /\ Len(SubSeq(w, 1, k)) = k
        /\ \A i \in 1 .. k : SubSeq(w, 1, k)[i] = w[i]
    BY ONLY w \in Seq(Alphabet), <2>1, PrefixFacts
  <2> QED BY <2>2
<1>5. PICK a \in Seq(Alphabet) : a = <<Beginning(x)>> /\ Len(a) = 1 /\ a[1] = Beginning(x)
  <2>1. <<Beginning(x)>> \in Seq(Alphabet)
    BY NodeTextFacts, MarkersApart
  <2> QED BY <2>1
<1>6. PICK h \in Seq(Alphabet) : /\ h = a \o v /\ Len(h) = 1 + k
                                /\ \A i \in 1 .. 1 + k : h[i] = IF i <= 1 THEN a[i] ELSE v[i - 1]
  <2>1. /\ a \o v \in Seq(Alphabet) /\ Len(a \o v) = 1 + k
        /\ \A i \in 1 .. 1 + k : (a \o v)[i] = IF i <= 1 THEN a[i] ELSE v[i - 1]
    BY <1>4, <1>5, ConcatProperties
  <2> QED BY <2>1
<1>7. ASSUME NEW i \in 1 .. k + 1 PROVE p[i] = h[i]
  <2>1. CASE i = 1
    <3>1. i <= 1 /\ i \in 1 .. 1 + k
      BY <2>1
    <3> QED BY <1>2, <1>3, <1>5, <1>6, <2>1, <3>1
  <2>2. CASE i # 1
    <3>1. ~(i <= 1) /\ i \in 1 .. 1 + k /\ i - 1 \in 1 .. k /\ i - 1 \in 1 .. n /\ i = (i - 1) + 1
      BY <1>1, <2>2
    <3>2. h[i] = w[i - 1]
      BY <1>4, <1>6, <3>1
    <3>3. f[(i - 1) + 1] = w[i - 1]
      BY <1>2, <3>1
    <3> QED BY <1>3, <3>1, <3>2, <3>3
  <2> QED BY <2>1, <2>2
<1>8. p = h
  <2>1. Len(p) = Len(h) /\ \A i \in 1 .. Len(p) : p[i] = h[i]
    BY <1>1, <1>3, <1>6, <1>7
  <2> QED BY ONLY <2>1, p \in Seq(Alphabet), h \in Seq(Alphabet), SeqEqual
<1>9. f[k + 2] = IF k = n THEN NodeEnd ELSE w[k + 1]
  <2>1. CASE k = n
    BY <1>2, <2>1
  <2>2. CASE k # n
    <3>1. k + 1 \in 1 .. n /\ (k + 1) + 1 = k + 2
      BY <1>1, <2>2
    <3>2. f[(k + 1) + 1] = w[k + 1]
      BY <1>2, <3>1
    <3> QED BY <2>2, <3>1, <3>2
  <2> QED BY <2>1, <2>2
<1>10. SubSeq(f, 1, k + 1) = Headed(x, SubSeq(w, 1, k))
  BY <1>3, <1>4, <1>5, <1>6, <1>8 DEF Headed
<1>11. k + 2 \in 1 .. Len(f)
  BY <1>1, <1>2
<1> QED BY <1>1, <1>9, <1>10, <1>11

(* A cut in the text of the last node.                                     *)
LEMMA CutLater ==
  ASSUME NEW l \in Seq(Node), NEW x \in Node, NEW r \in 1 .. Len(NodeText(x))
  PROVE  CanCut(Append(l, x), Len(Body(l)) + r)
<1>1. PICK longer \in Seq(Node) : /\ longer = Append(l, x) /\ Len(longer) = Len(l) + 1
                                  /\ longer[Len(l) + 1] = x
  <2>1. /\ Append(l, x) \in Seq(Node) /\ Len(Append(l, x)) = Len(l) + 1
        /\ Append(l, x)[Len(l) + 1] = x
    OBVIOUS
  <2> QED BY <2>1
<1>2. PICK u \in Seq(Alphabet), f \in Seq(Alphabet) : u = Body(l) /\ f = NodeText(x)
  BY BodyFacts, NodeTextFacts
<1>3. PICK b \in Seq(Alphabet) : /\ b = u \o f /\ Len(b) = Len(u) + Len(f)
                                 /\ \A i \in 1 .. Len(u) + Len(f) :
                                      b[i] = IF i <= Len(u) THEN u[i] ELSE f[i - Len(u)]
  <2>1. u \o f \in Seq(Alphabet)
    BY ConcatProperties
  <2> QED BY <2>1, ConcatProperties
<1>4. Body(longer) = b
  BY <1>1, <1>2, <1>3, BodyFacts
<1>5. PICK j \in Nat, n \in Nat, m \in Nat : j = Len(l) /\ n = Len(u) /\ m = n + r
  <2>1. Len(l) \in Nat /\ Len(u) \in Nat /\ Len(u) + r \in Nat
    OBVIOUS
  <2> QED BY <2>1
<1>6. SubSeq(b, 1, m) = u \o SubSeq(f, 1, r)
  <2>1. r \in 0 .. Len(f)
    BY <1>2
  <2>2. SubSeq(u \o f, 1, Len(u) + r) = u \o SubSeq(f, 1, r)
    BY ONLY <2>1, u \in Seq(Alphabet), f \in Seq(Alphabet), PrefixOfConcat
  <2> QED BY <1>3, <1>5, <2>2
<1>7. CASE r = Len(f)
  <2>1. SubSeq(f, 1, r) = f
    BY <1>7, RestOfAll
  <2>2. j + 1 \in 0 .. Len(longer) /\ FirstOf(longer, j + 1) = longer
    <3>1. SubSeq(longer, 1, Len(longer)) = longer
      BY RestOfAll
    <3> QED BY <1>1, <1>5, <3>1 DEF FirstOf
  <2>3. CutBetween(longer, m, j + 1)
    BY <1>3, <1>4, <1>6, <2>1, <2>2 DEF CutBetween
  <2> QED BY <1>1, <1>2, <1>5, <2>3 DEF CanCut
<1>8. CASE r # Len(f)
  <2>1. x.type # "null"
    <3>1. ASSUME x.type = "null" PROVE FALSE
      <4>1. f = <<NullText>>
        BY <1>2, <3>1, NodeTextFacts
      <4>2. Len(<<NullText>>) = 1
        OBVIOUS
      <4>3. Len(f) = 1 /\ r \in 1 .. Len(f)
        BY <1>2, <4>1, <4>2
      <4> QED BY <1>8, <4>3
    <3> QED BY <3>1
  <2>2. PICK k \in Nat : r = k + 1 /\ k \in 0 .. Len(x.text)
    <3>1. Len(f) = Len(x.text) + 2 /\ x.text \in Seq(Alphabet)
      BY <1>2, <2>1, NodeTextFacts
    <3>2. Len(x.text) \in Nat
      BY <3>1
    <3>3. r - 1 \in 0 .. Len(x.text) /\ r = (r - 1) + 1 /\ r - 1 \in Nat
      BY <1>2, <1>8, <3>1, <3>2
    <3> QED BY <3>3
  <2>3. /\ SubSeq(f, 1, r) = Headed(x, SubSeq(x.text, 1, k)) /\ k + 2 \in 1 .. Len(f)
        /\ f[k + 2] = IF k = Len(x.text) THEN NodeEnd ELSE x.text[k + 1]
    BY <1>2, <2>1, <2>2, NodeTextCut
  <2>4. j + 1 \in 1 .. Len(longer) /\ longer[j + 1] = x /\ FirstOf(longer, j) = l
    <3>1. j \in 0 .. Len(l)
      BY <1>5
    <3> QED BY <1>1, <1>5, <3>1, FirstOfAppend
  <2>5. m + 1 \in 1 .. Len(b) /\ b[m + 1] = f[k + 2]
    <3>1. Len(f) \in Nat
      OBVIOUS
    <3>2. /\ m + 1 \in 1 .. Len(u) + Len(f) /\ ~(m + 1 <= Len(u)) /\ (m + 1) - Len(u) = k + 2
      BY <1>5, <2>2, <2>3, <3>1
    <3> QED BY <1>3, <3>2
  <2>6. CutInside(longer, m, j, k)
    BY <1>2, <1>4, <1>6, <2>1, <2>2, <2>3, <2>4, <2>5 DEF CutInside
  <2> QED BY <1>1, <1>2, <1>5, <2>6 DEF CanCut
<1> QED BY <1>7, <1>8

(* There are no other cuts.                                                *)
LEMMA EveryCut ==
  ASSUME NEW list \in Seq(Node), NEW m \in 0 .. Len(Body(list))
  PROVE  CanCut(list, m)
<1> DEFINE Q == {l \in Seq(Node) : \A n \in 0 .. Len(Body(l)) : CanCut(l, n)}
<1>1. <<>> \in Q
  <2>1. PICK e \in Seq(Node), b \in Seq(Alphabet) :
          e = <<>> /\ Len(e) = 0 /\ b = <<>> /\ Len(b) = 0 /\ Body(e) = b
    <3>1. <<>> \in Seq(Node) /\ <<>> \in Seq(Alphabet) /\ Len(<<>>) = 0
      OBVIOUS
    <3> QED BY <3>1, BodyFacts
  <2>2. ASSUME NEW n \in 0 .. Len(Body(e)) PROVE CanCut(e, n)
    <3>1. n = Len(b) /\ Len(e) \in 0 .. Len(e)
      BY <2>1
    <3>2. SubSeq(b, 1, n) = b /\ FirstOf(e, Len(e)) = e
      BY <3>1, RestOfAll DEF FirstOf
    <3>3. CutBetween(e, n, Len(e))
      BY <2>1, <3>1, <3>2 DEF CutBetween
    <3> QED BY <3>3 DEF CanCut
  <2> QED BY <2>1, <2>2
<1>2. ASSUME NEW l \in Seq(Node), NEW x \in Node, l \in Q PROVE Append(l, x) \in Q
  <2>1. Append(l, x) \in Seq(Node)
    OBVIOUS
  <2>2. PICK u \in Seq(Alphabet), f \in Seq(Alphabet) : u = Body(l) /\ f = NodeText(x)
    BY BodyFacts, NodeTextFacts
  <2>3. Len(Body(Append(l, x))) = Len(u) + Len(f) /\ Len(u) \in Nat /\ Len(f) \in Nat
    BY <2>2, BodyFacts, ConcatProperties
  <2>4. ASSUME NEW n \in 0 .. Len(u) + Len(f) PROVE CanCut(Append(l, x), n)
    <3>1. CASE n <= Len(u)
      <4>1. n \in 0 .. Len(Body(l))
        BY <2>2, <2>3, <3>1
      <4>2. CanCut(l, n)
        BY <1>2, <4>1
      <4> QED BY <4>1, <4>2, CutEarlier
    <3>2. CASE ~(n <= Len(u))
      <4>1. PICK r \in 1 .. Len(f) : n = Len(u) + r
        <5>1. n - Len(u) \in 1 .. Len(f) /\ n = Len(u) + (n - Len(u))
          BY <2>3, <3>2
        <5> QED BY <5>1
      <4> QED BY <2>2, <4>1, CutLater
    <3> QED BY <3>1, <3>2
  <2> QED BY <2>1, <2>3, <2>4
<1>3. list \in Q
  <2> HIDE DEF Q
  <2> QED BY <1>1, <1>2, SeqInduction
<1> QED BY <1>3

-----------------------------------------------------------------------------
(* What is read of a text that was cut                                     *)

(* What was scanned of the first nodes.                                    *)
StateAfter(list, n) == Scanned(Between(<<>>), Body(FirstOf(list, n)))

(* Nodes without a quote or backslash that is not escaped.                 *)
CleanTo(list, n) == \A i \in 1 .. n : Clean(list[i])

(* One node further.                                                       *)
LEMMA FirstOfNext ==
  ASSUME NEW list \in Seq(Node), NEW j \in 0 .. Len(list) - 1
  PROVE  /\ FirstOf(list, j + 1) = Append(FirstOf(list, j), list[j + 1])
         /\ j \in 0 .. Len(list) /\ j + 1 \in 1 .. Len(list) /\ j + 1 \in 0 .. Len(list)
         /\ list[j + 1] \in Node
<1>1. j \in Nat /\ Len(list) \in Nat /\ j \in 0 .. Len(list) /\ j + 1 \in 1 .. Len(list) /\ j + 1 \in 0 .. Len(list)
  OBVIOUS
<1>2. PICK x \in Node : x = list[j + 1]
  BY <1>1
<1>3. PICK p \in Seq(Node) : p = FirstOf(list, j) /\ Len(p) = j /\ \A i \in 1 .. j : p[i] = list[i]
  BY <1>1, FirstOfFacts
<1>4. PICK q \in Seq(Node) : q = FirstOf(list, j + 1) /\ Len(q) = j + 1
                             /\ \A i \in 1 .. j + 1 : q[i] = list[i]
  BY <1>1, FirstOfFacts
<1>5. PICK r \in Seq(Node) : r = Append(p, x) /\ Len(r) = j + 1 /\ r[j + 1] = x
                             /\ \A i \in 1 .. j : r[i] = p[i]
  <2>1. /\ Append(p, x) \in Seq(Node) /\ Len(Append(p, x)) = j + 1 /\ Append(p, x)[j + 1] = x
        /\ \A i \in 1 .. j : Append(p, x)[i] = p[i]
    BY <1>3
  <2> QED BY <2>1
<1>6. q = r
  <2>1. \A i \in 1 .. j + 1 : i \in 1 .. j \/ i = j + 1
    BY <1>1
  <2>2. Len(q) = Len(r) /\ \A i \in 1 .. Len(q) : q[i] = r[i]
    BY <1>2, <1>3, <1>4, <1>5, <2>1
  <2> QED BY ONLY <2>2, q \in Seq(Node), r \in Seq(Node), SeqEqual
<1> QED BY <1>1, <1>2, <1>3, <1>4, <1>5, <1>6

(* The nodes read go on, and so do the prompt nodes of a list.             *)
LEMMA FirstOfGrows ==
  ASSUME NEW list \in Seq(Node), NEW n \in 0 .. Len(list)
  PROVE  /\ StateAfter(list, n) \in State
         /\ \A j \in 0 .. Len(list) : n <= j => Extends(StateAfter(list, n).read, StateAfter(list, j).read)
         /\ \A j \in 0 .. Len(list) : n <= j =>
              Extends(PromptsOf(FirstOf(list, n)), PromptsOf(FirstOf(list, j)))
<1>1. PICK top \in Nat : top = Len(list)
  OBVIOUS
<1>2. PICK start \in State : start = Between(<<>>)
  <2>1. <<>> \in Seq(Rough)
    OBVIOUS
  <2> QED BY <2>1, BetweenState
<1>3. ASSUME NEW j \in 0 .. top
      PROVE  /\ StateAfter(list, j) \in State /\ StateAfter(list, j).read \in Seq(Rough)
             /\ PromptsOf(FirstOf(list, j)) \in Seq(Node)
  <2>1. FirstOf(list, j) \in Seq(Node)
    BY <1>1, FirstOfFacts
  <2>2. PICK u \in Seq(Alphabet) : u = Body(FirstOf(list, j))
    BY <2>1, BodyFacts
  <2>3. Scanned(start, u) \in State
    BY ScannedGrows
  <2>4. StateAfter(list, j) \in State
    BY <1>2, <2>2, <2>3 DEF StateAfter
  <2> QED BY <2>1, <2>4, PromptsFacts DEF State, Fields
<1>4. ASSUME NEW j \in 0 .. top - 1
      PROVE  /\ Extends(StateAfter(list, j).read, StateAfter(list, j + 1).read)
             /\ Extends(PromptsOf(FirstOf(list, j)), PromptsOf(FirstOf(list, j + 1)))
  <2>1. PICK l \in Seq(Node), x \in Node :
          l = FirstOf(list, j) /\ x = list[j + 1] /\ FirstOf(list, j + 1) = Append(l, x)
    BY <1>1, FirstOfNext, FirstOfFacts
  <2>2. PICK u \in Seq(Alphabet), f \in Seq(Alphabet) : u = Body(l) /\ f = NodeText(x)
    BY BodyFacts, NodeTextFacts
  <2>3. PICK now \in State : now = Scanned(start, u)
    BY ScannedGrows
  <2>4. Extends(now.read, Scanned(now, f).read)
    BY ScannedGrows
  <2>5. Scanned(start, u \o f) = Scanned(Scanned(start, u), f)
    BY ScannedConcat
  <2>6. Body(Append(l, x)) = u \o f
    BY <2>2, BodyFacts
  <2>7. Extends(StateAfter(list, j).read, StateAfter(list, j + 1).read)
    BY <1>2, <2>1, <2>2, <2>3, <2>4, <2>5, <2>6 DEF StateAfter
  <2>8. PICK p \in Seq(Node) : p = PromptsOf(l)
    BY PromptsFacts
  <2>9. Extends(p, p) /\ Extends(p, Append(p, x))
    <3>1. /\ Append(p, x) \in Seq(Node) /\ Len(Append(p, x)) = Len(p) + 1 /\ Len(p) \in Nat
          /\ \A i \in 1 .. Len(p) : Append(p, x)[i] = p[i]
      OBVIOUS
    <3> QED BY <3>1 DEF Extends
  <2>10. Extends(PromptsOf(l), PromptsOf(Append(l, x)))
    BY <2>8, <2>9, PromptsFacts
  <2> QED BY <2>1, <2>7, <2>10
<1> DEFINE Good(j) == /\ Extends(StateAfter(list, n).read, StateAfter(list, j).read)
                      /\ Extends(PromptsOf(FirstOf(list, n)), PromptsOf(FirstOf(list, j)))
           Q == {j \in 0 .. top : n <= j => Good(j)}
<1>5. Good(n)
  <2>1. PICK r \in Seq(Rough), p \in Seq(Node) :
          r = StateAfter(list, n).read /\ p = PromptsOf(FirstOf(list, n))
    BY <1>1, <1>3
  <2>2. Extends(r, r) /\ Extends(p, p)
    BY DEF Extends
  <2> QED BY <2>1, <2>2
<1>6. 0 \in Q
  <2>1. 0 \in 0 .. top /\ (n <= 0 => n = 0)
    BY <1>1
  <2> QED BY <1>5, <2>1
<1>7. ASSUME NEW j \in 0 .. top - 1, j \in Q PROVE j + 1 \in Q
  <2>1. j + 1 \in 0 .. top /\ j \in 0 .. top /\ (n <= j + 1 => n <= j \/ n = j + 1)
    BY <1>1
  <2>2. CASE n <= j
    <3>1. PICK r1 \in Seq(Rough), r2 \in Seq(Rough), r3 \in Seq(Rough) :
            r1 = StateAfter(list, n).read /\ r2 = StateAfter(list, j).read /\ r3 = StateAfter(list, j + 1).read
      BY <1>1, <1>3, <2>1
    <3>2. PICK p1 \in Seq(Node), p2 \in Seq(Node), p3 \in Seq(Node) :
            /\ p1 = PromptsOf(FirstOf(list, n)) /\ p2 = PromptsOf(FirstOf(list, j))
            /\ p3 = PromptsOf(FirstOf(list, j + 1))
      BY <1>1, <1>3, <2>1
    <3>3. Extends(r1, r2) /\ Extends(p1, p2)
      BY <1>7, <2>2, <3>1, <3>2
    <3>4. Extends(r2, r3) /\ Extends(p2, p3)
      BY <1>4, <3>1, <3>2
    <3>5. Extends(r1, r3)
      BY ONLY <3>3, <3>4, r1 \in Seq(Rough), r2 \in Seq(Rough), r3 \in Seq(Rough), ExtendsOn
    <3>6. Extends(p1, p3)
      BY ONLY <3>3, <3>4, p1 \in Seq(Node), p2 \in Seq(Node), p3 \in Seq(Node), ExtendsOn
    <3> QED BY <2>1, <3>1, <3>2, <3>5, <3>6
  <2>3. CASE n = j + 1
    BY <1>5, <2>1, <2>3
  <2>4. CASE ~(n <= j + 1)
    BY <2>1, <2>4
  <2> QED BY <2>1, <2>2, <2>3, <2>4
<1>8. \A j \in 0 .. top : j \in Q
  <2> HIDE DEF Q
  <2> QED BY <1>6, <1>7, UpTo
<1> QED BY <1>1, <1>3, <1>8

(* Up to a name with a quote or backslash the prompt nodes were read.      *)
LEMMA CleanRead ==
  ASSUME NEW list \in Seq(Node), NEW n \in 0 .. Len(list), CleanTo(list, n)
  PROVE  /\ StateAfter(list, n) = Between(PromptsOf(FirstOf(list, n)))
         /\ StateAfter(list, n).read = PromptsOf(FirstOf(list, n))
<1>1. PICK l \in Seq(Node) : l = FirstOf(list, n) /\ Len(l) = n /\ \A i \in 1 .. n : l[i] = list[i]
  BY FirstOfFacts
<1>2. \A i \in 1 .. Len(l) : Clean(l[i])
  BY <1>1 DEF CleanTo
<1>3. Scanned(Between(<<>>), Body(l)) = Between(PromptsOf(l))
  BY <1>2, WrittenIsRead
<1> QED BY <1>1, <1>3 DEF StateAfter, Between

(* The state a cut text leaves behind, after whole nodes and part of one.  *)
LEMMA ReadAtCut ==
  ASSUME NEW list \in Seq(Node), NEW j \in 0 .. Len(list), NEW w \in Seq(Alphabet),
         NEW body, body = Body(FirstOf(list, j)) \o w
  PROVE  /\ Parsed(body) = ReadAt(Scanned(StateAfter(list, j), w))
         /\ Parsed(body) \in Seq(Rough)
         /\ Extends(StateAfter(list, j).read, Parsed(body))
<1>1. PICK start \in State : start = Between(<<>>)
  <2>1. <<>> \in Seq(Rough)
    OBVIOUS
  <2> QED BY <2>1, BetweenState
<1>2. PICK u \in Seq(Alphabet) : u = Body(FirstOf(list, j))
  BY FirstOfFacts, BodyFacts
<1>3. PICK now \in State : now = Scanned(start, u)
  BY ScannedGrows
<1>4. Scanned(start, u \o w) = Scanned(Scanned(start, u), w)
  BY ScannedConcat
<1>5. PICK end \in State : end = Scanned(now, w) /\ Extends(now.read, end.read)
  BY ScannedGrows
<1>6. ReadAt(end) \in Seq(Rough) /\ Extends(end.read, ReadAt(end))
  BY ReadAtGrows
<1>7. Extends(now.read, ReadAt(end))
  <2>1. now.read \in Seq(Rough) /\ end.read \in Seq(Rough)
    BY DEF State, Fields
  <2> QED BY ONLY <1>5, <1>6, <2>1, ExtendsOn
<1>8. now = StateAfter(list, j)
  BY <1>1, <1>2, <1>3 DEF StateAfter
<1>9. Parsed(body) = ReadAt(end)
  BY <1>1, <1>2, <1>3, <1>4, <1>5 DEF Parsed
<1> QED BY <1>5, <1>6, <1>7, <1>8, <1>9

(* A text cut between two nodes, or in a node, is read as it was written.  *)
LEMMA BetweenRead ==
  ASSUME NEW list \in Seq(Node), NEW m, NEW j, CutBetween(list, m, j), CleanTo(list, j)
  PROVE  Parsed(SubSeq(Body(list), 1, m)) = PromptsOf(FirstOf(list, j))
<1>1. PICK body : body = SubSeq(Body(list), 1, m)
  OBVIOUS
<1>2. j \in 0 .. Len(list) /\ body = Body(FirstOf(list, j))
  BY <1>1 DEF CutBetween
<1>3. StateAfter(list, j) = Between(PromptsOf(FirstOf(list, j)))
  BY <1>2, CleanRead
<1>4. Parsed(body) = ReadAt(StateAfter(list, j))
  BY <1>2 DEF Parsed, StateAfter
<1>5. PICK read, s : read = PromptsOf(FirstOf(list, j)) /\ s = Between(read)
  OBVIOUS
<1>6. ReadAt(s) = read
  BY <1>5 DEF ReadAt, Between
<1> QED BY <1>1, <1>3, <1>4, <1>5, <1>6

(* A text cut inside a node is read up to there.                           *)
LEMMA InsideRead ==
  ASSUME NEW list \in Seq(Node), NEW m, NEW j, NEW k, CutInside(list, m, j, k), CleanTo(list, j + 1)
  PROVE  Parsed(SubSeq(Body(list), 1, m))
           = ReadWith(list[j + 1], SubSeq(list[j + 1].text, 1, k), PromptsOf(FirstOf(list, j)))
<1>1. PICK body, x : body = SubSeq(Body(list), 1, m) /\ x = list[j + 1]
  OBVIOUS
<1>2. /\ j \in Nat /\ j + 1 \in 1 .. Len(list) /\ x.type # "null" /\ k \in 0 .. Len(x.text)
      /\ body = Body(FirstOf(list, j)) \o Headed(x, SubSeq(x.text, 1, k))
  BY <1>1 DEF CutInside
<1>3. x \in Node /\ j \in 0 .. Len(list)
  BY <1>1, <1>2
<1>4. Clean(x) /\ CleanTo(list, j)
  <2>1. j + 1 \in 1 .. j + 1 /\ \A i \in 1 .. j : i \in 1 .. j + 1
    BY <1>2
  <2> QED BY <1>1, <2>1 DEF CleanTo
<1>5. PICK w, p : w = SubSeq(x.text, 1, k) /\ p = PromptsOf(FirstOf(list, j))
  OBVIOUS
<1>6. PICK h \in Seq(Alphabet) : h = Headed(x, w)
  <2>1. x.text \in Seq(Alphabet)
    BY <1>3, NodeTextFacts
  <2>2. w \in Seq(Alphabet)
    BY <1>2, <1>5, <2>1, PrefixFacts
  <2>3. <<Beginning(x)>> \in Seq(Alphabet)
    BY <1>3, NodeTextFacts, MarkersApart
  <2> QED BY <2>2, <2>3, ConcatProperties DEF Headed
<1>7. Parsed(body) = ReadAt(Scanned(StateAfter(list, j), h))
  <2>1. body = Body(FirstOf(list, j)) \o h
    BY <1>2, <1>5, <1>6
  <2> QED BY <1>3, <2>1, ReadAtCut
<1>8. StateAfter(list, j) = Between(p)
  BY <1>3, <1>4, <1>5, CleanRead
<1>9. /\ Scanned(Between(p), Headed(x, SubSeq(x.text, 1, k))) = Inside(x, SubSeq(x.text, 1, k), p)
      /\ ReadAt(Inside(x, SubSeq(x.text, 1, k), p)) = ReadWith(x, SubSeq(x.text, 1, k), p)
  BY <1>2, <1>3, <1>4, ScanNode
<1> QED BY <1>1, <1>5, <1>6, <1>7, <1>8, <1>9

(* The prompt nodes of a list, up to one of its nodes and on from there.   *)
LEMMA PromptsUpTo ==
  ASSUME NEW list \in Seq(Node), NEW j \in 0 .. Len(list)
  PROVE  /\ PromptsOf(FirstOf(list, j)) \in Seq(Node) /\ PromptsOf(list) \in Seq(Node)
         /\ Extends(PromptsOf(FirstOf(list, j)), PromptsOf(list))
         /\ j # Len(list) /\ list[j + 1].type = "prompt" =>
              /\ Len(PromptsOf(FirstOf(list, j))) + 1 \in 1 .. Len(PromptsOf(list))
              /\ PromptsOf(list)[Len(PromptsOf(FirstOf(list, j))) + 1] = list[j + 1]
<1>1. PICK p \in Seq(Node), q \in Seq(Node), l \in Seq(Node) :
        p = PromptsOf(FirstOf(list, j)) /\ q = PromptsOf(list) /\ l = FirstOf(list, j)
  BY FirstOfFacts, PromptsFacts
<1>2. Len(list) \in 0 .. Len(list) /\ FirstOf(list, Len(list)) = list
  <2>1. SubSeq(list, 1, Len(list)) = list /\ Len(list) \in Nat
    BY RestOfAll
  <2> QED BY <2>1 DEF FirstOf
<1>3. Extends(p, q)
  BY <1>1, <1>2, FirstOfGrows
<1>4. ASSUME j # Len(list), list[j + 1].type = "prompt"
      PROVE  Len(p) + 1 \in 1 .. Len(q) /\ q[Len(p) + 1] = list[j + 1]
  <2>1. j \in 0 .. Len(list) - 1
    BY <1>4
  <2>2. /\ FirstOf(list, j + 1) = Append(FirstOf(list, j), list[j + 1])
        /\ j + 1 \in 0 .. Len(list) /\ list[j + 1] \in Node
    BY <2>1, FirstOfNext
  <2>3. PICK x \in Node : x = list[j + 1]
    BY <2>2
  <2>4. PICK r \in Seq(Node) : r = Append(p, x) /\ Len(r) = Len(p) + 1 /\ r[Len(p) + 1] = x
    <3>1. Append(p, x) \in Seq(Node) /\ Len(Append(p, x)) = Len(p) + 1 /\ Append(p, x)[Len(p) + 1] = x
      OBVIOUS
    <3> QED BY <3>1
  <2>5. PromptsOf(FirstOf(list, j + 1)) = r
    <3>1. PromptsOf(Append(l, x)) = Append(PromptsOf(l), x)
      BY <1>4, <2>3, PromptsFacts
    <3> QED BY <1>1, <2>2, <2>3, <2>4, <3>1
  <2>6. Extends(r, q)
    BY <1>1, <1>2, <2>2, <2>5, FirstOfGrows
  <2>7. Len(p) \in Nat /\ Len(q) \in Nat
    OBVIOUS
  <2> QED BY <2>3, <2>4, <2>6, <2>7 DEF Extends
<1> QED BY <1>1, <1>3, <1>4

(* A text cut at a bracket.                                                *)
LEMMA CutAtBracket ==
  ASSUME NEW S, NEW text \in Seq(S), NEW k \in 0 .. Len(text) - 1, text[k + 1] = ArrayEnd
  PROVE  IsPrefix(SubSeq(text, 1, k) \o <<ArrayEnd>>, text)
<1>1. k \in 0 .. Len(text) /\ k \in Nat /\ k + 1 \in 1 .. Len(text)
  OBVIOUS
<1>2. PICK t \in Seq(S) : t = SubSeq(text, 1, k) /\ Len(t) = k /\ \A i \in 1 .. k : t[i] = text[i]
  <2>1. /\ SubSeq(text, 1, k) \in Seq(S) /\ Len(SubSeq(text, 1, k)) = k
        /\ \A i \in 1 .. k : SubSeq(text, 1, k)[i] = text[i]
    BY ONLY text \in Seq(S), <1>1, PrefixFacts
  <2> QED BY <2>1
<1>3. PICK one \in Seq(S) : one = <<ArrayEnd>> /\ Len(one) = 1 /\ one[1] = ArrayEnd
  <2>1. ArrayEnd \in S
    BY <1>1
  <2>2. <<ArrayEnd>> \in Seq(S)
    BY <2>1
  <2> QED BY <2>2
<1>4. PICK w \in Seq(S) : /\ w = t \o one /\ Len(w) = k + 1
                         /\ \A i \in 1 .. k + 1 : w[i] = IF i <= k THEN t[i] ELSE one[i - k]
  <2>1. /\ t \o one \in Seq(S) /\ Len(t \o one) = k + 1
        /\ \A i \in 1 .. k + 1 : (t \o one)[i] = IF i <= k THEN t[i] ELSE one[i - k]
    BY <1>2, <1>3, ConcatProperties
  <2> QED BY <2>1
<1>5. ASSUME NEW i \in 1 .. k + 1 PROVE text[i] = w[i]
  <2>1. CASE i <= k
    <3>1. i \in 1 .. k
      BY <2>1
    <3> QED BY <1>2, <1>4, <2>1, <3>1
  <2>2. CASE ~(i <= k)
    <3>1. i = k + 1 /\ i - k = 1
      BY <2>2
    <3> QED BY <1>3, <1>4, <2>2, <3>1
  <2> QED BY <2>1, <2>2
<1>6. Extends(w, text)
  <2>1. Len(w) <= Len(text)
    BY <1>1, <1>4
  <2> QED BY <1>4, <1>5, <2>1 DEF Extends
<1>7. IsPrefix(w, text)
  BY ONLY <1>6, w \in Seq(S), text \in Seq(S), PrefixIs
<1> QED BY <1>2, <1>3, <1>4, <1>7

(* What is read of a text cut somewhere, or not at all, next to what the   *)
(* first nodes were: it goes on from there, or it is their beginning, the  *)
(* last prompt perhaps cut.                                                *)
Cut(list, m, n, got) ==
  \/ got \in Seq(Rough) /\ Extends(PromptsOf(FirstOf(list, n)), got)
  \/ \E j \in 0 .. Len(list) : got = PromptsOf(FirstOf(list, j))
  \/ \E j \in 0 .. Len(list) - 1 : \E k :
       /\ CutInside(list, m, j, k) /\ list[j + 1].type = "prompt"
       /\ got = Append(PromptsOf(FirstOf(list, j)), PromptNode(SubSeq(list[j + 1].text, 1, k)))

(* Any beginning of the nodes' text is read as one of these.               *)
LEMMA CutRead ==
  ASSUME NEW list \in Seq(Node), NEW m \in 0 .. Len(Body(list)),
         NEW n \in 0 .. Len(list), CleanTo(list, n), NEW got, got = Parsed(SubSeq(Body(list), 1, m))
  PROVE  Cut(list, m, n, got)
<1>1. PICK j : CutBetween(list, m, j) \/ \E k : CutInside(list, m, j, k)
  BY EveryCut DEF CanCut
<1>2. PICK body \in Seq(Alphabet) : body = SubSeq(Body(list), 1, m)
  <2>1. PICK b \in Seq(Alphabet) : b = Body(list)
    BY BodyFacts
  <2>2. SubSeq(b, 1, m) \in Seq(Alphabet)
    BY <2>1, PrefixFacts
  <2> QED BY <2>1, <2>2
<1>3. j \in 0 .. Len(list)
  BY <1>1 DEF CutBetween, CutInside
<1>4. ASSUME n <= j, NEW w \in Seq(Alphabet), body = Body(FirstOf(list, j)) \o w
      PROVE  got \in Seq(Rough) /\ Extends(PromptsOf(FirstOf(list, n)), got)
  <2>1. /\ Parsed(body) \in Seq(Rough) /\ Extends(StateAfter(list, j).read, Parsed(body))
    BY <1>3, <1>4, ReadAtCut
  <2>2. StateAfter(list, n).read = PromptsOf(FirstOf(list, n))
    BY CleanRead
  <2>3. Extends(StateAfter(list, n).read, StateAfter(list, j).read)
    BY <1>3, <1>4, FirstOfGrows
  <2>4. PICK p \in Seq(Rough), q \in Seq(Rough), r \in Seq(Rough) :
          p = StateAfter(list, n).read /\ q = StateAfter(list, j).read /\ r = Parsed(body)
    <3>1. StateAfter(list, n) \in State /\ StateAfter(list, j) \in State
      BY <1>3, FirstOfGrows
    <3> QED BY <2>1, <3>1 DEF State, Fields
  <2>5. Extends(p, r)
    <3>1. Extends(p, q) /\ Extends(q, r)
      BY <2>1, <2>3, <2>4
    <3> QED BY ONLY <3>1, p \in Seq(Rough), q \in Seq(Rough), r \in Seq(Rough), ExtendsOn
  <2> QED BY <1>2, <2>2, <2>4, <2>5
<1>5. CASE CutBetween(list, m, j)
  <2>1. CASE n <= j
    <3>1. PICK e \in Seq(Alphabet) : e = <<>>
      <4>1. <<>> \in Seq(Alphabet)
        OBVIOUS
      <4> QED BY <4>1
    <3>2. body = Body(FirstOf(list, j)) \o e
      <4>1. body = Body(FirstOf(list, j))
        BY <1>2, <1>5 DEF CutBetween
      <4>2. body \o <<>> = body
        OBVIOUS
      <4> QED BY <3>1, <4>1, <4>2
    <3> QED BY <1>4, <2>1, <3>2 DEF Cut
  <2>2. CASE ~(n <= j)
    <3>1. CleanTo(list, j)
      <4>1. \A i \in 1 .. j : i \in 1 .. n
        BY <1>3, <2>2
      <4> QED BY <4>1 DEF CleanTo
    <3>2. got = PromptsOf(FirstOf(list, j))
      BY <1>5, <3>1, BetweenRead
    <3> QED BY <1>3, <3>2 DEF Cut
  <2> QED BY <2>1, <2>2
<1>6. ASSUME NEW k, CutInside(list, m, j, k)
      PROVE  \/ got \in Seq(Rough) /\ Extends(PromptsOf(FirstOf(list, n)), got)
             \/ got = PromptsOf(FirstOf(list, j))
             \/ /\ CutInside(list, m, j, k) /\ list[j + 1].type = "prompt"
                /\ got = Append(PromptsOf(FirstOf(list, j)), PromptNode(SubSeq(list[j + 1].text, 1, k)))
  <2>1. CASE n <= j
    <3>1. PICK x : x = list[j + 1]
      OBVIOUS
    <3>2. x \in Node /\ k \in 0 .. Len(x.text) /\ body = Body(FirstOf(list, j)) \o Headed(x, SubSeq(x.text, 1, k))
      BY <1>2, <1>6, <3>1 DEF CutInside
    <3>3. Headed(x, SubSeq(x.text, 1, k)) \in Seq(Alphabet)
      <4>1. x.text \in Seq(Alphabet) /\ <<Beginning(x)>> \in Seq(Alphabet)
        BY <3>2, NodeTextFacts, MarkersApart
      <4>2. SubSeq(x.text, 1, k) \in Seq(Alphabet)
        BY <3>2, <4>1, PrefixFacts
      <4> QED BY <4>1, <4>2, ConcatProperties DEF Headed
    <3> QED BY <1>4, <2>1, <3>2, <3>3
  <2>2. CASE ~(n <= j)
    <3>1. CleanTo(list, j + 1)
      <4>1. \A i \in 1 .. j + 1 : i \in 1 .. n
        BY <1>3, <2>2
      <4> QED BY <4>1 DEF CleanTo
    <3>2. got = ReadWith(list[j + 1], SubSeq(list[j + 1].text, 1, k), PromptsOf(FirstOf(list, j)))
      BY <1>6, <3>1, InsideRead
    <3> QED BY <1>6, <3>2 DEF ReadWith
  <2> QED BY <2>1, <2>2
<1>7. \A k : CutInside(list, m, j, k) => j \in 0 .. Len(list) - 1
  BY DEF CutInside
<1> QED BY <1>1, <1>3, <1>5, <1>6, <1>7 DEF Cut

(* Of the prompts up to a name with a quote or backslash each comes back   *)
(* as it was, or is the last one and cut at a bracket.                     *)
LEMMA FirstComeBack ==
  ASSUME NEW list \in Seq(Node), NEW m \in 0 .. Len(Body(list)),
         NEW n \in 0 .. Len(list), CleanTo(list, n),
         m # Len(Body(list)) => Body(list)[m + 1] = ArrayEnd,
         NEW got, got = Parsed(SubSeq(Body(list), 1, m)),
         NEW i \in 1 .. Len(got), i <= Len(PromptsOf(FirstOf(list, n)))
  PROVE  \/ got[i] = PromptsOf(list)[i]
         \/ i = Len(got) /\ IsPrefix(got[i].text \o <<ArrayEnd>>, PromptsOf(list)[i].text)
<1>1. PICK before \in Seq(Node), first \in Seq(Node) :
        before = PromptsOf(list) /\ first = PromptsOf(FirstOf(list, n)) /\ Extends(first, before)
  BY PromptsUpTo
<1>2. CASE got \in Seq(Rough) /\ Extends(first, got)
  <2>1. i \in 1 .. Len(first)
    BY <1>1
  <2> QED BY <1>1, <1>2, <2>1 DEF Extends
<1>3. ASSUME NEW j \in 0 .. Len(list), got = PromptsOf(FirstOf(list, j))
      PROVE  got[i] = before[i]
  <2>1. Extends(got, before)
    BY <1>1, <1>3, PromptsUpTo
  <2> QED BY <2>1 DEF Extends
<1>4. ASSUME NEW j \in 0 .. Len(list) - 1, NEW k,
             CutInside(list, m, j, k), list[j + 1].type = "prompt",
             got = Append(PromptsOf(FirstOf(list, j)), PromptNode(SubSeq(list[j + 1].text, 1, k)))
      PROVE  \/ got[i] = before[i]
             \/ i = Len(got) /\ IsPrefix(got[i].text \o <<ArrayEnd>>, before[i].text)
  <2>1. j \in 0 .. Len(list) /\ j # Len(list) /\ list[j + 1] \in Node
    BY FirstOfNext
  <2>2. PICK p \in Seq(Node), x \in Node :
          /\ p = PromptsOf(FirstOf(list, j)) /\ x = list[j + 1] /\ Extends(p, before)
          /\ before[Len(p) + 1] = x
    BY <1>1, <1>4, <2>1, PromptsUpTo
  <2>3. PICK w \in Seq(Alphabet) : w = x.text
    BY NodeTextFacts
  <2>4. /\ k \in 0 .. Len(w) /\ m + 1 \in 1 .. Len(Body(list))
        /\ Body(list)[m + 1] = IF k = Len(w) THEN NodeEnd ELSE w[k + 1]
    BY <1>4, <2>2, <2>3 DEF CutInside
  <2>5. k \in 0 .. Len(w) - 1 /\ w[k + 1] = ArrayEnd
    <3>1. Body(list)[m + 1] = ArrayEnd
      BY <2>4
    <3>2. NodeEnd # ArrayEnd
      BY MarkersApart
    <3> QED BY <2>4, <3>1, <3>2
  <2>6. IsPrefix(SubSeq(w, 1, k) \o <<ArrayEnd>>, w)
    BY ONLY <2>5, w \in Seq(Alphabet), CutAtBracket
  <2>7. PICK t \in Seq(Alphabet), y \in Rough :
          t = SubSeq(w, 1, k) /\ y = PromptNode(t) /\ y.text = t
    <3>1. SubSeq(w, 1, k) \in Seq(Alphabet)
      BY <2>4, PrefixFacts
    <3> QED BY <3>1, PromptNodeFacts
  <2>8. PICK q : q = Append(p, y) /\ Len(q) = Len(p) + 1 /\ q[Len(p) + 1] = y
                 /\ \A h \in 1 .. Len(p) : q[h] = p[h]
    <3>1. PICK S : S = Node \cup Rough
      OBVIOUS
    <3>2. p \in Seq(S) /\ y \in S
      BY <3>1
    <3>3. /\ Len(Append(p, y)) = Len(p) + 1 /\ Append(p, y)[Len(p) + 1] = y
          /\ \A h \in 1 .. Len(p) : Append(p, y)[h] = p[h]
      BY <3>2
    <3> QED BY <3>3
  <2>9. got = q
    BY <1>4, <2>2, <2>3, <2>7, <2>8
  <2>10. CASE i \in 1 .. Len(p)
    BY <2>2, <2>8, <2>9, <2>10 DEF Extends
  <2>11. CASE i \notin 1 .. Len(p)
    <3>1. i = Len(p) + 1 /\ i = Len(got)
      <4>1. Len(p) \in Nat /\ i \in 1 .. Len(p) + 1
        BY <2>8, <2>9
      <4> QED BY <2>8, <2>9, <2>11, <4>1
    <3>2. got[i].text = t /\ before[i].text = w
      BY <2>2, <2>3, <2>7, <2>8, <2>9, <3>1
    <3> QED BY <2>6, <2>7, <3>1, <3>2
  <2> QED BY <2>10, <2>11
<1>5. Cut(list, m, n, got)
  BY CutRead
<1> QED BY <1>1, <1>2, <1>3, <1>4, <1>5 DEF Cut

(* Of a text that was not cut all these come back.                         *)
LEMMA WholeComesBack ==
  ASSUME NEW list \in Seq(Node), NEW n \in 0 .. Len(list), CleanTo(list, n)
  PROVE  IsPrefix(PromptsOf(FirstOf(list, n)), Parsed(Body(list)))
<1>1. PICK u \in Seq(Alphabet), e \in Seq(Alphabet) : u = Body(list) /\ e = <<>> /\ u = u \o e
  <2>1. PICK v \in Seq(Alphabet) : v = Body(list)
    BY BodyFacts
  <2>2. <<>> \in Seq(Alphabet) /\ v \o <<>> = v
    OBVIOUS
  <2> QED BY <2>1, <2>2
<1>2. PICK k \in 0 .. Len(list) : k = Len(list) /\ FirstOf(list, k) = list
  <2>1. FirstOf(list, Len(list)) = list
    BY RestOfAll DEF FirstOf
  <2>2. Len(list) \in 0 .. Len(list)
    OBVIOUS
  <2> QED BY <2>1, <2>2
<1>3. Parsed(u) \in Seq(Rough) /\ Extends(StateAfter(list, k).read, Parsed(u))
  BY <1>1, <1>2, ReadAtCut
<1>4. Extends(StateAfter(list, n).read, StateAfter(list, k).read)
  BY <1>2, FirstOfGrows
<1>5. PICK p \in Seq(Rough), q \in Seq(Rough), r \in Seq(Rough) :
        p = StateAfter(list, n).read /\ q = StateAfter(list, k).read /\ r = Parsed(u)
  <2>1. StateAfter(list, n) \in State /\ StateAfter(list, k) \in State
    BY FirstOfGrows
  <2> QED BY <1>3, <2>1 DEF State, Fields
<1>6. Extends(p, r)
  <2>1. Extends(p, q) /\ Extends(q, r)
    BY <1>3, <1>4, <1>5
  <2> QED BY ONLY <2>1, p \in Seq(Rough), q \in Seq(Rough), r \in Seq(Rough), ExtendsOn
<1>7. IsPrefix(p, r)
  BY ONLY <1>6, p \in Seq(Rough), r \in Seq(Rough), PrefixIs
<1> QED BY <1>1, <1>5, <1>7, CleanRead

(* The array ends at a bracket of the text, or at its end; before that it  *)
(* was open.                                                               *)
LEMMA EndsAtBracket ==
  ASSUME NEW list \in Seq(Node), NEW n \in 0 .. Len(Serialized(list)),
         ArrayEnds(SubSeq(Serialized(list), 1, n)) # {}
  PROVE  \E m \in 0 .. Len(Body(list)) :
           /\ Deserialized(SubSeq(Serialized(list), 1, n)) = Parsed(SubSeq(Body(list), 1, m))
           /\ Steady(SubSeq(Body(list), 1, m))
           /\ m # Len(Body(list)) => Body(list)[m + 1] = ArrayEnd
<1>1. PICK b \in Seq(Alphabet), one \in Seq(Alphabet) :
        b = Body(list) /\ one = <<ArrayEnd>> /\ Len(one) = 1 /\ one[1] = ArrayEnd
  <2>1. <<ArrayEnd>> \in Seq(Alphabet)
    BY MarkersApart
  <2> QED BY <2>1, BodyFacts
<1>2. PICK s \in Seq(Alphabet) : s = b \o one
  BY ConcatProperties
<1>3. s = Serialized(list)
  BY <1>1, <1>2, BodyFacts
<1>4. PICK k \in Nat : k = Len(b) /\ Len(s) = k + 1
                      /\ \A i \in 1 .. k + 1 : s[i] = IF i <= k THEN b[i] ELSE one[i - k]
  <2>1. Len(b) \in Nat
    OBVIOUS
  <2>2. Len(s) = Len(b) + 1 /\ \A i \in 1 .. Len(b) + 1 : s[i] = IF i <= Len(b) THEN b[i] ELSE one[i - Len(b)]
    BY <1>1, <1>2, ConcatProperties
  <2> QED BY <2>1, <2>2
<1>5. PICK text \in Seq(Alphabet) :
        text = SubSeq(s, 1, n) /\ Len(text) = n /\ \A i \in 1 .. n : text[i] = s[i]
  <2>1. n \in 0 .. Len(s)
    BY <1>3
  <2> QED BY <2>1, PrefixFacts
<1>6. n \in 0 .. k + 1 /\ n \in Nat
  BY <1>3, <1>4
<1>7. ArrayEnds(text) # {} /\ ArrayEnds(text) \in SUBSET Nat
  <2>1. DOMAIN text = 1 .. n
    BY <1>5
  <2>2. ArrayEnds(text) \in SUBSET Nat
    BY <1>6, <2>1 DEF ArrayEnds
  <2> QED BY <1>3, <1>5, <2>2
<1>8. PICK e : e = CHOOSE i \in ArrayEnds(text) : \A j \in ArrayEnds(text) : i <= j
  OBVIOUS
<1>9. e \in ArrayEnds(text) /\ \A j \in ArrayEnds(text) : e <= j
  <2>1. \E i \in ArrayEnds(text) : \A j \in ArrayEnds(text) : i <= j
    BY <1>7, LeastNatural
  <2> QED BY <1>8, <2>1
<1>10. e \in 1 .. n /\ text[e] = ArrayEnd /\ Steady(SubSeq(text, 1, e - 1))
  BY <1>5, <1>9, FirstEnd
<1>11. PICK m \in Nat : m = e - 1 /\ e = m + 1 /\ m \in 0 .. k /\ m \in 0 .. n
  BY <1>6, <1>10
<1>12. PICK body \in Seq(Alphabet) : body = SubSeq(text, 1, m) /\ body = SubSeq(b, 1, m)
  <2>1. PICK p \in Seq(Alphabet) :
          p = SubSeq(text, 1, m) /\ Len(p) = m /\ \A i \in 1 .. m : p[i] = text[i]
    <3>1. m \in 0 .. Len(text)
      BY <1>5, <1>11
    <3> QED BY <3>1, PrefixFacts
  <2>2. PICK q \in Seq(Alphabet) :
          q = SubSeq(b, 1, m) /\ Len(q) = m /\ \A i \in 1 .. m : q[i] = b[i]
    <3>1. m \in 0 .. Len(b)
      BY <1>4, <1>11
    <3> QED BY <3>1, PrefixFacts
  <2>3. \A i \in 1 .. m : i \in 1 .. n /\ i \in 1 .. k + 1 /\ i <= k
    BY <1>11
  <2>4. \A i \in 1 .. m : p[i] = q[i]
    BY <1>4, <1>5, <2>1, <2>2, <2>3
  <2>5. p = q
    <3>1. Len(p) = Len(q) /\ \A i \in 1 .. Len(p) : p[i] = q[i]
      BY <2>1, <2>2, <2>4
    <3> QED BY ONLY <3>1, p \in Seq(Alphabet), q \in Seq(Alphabet), SeqEqual
  <2> QED BY <2>1, <2>2, <2>5
<1>13. Steady(body) /\ Deserialized(text) = Parsed(body)
  BY <1>8, <1>10, <1>11, <1>12 DEF Deserialized
<1>14. m # k => b[m + 1] = ArrayEnd
  <2>1. m # k => m + 1 \in 1 .. k + 1 /\ m + 1 <= k
    BY <1>11
  <2> QED BY <1>4, <1>5, <1>10, <1>11, <2>1
<1>15. m \in 0 .. Len(b)
  BY <1>4, <1>11
<1> QED BY <1>1, <1>3, <1>4, <1>5, <1>12, <1>13, <1>14, <1>15

(* The prompt nodes of prompt nodes are those.                             *)
LEMMA PromptsAgain ==
  ASSUME NEW list \in Seq(Node)
  PROVE  PromptsOf(PromptsOf(list)) = PromptsOf(list)
<1> DEFINE Q == {l \in Seq(Node) : PromptsOf(PromptsOf(l)) = PromptsOf(l)}
<1>1. <<>> \in Q
  <2>1. <<>> \in Seq(Node)
    OBVIOUS
  <2> QED BY <2>1, PromptsFacts
<1>2. ASSUME NEW l \in Seq(Node), NEW x \in Node, l \in Q PROVE Append(l, x) \in Q
  <2>1. PICK p \in Seq(Node) : p = PromptsOf(l)
    BY PromptsFacts
  <2>2. PromptsOf(p) = p
    BY <1>2, <2>1
  <2>3. ASSUME x.type = "prompt"
        PROVE  PromptsOf(PromptsOf(Append(l, x))) = PromptsOf(Append(l, x))
    <3>1. PromptsOf(Append(l, x)) = Append(p, x)
      BY <2>1, <2>3, PromptsFacts
    <3>2. PromptsOf(Append(p, x)) = Append(p, x)
      BY <2>2, <2>3, PromptsFacts
    <3> QED BY <3>1, <3>2
  <2>4. ASSUME x.type # "prompt"
        PROVE  PromptsOf(PromptsOf(Append(l, x))) = PromptsOf(Append(l, x))
    <3>1. PromptsOf(Append(l, x)) = p
      BY <2>1, <2>4, PromptsFacts
    <3> QED BY <2>2, <3>1
  <2>5. Append(l, x) \in Seq(Node)
    OBVIOUS
  <2> QED BY <2>3, <2>4, <2>5
<1>3. Seq(Node) \subseteq Q
  <2> HIDE DEF Q
  <2> QED BY <1>1, <1>2, SeqInduction
<1> QED BY <1>3

(* Every prompt node is one, and none is added.                            *)
LEMMA PromptsArePrompts ==
  ASSUME NEW list \in Seq(Node)
  PROVE  /\ Len(PromptsOf(list)) <= Len(list)
         /\ \A i \in 1 .. Len(PromptsOf(list)) : PromptsOf(list)[i].type = "prompt"
<1> DEFINE Good(l) == /\ Len(PromptsOf(l)) <= Len(l)
                      /\ \A i \in 1 .. Len(PromptsOf(l)) : PromptsOf(l)[i].type = "prompt"
           Q == {l \in Seq(Node) : Good(l)}
<1>1. <<>> \in Q
  <2>1. PICK e \in Seq(Node) : e = <<>> /\ Len(e) = 0 /\ PromptsOf(e) = e
    <3>1. <<>> \in Seq(Node) /\ Len(<<>>) = 0
      OBVIOUS
    <3> QED BY <3>1, PromptsFacts
  <2>2. Good(e)
    BY <2>1
  <2> QED BY <2>1, <2>2
<1>2. ASSUME NEW l \in Seq(Node), NEW x \in Node, l \in Q PROVE Append(l, x) \in Q
  <2>1. PICK p \in Seq(Node) : p = PromptsOf(l)
    BY PromptsFacts
  <2>2. Len(p) <= Len(l) /\ \A i \in 1 .. Len(p) : p[i].type = "prompt"
    BY <1>2, <2>1
  <2>3. PICK longer \in Seq(Node) : longer = Append(l, x) /\ Len(longer) = Len(l) + 1
    <3>1. Append(l, x) \in Seq(Node) /\ Len(Append(l, x)) = Len(l) + 1
      OBVIOUS
    <3> QED BY <3>1
  <2>4. Len(p) \in Nat /\ Len(l) \in Nat
    OBVIOUS
  <2>5. ASSUME x.type = "prompt" PROVE Good(longer)
    <3>1. PICK q \in Seq(Node) : /\ q = Append(p, x) /\ Len(q) = Len(p) + 1
                                 /\ q[Len(p) + 1] = x /\ \A i \in 1 .. Len(p) : q[i] = p[i]
      <4>1. Append(p, x) \in Seq(Node) /\ Len(Append(p, x)) = Len(p) + 1
            /\ Append(p, x)[Len(p) + 1] = x /\ \A i \in 1 .. Len(p) : Append(p, x)[i] = p[i]
        OBVIOUS
      <4> QED BY <4>1
    <3>2. PromptsOf(longer) = q
      <4>1. PromptsOf(longer) = Append(p, x)
        BY <2>1, <2>3, <2>5, PromptsFacts
      <4> QED BY <3>1, <4>1
    <3>3. Len(q) <= Len(longer)
      BY <2>2, <2>3, <2>4, <3>1
    <3>4. ASSUME NEW i \in 1 .. Len(q) PROVE q[i].type = "prompt"
      <4>1. i \in 1 .. Len(p) \/ i = Len(p) + 1
        BY <2>4, <3>1
      <4> QED BY <2>2, <2>5, <3>1, <4>1
    <3> QED BY <3>2, <3>3, <3>4
  <2>6. ASSUME x.type # "prompt" PROVE Good(longer)
    <3>1. PromptsOf(longer) = p
      BY <2>1, <2>3, <2>6, PromptsFacts
    <3>2. Len(p) <= Len(longer)
      BY <2>2, <2>3, <2>4
    <3> QED BY <2>2, <3>1, <3>2
  <2> HIDE DEF Good
  <2>7. Good(longer)
    BY <2>5, <2>6
  <2> QED BY <2>3, <2>7
<1>3. Seq(Node) \subseteq Q
  <2> HIDE DEF Q
  <2> QED BY <1>1, <1>2, SeqInduction
<1> QED BY <1>3


-----------------------------------------------------------------------------
(* Loaded nodes survive the next round                                     *)
SavedAgain(after) ==
  ArrayEnds(Serialized(after)) # {} /\ Deserialized(Serialized(after)) = after

(* Prompts whose text is steady are saved and loaded as they are.          *)
LEMMA SteadySaved ==
  ASSUME NEW after \in Seq(Node), PromptsOf(after) = after, Steady(Body(after))
  PROVE  SavedAgain(after)
<1>1. PICK b \in Seq(Alphabet) : b = Body(after)
  BY BodyFacts
<1>2. Serialized(after) = b \o <<ArrayEnd>>
  BY <1>1, BodyFacts
<1>3. ArrayEnds(Serialized(after)) # {} /\ Deserialized(Serialized(after)) = Parsed(b)
  BY <1>1, <1>2, SteadyEnds
<1>4. \A i \in 1 .. Len(after) : Clean(after[i])
  BY PromptsArePrompts DEF Clean
<1>5. Scanned(Between(<<>>), b) = Between(after)
  BY <1>1, <1>4, WrittenIsRead
<1>6. PICK s : s = Between(after)
  OBVIOUS
<1>7. ReadAt(s) = after
  BY <1>6 DEF ReadAt, Between
<1>8. Parsed(b) = after
  BY <1>5, <1>6, <1>7 DEF Parsed
<1> QED BY <1>3, <1>8 DEF SavedAgain

(* A prompt whose text was cut short is saved with its end, after prompts  *)
(* that are saved as they were.                                            *)
LEMMA CutPromptSaved ==
  ASSUME NEW p \in Seq(Node), PromptsOf(p) = p,
         NEW node \in Node, node.type = "prompt", NEW h \in Seq(Alphabet), h = Headed(node, node.text),
         Steady(Body(p) \o h)
  PROVE  SavedAgain(Append(p, node))
<1>1. PICK v \in Seq(Alphabet) : v = Body(p)
  BY BodyFacts
<1>2. PromptsOf(Append(p, node)) = Append(p, node)
  BY PromptsFacts
<1>3. PICK f \in Seq(Alphabet) : f = <<NodeEnd>> /\ Steady(f)
  BY MarkersApart, MarkerSteady
<1>4. Steady((v \o h) \o f)
  <2>1. Steady(v \o h) /\ v \o h \in Seq(Alphabet)
    BY <1>1, ConcatProperties
  <2> QED BY <1>3, <2>1, SteadyConcat
<1>5. Body(Append(p, node)) = (v \o h) \o f
  <2>1. Body(Append(p, node)) = v \o NodeText(node)
    BY <1>1, BodyFacts
  <2>2. NodeText(node) = h \o f
    BY <1>3, NodeTextFacts
  <2>3. (v \o h) \o f = v \o (h \o f)
    BY ONLY v \in Seq(Alphabet), h \in Seq(Alphabet), f \in Seq(Alphabet), Associative
  <2> QED BY ONLY <2>1, <2>2, <2>3
<1> QED
  <2>1. Append(p, node) \in Seq(Node)
    OBVIOUS
  <2> QED BY <1>2, <1>4, <1>5, <2>1, SteadySaved

(* The array does not end in a name whose brackets match.                  *)
LEMMA NameKeepsOpen ==
  ASSUME NEW u \in Seq(Alphabet), NEW one \in Seq(Alphabet), Steady(one),
         NEW name \in Seq(Alphabet), Balanced(name), NEW k \in 0 .. Len(name) - 1,
         name[k + 1] = ArrayEnd
  PROVE  ~Steady(u \o (one \o SubSeq(name, 1, k)))
<1>1. SUFFICES ASSUME Steady(u \o (one \o SubSeq(name, 1, k))) PROVE FALSE
  OBVIOUS
<1>2. k \in Nat /\ k \in 0 .. Len(name) /\ k + 1 \in 0 .. Len(name)
  OBVIOUS
<1>3. PICK w \in Seq(Alphabet) :
        w = SubSeq(name, 1, k) /\ Len(w) = k /\ \A i \in 1 .. k : w[i] = name[i]
  <2>1. /\ SubSeq(name, 1, k) \in Seq(Alphabet) /\ Len(SubSeq(name, 1, k)) = k
        /\ \A i \in 1 .. k : SubSeq(name, 1, k)[i] = name[i]
    BY ONLY <1>2, name \in Seq(Alphabet), PrefixFacts
  <2> QED BY <2>1
<1>4. Level(w) >= 2
  <2>1. Depth(w, k) = Depth(name, k)
    BY <1>2, <1>3, DepthLocal
  <2>2. Weight(ArrayEnd) = -1
    BY DEF Weight, ArrayEnd
  <2>3. Depth(name, k + 1) = Depth(name, k) + (-1) /\ Depth(name, k) \in Int
    BY <1>2, <2>2, DepthFacts
  <2>4. Depth(name, k + 1) >= 1
    BY <1>2, BalancedSteady DEF Steady, Opens
  <2> QED BY <1>3, <2>1, <2>3, <2>4 DEF Level
<1>5. PICK h \in Seq(Alphabet) : h = one \o w
  BY ConcatProperties
<1>6. Level(h) = Level(one) + Level(w) - 1 /\ Level(one) = 1 /\ Level(w) \in Int
  BY <1>5, DepthConcat DEF Steady
<1>7. /\ Level(u \o h) = Level(u) + Level(h) - 1 /\ Level(u) \in Int
      /\ Opens(u \o h) => Opens(u)
  BY DepthConcat
<1>8. Opens(u \o h) /\ Level(u \o h) = 1
  BY <1>1, <1>3, <1>5 DEF Steady
<1>9. Level(u) >= 1
  BY <1>7, <1>8, OpenAtEnd
<1> QED BY <1>4, <1>6, <1>7, <1>8, <1>9

(* What was loaded, if the names of models have neither quotes nor         *)
(* backslashes and their brackets match.                                   *)
LEMMA LoadedAgain ==
  ASSUME NEW list \in Seq(Node), CleanTo(list, Len(list)),
         \A i \in 1 .. Len(list) : list[i].type = "llm" => Balanced(list[i].text),
         NEW m \in 0 .. Len(Body(list)), Steady(SubSeq(Body(list), 1, m)),
         m # Len(Body(list)) => Body(list)[m + 1] = ArrayEnd
  PROVE  SavedAgain(Parsed(SubSeq(Body(list), 1, m)))
<1>1. PICK j : CutBetween(list, m, j) \/ \E k : CutInside(list, m, j, k)
  BY EveryCut DEF CanCut
<1>2. j \in 0 .. Len(list)
  BY <1>1 DEF CutBetween, CutInside
<1>3. \A i \in 1 .. Len(list) : list[i].type \in {"prompt", "llm", "null"}
  BY DEF Node, LoadedNode
<1>4. PICK l \in Seq(Node) : l = FirstOf(list, j) /\ Len(l) = j /\ \A i \in 1 .. j : l[i] = list[i]
  BY <1>2, FirstOfFacts
<1>5. PICK p \in Seq(Node), u \in Seq(Alphabet), v \in Seq(Alphabet) :
        p = PromptsOf(l) /\ u = Body(l) /\ v = Body(p) /\ PromptsOf(p) = p
  <2>1. PICK q \in Seq(Node) : q = PromptsOf(l)
    BY PromptsFacts
  <2> QED BY <2>1, PromptsAgain, BodyFacts
<1>6. Alike(u, v)
  <2>1. \A i \in 1 .. Len(l) : l[i].type # "prompt" => Matched(l[i])
    <3>1. \A i \in 1 .. Len(l) : i \in 1 .. Len(list)
      BY <1>2, <1>4
    <3> QED BY <1>3, <1>4, <3>1 DEF Matched
  <2> QED BY <1>5, <2>1, BodyAlike
<1>7. CASE CutBetween(list, m, j)
  <2>1. SubSeq(Body(list), 1, m) = u
    BY <1>4, <1>5, <1>7 DEF CutBetween
  <2>2. CleanTo(list, j)
    <3>1. \A i \in 1 .. j : i \in 1 .. Len(list)
      BY <1>2
    <3> QED BY <3>1 DEF CleanTo
  <2>3. Parsed(SubSeq(Body(list), 1, m)) = p
    BY <1>4, <1>5, <1>7, <2>2, BetweenRead
  <2>4. Steady(v)
    BY <1>6, <2>1 DEF Steady, Alike
  <2> QED BY <1>5, <2>3, <2>4, SteadySaved
<1>8. ASSUME NEW k, CutInside(list, m, j, k) PROVE SavedAgain(Parsed(SubSeq(Body(list), 1, m)))
  <2>1. PICK x \in Node : x = list[j + 1] /\ j + 1 \in 1 .. Len(list)
    BY <1>8 DEF CutInside
  <2>2. PICK t \in Seq(Alphabet) : t = x.text
    BY NodeTextFacts
  <2>3. /\ x.type # "null" /\ k \in 0 .. Len(t) /\ m + 1 \in 1 .. Len(Body(list))
        /\ SubSeq(Body(list), 1, m) = u \o Headed(x, SubSeq(t, 1, k))
        /\ Body(list)[m + 1] = IF k = Len(t) THEN NodeEnd ELSE t[k + 1]
    BY <1>4, <1>5, <1>8, <2>1, <2>2 DEF CutInside
  <2>4. k \in 0 .. Len(t) - 1 /\ t[k + 1] = ArrayEnd
    <3>1. Body(list)[m + 1] = ArrayEnd
      BY <2>3
    <3>2. NodeEnd # ArrayEnd
      BY MarkersApart
    <3> QED BY <2>3, <3>1, <3>2
  <2>5. PICK w \in Seq(Alphabet), one \in Seq(Alphabet), h \in Seq(Alphabet) :
          w = SubSeq(t, 1, k) /\ one = <<Beginning(x)>> /\ Steady(one) /\ h = one \o w
    <3>1. PICK a \in Seq(Alphabet) : a = SubSeq(t, 1, k)
      BY <2>3, PrefixFacts
    <3>2. PICK c \in Seq(Alphabet) : c = <<Beginning(x)>> /\ Steady(c)
      BY NodeTextFacts, MarkerSteady
    <3>3. c \o a \in Seq(Alphabet)
      BY ConcatProperties
    <3> QED BY <3>1, <3>2, <3>3
  <2>6. h = Headed(x, w) /\ Steady(u \o h)
    BY <2>3, <2>5 DEF Headed
  <2>7. CleanTo(list, j + 1)
    <3>1. \A i \in 1 .. j + 1 : i \in 1 .. Len(list)
      BY <2>1
    <3> QED BY <3>1 DEF CleanTo
  <2>8. Parsed(SubSeq(Body(list), 1, m)) = ReadWith(x, w, p)
    BY <1>4, <1>5, <1>8, <2>1, <2>2, <2>5, <2>7, InsideRead
  <2>9. CASE x.type = "prompt"
    <3>1. w \in Seq(TemplateTokens)
      <4>1. t \in Seq(TemplateTokens)
        BY <2>2, <2>9 DEF Node, LoadedNode
      <4> QED BY <2>3, <2>5, <4>1, PrefixFacts
    <3>2. PICK node \in Node : node = PromptNode(w) /\ node.type = "prompt" /\ node.text = w
      <4>1. PICK r : r = [type |-> "prompt", text |-> w]
        OBVIOUS
      <4>2. r \in LoadedNode /\ r.type = "prompt" /\ r.text = w
        BY <3>1, <4>1 DEF LoadedNode
      <4> QED BY <4>1, <4>2 DEF PromptNode, Node
    <3>3. h = Headed(node, node.text)
      BY <2>6, <2>9, <3>2 DEF Headed, Beginning
    <3>4. Steady(v \o h)
      <4>1. Alike(u \o h, v \o h)
        BY <1>6, AlikeConcat
      <4> QED BY <2>6, <4>1 DEF Steady, Alike
    <3>5. SavedAgain(Append(p, node))
      BY <1>5, <3>2, <3>3, <3>4, CutPromptSaved
    <3> QED BY <2>8, <2>9, <3>2, <3>5 DEF ReadWith
  <2>10. CASE x.type # "prompt"
    <3>1. Balanced(t)
      BY <1>3, <2>1, <2>2, <2>3, <2>10
    <3>2. ~Steady(u \o (one \o SubSeq(t, 1, k)))
      BY <2>4, <2>5, <3>1, NameKeepsOpen
    <3> QED BY <2>5, <2>6, <3>2
  <2> QED BY <2>9, <2>10
<1> QED BY <1>1, <1>7, <1>8

(* If the brackets of every text match, the array ends where its text      *)
(* does.                                                                   *)
LEMMA MatchedComeBack ==
  ASSUME NEW list \in Seq(Node), \A i \in DOMAIN list : Balanced(list[i].text),
         NEW n \in 0 .. Len(Serialized(list))
  PROVE  LET text == SubSeq(Serialized(list), 1, n)
         IN  /\ ArrayEnds(text) # {} <=> n = Len(Serialized(list))
             /\ n = Len(Serialized(list)) => Deserialized(text) = Parsed(Body(list))
<1>1. PICK b \in Seq(Alphabet) : b = Body(list)
  BY BodyFacts
<1>2. Steady(b)
  <2>1. DOMAIN list = 1 .. Len(list)
    OBVIOUS
  <2>2. \A i \in 1 .. Len(list) : Matched(list[i])
    BY <2>1 DEF Matched
  <2> QED BY <1>1, <2>2, BodySteady
<1>3. PICK s \in Seq(Alphabet) : s = b \o <<ArrayEnd>> /\ Len(s) = Len(b) + 1
  <2>1. <<ArrayEnd>> \in Seq(Alphabet) /\ Len(<<ArrayEnd>>) = 1
    BY MarkersApart
  <2>2. b \o <<ArrayEnd>> \in Seq(Alphabet) /\ Len(b \o <<ArrayEnd>>) = Len(b) + 1
    BY <2>1, ConcatProperties
  <2> QED BY ONLY <2>2
<1>4. s = Serialized(list)
  BY <1>1, <1>3, BodyFacts
<1>5. /\ ArrayEnds(s) # {} /\ Deserialized(s) = Parsed(b)
      /\ \A k \in 0 .. Len(b) : ArrayEnds(SubSeq(s, 1, k)) = {}
  BY <1>2, <1>3, SteadyEnds
<1>6. Len(b) \in Nat /\ n \in 0 .. Len(b) + 1
  BY <1>3, <1>4
<1>7. CASE n = Len(s)
  <2>1. SubSeq(s, 1, n) = s
    BY <1>7, RestOfAll
  <2> QED BY <1>1, <1>4, <1>5, <1>7, <2>1
<1>8. CASE n # Len(s)
  <2>1. n \in 0 .. Len(b)
    BY <1>3, <1>6, <1>8
  <2> QED BY <1>4, <1>5, <1>8, <2>1
<1> QED BY <1>7, <1>8

(* What a chain is after deserialize: typed, no longer than it was, and    *)
(* all of it was saved.                                                    *)
LEMMA DeserializedFacts ==
  ASSUME NEW list \in Seq(Node), NEW n \in 0 .. Len(Serialized(list)),
         ArrayEnds(SubSeq(Serialized(list), 1, n)) # {},
         NEW after, after = Deserialized(SubSeq(Serialized(list), 1, n))
  PROVE  /\ after \in Seq(Node) /\ Len(after) <= Len(list)
         /\ Len(after) <= Len(PromptsOf(list))
         /\ \A i \in 1 .. Len(after) : \E j \in 1 .. Len(PromptsOf(list)) :
              Begins(after[i].text, PromptsOf(list)[j].text)
<1>1. PICK m \in 0 .. Len(Body(list)) : after = Parsed(SubSeq(Body(list), 1, m))
  BY EndsAtBracket
<1>2. PICK got : got = Parsed(SubSeq(Body(list), 1, m))
  OBVIOUS
<1>3. /\ got \in Seq(LoadedNode) /\ Len(got) <= Len(PromptsOf(list))
      /\ \A i \in 1 .. Len(got) : \E j \in 1 .. Len(PromptsOf(list)) :
           Begins(got[i].text, PromptsOf(list)[j].text)
  BY <1>2, ReadIsSaved
<1>4. got \in Seq(Node)
  <2>1. LoadedNode \subseteq Node
    BY DEF Node
  <2> QED BY <1>3, <2>1
<1>5. PICK all \in Seq(Node) : all = PromptsOf(list) /\ Len(all) <= Len(list)
  BY PromptsFacts, PromptsArePrompts
<1>6. Len(got) \in Nat /\ Len(all) \in Nat /\ Len(list) \in Nat
  BY <1>4
<1>7. Len(got) <= Len(list)
  BY <1>3, <1>5, <1>6
<1> QED BY <1>1, <1>2, <1>3, <1>4, <1>7

(* Which prompt nodes come back as they were.                              *)
FirstKept(list, after, n) ==
  /\ \A i \in 1 .. Len(after) :
       i <= Len(PromptsOf(FirstOf(list, n))) =>
         \/ after[i] = PromptsOf(list)[i]
         \/ i = Len(after) /\ IsPrefix(after[i].text \o <<ArrayEnd>>, PromptsOf(list)[i].text)

(* Of nodes whose names are clean the prompts are, in any cut text.        *)
LEMMA FirstAreKept ==
  ASSUME NEW list \in Seq(Node), NEW k \in 0 .. Len(Serialized(list)),
         ArrayEnds(SubSeq(Serialized(list), 1, k)) # {},
         NEW after, after = Deserialized(SubSeq(Serialized(list), 1, k)),
         NEW n \in 0 .. Len(list), CleanTo(list, n)
  PROVE  FirstKept(list, after, n)
<1>1. PICK m \in 0 .. Len(Body(list)) : /\ after = Parsed(SubSeq(Body(list), 1, m))
                                        /\ m # Len(Body(list)) => Body(list)[m + 1] = ArrayEnd
  BY EndsAtBracket
<1>2. ASSUME NEW i \in 1 .. Len(after), i <= Len(PromptsOf(FirstOf(list, n)))
      PROVE  \/ after[i] = PromptsOf(list)[i]
             \/ i = Len(after) /\ IsPrefix(after[i].text \o <<ArrayEnd>>, PromptsOf(list)[i].text)
  <2>1. PICK got : got = Parsed(SubSeq(Body(list), 1, m)) /\ got = after
    BY <1>1
  <2>2. i \in 1 .. Len(got)
    BY <2>1
  <2>3. \/ got[i] = PromptsOf(list)[i]
        \/ i = Len(got) /\ IsPrefix(got[i].text \o <<ArrayEnd>>, PromptsOf(list)[i].text)
    BY ONLY <1>1, <1>2, <2>1, <2>2, list \in Seq(Node), m \in 0 .. Len(Body(list)),
            n \in 0 .. Len(list), CleanTo(list, n), FirstComeBack
  <2> QED BY ONLY <2>1, <2>3
<1> QED BY <1>2 DEF FirstKept

(* And when what was loaded can be loaded again.                           *)
LEMMA AllLoadedAgain ==
  ASSUME NEW list \in Seq(Node), NEW k \in 0 .. Len(Serialized(list)),
         ArrayEnds(SubSeq(Serialized(list), 1, k)) # {},
         NEW after, after = Deserialized(SubSeq(Serialized(list), 1, k)),
         CleanTo(list, Len(list)),
         \A i \in 1 .. Len(list) : list[i].type = "llm" => Balanced(list[i].text)
  PROVE  SavedAgain(after)
<1>1. PICK m \in 0 .. Len(Body(list)) : /\ after = Parsed(SubSeq(Body(list), 1, m))
                                        /\ Steady(SubSeq(Body(list), 1, m))
                                        /\ m # Len(Body(list)) => Body(list)[m + 1] = ArrayEnd
  BY EndsAtBracket
<1>2. PICK got : got = Parsed(SubSeq(Body(list), 1, m))
  OBVIOUS
<1>3. SavedAgain(got)
  <2>1. SavedAgain(Parsed(SubSeq(Body(list), 1, m)))
    BY ONLY <1>1, list \in Seq(Node), CleanTo(list, Len(list)),
            \A i \in 1 .. Len(list) : list[i].type = "llm" => Balanced(list[i].text),
            m \in 0 .. Len(Body(list)), LoadedAgain
  <2> QED BY ONLY <1>2, <2>1
<1> QED BY ONLY <1>1, <1>2, <1>3

-----------------------------------------------------------------------------
(* Types                                                                   *)

IsResult(r) ==
  /\ r \in [success : BOOLEAN, output : Texts, variables : {r.variables}]
  /\ IsVariables(r.variables)

IsAsked(calls, list) ==
  /\ calls \in Seq([node : Nat, text : Texts])
  /\ \A k \in DOMAIN calls : calls[k].node \in DOMAIN list

(* TypeOK with what the steps rely on: templates and names hold no marker, *)
(* calls and the result are what they are built as.                        *)
Types ==
  /\ nodes \in Seq(Node) /\ Len(nodes) <= MaxNodes
  /\ place \in 0 .. Len(nodes) + 1
  /\ IsVariables(accumulated) /\ IsVariables(input) /\ IsResult(result)
  /\ outputs \in Seq(Texts)
  /\ place # 0 => Len(outputs) = place - 1
  /\ IsAsked(asked, nodes)
  /\ loads \in 0 .. MaxLoads
  /\ loaded \in [ok : BOOLEAN, whole : BOOLEAN]

LoadsTyped == loads \in 0 .. MaxLoads /\ loaded \in [ok : BOOLEAN, whole : BOOLEAN]

(* Templates are texts.                                                    *)
LEMMA TemplatesAreTexts == Seq(TemplateTokens) \subseteq Texts
<1>1. TemplateTokens \subseteq Tokens
  BY DEF TemplateTokens, Tokens
<1> QED BY <1>1 DEF Texts

(* And so are the texts of nodes.                                          *)
LEMMA NodesHoldTexts ==
  \A x \in Node : x.text \in Texts /\ x.type \in {"prompt", "llm", "null"}
                  /\ x = [type |-> x.type, text |-> x.text]
<1>1. NameTokens \subseteq Tokens
  BY DEF NameTokens, Tokens
<1>2. Seq(NameTokens) \subseteq Texts
  BY <1>1 DEF Texts
<1> QED BY <1>2, TemplatesAreTexts DEF Node, LoadedNode

(* The nodes that are added are nodes.                                     *)
LEMMA NodesAreNodes ==
  /\ \A t \in Templates : PromptNode(t) \in Node
  /\ \A m \in Models : LLMNode(m) \in Node
  /\ NullNode \in Node
<1>1. ASSUME NEW t \in Templates PROVE t \in Seq(TemplateTokens)
  <2>1. t \in Seq(Tokens)
    BY ChainAssumption DEF Texts
  <2>2. ASSUME NEW i \in 1 .. Len(t) PROVE t[i] \in TemplateTokens
    <3>1. t[i] \in TokensOf(Templates)
      BY <2>1 DEF TokensOf, ToSet
    <3>2. TokensOf(Templates) \subseteq TemplateTokens
      BY DEF TemplateTokens
    <3> QED BY <3>1, <3>2
  <2> QED BY <2>1, <2>2
<1>2. ASSUME NEW m \in Models PROVE m \in Seq(NameTokens)
  <2>1. m \in Seq(Tokens)
    BY ChainAssumption DEF Texts
  <2>2. ASSUME NEW i \in 1 .. Len(m) PROVE m[i] \in NameTokens
    BY <2>1 DEF NameTokens, TokensOf, ToSet
  <2> QED BY <2>1, <2>2
<1>3. ASSUME NEW t \in Templates PROVE PromptNode(t) \in Node
  BY <1>1 DEF PromptNode, Node, LoadedNode
<1>4. ASSUME NEW m \in Models PROVE LLMNode(m) \in Node
  BY <1>2 DEF LLMNode, Node
<1>5. NullNode \in Node
  <2>1. <<>> \in Seq(NameTokens)
    OBVIOUS
  <2> QED BY <2>1 DEF NullNode, Node
<1> QED BY <1>3, <1>4, <1>5

(* What a step does, by what becomes of the run: it is given up with the   *)
(* nodes it was of, started, goes on, fails or finishes.                   *)
Replaces == \E list \in Seq(Node) : /\ Len(list) <= MaxNodes
                                    /\ Replace(list)
                                    /\ LoadsTyped'
Starts == \E variables \in Inputs : Start(variables)
PromptRuns == \E output \in Texts : /\ At("prompt")
                                    /\ Succeed(output, accumulated)
                                    /\ UNCHANGED asked
LLMRuns == \E output \in Texts : LLMAnswers(output)

(* Every step is one of these.                                             *)
LEMMA StepCases ==
  ASSUME Types, Next
  PROVE  \/ Replaces \/ Starts \/ PromptRuns \/ LLMRuns
         \/ LLMThrows \/ NoProvider \/ Finish
<1>1. /\ nodes \in Seq(Node) /\ Len(nodes) \in Nat /\ DOMAIN nodes = 1 .. Len(nodes)
      /\ Len(nodes) <= MaxNodes /\ MaxNodes \in Nat /\ LoadsTyped
  BY ChainAssumption DEF Types, LoadsTyped
<1>2. ASSUME NEW node \in Node, Add(node) PROVE Replaces
  <2>1. Append(nodes, node) \in Seq(Node) /\ Len(Append(nodes, node)) = Len(nodes) + 1
    BY <1>1
  <2>2. Len(nodes) + 1 <= MaxNodes
    BY <1>1, <1>2 DEF Add
  <2>3. LoadsTyped'
    BY <1>1, <1>2 DEF Add, LoadsTyped
  <2> QED BY <1>2, <2>1, <2>2, <2>3 DEF Add, Replaces
<1>3. ASSUME NEW t \in Templates, AddPrompt(t) PROVE Replaces
  BY <1>2, <1>3, NodesAreNodes DEF AddPrompt
<1>4. CASE AddLLM
  BY <1>2, <1>4, NodesAreNodes DEF AddLLM
<1>5. ASSUME NEW n \in 0 .. Len(Serialized(nodes)), Reload(n) PROVE Replaces
  <2>1. PICK text, list : /\ text = SubSeq(Serialized(nodes), 1, n)
                          /\ list = IF ArrayEnds(text) = {} THEN nodes ELSE Deserialized(text)
    OBVIOUS
  <2>2. Replace(list)
    BY <1>5, <2>1 DEF Reload
  <2>3. list \in Seq(Node) /\ Len(list) <= MaxNodes
    <3>1. CASE ArrayEnds(text) = {}
      BY <1>1, <2>1, <3>1
    <3>2. CASE ArrayEnds(text) # {}
      <4>1. list \in Seq(Node) /\ Len(list) <= Len(nodes)
        BY <1>1, <2>1, <3>2, DeserializedFacts
      <4>2. Len(list) \in Nat
        BY <4>1
      <4> QED BY <1>1, <4>1, <4>2
    <3> QED BY <3>1, <3>2
  <2>4. LoadsTyped'
    <3>1. loads' \in 0 .. MaxLoads
      BY <1>1, <1>5, ChainAssumption DEF Reload, LoadsTyped
    <3>2. loaded' \in [ok : BOOLEAN, whole : BOOLEAN]
      BY <1>5 DEF Reload
    <3> QED BY <3>1, <3>2 DEF LoadsTyped
  <2> QED BY <2>2, <2>3, <2>4 DEF Replaces
<1>6. ASSUME place \in DOMAIN nodes, NEW output \in {<<>>, Replies[place]}, NodeStep(output)
      PROVE  PromptRuns \/ LLMRuns \/ LLMThrows \/ NoProvider
  <2>1. output \in Texts
    <3>1. place \in 1 .. Len(Replies)
      BY <1>1, <1>6, ChainAssumption
    <3>2. Replies[place] \in Texts /\ <<>> \in Texts
      BY <3>1, ChainAssumption DEF Texts
    <3> QED BY <3>2
  <2>2. ASSUME PromptStep PROVE PromptRuns
    <3>1. nodes[place] \in Node /\ IsVariables(accumulated)
      BY <1>1, <1>6 DEF Types
    <3>2. nodes[place].text \in Texts
      BY <3>1, NodesHoldTexts
    <3>3. PICK t \in Texts : t = nodes[place].text
      BY <3>2
    <3>4. Render(t, accumulated) \in Texts
      BY <3>1, RenderTypes DEF Texts, IsVariables
    <3>5. PromptOutput(t, accumulated) \in Texts
      BY <3>4 DEF PromptOutput
    <3> QED BY <2>2, <3>3, <3>5 DEF PromptStep, PromptRuns
  <2> QED BY <1>6, <2>1, <2>2 DEF NodeStep, LLMRuns
<1> QED BY <1>3, <1>4, <1>5, <1>6 DEF Next, Starts

(* Variables with last_output set are variables.                           *)
LEMMA AssignTypes ==
  ASSUME NEW vs, IsVariables(vs), NEW text \in Texts
  PROVE  IsVariables(Assign(vs, "last_output", text))
<1>1. "last_output" \in Names
  BY ChainAssumption
<1> QED BY <1>1 DEF IsVariables, Assign

(* A question is recorded.                                                 *)
LEMMA AskTypes ==
  ASSUME Types, place \in DOMAIN nodes, Ask
  PROVE  IsAsked(asked', nodes)
<1>1. PICK text \in Texts : text = Question(accumulated)
  BY QuestionFacts DEF Types
<1>2. place \in Nat /\ IsAsked(asked, nodes)
  BY DEF Types
<1>3. PICK call \in [node : Nat, text : Texts] : call = [node |-> place, text |-> text]
  BY <1>2
<1>4. asked' = Append(asked, call) /\ call.node = place
  BY <1>1, <1>3 DEF Ask
<1>5. asked \in Seq([node : Nat, text : Texts]) /\ \A k \in DOMAIN asked : asked[k].node \in DOMAIN nodes
  BY <1>2 DEF IsAsked
<1>6. asked' \in Seq([node : Nat, text : Texts])
  BY <1>4, <1>5
<1>7. \A k \in DOMAIN asked' : (k \in DOMAIN asked /\ asked'[k] = asked[k]) \/ asked'[k] = call
  BY <1>4, <1>5
<1> QED BY <1>4, <1>5, <1>6, <1>7 DEF IsAsked

(* The types hold at first.                                                *)
LEMMA TypesAtFirst == ASSUME Init PROVE Types
<1>1. IsVariables(Nothing) /\ <<>> \in Texts
  BY DEF IsVariables, Nothing, Texts
<1>2. IsResult(Fresh)
  BY <1>1 DEF IsResult, Fresh
<1>3. nodes = <<>> /\ place = 0 /\ outputs = <<>> /\ asked = <<>> /\ loads = 0
  BY DEF Init
<1>4. nodes \in Seq(Node) /\ Len(nodes) <= MaxNodes /\ place \in 0 .. Len(nodes) + 1
  BY <1>3, ChainAssumption
<1>5. IsAsked(asked, nodes)
  BY <1>3 DEF IsAsked
<1>6. loads \in 0 .. MaxLoads /\ loaded \in [ok : BOOLEAN, whole : BOOLEAN]
  BY ChainAssumption DEF Init
<1> QED BY <1>1, <1>2, <1>3, <1>4, <1>5, <1>6 DEF Types, Init

(* A node that succeeds keeps them.                                        *)
LEMMA TypesAfterSuccess ==
  ASSUME Types, place \in DOMAIN nodes, NEW output \in Texts, NEW vs, IsVariables(vs),
         Succeed(output, vs), IsAsked(asked', nodes)
  PROVE  Types'
<1>1. /\ nodes' = nodes /\ place' = place + 1 /\ outputs' = Append(outputs, output)
      /\ accumulated' = vs /\ input' = input /\ loads' = loads /\ loaded' = loaded
  BY DEF Succeed
<1>2. result' = [success |-> TRUE, output |-> output, variables |-> vs]
  BY DEF Succeed
<1>3. IsResult(result')
  BY <1>2 DEF IsResult
<1>4. place' \in 0 .. Len(nodes') + 1
  BY <1>1 DEF Types
<1>5. outputs' \in Seq(Texts) /\ Len(outputs') = place' - 1
  BY <1>1 DEF Types
<1> QED BY <1>1, <1>3, <1>4, <1>5 DEF Types

(* So does one that fails.                                                 *)
LEMMA TypesAfterFailure ==
  ASSUME Types, Fail, IsAsked(asked', nodes)
  PROVE  Types'
<1>1. /\ nodes' = nodes /\ place' = 0 /\ outputs' = outputs
      /\ accumulated' = accumulated /\ input' = input /\ loads' = loads /\ loaded' = loaded
  BY DEF Fail
<1>2. result' = [success |-> FALSE, output |-> <<>>, variables |-> accumulated]
  BY DEF Fail
<1>3. IsResult(result')
  BY <1>2 DEF IsResult, Types, Texts
<1>4. place' \in 0 .. Len(nodes') + 1
  BY <1>1 DEF Types
<1> QED BY <1>1, <1>3, <1>4 DEF Types

(* Every step keeps them.                                                  *)
LEMMA TypesStep == ASSUME Types, [Next]_vars PROVE Types'
<1>1. CASE Replaces
  <2>1. PICK list \in Seq(Node) : Len(list) <= MaxNodes /\ Replace(list) /\ LoadsTyped'
    BY <1>1 DEF Replaces
  <2>2. /\ nodes' = list /\ place' = 0 /\ outputs' = <<>> /\ asked' = <<>>
        /\ accumulated' = Nothing /\ input' = Nothing /\ result' = Fresh
    BY <2>1 DEF Replace
  <2>3. IsVariables(Nothing) /\ <<>> \in Texts
    BY DEF IsVariables, Nothing, Texts
  <2>4. IsResult(result')
    BY <2>2, <2>3 DEF IsResult, Fresh
  <2>5. IsAsked(asked', nodes')
    BY <2>2 DEF IsAsked
  <2>6. place' \in 0 .. Len(nodes') + 1
    BY <2>2
  <2> QED BY <2>1, <2>2, <2>3, <2>4, <2>5, <2>6 DEF Types, LoadsTyped
<1>2. CASE Starts
  <2>1. PICK variables \in Inputs : Start(variables)
    BY <1>2 DEF Starts
  <2>2. /\ nodes' = nodes /\ place' = 1 /\ outputs' = <<>> /\ asked' = <<>>
        /\ accumulated' = variables /\ input' = variables /\ result' = Fresh
        /\ loads' = loads /\ loaded' = loaded
    BY <2>1 DEF Start
  <2>3. IsVariables(variables)
    BY ChainAssumption
  <2>4. IsResult(result')
    BY <2>2 DEF IsResult, Fresh, IsVariables, Nothing, Texts
  <2>5. IsAsked(asked', nodes')
    BY <2>2 DEF IsAsked
  <2>6. place' \in 0 .. Len(nodes') + 1 /\ Len(outputs') = place' - 1
    BY <2>2 DEF Types
  <2> QED BY <2>2, <2>3, <2>4, <2>5, <2>6 DEF Types
<1>3. CASE PromptRuns
  <2>1. PICK output \in Texts : At("prompt") /\ Succeed(output, accumulated) /\ asked' = asked
    BY <1>3 DEF PromptRuns
  <2>2. place \in DOMAIN nodes /\ IsAsked(asked', nodes) /\ IsVariables(accumulated)
    BY <2>1 DEF At, Types
  <2> QED BY <2>1, <2>2, TypesAfterSuccess
<1>4. CASE LLMRuns
  <2>1. PICK output \in Texts : LLMAnswers(output)
    BY <1>4 DEF LLMRuns
  <2>2. place \in DOMAIN nodes /\ Ask
    BY <2>1 DEF LLMAnswers, At
  <2>3. IsVariables(Assign(accumulated, "last_output", output))
    BY AssignTypes DEF Types
  <2> QED BY <2>1, <2>2, <2>3, AskTypes, TypesAfterSuccess DEF LLMAnswers
<1>5. CASE LLMThrows
  <2>1. place \in DOMAIN nodes /\ Ask /\ Fail
    BY <1>5 DEF LLMThrows, At
  <2> QED BY <2>1, AskTypes, TypesAfterFailure
<1>6. CASE NoProvider
  <2>1. IsAsked(asked', nodes) /\ Fail
    BY <1>6 DEF NoProvider, Types
  <2> QED BY <2>1, TypesAfterFailure
<1>7. CASE Finish
  <2>1. /\ nodes' = nodes /\ place' = 0 /\ outputs' = outputs /\ asked' = asked
        /\ accumulated' = accumulated /\ input' = input /\ loads' = loads /\ loaded' = loaded
        /\ result' = [result EXCEPT !.variables = accumulated]
    BY <1>7 DEF Finish
  <2>2. IsResult(result')
    BY <2>1 DEF IsResult, Types
  <2>3. place' \in 0 .. Len(nodes') + 1
    BY <2>1 DEF Types
  <2> QED BY <2>1, <2>2, <2>3 DEF Types
<1>8. CASE UNCHANGED vars
  BY <1>8 DEF Types, vars, run
<1> QED BY <1>1, <1>2, <1>3, <1>4, <1>5, <1>6, <1>7, <1>8, StepCases

-----------------------------------------------------------------------------
(* The run                                                                 *)

(* The LLM nodes among the first n nodes.                                  *)
Provided(list, n) == {i \in 1 .. Len(list) : list[i].type = "llm" /\ i <= n}

(* The nodes that were executed, the one that failed included.             *)
Executed(outs, res) == Len(outs) + (IF res.success THEN 0 ELSE 1)

Greatest(i, places) == i \in places /\ \A j \in places : j <= i

(* Between nodes the result is the last node's.                            *)
UnderWay(at, res, outs) ==
  at # 0 => /\ res.success
            /\ outs # <<>> => res.output = outs[Len(outs)]

(* The LLM nodes executed are asked once each, in their order.             *)
AskedOnce(list, calls, n) ==
  /\ \A k \in DOMAIN calls : calls[k].node \in Provided(list, n)
  /\ \A i \in Provided(list, n) : \E k \in DOMAIN calls : calls[k].node = i
  /\ \A j, k \in DOMAIN calls : j < k => calls[j].node < calls[k].node

(* The accumulated variables: as the caller gave them, the last answer     *)
(* for last_output.                                                        *)
Accumulates(list, acc, inp, outs) ==
  /\ DOMAIN inp \subseteq DOMAIN acc
  /\ \A n \in DOMAIN acc : n # "last_output" => n \in DOMAIN inp /\ acc[n] = inp[n]
  /\ Provided(list, Len(outs)) = {} => acc = inp
  /\ Provided(list, Len(outs)) # {} =>
       \E i \in Provided(list, Len(outs)) :
              /\ Greatest(i, Provided(list, Len(outs)))
              /\ "last_output" \in DOMAIN acc /\ acc["last_output"] = outs[i]

(* AskedWithLatestAnswer, and that the answer before was there by then.    *)
LatestAsked(calls, inp, outs) ==
  \A k \in DOMAIN calls :
    /\ k > 1 => /\ calls[k - 1].node \in DOMAIN outs
                /\ calls[k].text = outs[calls[k - 1].node]
    /\ k = 1 => IF "last_output" \in DOMAIN inp
                THEN calls[k].text = inp["last_output"]
                ELSE \A n \in DOMAIN inp : Line(n, inp) \in SubSeqs(calls[k].text)

(* What run has returned.                                                  *)
Returned(list, at, acc, res, outs) ==
  at = 0 /\ (outs # <<>> \/ ~res.success) =>
    /\ res.variables = acc
    /\ res.success => Len(outs) = Len(list) /\ res.output = outs[Len(outs)]
    /\ ~res.success => /\ res.output = <<>>
                       /\ Len(outs) + 1 \in DOMAIN list
                       /\ list[Len(outs) + 1].type # "prompt"

(* The inductive invariant.                                                *)
ChainInv ==
  /\ Types
  /\ UnderWay(place, result, outputs)
  /\ AskedOnce(nodes, asked, Executed(outputs, result))
  /\ Accumulates(nodes, accumulated, input, outputs)
  /\ LatestAsked(asked, input, outputs)
  /\ Returned(nodes, place, accumulated, result, outputs)

(* A run that has not come to a node yet has everything to say.            *)
LEMMA NothingYet ==
  ASSUME NEW list \in Seq(Node), NEW vs, NEW at, NEW res, res = Fresh
  PROVE  /\ UnderWay(at, res, <<>>)
         /\ AskedOnce(list, <<>>, Executed(<<>>, res))
         /\ Accumulates(list, vs, vs, <<>>)
         /\ LatestAsked(<<>>, vs, <<>>)
         /\ Returned(list, at, vs, res, <<>>)
<1>1. Len(<<>>) = 0 /\ res.success
  BY DEF Fresh
<1>2. Executed(<<>>, res) = 0
  BY <1>1 DEF Executed
<1>3. Provided(list, 0) = {}
  BY DEF Provided
<1>4. AskedOnce(list, <<>>, 0)
  BY <1>3 DEF AskedOnce
<1>5. Accumulates(list, vs, vs, <<>>)
  BY <1>1, <1>3 DEF Accumulates
<1>6. UnderWay(at, res, <<>>) /\ Returned(list, at, vs, res, <<>>) /\ LatestAsked(<<>>, vs, <<>>)
  BY <1>1 DEF UnderWay, Returned, LatestAsked
<1> QED BY <1>2, <1>4, <1>5, <1>6

(* One more node is executed: whether it is an LLM node decides.           *)
LEMMA OneMoreNode ==
  ASSUME NEW list \in Seq(Node), NEW n \in Nat, n + 1 \in 1 .. Len(list)
  PROVE  Provided(list, n + 1) = IF list[n + 1].type = "llm"
                                 THEN Provided(list, n) \cup {n + 1} ELSE Provided(list, n)
<1>1. Len(list) \in Nat
  OBVIOUS
<1>2. ASSUME NEW i
      PROVE  i \in Provided(list, n + 1)
               <=> i \in Provided(list, n) \/ (i = n + 1 /\ list[n + 1].type = "llm")
  <2>1. i \in 1 .. Len(list) => (i <= n + 1 <=> i <= n \/ i = n + 1)
    BY <1>1
  <2>2. ~(n + 1 <= n)
    OBVIOUS
  <2> QED BY <2>1, <2>2 DEF Provided
<1>3. CASE list[n + 1].type = "llm"
  BY <1>2, <1>3
<1>4. CASE list[n + 1].type # "llm"
  BY <1>2, <1>4
<1> QED BY <1>3, <1>4

(* Calls with one more, to a later node.                                   *)
LEMMA OneMoreCall ==
  ASSUME NEW list \in Seq(Node), NEW n \in Nat, n + 1 \in 1 .. Len(list),
         list[n + 1].type = "llm", NEW calls, IsAsked(calls, list),
         AskedOnce(list, calls, n), NEW call \in [node : Nat, text : Texts], call.node = n + 1
  PROVE  AskedOnce(list, Append(calls, call), n + 1)
<1>1. PICK more : more = Append(calls, call)
  OBVIOUS
<1>2. PICK m \in Nat : m = Len(calls)
  BY DEF IsAsked
<1>3. /\ DOMAIN calls = 1 .. m /\ DOMAIN more = 1 .. m + 1
      /\ more[m + 1] = call /\ \A k \in 1 .. m : more[k] = calls[k]
  BY <1>1, <1>2 DEF IsAsked
<1>4. \A i : i \in Provided(list, n + 1) <=> i \in Provided(list, n) \/ i = n + 1
  <2>1. Provided(list, n + 1) = Provided(list, n) \cup {n + 1}
    BY OneMoreNode
  <2> QED BY <2>1
<1>5. \A k \in 1 .. m : more[k].node \in Provided(list, n)
  BY <1>3 DEF AskedOnce
<1>6. \A k \in 1 .. m + 1 : k \in 1 .. m \/ k = m + 1
  OBVIOUS
<1>7. \A k \in 1 .. m + 1 : more[k].node \in Provided(list, n + 1)
  BY <1>3, <1>4, <1>5, <1>6
<1>8. ASSUME NEW i \in Provided(list, n + 1) PROVE \E k \in 1 .. m + 1 : more[k].node = i
  <2>1. CASE i \in Provided(list, n)
    <3>1. PICK k \in 1 .. m : calls[k].node = i
      BY <1>3, <2>1 DEF AskedOnce
    <3>2. k \in 1 .. m + 1
      OBVIOUS
    <3> QED BY <1>3, <3>1, <3>2
  <2>2. CASE i = n + 1
    <3>1. m + 1 \in 1 .. m + 1
      OBVIOUS
    <3> QED BY <1>3, <2>2, <3>1
  <2> QED BY <1>4, <2>1, <2>2
<1>9. ASSUME NEW j \in 1 .. m + 1, NEW k \in 1 .. m + 1, j < k
      PROVE  more[j].node < more[k].node
  <2>1. j \in 1 .. m
    BY <1>9
  <2>2. CASE k \in 1 .. m
    BY <1>3, <1>9, <2>1, <2>2 DEF AskedOnce
  <2>3. CASE k = m + 1
    <3>1. more[j].node \in Provided(list, n)
      BY <1>5, <2>1
    <3>2. more[j].node \in Nat /\ more[j].node <= n
      BY <3>1 DEF Provided
    <3>3. more[k].node = n + 1
      BY <1>3, <2>3
    <3> QED BY <3>2, <3>3
  <2> QED BY <1>6, <2>2, <2>3
<1> QED BY <1>1, <1>3, <1>7, <1>8, <1>9 DEF AskedOnce

(* What the LLM nodes were asked stays what it was when a node answers.    *)
LEMMA LatestStays ==
  ASSUME NEW calls, NEW inp, NEW outs \in Seq(Texts), NEW output \in Texts,
         LatestAsked(calls, inp, outs)
  PROVE  LatestAsked(calls, inp, Append(outs, output))
<1>1. \A i \in DOMAIN outs : /\ i \in DOMAIN Append(outs, output)
                             /\ Append(outs, output)[i] = outs[i]
  OBVIOUS
<1>2. PICK more : more = Append(outs, output)
  OBVIOUS
<1>3. \A i \in DOMAIN outs : i \in DOMAIN more /\ more[i] = outs[i]
  BY <1>1, <1>2
<1> QED BY <1>2, <1>3 DEF LatestAsked

(* The next LLM node is asked the answer of the last one, the first one    *)
(* what the caller gave.                                                   *)
LEMMA LatestIsAsked ==
  ASSUME NEW list \in Seq(Node), NEW calls, NEW inp, NEW acc, NEW outs \in Seq(Texts),
         NEW text, text = Question(acc), NEW asking, IsVariables(acc),
         IsAsked(calls, list), AskedOnce(list, calls, Len(outs)),
         Accumulates(list, acc, inp, outs), LatestAsked(calls, inp, outs)
  PROVE  LatestAsked(Append(calls, [node |-> asking, text |-> text]), inp, outs)
<1>1. PICK call : call = [node |-> asking, text |-> text]
  OBVIOUS
<1>2. PICK more : more = Append(calls, call)
  OBVIOUS
<1>3. PICK m \in Nat : m = Len(calls)
  BY DEF IsAsked
<1>4. /\ DOMAIN calls = 1 .. m /\ DOMAIN more = 1 .. m + 1
      /\ more[m + 1] = call /\ \A k \in 1 .. m : more[k] = calls[k]
  BY <1>2, <1>3 DEF IsAsked
<1>5. PICK n \in Nat : n = Len(outs) /\ DOMAIN outs = 1 .. n
  OBVIOUS
<1>6. call.text = text
  BY <1>1
<1>7. CASE m = 0
  <2>1. Provided(list, n) = {}
    BY <1>4, <1>5, <1>7 DEF AskedOnce
  <2>2. acc = inp
    BY <1>5, <2>1 DEF Accumulates
  <2>3. IF "last_output" \in DOMAIN inp THEN text = inp["last_output"]
        ELSE \A x \in DOMAIN inp : Line(x, inp) \in SubSeqs(text)
    <3>1. CASE "last_output" \in DOMAIN inp
      BY <2>2, <3>1 DEF Question
    <3>2. CASE "last_output" \notin DOMAIN inp
      BY <2>2, <3>2, QuestionFacts
    <3> QED BY <3>1, <3>2
  <2>4. \A k \in DOMAIN more : k = 1 /\ more[k].text = text
    BY <1>4, <1>6, <1>7
  <2>5. LatestAsked(more, inp, outs)
    BY <2>3, <2>4 DEF LatestAsked
  <2> QED BY <1>1, <1>2, <2>5
<1>8. CASE m # 0
  <2>1. m \in 1 .. m
    BY <1>8
  <2>2. PICK before \in Provided(list, n) : before = calls[m].node
    BY <1>4, <1>5, <2>1 DEF AskedOnce
  <2>3. before \in 1 .. n
    BY <2>2 DEF Provided
  <2>4. PICK i : /\ Greatest(i, Provided(list, n))
                 /\ "last_output" \in DOMAIN acc /\ acc["last_output"] = outs[i]
    BY <1>5, <2>2 DEF Accumulates
  <2>5. i = before
    <3>1. i \in Provided(list, n) /\ before <= i
      BY <2>2, <2>4 DEF Greatest
    <3>2. PICK k \in 1 .. m : calls[k].node = i
      BY <1>4, <1>5, <3>1 DEF AskedOnce
    <3>3. i \in Nat /\ before \in Nat
      BY <2>3, <3>1 DEF Provided
    <3>4. k < m \/ k = m
      BY <3>2
    <3>5. k < m => calls[k].node < calls[m].node
      BY <1>4, <2>1, <3>2 DEF AskedOnce
    <3>6. k < m => i < before
      BY <2>2, <3>2, <3>5
    <3>7. k = m => i = before
      BY <2>2, <3>2
    <3> QED BY <3>1, <3>3, <3>4, <3>6, <3>7
  <2>6. text = outs[before]
    BY <2>4, <2>5 DEF Question
  <2>7. ASSUME NEW k \in 1 .. m + 1
        PROVE  /\ k > 1 => /\ more[k - 1].node \in DOMAIN outs
                           /\ more[k].text = outs[more[k - 1].node]
               /\ k = 1 => IF "last_output" \in DOMAIN inp
                           THEN more[k].text = inp["last_output"]
                           ELSE \A x \in DOMAIN inp : Line(x, inp) \in SubSeqs(more[k].text)
    <3>1. CASE k \in 1 .. m
      <4>1. more[k] = calls[k] /\ k \in DOMAIN calls
        BY <1>4, <3>1
      <4>2. k > 1 => more[k - 1] = calls[k - 1]
        <5>1. k > 1 => k - 1 \in 1 .. m
          BY <3>1
        <5> QED BY <1>4, <5>1
      <4> QED BY <4>1, <4>2 DEF LatestAsked
    <3>2. CASE k = m + 1
      <4>1. k > 1 /\ k # 1 /\ k - 1 = m
        BY <1>8, <3>2
      <4>2. more[k].text = text /\ more[k - 1].node = before
        BY <1>4, <1>6, <2>1, <2>2, <3>2, <4>1
      <4> QED BY <1>5, <2>3, <2>6, <4>1, <4>2
    <3> QED BY <3>1, <3>2
  <2>8. LatestAsked(more, inp, outs)
    BY <1>4, <2>7 DEF LatestAsked
  <2> QED BY <1>1, <1>2, <2>8
<1> QED BY <1>7, <1>8

(* The variables after a prompt node.                                      *)
LEMMA PromptAccumulates ==
  ASSUME NEW list \in Seq(Node), NEW acc, NEW inp, NEW outs \in Seq(Texts),
         NEW output \in Texts, Len(outs) + 1 \in 1 .. Len(list),
         list[Len(outs) + 1].type # "llm", Accumulates(list, acc, inp, outs)
  PROVE  Accumulates(list, acc, inp, Append(outs, output))
<1>1. PICK n \in Nat : n = Len(outs)
  OBVIOUS
<1>2. PICK more : more = Append(outs, output)
  OBVIOUS
<1>3. Len(more) = n + 1 /\ \A i \in 1 .. n : more[i] = outs[i]
  BY <1>1, <1>2
<1>4. Provided(list, n + 1) = Provided(list, n)
  BY <1>1, OneMoreNode
<1>5. ASSUME NEW i, Greatest(i, Provided(list, n)) PROVE more[i] = outs[i]
  <2>1. i \in 1 .. n
    BY <1>5 DEF Greatest, Provided
  <2> QED BY <1>3, <2>1
<1>6. Accumulates(list, acc, inp, more)
  BY <1>1, <1>3, <1>4, <1>5 DEF Accumulates
<1> QED BY <1>2, <1>6

(* The variables after an LLM node.                                        *)
LEMMA AnswerAccumulates ==
  ASSUME NEW list \in Seq(Node), NEW acc, NEW inp, NEW outs \in Seq(Texts),
         NEW output \in Texts, Len(outs) + 1 \in 1 .. Len(list),
         list[Len(outs) + 1].type = "llm", Accumulates(list, acc, inp, outs)
  PROVE  Accumulates(list, Assign(acc, "last_output", output), inp, Append(outs, output))
<1>1. PICK n \in Nat : n = Len(outs)
  OBVIOUS
<1>2. PICK more : more = Append(outs, output)
  OBVIOUS
<1>3. Len(more) = n + 1 /\ more[n + 1] = output
  BY <1>1, <1>2
<1>4. Provided(list, n + 1) = Provided(list, n) \cup {n + 1}
  BY <1>1, OneMoreNode
<1>5. Greatest(n + 1, Provided(list, n + 1))
  <2>1. ASSUME NEW j \in Provided(list, n + 1) PROVE j <= n + 1
    BY DEF Provided
  <2> QED BY <1>4, <2>1 DEF Greatest
<1>6. PICK after : after = Assign(acc, "last_output", output)
  OBVIOUS
<1>7. /\ DOMAIN after = DOMAIN acc \cup {"last_output"}
      /\ after["last_output"] = output
      /\ \A x \in DOMAIN acc : x # "last_output" => after[x] = acc[x]
  BY <1>6 DEF Assign
<1>8. /\ DOMAIN inp \subseteq DOMAIN after
      /\ \A x \in DOMAIN after : x # "last_output" => x \in DOMAIN inp /\ after[x] = inp[x]
  BY <1>7 DEF Accumulates
<1>9. Provided(list, n + 1) # {}
  BY <1>4
<1>10. Accumulates(list, after, inp, more)
  BY <1>3, <1>5, <1>7, <1>8, <1>9 DEF Accumulates, Greatest
<1> QED BY <1>2, <1>6, <1>10

(* Where run is at a node, all nodes before it have succeeded.             *)
LEMMA AtANode ==
  ASSUME ChainInv, place \in DOMAIN nodes
  PROVE  /\ nodes \in Seq(Node) /\ outputs \in Seq(Texts) /\ Len(outputs) \in Nat
         /\ place = Len(outputs) + 1 /\ place \in 1 .. Len(nodes) /\ place # 0
         /\ result.success /\ Executed(outputs, result) = Len(outputs)
<1>1. nodes \in Seq(Node) /\ outputs \in Seq(Texts) /\ Len(outputs) \in Nat
  BY DEF ChainInv, Types
<1>2. place \in 1 .. Len(nodes) /\ place # 0
  BY <1>1
<1>3. Len(outputs) = place - 1 /\ result.success
  BY <1>2 DEF ChainInv, Types, UnderWay
<1> QED BY <1>1, <1>2, <1>3 DEF Executed

(* A node that succeeds keeps the invariant, if its call and its variables *)
(* are what they should be.                                                *)
LEMMA SuccessKeeps ==
  ASSUME ChainInv, Types', place \in DOMAIN nodes, NEW output \in Texts, NEW vs,
         Succeed(output, vs),
         AskedOnce(nodes, asked', Len(outputs) + 1),
         LatestAsked(asked', input, outputs),
         Accumulates(nodes, vs, input, Append(outputs, output))
  PROVE  ChainInv'
<1>1. /\ nodes' = nodes /\ place' = place + 1 /\ outputs' = Append(outputs, output)
      /\ accumulated' = vs /\ input' = input
      /\ result' = [success |-> TRUE, output |-> output, variables |-> vs]
  BY DEF Succeed
<1>2. outputs \in Seq(Texts) /\ Len(outputs) \in Nat /\ place \in Nat
  BY AtANode
<1>3. result'.success /\ result'.output = output /\ place' # 0
  BY <1>1, <1>2
<1>4. Len(outputs') = Len(outputs) + 1 /\ outputs'[Len(outputs')] = output
  BY <1>1, <1>2
<1>5. Executed(outputs', result') = Len(outputs) + 1
  BY <1>2, <1>3, <1>4 DEF Executed
<1>6. UnderWay(place', result', outputs')
  BY <1>3, <1>4 DEF UnderWay
<1>7. AskedOnce(nodes', asked', Executed(outputs', result'))
  BY <1>1, <1>5
<1>8. Accumulates(nodes', accumulated', input', outputs')
  BY <1>1
<1>9. LatestAsked(asked', input', outputs')
  BY <1>1, <1>2, LatestStays
<1>10. Returned(nodes', place', accumulated', result', outputs')
  BY <1>3 DEF Returned
<1> QED BY <1>6, <1>7, <1>8, <1>9, <1>10 DEF ChainInv

(* So does one that fails and is no prompt.                                *)
LEMMA FailureKeeps ==
  ASSUME ChainInv, Types', place \in DOMAIN nodes, nodes[place].type # "prompt", Fail,
         AskedOnce(nodes, asked', Len(outputs) + 1),
         LatestAsked(asked', input, outputs)
  PROVE  ChainInv'
<1>1. /\ nodes' = nodes /\ place' = 0 /\ outputs' = outputs
      /\ accumulated' = accumulated /\ input' = input
      /\ result' = [success |-> FALSE, output |-> <<>>, variables |-> accumulated]
  BY DEF Fail
<1>2. Len(outputs) \in Nat /\ place = Len(outputs) + 1
  BY AtANode
<1>3. ~result'.success /\ result'.output = <<>> /\ result'.variables = accumulated
  BY <1>1
<1>4. Executed(outputs', result') = Len(outputs) + 1
  BY <1>1, <1>2, <1>3 DEF Executed
<1>5. UnderWay(place', result', outputs')
  BY <1>1 DEF UnderWay
<1>6. AskedOnce(nodes', asked', Executed(outputs', result'))
  BY <1>1, <1>4
<1>7. Accumulates(nodes', accumulated', input', outputs')
  BY <1>1 DEF ChainInv
<1>8. LatestAsked(asked', input', outputs')
  BY <1>1
<1>9. Returned(nodes', place', accumulated', result', outputs')
  BY <1>1, <1>2, <1>3 DEF Returned
<1> QED BY <1>5, <1>6, <1>7, <1>8, <1>9 DEF ChainInv

(* What an LLM node was asked fits what was asked before.                  *)
LEMMA AskKeeps ==
  ASSUME ChainInv, At("llm"), Ask
  PROVE  /\ AskedOnce(nodes, asked', Len(outputs) + 1)
         /\ LatestAsked(asked', input, outputs)
<1>1. PICK text \in Texts : text = Question(accumulated)
  BY QuestionFacts DEF ChainInv, Types
<1>2. /\ nodes \in Seq(Node) /\ outputs \in Seq(Texts) /\ Len(outputs) \in Nat
      /\ place = Len(outputs) + 1 /\ place \in 1 .. Len(nodes) /\ place \in Nat
      /\ nodes[place].type = "llm" /\ Executed(outputs, result) = Len(outputs)
  BY AtANode DEF At
<1>3. PICK call \in [node : Nat, text : Texts] : call = [node |-> place, text |-> text]
  BY <1>2
<1>4. asked' = Append(asked, call) /\ call.node = place
  BY <1>1, <1>3 DEF Ask
<1>5. /\ IsAsked(asked, nodes) /\ IsVariables(accumulated)
      /\ AskedOnce(nodes, asked, Len(outputs))
      /\ Accumulates(nodes, accumulated, input, outputs)
      /\ LatestAsked(asked, input, outputs)
  BY <1>2 DEF ChainInv, Types
<1>6. AskedOnce(nodes, Append(asked, call), Len(outputs) + 1)
  BY <1>2, <1>4, <1>5, OneMoreCall
<1>7. LatestAsked(Append(asked, [node |-> place, text |-> text]), input, outputs)
  BY <1>1, <1>2, <1>5, LatestIsAsked
<1> QED BY <1>3, <1>4, <1>6, <1>7

(* Where no LLM node is executed nothing is missing among the calls.       *)
LEMMA NoCallMissing ==
  ASSUME ChainInv, place \in DOMAIN nodes, nodes[place].type # "llm"
  PROVE  /\ AskedOnce(nodes, asked, Len(outputs) + 1)
         /\ LatestAsked(asked, input, outputs)
<1>1. /\ nodes \in Seq(Node) /\ Len(outputs) \in Nat /\ place = Len(outputs) + 1
      /\ place \in 1 .. Len(nodes) /\ Executed(outputs, result) = Len(outputs)
  BY AtANode
<1>2. Provided(nodes, Len(outputs) + 1) = Provided(nodes, Len(outputs))
  BY <1>1, OneMoreNode
<1>3. AskedOnce(nodes, asked, Len(outputs)) /\ LatestAsked(asked, input, outputs)
  BY <1>1 DEF ChainInv
<1> QED BY <1>2, <1>3 DEF AskedOnce

(* The invariant holds at first.                                           *)
LEMMA ChainInvAtFirst == ASSUME Init PROVE ChainInv
<1>1. Types /\ nodes \in Seq(Node)
  BY TypesAtFirst DEF Types
<1>2. result = Fresh /\ outputs = <<>> /\ asked = <<>> /\ accumulated = input
  BY DEF Init
<1> QED BY <1>1, <1>2, NothingYet DEF ChainInv

(* Every step keeps it.                                                    *)
LEMMA ChainInvStep == ASSUME ChainInv, [Next]_vars PROVE ChainInv'
<1>1. Types'
  BY TypesStep DEF ChainInv
<1>2. CASE Replaces
  <2>1. PICK list \in Seq(Node) : Replace(list)
    BY <1>2 DEF Replaces
  <2>2. /\ nodes' = list /\ outputs' = <<>> /\ asked' = <<>>
        /\ accumulated' = Nothing /\ input' = Nothing /\ result' = Fresh
    BY <2>1 DEF Replace
  <2> QED BY <1>1, <2>2, NothingYet DEF ChainInv
<1>3. CASE Starts
  <2>1. PICK variables \in Inputs : Start(variables)
    BY <1>3 DEF Starts
  <2>2. /\ nodes' = nodes /\ outputs' = <<>> /\ asked' = <<>>
        /\ accumulated' = variables /\ input' = variables /\ result' = Fresh
    BY <2>1 DEF Start
  <2>3. nodes \in Seq(Node)
    BY DEF ChainInv, Types
  <2> QED BY <1>1, <2>2, <2>3, NothingYet DEF ChainInv
<1>4. CASE PromptRuns
  <2>1. PICK output \in Texts : At("prompt") /\ Succeed(output, accumulated) /\ asked' = asked
    BY <1>4 DEF PromptRuns
  <2>2. place \in DOMAIN nodes /\ nodes[place].type # "llm"
    BY <2>1 DEF At
  <2>3. AskedOnce(nodes, asked', Len(outputs) + 1) /\ LatestAsked(asked', input, outputs)
    BY <2>1, <2>2, NoCallMissing
  <2>4. Accumulates(nodes, accumulated, input, Append(outputs, output))
    <3>1. /\ nodes \in Seq(Node) /\ outputs \in Seq(Texts)
          /\ Len(outputs) + 1 \in 1 .. Len(nodes) /\ nodes[Len(outputs) + 1].type # "llm"
      BY <2>2, AtANode
    <3> QED BY <3>1, PromptAccumulates DEF ChainInv
  <2> QED BY <1>1, <2>1, <2>2, <2>3, <2>4, SuccessKeeps
<1>5. CASE LLMRuns
  <2>1. PICK output \in Texts : LLMAnswers(output)
    BY <1>5 DEF LLMRuns
  <2>2. At("llm") /\ Ask /\ Succeed(output, Assign(accumulated, "last_output", output))
    BY <2>1 DEF LLMAnswers
  <2>3. AskedOnce(nodes, asked', Len(outputs) + 1) /\ LatestAsked(asked', input, outputs)
    BY <2>2, AskKeeps
  <2>4. place \in DOMAIN nodes /\ nodes[place].type = "llm"
    BY <2>2 DEF At
  <2>5. Accumulates(nodes, Assign(accumulated, "last_output", output), input,
                    Append(outputs, output))
    <3>1. /\ nodes \in Seq(Node) /\ outputs \in Seq(Texts)
          /\ Len(outputs) + 1 \in 1 .. Len(nodes) /\ nodes[Len(outputs) + 1].type = "llm"
      BY <2>4, AtANode
    <3> QED BY <3>1, AnswerAccumulates DEF ChainInv
  <2> QED BY <1>1, <2>2, <2>3, <2>4, <2>5, SuccessKeeps
<1>6. CASE LLMThrows
  <2>1. At("llm") /\ Ask /\ Fail
    BY <1>6 DEF LLMThrows
  <2>2. place \in DOMAIN nodes /\ nodes[place].type # "prompt"
    BY <2>1 DEF At
  <2>3. AskedOnce(nodes, asked', Len(outputs) + 1) /\ LatestAsked(asked', input, outputs)
    BY <2>1, AskKeeps
  <2> QED BY <1>1, <2>1, <2>2, <2>3, FailureKeeps
<1>7. CASE NoProvider
  <2>1. At("null") /\ Fail /\ asked' = asked
    BY <1>7 DEF NoProvider
  <2>2. place \in DOMAIN nodes /\ nodes[place].type # "prompt" /\ nodes[place].type # "llm"
    BY <2>1 DEF At
  <2>3. AskedOnce(nodes, asked', Len(outputs) + 1) /\ LatestAsked(asked', input, outputs)
    BY <2>1, <2>2, NoCallMissing
  <2> QED BY <1>1, <2>1, <2>2, <2>3, FailureKeeps
<1>8. CASE Finish
  <2>1. /\ place = Len(nodes) + 1 /\ place' = 0 /\ result' = [result EXCEPT !.variables = accumulated]
        /\ nodes' = nodes /\ outputs' = outputs /\ asked' = asked
        /\ accumulated' = accumulated /\ input' = input
    BY <1>8 DEF Finish
  <2>2. /\ result'.success = result.success /\ result'.output = result.output
        /\ result'.variables = accumulated
    BY <2>1 DEF ChainInv, Types, IsResult
  <2>3. place # 0 /\ Len(outputs) = Len(nodes)
    <3>1. Len(nodes) \in Nat /\ Len(outputs) \in Nat
      BY DEF ChainInv, Types
    <3>2. place # 0
      BY <2>1, <3>1
    <3>3. Len(outputs) = place - 1
      BY <3>2 DEF ChainInv, Types
    <3> QED BY <2>1, <3>1, <3>2, <3>3
  <2>4. result.success /\ (outputs # <<>> => result.output = outputs[Len(outputs)])
    BY <2>3 DEF ChainInv, UnderWay
  <2>5. Executed(outputs', result') = Executed(outputs, result)
    BY <2>1, <2>2 DEF Executed
  <2>6. Returned(nodes', place', accumulated', result', outputs')
    BY <2>1, <2>2, <2>3, <2>4 DEF Returned
  <2>7. UnderWay(place', result', outputs')
    BY <2>1 DEF UnderWay
  <2> QED BY <1>1, <2>1, <2>5, <2>6, <2>7 DEF ChainInv
<1>9. CASE UNCHANGED vars
  <2>1. /\ nodes' = nodes /\ place' = place /\ accumulated' = accumulated /\ result' = result
        /\ input' = input /\ outputs' = outputs /\ asked' = asked
    BY <1>9 DEF vars, run
  <2> QED BY <1>1, <2>1 DEF ChainInv
<1> QED BY <1>2, <1>3, <1>4, <1>5, <1>6, <1>7, <1>8, <1>9, StepCases DEF ChainInv

(* The inductive invariant holds of every chain.                           *)
THEOREM ChainInvariant == Spec => []ChainInv
<1>1. Init => ChainInv
  BY ChainInvAtFirst
<1>2. ChainInv /\ [Next]_vars => ChainInv'
  BY ChainInvStep
<1> QED BY <1>1, <1>2, PTL DEF Spec

(* Whatever is added, run, saved and loaded in whatever order, a chain is  *)
(* a list of typed nodes within its bound, a run is at one node at most    *)
(* and every node before it has an output.                                 *)
THEOREM ChainTypes == Spec => []TypeOK
<1>1. ASSUME ChainInv PROVE TypeOK
  <2>1. nodes \in Seq([type : {"prompt", "llm", "null"}, text : Texts])
    <3>1. nodes \in Seq(Node)
      BY <1>1 DEF ChainInv, Types
    <3>2. ASSUME NEW node \in Node
          PROVE  node \in [type : {"prompt", "llm", "null"}, text : Texts]
      BY NodesHoldTexts
    <3>3. PICK typed : typed = [type : {"prompt", "llm", "null"}, text : Texts]
      OBVIOUS
    <3>4. Node \subseteq typed
      BY <3>2, <3>3
    <3>5. nodes \in Seq(typed)
      BY <3>1, <3>4
    <3> QED BY <3>3, <3>5
  <2>2. ASSUME NEW k \in DOMAIN asked PROVE asked[k].node \in DOMAIN nodes /\ asked[k].text \in Texts
    <3>1. asked[k].node \in DOMAIN nodes /\ asked \in Seq([node : Nat, text : Texts])
      BY <1>1 DEF ChainInv, Types, IsAsked
    <3>2. PICK calls : calls = [node : Nat, text : Texts]
      OBVIOUS
    <3>3. asked \in Seq(calls)
      BY <3>1, <3>2
    <3>4. asked[k] \in calls
      BY <3>3
    <3> QED BY <3>1, <3>2, <3>4
  <2>3. /\ IsVariables(result.variables)
        /\ result.success \in BOOLEAN /\ result.output \in Texts
    BY <1>1 DEF ChainInv, Types, IsResult
  <2> QED BY <1>1, <2>1, <2>2, <2>3 DEF ChainInv, Types, TypeOK
<1> QED BY <1>1, ChainInvariant, PTL

(* LLMNode::execute: whatever lies between two LLM nodes, the second is    *)
(* asked the answer of the first; the first of all is asked the caller's   *)
(* last_output, or a text that has every variable with its name.           *)
THEOREM LatestAnswerIsAsked == Spec => []AskedWithLatestAnswer
<1>1. ASSUME ChainInv PROVE AskedWithLatestAnswer
  <2>1. LatestAsked(asked, input, outputs) /\ \A k \in DOMAIN asked : k > 1 \/ k = 1
    BY <1>1 DEF ChainInv, Types, IsAsked
  <2>2. \A k \in DOMAIN asked : k = 1 => ~(k > 1)
    OBVIOUS
  <2> QED BY <2>1, <2>2 DEF LatestAsked, AskedWithLatestAnswer, Line, LineHead
<1> QED BY <1>1, ChainInvariant, PTL

(* Chain::run: what is returned tells which nodes were executed, with what *)
(* end, and returns the caller's variables beside the last answer.         *)
THEOREM ResultsTellRuns == Spec => []ResultTellsRun
<1>1. ASSUME ChainInv PROVE ResultTellsRun
  <2> SUFFICES ASSUME Ended PROVE ResultTellsRun!2
    BY DEF ResultTellsRun
  <2>1. PICK n \in Nat : n = Len(outputs) /\ DOMAIN outputs = 1 .. n
    BY <1>1 DEF ChainInv, Types
  <2>2. PICK m \in Nat : m = Len(nodes) /\ DOMAIN nodes = 1 .. m
    BY <1>1 DEF ChainInv, Types
  <2>3. /\ result.variables = accumulated
        /\ result.success => n = m /\ result.output = outputs[n]
        /\ ~result.success => /\ result.output = <<>> /\ n + 1 \in 1 .. m
                              /\ nodes[n + 1].type # "prompt"
    BY <1>1, <2>1, <2>2 DEF Ended, ChainInv, Returned
  <2>4. result.success <=> n = m
    <3>1. result.success \in BOOLEAN
      BY <1>1 DEF ChainInv, Types, IsResult
    <3>2. n + 1 \in 1 .. m => n # m
      OBVIOUS
    <3> QED BY <2>3, <3>1, <3>2
  <2>5. result.output = IF result.success THEN Last(outputs) ELSE <<>>
    BY <2>1, <2>3 DEF Last
  <2>6. AskedOnce(nodes, asked, Executed(outputs, result))
    BY <1>1 DEF ChainInv
  <2>7. PICK w \in Nat : asked \in Seq([node : Nat, text : Texts]) /\ w = Len(asked)
                         /\ DOMAIN asked = 1 .. w
    BY <1>1 DEF ChainInv, Types, IsAsked
  <2>8. \A k \in 2 .. w : asked[k - 1].node < asked[k].node
    <3>1. \A k \in 2 .. w : k \in 1 .. w /\ k - 1 \in 1 .. w /\ k - 1 < k
      OBVIOUS
    <3> QED BY <2>6, <2>7, <3>1 DEF AskedOnce
  <2>9. PICK e \in Nat : e = n + (IF result.success THEN 0 ELSE 1)
    OBVIOUS
  <2>10. e = Executed(outputs, result)
    BY <2>1, <2>9 DEF Executed
  <2>11. \A z \in Nat : Provided(nodes, z) = Providers \cap 1 .. z
    BY <2>2 DEF Provided, Providers
  <2>12. {asked[k].node : k \in DOMAIN asked} = Provided(nodes, e)
    BY <2>6, <2>10 DEF AskedOnce
  <2>13. Answered = Provided(nodes, n)
    BY <2>1, <2>11 DEF Answered
  <2>14. Accumulates(nodes, accumulated, input, outputs)
    BY <1>1 DEF ChainInv
  <2>15. ASSUME NEW name \in DOMAIN result.variables
         PROVE  IF name = "last_output" /\ Answered # {}
                THEN result.variables[name] = outputs[CHOOSE i \in Answered :
                                                        \A j \in Answered : i >= j]
                ELSE result.variables[name] = input[name]
    <3>1. CASE name = "last_output" /\ Answered # {}
      <4>1. PICK i : /\ Greatest(i, Answered)
                     /\ "last_output" \in DOMAIN accumulated
                     /\ accumulated["last_output"] = outputs[i]
        BY <2>1, <2>13, <2>14, <3>1 DEF Accumulates
      <4>2. Answered \subseteq Nat
        BY <2>13 DEF Provided
      <4>3. PICK g : g = CHOOSE x \in Answered : \A j \in Answered : x >= j
        OBVIOUS
      <4>4. i \in Answered /\ \A j \in Answered : i >= j
        BY <4>1, <4>2 DEF Greatest
      <4>5. g \in Answered /\ \A j \in Answered : g >= j
        BY <4>3, <4>4
      <4>6. g \in Nat /\ i \in Nat /\ g >= i /\ i >= g
        BY <4>2, <4>4, <4>5
      <4>7. g = i
        BY <4>6
      <4> QED BY <2>3, <3>1, <4>1, <4>3, <4>7
    <3>2. CASE name # "last_output"
      BY <2>3, <2>14, <3>2 DEF Accumulates
    <3>3. CASE Answered = {}
      <4>1. accumulated = input
        BY <2>1, <2>13, <2>14, <3>3 DEF Accumulates
      <4> QED BY <2>3, <3>3, <4>1
    <3> QED BY <3>1, <3>2, <3>3
  <2>16. DOMAIN input \subseteq DOMAIN result.variables
    BY <2>3, <2>14 DEF Accumulates
  <2>17. {asked[k].node : k \in DOMAIN asked}
           = Providers \cap 1 .. n + (IF result.success THEN 0 ELSE 1)
    BY <2>9, <2>11, <2>12
  <2> QED BY <2>1, <2>2, <2>3, <2>4, <2>5, <2>7, <2>8, <2>15, <2>16, <2>17
<1> QED BY <1>1, ChainInvariant, PTL

(* PromptTemplate::render, for every template and all variables: what has  *)
(* no marker stays as it is, a name becomes its value, the empty one too   *)
(* if it is bound, and where no hole is open a template can be cut and its *)
(* parts rendered apart.                                                   *)
THEOREM TemplatesRenderByPieces == Spec => []RenderedByPieces
<1>1. ASSUME ChainInv PROVE RenderedByPieces
  <2>1. ASSUME NEW i \in DOMAIN nodes, NEW vs \in Inputs
        PROVE  RendersByPieces(nodes[i].text, vs)
    <3>1. nodes[i].text \in Seq(Tokens)
      <4>1. nodes[i] \in Node
        BY <1>1 DEF ChainInv, Types
      <4> QED BY <4>1, NodesHoldTexts DEF Texts
    <3>2. ValuesIn(vs, Tokens)
      <4>1. IsVariables(vs)
        BY ChainAssumption
      <4> QED BY <4>1 DEF IsVariables, Texts, ValuesIn
    <3> QED BY <3>1, <3>2, RenderKeepsItsPromise
  <2> QED BY <2>1 DEF RenderedByPieces
<1> QED BY <1>1, ChainInvariant, PTL

(* Each step that loads does so by deserialize.                            *)
LEMMA LoadsByReload ==
  ASSUME Next, loads' # loads
  PROVE  \E n \in 0 .. Len(Serialized(nodes)) : Reload(n)
<1>1. \A node : ~Add(node)
  BY DEF Add
<1>2. ~AddLLM /\ \A t : ~AddPrompt(t)
  BY <1>1 DEF AddLLM, AddPrompt
<1>3. \A variables : ~Start(variables)
  BY DEF Start
<1>4. \A output : ~NodeStep(output)
  BY DEF NodeStep, PromptStep, LLMAnswers, LLMThrows, NoProvider, Succeed, Fail
<1>5. ~Finish
  BY DEF Finish
<1> QED BY <1>2, <1>3, <1>4, <1>5 DEF Next

(* A call of deserialize keeps the prompts.                                *)
LEMMA ReloadKeeps ==
  ASSUME nodes \in Seq(Node), NEW k \in 0 .. Len(Serialized(nodes)), Reload(k)
  PROVE  PromptsKept
<1>1. PICK before \in Seq(Node) : before = PromptsOf(nodes)
  BY PromptsFacts
<1>2. PICK s, text : s = Serialized(nodes) /\ text = SubSeq(s, 1, k)
  OBVIOUS
<1>3. PICK after, ok, whole : after = nodes' /\ ok = loaded'.ok /\ whole = loaded'.whole
  OBVIOUS
<1>4. /\ loaded' = [ok |-> ArrayEnds(text) # {}, whole |-> k = Len(s)]
      /\ after = IF ArrayEnds(text) = {} THEN nodes ELSE Deserialized(text)
  BY <1>2, <1>3 DEF Reload, Replace
<1>5. (ok <=> ArrayEnds(text) # {}) /\ (whole <=> k = Len(s))
  BY <1>3, <1>4
<1>6. ~ok => after = nodes
  BY <1>4, <1>5
<1>7. DOMAIN nodes = 1 .. Len(nodes) /\ DOMAIN before = 1 .. Len(before) /\ Len(nodes) \in 0 .. Len(nodes)
  OBVIOUS
<1>8. ASSUME \A i \in DOMAIN nodes : Balanced(nodes[i].text)
      PROVE  (ok <=> whole) /\ (ok => after = Parsed(Body(nodes)))
  <2>1. /\ ArrayEnds(text) # {} <=> k = Len(s)
        /\ k = Len(s) => Deserialized(text) = Parsed(Body(nodes))
    BY <1>2, <1>8, MatchedComeBack
  <2> QED BY <1>4, <1>5, <2>1
<1>9. ASSUME ok
      PROVE  /\ Len(after) <= Len(before)
             /\ \A i \in 1 .. Len(after) : \E j \in DOMAIN before : Begins(after[i].text, before[j].text)
  <2>1. ArrayEnds(text) # {} /\ after = Deserialized(text)
    BY <1>4, <1>5, <1>9
  <2> QED BY <1>1, <1>2, <1>7, <2>1, DeserializedFacts
<1>10. ASSUME ok, NEW n \in 0 .. Len(nodes), \A i \in 1 .. n : Clean(nodes[i])
       PROVE  FirstKept(nodes, after, n)
  <2>1. ArrayEnds(text) # {} /\ after = Deserialized(text)
    BY <1>4, <1>5, <1>10
  <2>2. CleanTo(nodes, n)
    BY <1>10 DEF CleanTo
  <2> QED BY <1>2, <2>1, <2>2, FirstAreKept
<1>11. ASSUME ok, NEW n \in 0 .. Len(nodes), \A i \in 1 .. n : Clean(nodes[i]),
              \A i \in DOMAIN nodes : Balanced(nodes[i].text)
       PROVE  IsPrefix(PromptsOf(FirstOf(nodes, n)), after)
  <2>1. CleanTo(nodes, n)
    BY <1>11 DEF CleanTo
  <2> QED BY <1>8, <1>11, <2>1, WholeComesBack
<1>12. ASSUME ok, \A i \in 1 .. Len(nodes) : Clean(nodes[i]),
              \A i \in DOMAIN nodes : nodes[i].type = "llm" => Balanced(nodes[i].text)
       PROVE  SavedAgain(after)
  <2>1. ArrayEnds(text) # {} /\ after = Deserialized(text)
    BY <1>4, <1>5, <1>12
  <2>2. CleanTo(nodes, Len(nodes))
    BY <1>12 DEF CleanTo
  <2> QED BY <1>2, <1>7, <1>12, <2>1, <2>2, AllLoadedAgain
<1>13. ASSUME ok, NEW n \in 0 .. Len(nodes), NEW i \in 1 .. Len(after),
              \A h \in 1 .. n : Clean(nodes[h]), i <= Len(PromptsOf(SubSeq(nodes, 1, n)))
       PROVE  \/ after[i] = before[i]
              \/ i = Len(after) /\ IsPrefix(after[i].text \o <<ArrayEnd>>, before[i].text)
  <2>1. FirstKept(nodes, after, n)
    BY <1>10, <1>13
  <2> QED BY <1>1, <1>13, <2>1 DEF FirstKept, FirstOf
<1> QED BY <1>1, <1>3, <1>6, <1>8, <1>9, <1>11, <1>12, <1>13 DEF PromptsKept, SavedAgain, FirstOf

(* Whatever the templates and model names, deserialize brings back nothing *)
(* but saved prompts, or their beginnings; up to a name with a quote or    *)
(* backslash in order, the last perhaps cut at a bracket, and all of them  *)
(* if brackets match; and if no name is like that and brackets match in    *)
(* each, what it brings back is loaded again as it is.                     *)
THEOREM ReloadsKeepPrompts == Spec => ReloadKeepsPrompts
<1>1. ASSUME ChainInv, [Next]_vars PROVE [loads' # loads => PromptsKept]_vars
  <2>1. ASSUME Next, loads' # loads PROVE PromptsKept
    <3>1. nodes \in Seq(Node)
      BY <1>1 DEF ChainInv, Types
    <3> QED BY <2>1, <3>1, LoadsByReload, ReloadKeeps
  <2>2. UNCHANGED vars => loads' = loads
    BY DEF vars
  <2> QED BY <1>1, <2>1, <2>2
<1> QED BY <1>1, ChainInvariant, PTL DEF Spec, ReloadKeepsPrompts
=============================================================================
