----------------------------- MODULE TextLemmas -----------------------------
(***************************************************************************)
(* Induction over data, for the proofs about texts.  The induction         *)
(* theorems of the library quantify over operators; these quantify over    *)
(* sets, so that they can be used: the predicate to prove is the set of    *)
(* what satisfies it.                                                      *)
(***************************************************************************)
EXTENDS Integers, SequencesExt, SequenceTheorems, FiniteSetTheorems,
        WellFoundedInduction, TLAPS

(* A set of natural numbers has a least one.                               *)
LEMMA LeastNatural ==
  ASSUME NEW T \in SUBSET Nat, T # {}
  PROVE  \E x \in T : \A y \in T : x <= y
<1>1. \E R : IsWellFoundedOn(R, Nat) /\ \A x, y \in Nat : y < x => <<y, x>> \in R
  <2>1. IsWellFoundedOn(OpToRel(<, Nat), Nat)
    BY NatLessThanWellFounded
  <2>2. \A x, y \in Nat : y < x => <<y, x>> \in OpToRel(<, Nat)
    BY DEF OpToRel
  <2> QED BY <2>1, <2>2
<1>2. PICK R : IsWellFoundedOn(R, Nat) /\ \A x, y \in Nat : y < x => <<y, x>> \in R
  BY <1>1
<1>3. PICK x \in T : \A y \in T : ~ (<<y, x>> \in R)
  BY <1>2, WFMin
<1>4. \A y \in T : ~(y < x)
  BY <1>2, <1>3
<1> QED BY <1>4

(* Induction up to a bound: Q holds of 0 and with i of i + 1.              *)
LEMMA UpTo ==
  ASSUME NEW n \in Nat, NEW Q, 0 \in Q, \A i \in 0 .. n - 1 : i \in Q => i + 1 \in Q
  PROVE  \A i \in 0 .. n : i \in Q
<1> DEFINE T == {i \in 0 .. n : i \notin Q}
<1> SUFFICES ASSUME T # {} PROVE FALSE
  OBVIOUS
<1>1. PICK x \in T : \A y \in T : x <= y
  <2>1. T \in SUBSET Nat
    OBVIOUS
  <2> HIDE DEF T
  <2> QED BY <2>1, LeastNatural
<1>2. x \in 0 .. n /\ x # 0 /\ x \notin Q
  OBVIOUS
<1>3. x - 1 \in 0 .. n - 1 /\ x - 1 \in 0 .. n /\ (x - 1) + 1 = x /\ ~(x <= x - 1)
  BY <1>2
<1>4. x - 1 \in Q
  BY <1>1, <1>3
<1> QED BY <1>2, <1>3, <1>4

(* What holds of the empty sequence and is kept by appending holds of all. *)
LEMMA SeqInduction ==
  ASSUME NEW S, NEW Q, <<>> \in Q,
         \A s \in Seq(S), e \in S : s \in Q => Append(s, e) \in Q
  PROVE  Seq(S) \subseteq Q
<1> SUFFICES ASSUME NEW t \in Seq(S) PROVE t \in Q
  OBVIOUS
<1> DEFINE P == {k \in 0 .. Len(t) : \A s \in Seq(S) : Len(s) = k => s \in Q}
<1>1. Len(t) \in Nat
  OBVIOUS
<1>2. 0 \in P
  <2>1. ASSUME NEW s \in Seq(S), Len(s) = 0 PROVE s = <<>>
    BY <2>1, EmptySeq
  <2> QED BY <1>1, <2>1
<1>3. ASSUME NEW k \in 0 .. Len(t) - 1, k \in P PROVE k + 1 \in P
  <2>1. ASSUME NEW s \in Seq(S), Len(s) = k + 1 PROVE s \in Q
    <3>1. s # <<>>
      BY <1>1, <2>1
    <3>2. PICK r \in Seq(S), e \in S : s = Append(r, e)
      BY <3>1, SequenceEmptyOrAppend
    <3>3. Len(s) = Len(r) + 1 /\ Len(r) \in Nat
      BY <3>2, AppendProperties
    <3>4. Len(r) = k
      BY <1>1, <2>1, <3>3
    <3>5. r \in Q
      BY <1>3, <3>4
    <3> QED BY <3>2, <3>5
  <2> QED BY <1>1, <2>1
<1>4. Len(t) \in P
  <2> HIDE DEF P
  <2>1. \A k \in 0 .. Len(t) : k \in P
    BY <1>1, <1>2, <1>3, UpTo
  <2> QED BY <1>1, <2>1
<1> QED BY <1>4

-----------------------------------------------------------------------------
(* FlattenSeq                                                              *)

(* The sums of a sequence of sequences.                                    *)
Sums(f, seqs, n) ==
  /\ f[0] = <<>>
  /\ \A i \in 1 .. n : f[i] = f[i - 1] \o seqs[i]

(* There are such.                                                         *)
LEMMA SumsExist ==
  ASSUME NEW S, NEW n \in Nat, NEW seqs \in [1 .. n -> Seq(S)]
  PROVE  \E f \in [0 .. n -> Seq(S)] : Sums(f, seqs, n)
<1> DEFINE Q == {k \in 0 .. n : \E f \in [0 .. k -> Seq(S)] : Sums(f, seqs, k)}
<1>1. 0 \in Q
  <2> DEFINE f == [i \in 0 .. 0 |-> <<>>]
  <2>1. f \in [0 .. 0 -> Seq(S)] /\ Sums(f, seqs, 0)
    BY DEF Sums
  <2> HIDE DEF f
  <2> QED BY <2>1
<1>2. ASSUME NEW k \in 0 .. n - 1, k \in Q PROVE k + 1 \in Q
  <2>1. PICK f \in [0 .. k -> Seq(S)] : Sums(f, seqs, k)
    BY <1>2
  <2> DEFINE g == [i \in 0 .. k + 1 |-> IF i = k + 1 THEN f[k] \o seqs[k + 1] ELSE f[i]]
  <2>2. k + 1 \in 1 .. n /\ k \in 0 .. k /\ k + 1 \in 0 .. n /\ 0 \in 0 .. k
    BY <1>2
  <2>3. f[k] \o seqs[k + 1] \in Seq(S)
    BY <2>1, <2>2
  <2>4. g \in [0 .. k + 1 -> Seq(S)]
    <3>1. \A i \in 0 .. k + 1 : i # k + 1 => i \in 0 .. k
      BY <1>2
    <3> QED BY <2>1, <2>3, <3>1
  <2>5. g[0] = <<>>
    BY <2>1, <2>2 DEF Sums
  <2>6. ASSUME NEW i \in 1 .. k + 1 PROVE g[i] = g[i - 1] \o seqs[i]
    <3>1. i - 1 \in 0 .. k /\ i - 1 # k + 1 /\ i - 1 \in 0 .. k + 1 /\ i \in 0 .. k + 1
      BY <1>2
    <3>2. g[i - 1] = f[i - 1]
      BY <3>1
    <3>3. CASE i = k + 1
      <4>1. i - 1 = k
        BY <1>2, <3>3
      <4> QED BY <3>1, <3>2, <3>3, <4>1
    <3>4. CASE i # k + 1
      <4>1. i \in 1 .. k
        BY <1>2, <3>4
      <4>2. f[i] = f[i - 1] \o seqs[i]
        BY <2>1, <4>1 DEF Sums
      <4> QED BY <3>1, <3>2, <3>4, <4>2
    <3> QED BY <3>3, <3>4
  <2> HIDE DEF g
  <2>7. Sums(g, seqs, k + 1)
    BY <2>5, <2>6 DEF Sums
  <2> QED BY <2>2, <2>4, <2>7
<1>3. \A i \in 0 .. n : i \in Q
  <2> HIDE DEF Q
  <2> QED BY <1>1, <1>2, UpTo
<1> QED BY <1>3

(* FlattenSeq is the last of the sums.                                     *)
LEMMA FlattenIsSum ==
  ASSUME NEW S, NEW seqs \in Seq(Seq(S)), NEW f \in [0 .. Len(seqs) -> Seq(S)],
         Sums(f, seqs, Len(seqs))
  PROVE  FlattenSeq(seqs) = f[Len(seqs)]
<1> DEFINE n == Len(seqs)
<1>1. n \in Nat /\ DOMAIN seqs = 1 .. n /\ \A i \in 1 .. n : seqs[i] \in Seq(S)
  OBVIOUS
<1>2. CASE n = 0
  <2>1. seqs = <<>>
    BY <1>2
  <2> QED BY <1>2, <2>1 DEF FlattenSeq, Sums
<1>3. CASE n # 0
  <2> DEFINE Eq(h) == h = [i \in 1 .. n |-> IF i = 1 THEN seqs[i] ELSE h[i - 1] \o seqs[i]]
             sums == [i \in 1 .. n |-> f[i]]
             flatten == CHOOSE h : Eq(h)
  <2>1. FlattenSeq(seqs) = flatten[n]
    BY <1>1, <1>3 DEF FlattenSeq
  <2>2. ASSUME NEW i \in 1 .. n
        PROVE  sums[i] = IF i = 1 THEN seqs[i] ELSE sums[i - 1] \o seqs[i]
    <3>1. f[i] = f[i - 1] \o seqs[i]
      BY DEF Sums
    <3>2. CASE i = 1
      <4>1. i - 1 = 0 /\ f[0] = <<>> /\ seqs[i] \in Seq(S)
        BY <1>1, <3>2 DEF Sums
      <4>2. f[i] = <<>> \o seqs[i]
        BY <3>1, <4>1
      <4>3. f[i] = seqs[i]
        BY <4>1, <4>2
      <4> QED BY <3>2, <4>3
    <3>3. CASE i # 1
      <4>1. i - 1 \in 1 .. n
        BY <1>1, <3>3
      <4> QED BY <3>1, <3>3, <4>1
    <3> QED BY <3>2, <3>3
  <2>3. Eq(sums)
    BY <2>2
  <2> HIDE DEF sums
  <2>4. Eq(flatten)
    <3> HIDE DEF Eq
    <3> QED BY <2>3
  <2> HIDE DEF flatten
  <2> DEFINE Q == {i \in 0 .. n : i # 0 => flatten[i] = f[i]}
  <2>5. 0 \in Q
    BY <1>1
  <2>6. ASSUME NEW i \in 0 .. n - 1, i \in Q PROVE i + 1 \in Q
    <3>1. i + 1 \in 1 .. n /\ i + 1 \in 0 .. n /\ (i + 1) - 1 = i
      BY <1>1
    <3>2. flatten[i + 1] = IF i + 1 = 1 THEN seqs[i + 1] ELSE flatten[i] \o seqs[i + 1]
      BY <2>4, <3>1
    <3>3. f[i + 1] = f[i] \o seqs[i + 1]
      BY <3>1 DEF Sums
    <3>4. CASE i = 0
      <4>1. f[i + 1] = <<>> \o seqs[i + 1] /\ seqs[i + 1] \in Seq(S)
        BY <1>1, <3>1, <3>3, <3>4 DEF Sums
      <4>2. f[i + 1] = seqs[i + 1]
        BY <4>1
      <4> QED BY <3>1, <3>2, <3>4, <4>2
    <3>5. CASE i # 0
      <4>1. flatten[i] = f[i] /\ i + 1 # 1
        BY <2>6, <3>5
      <4> QED BY <3>1, <3>2, <3>3, <4>1
    <3> QED BY <3>4, <3>5
  <2>7. n \in Q
    <3> HIDE DEF Q
    <3>1. \A i \in 0 .. n : i \in Q
      BY <1>1, <2>5, <2>6, UpTo
    <3> QED BY <1>1, <3>1
  <2> QED BY <1>3, <2>1, <2>7
<1> QED BY <1>2, <1>3

(* What holds of nothing and is kept by each of the sequences in its turn  *)
(* holds of all of them together.                                          *)
LEMMA FlattenInduction ==
  ASSUME NEW S, NEW seqs \in Seq(Seq(S)), NEW Q,
         <<0, <<>>>> \in Q,
         \A i \in 1 .. Len(seqs), s \in Seq(S) :
           <<i - 1, s>> \in Q => <<i, s \o seqs[i]>> \in Q
  PROVE  FlattenSeq(seqs) \in Seq(S) /\ <<Len(seqs), FlattenSeq(seqs)>> \in Q
<1> DEFINE n == Len(seqs)
<1>1. n \in Nat /\ seqs \in [1 .. n -> Seq(S)]
  OBVIOUS
<1>2. PICK f \in [0 .. n -> Seq(S)] : Sums(f, seqs, n)
  <2> HIDE DEF n
  <2> QED BY <1>1, SumsExist
<1>3. FlattenSeq(seqs) = f[n]
  BY <1>2, FlattenIsSum
<1> DEFINE P == {i \in 0 .. n : <<i, f[i]>> \in Q}
<1>4. 0 \in P
  <2>1. f[0] = <<>> /\ 0 \in 0 .. n
    BY <1>1, <1>2 DEF Sums
  <2> QED BY <2>1
<1>5. ASSUME NEW i \in 0 .. n - 1, i \in P PROVE i + 1 \in P
  <2>1. i + 1 \in 1 .. n /\ i + 1 \in 0 .. n /\ (i + 1) - 1 = i /\ i \in 0 .. n
    BY <1>1
  <2>2. f[i + 1] = f[i] \o seqs[i + 1]
    BY <1>2, <2>1 DEF Sums
  <2>3. f[i] \in Seq(S) /\ <<i, f[i]>> \in Q
    BY <1>2, <1>5, <2>1
  <2>4. <<i + 1, f[i] \o seqs[i + 1]>> \in Q
    BY <2>1, <2>3
  <2> QED BY <2>1, <2>2, <2>4
<1>6. n \in P
  <2> HIDE DEF P, n
  <2>1. \A i \in 0 .. n : i \in P
    BY <1>1, <1>4, <1>5, UpTo
  <2> QED BY <1>1, <2>1
<1> QED BY <1>1, <1>2, <1>3, <1>6

(* Joining nothing, and one more sequence.                                 *)
LEMMA FlattenNothing == FlattenSeq(<<>>) = <<>>
BY DEF FlattenSeq

(* Flattening one more.                                                    *)
LEMMA FlattenAppend ==
  ASSUME NEW S, NEW seqs \in Seq(Seq(S)), NEW s \in Seq(S)
  PROVE  /\ FlattenSeq(seqs) \in Seq(S)
         /\ FlattenSeq(Append(seqs, s)) = FlattenSeq(seqs) \o s
<1> DEFINE n == Len(seqs)
           more == Append(seqs, s)
<1>1. /\ n \in Nat /\ more \in Seq(Seq(S)) /\ Len(more) = n + 1
      /\ \A i \in 1 .. n : more[i] = seqs[i]
      /\ more[n + 1] = s
      /\ n + 1 \in Nat
  BY AppendProperties
<1> HIDE DEF more
<1>2. \A i \in 1 .. n + 1 : more[i] \in Seq(S)
  BY <1>1
<1>3. PICK f \in [0 .. n + 1 -> Seq(S)] : Sums(f, more, n + 1)
  <2>1. more \in [1 .. n + 1 -> Seq(S)]
    BY <1>1
  <2> HIDE DEF n
  <2> QED BY <1>1, <2>1, SumsExist
<1>4. FlattenSeq(more) = f[n + 1]
  BY <1>1, <1>3, FlattenIsSum
<1> DEFINE g == [i \in 0 .. n |-> f[i]]
<1>5. g \in [0 .. n -> Seq(S)] /\ g[n] = f[n]
  BY <1>1
<1>6. Sums(g, seqs, n)
  <2>1. g[0] = <<>>
    BY <1>1, <1>3 DEF Sums
  <2>2. ASSUME NEW i \in 1 .. n PROVE g[i] = g[i - 1] \o seqs[i]
    <3>1. i \in 1 .. n + 1 /\ i \in 0 .. n /\ i - 1 \in 0 .. n
      BY <1>1
    <3>2. f[i] = f[i - 1] \o more[i]
      BY <1>3, <3>1 DEF Sums
    <3> QED BY <1>1, <3>1, <3>2
  <2> HIDE DEF g
  <2> QED BY <2>1, <2>2 DEF Sums
<1> HIDE DEF g
<1>7. FlattenSeq(seqs) = g[n]
  BY <1>5, <1>6, FlattenIsSum
<1>8. f[n + 1] = f[n] \o s
  <2>1. n + 1 \in 1 .. n + 1 /\ n + 1 - 1 = n
    BY <1>1
  <2>2. \A i \in 1 .. n + 1 : f[i] = f[i - 1] \o more[i]
    BY <1>3 DEF Sums
  <2>3. PICK m \in 1 .. n + 1 : m = n + 1
    BY <2>1
  <2>4. f[m] = f[m - 1] \o more[m]
    BY <2>2, Zenon
  <2>5. m - 1 = n
    BY <1>1, <2>3
  <2> QED BY <1>1, <2>3, <2>4, <2>5
<1>9. f[n] \in Seq(S)
  <2>1. n \in 0 .. n + 1
    BY <1>1
  <2> QED BY <2>1
<1> QED BY <1>4, <1>5, <1>7, <1>8, <1>9 DEF more

(* A function on the first numbers is a sequence.                          *)
LEMMA FunctionIsSeq ==
  ASSUME NEW S, NEW n \in Nat, NEW f \in [1 .. n -> S]
  PROVE  f \in Seq(S) /\ Len(f) = n
OBVIOUS

(* Elements one by one.                                                    *)
Maps(F, S, T) == F \in [S -> T]

Mapped(F, s) == [i \in DOMAIN s |-> F[s[i]]]

(* One element more.                                                       *)
LEMMA MappedFacts ==
  ASSUME NEW S, NEW T, NEW F, Maps(F, S, T)
  PROVE  /\ \A s \in Seq(S) : /\ Mapped(F, s) \in Seq(T)
                              /\ Len(Mapped(F, s)) = Len(s)
                              /\ \A i \in 1 .. Len(s) : Mapped(F, s)[i] = F[s[i]]
         /\ \A s \in Seq(S), e \in S : Mapped(F, Append(s, e)) = Append(Mapped(F, s), F[e])
<1>1. ASSUME NEW r \in Seq(S)
      PROVE  /\ Mapped(F, r) \in Seq(T) /\ Len(Mapped(F, r)) = Len(r) /\ Len(r) \in Nat
             /\ \A i \in 1 .. Len(r) : Mapped(F, r)[i] = F[r[i]]
  <2>1. Len(r) \in Nat /\ DOMAIN r = 1 .. Len(r) /\ \A i \in 1 .. Len(r) : F[r[i]] \in T
    BY DEF Maps
  <2>2. Mapped(F, r) \in [1 .. Len(r) -> T]
    BY <2>1 DEF Mapped
  <2>3. Mapped(F, r) \in Seq(T) /\ Len(Mapped(F, r)) = Len(r)
    BY <2>1, <2>2, FunctionIsSeq
  <2>4. \A i \in 1 .. Len(r) : Mapped(F, r)[i] = F[r[i]]
    BY <2>1 DEF Mapped
  <2> QED BY <2>1, <2>3, <2>4
<1>2. ASSUME NEW s \in Seq(S), NEW e \in S
      PROVE  Mapped(F, Append(s, e)) = Append(Mapped(F, s), F[e])
  <2> DEFINE more == Append(s, e)
             n == Len(s)
             longer == Append(Mapped(F, s), F[e])
  <2>1. /\ more \in Seq(S) /\ Len(more) = n + 1 /\ n \in Nat
        /\ \A i \in 1 .. n : more[i] = s[i]
        /\ more[n + 1] = e
    BY AppendProperties
  <2>2. F[e] \in T /\ Mapped(F, s) \in Seq(T) /\ Len(Mapped(F, s)) = n
    BY <1>1 DEF Maps
  <2>3. \A i \in 1 .. n : Mapped(F, s)[i] = F[s[i]]
    BY <1>1
  <2> HIDE DEF more
  <2>4. Mapped(F, more) \in Seq(T) /\ Len(Mapped(F, more)) = n + 1
        /\ \A i \in 1 .. n + 1 : Mapped(F, more)[i] = F[more[i]]
    BY <1>1, <2>1
  <2> HIDE DEF n
  <2>5. /\ longer \in Seq(T) /\ Len(longer) = n + 1
        /\ \A i \in 1 .. n : longer[i] = Mapped(F, s)[i]
        /\ longer[n + 1] = F[e]
    BY <2>2, AppendProperties
  <2> HIDE DEF longer
  <2>6. \A i \in 1 .. n + 1 : Mapped(F, more)[i] = longer[i]
    <3> SUFFICES ASSUME NEW i \in 1 .. n + 1 PROVE Mapped(F, more)[i] = longer[i]
      OBVIOUS
    <3>1. i \in 1 .. n \/ i = n + 1
      BY <2>1
    <3> QED BY <2>1, <2>3, <2>4, <2>5, <3>1
  <2>7. Mapped(F, more) = longer
    BY <2>4, <2>5, <2>6, SeqEqual
  <2> QED BY <2>7 DEF more, longer
<1> QED BY <1>1, <1>2

(* Elements that each become a sequence.                                   *)
Gathered(F, s) == FlattenSeq(Mapped(F, s))

(* One element more adds its sequence.                                     *)
LEMMA GatheredAppend ==
  ASSUME NEW S, NEW T, NEW F, Maps(F, S, Seq(T)), NEW s \in Seq(S), NEW e \in S
  PROVE  /\ Gathered(F, s) \in Seq(T)
         /\ Gathered(F, Append(s, e)) = Gathered(F, s) \o F[e]
<1>1. Mapped(F, s) \in Seq(Seq(T)) /\ Mapped(F, Append(s, e)) = Append(Mapped(F, s), F[e])
  BY MappedFacts
<1>2. F[e] \in Seq(T)
  BY DEF Maps
<1>3. FlattenSeq(Mapped(F, s)) \in Seq(T)
      /\ FlattenSeq(Append(Mapped(F, s), F[e])) = FlattenSeq(Mapped(F, s)) \o F[e]
  BY <1>1, <1>2, FlattenAppend
<1> QED BY <1>1, <1>3 DEF Gathered

(* Elements that become nothing.                                           *)
LEMMA GatheredNothing ==
  ASSUME NEW S, NEW T, NEW F, Maps(F, S, Seq(T)), NEW s \in Seq(S),
         \A i \in 1 .. Len(s) : F[s[i]] = <<>>
  PROVE  Gathered(F, s) = <<>>
<1> DEFINE Q == {x \in Nat \X Seq(T) : x[2] = <<>>}
           m == Mapped(F, s)
<1>1. m \in Seq(Seq(T)) /\ \A i \in 1 .. Len(m) : m[i] = <<>>
  BY MappedFacts
<1> HIDE DEF m
<1>2. <<0, <<>>>> \in Q
  <2>1. <<>> \in Seq(T)
    OBVIOUS
  <2> QED BY <2>1
<1>3. ASSUME NEW i \in 1 .. Len(m), NEW r \in Seq(T), <<i - 1, r>> \in Q
      PROVE  <<i, r \o m[i]>> \in Q
  BY <1>1, <1>3
<1>4. <<Len(m), FlattenSeq(m)>> \in Q
  <2> HIDE DEF Q
  <2> QED BY <1>1, <1>2, <1>3, FlattenInduction
<1>5. FlattenSeq(m) = <<>>
  BY <1>4
<1> QED BY <1>5 DEF Gathered, m

(* Joining in either order.                                                *)
LEMMA Associative ==
  ASSUME NEW S
  PROVE  \A a, b, c \in Seq(S) : (a \o b) \o c = a \o (b \o c)
BY ConcatAssociative

(* It does so piece by piece.                                              *)
LEMMA GatheredConcat ==
  ASSUME NEW S, NEW T, NEW F, Maps(F, S, Seq(T))
  PROVE  /\ Gathered(F, <<>>) = <<>>
         /\ \A e \in S : Gathered(F, <<e>>) = F[e]
         /\ \A s \in Seq(S) : Gathered(F, s) \in Seq(T)
         /\ \A s, t \in Seq(S) : Gathered(F, s \o t) = Gathered(F, s) \o Gathered(F, t)
<1>1. \A s \in Seq(S) : Gathered(F, s) \in Seq(T)
  <2> SUFFICES ASSUME NEW s \in Seq(S) PROVE Gathered(F, s) \in Seq(T)
    OBVIOUS
  <2>1. CASE s = <<>>
    <3>1. Gathered(F, <<>>) = <<>>
      BY DEF Gathered, Mapped, FlattenSeq
    <3>2. <<>> \in Seq(T)
      OBVIOUS
    <3> QED BY <2>1, <3>1, <3>2
  <2>2. CASE s # <<>>
    <3>1. PICK r \in Seq(S), e \in S : s = Append(r, e)
      BY <2>2, SequenceEmptyOrAppend
    <3>2. Gathered(F, s) \in Seq(T)
      BY GatheredAppend
    <3> QED BY <3>2
  <2> QED BY <2>1, <2>2
<1>2. Gathered(F, <<>>) = <<>>
  BY DEF Gathered, Mapped, FlattenSeq
<1>3. ASSUME NEW s \in Seq(S), NEW e \in S
      PROVE  Gathered(F, Append(s, e)) = Gathered(F, s) \o F[e] /\ F[e] \in Seq(T)
  <2>1. F[e] \in Seq(T)
    BY DEF Maps
  <2> QED BY <2>1, GatheredAppend
<1>4. ASSUME NEW e \in S PROVE Gathered(F, <<e>>) = F[e]
  <2>1. <<e>> = Append(<<>>, e) /\ <<>> \in Seq(S)
    OBVIOUS
  <2>2. Gathered(F, Append(<<>>, e)) = <<>> \o F[e] /\ F[e] \in Seq(T)
    BY <1>2, <1>3, <2>1
  <2> QED BY <2>1, <2>2
<1>5. ASSUME NEW s \in Seq(S), NEW u \in Seq(S)
      PROVE  Gathered(F, s \o u) = Gathered(F, s) \o Gathered(F, u)
  <2> DEFINE Q == {t \in Seq(S) : Gathered(F, s \o t) = Gathered(F, s) \o Gathered(F, t)}
  <2>1. <<>> \in Q
    <3>1. s \o <<>> = s
      BY ConcatEmptySeq
    <3>2. Gathered(F, s) \o <<>> = Gathered(F, s)
      BY <1>1, ConcatEmptySeq
    <3>3. Gathered(F, s \o <<>>) = Gathered(F, s) \o Gathered(F, <<>>)
      BY <1>2, <3>1, <3>2
    <3>4. <<>> \in Seq(S)
      OBVIOUS
    <3> QED BY <3>3, <3>4
  <2>2. ASSUME NEW t \in Seq(S), NEW e \in S, t \in Q PROVE Append(t, e) \in Q
    <3>1. s \o Append(t, e) = Append(s \o t, e)
      OBVIOUS
    <3>2. s \o t \in Seq(S) /\ Append(t, e) \in Seq(S)
      OBVIOUS
    <3>3. Gathered(F, s \o Append(t, e)) = (Gathered(F, s) \o Gathered(F, t)) \o F[e]
      BY <1>3, <2>2, <3>1, <3>2
    <3>4. Gathered(F, s) \in Seq(T) /\ Gathered(F, t) \in Seq(T) /\ F[e] \in Seq(T)
      BY <1>1, <1>3
    <3>5. (Gathered(F, s) \o Gathered(F, t)) \o F[e] = Gathered(F, s) \o (Gathered(F, t) \o F[e])
      <4>1. \A a, b, c \in Seq(T) : (a \o b) \o c = a \o (b \o c)
        BY Associative
      <4> QED BY ONLY <3>4, <4>1, Zenon
    <3>6. Gathered(F, Append(t, e)) = Gathered(F, t) \o F[e]
      BY <1>3
    <3> QED BY <3>2, <3>3, <3>5, <3>6
  <2>3. Seq(S) \subseteq Q
    <3> HIDE DEF Q
    <3> QED BY <2>1, <2>2, SeqInduction
  <2> QED BY <2>3
<1> QED BY <1>1, <1>2, <1>4, <1>5

-----------------------------------------------------------------------------
(* The rest of a sequence                                                  *)

(* The rest from place a on.                                               *)
LEMMA RestFacts ==
  ASSUME NEW S, NEW s \in Seq(S), NEW a \in Int, 1 <= a, a <= Len(s) + 1
  PROVE  /\ SubSeq(s, a, Len(s)) \in Seq(S)
         /\ Len(SubSeq(s, a, Len(s))) = Len(s) - a + 1
         /\ \A i \in 1 .. Len(s) - a + 1 : SubSeq(s, a, Len(s))[i] = s[a + i - 1]
<1> DEFINE n == Len(s)
<1>1. n \in Nat /\ DOMAIN s = 1 .. n /\ \A i \in a .. n : s[i] \in S
  OBVIOUS
<1>2. /\ SubSeq(s, a, n) \in Seq(S)
      /\ Len(SubSeq(s, a, n)) = IF a <= n THEN n - a + 1 ELSE 0
      /\ \A i \in 1 .. n - a + 1 : SubSeq(s, a, n)[i] = s[a + i - 1]
  <2> HIDE DEF n
  <2> QED BY <1>1, SubSeqProperties
<1>3. (IF a <= n THEN n - a + 1 ELSE 0) = n - a + 1
  BY <1>1
<1> QED BY <1>2, <1>3

(* It grows as the sequence does.                                          *)
LEMMA RestGrows ==
  ASSUME NEW S, NEW s \in Seq(S), NEW t \in Seq(S), NEW a \in Int, 1 <= a, a <= Len(s) + 1
  PROVE  SubSeq(s \o t, a, Len(s \o t)) = SubSeq(s, a, Len(s)) \o t
<1> DEFINE n == Len(s)
           m == Len(t)
<1>1. n \in Nat /\ m \in Nat /\ a <= n + 1
  OBVIOUS
<1>2. PICK both \in Seq(S) : both = s \o t
  BY ConcatProperties
<1>3. /\ Len(both) = n + m
      /\ \A i \in 1 .. n + m : both[i] = IF i <= n THEN s[i] ELSE t[i - n]
  BY <1>2, ConcatProperties
<1>4. PICK rest \in Seq(S) : rest = SubSeq(s, a, n)
  BY RestFacts
<1>5. Len(rest) = n - a + 1 /\ \A i \in 1 .. n - a + 1 : rest[i] = s[a + i - 1]
  BY <1>4, RestFacts
<1>6. PICK left \in Seq(S) : left = rest \o t
  BY ConcatProperties
<1>7. /\ Len(left) = Len(rest) + m
      /\ \A i \in 1 .. Len(rest) + m : left[i] = IF i <= Len(rest) THEN rest[i] ELSE t[i - Len(rest)]
  BY <1>6, ConcatProperties
<1> HIDE DEF n, m
<1>8. a <= Len(both) + 1
  BY <1>1, <1>3
<1>9. PICK right \in Seq(S) : right = SubSeq(both, a, Len(both))
  BY <1>8, RestFacts
<1>10. Len(right) = Len(both) - a + 1 /\ \A i \in 1 .. Len(both) - a + 1 : right[i] = both[a + i - 1]
  BY <1>8, <1>9, RestFacts
<1>11. Len(right) = (n - a + 1) + m /\ Len(left) = (n - a + 1) + m
  BY <1>1, <1>3, <1>5, <1>7, <1>10
<1>12. ASSUME NEW i \in 1 .. (n - a + 1) + m PROVE right[i] = left[i]
  <2>1. i \in 1 .. Len(both) - a + 1 /\ a + i - 1 \in 1 .. n + m
    BY <1>1, <1>3
  <2>2. right[i] = both[a + i - 1]
    BY <1>10, <2>1
  <2>3. CASE i <= n - a + 1
    <3>1. a + i - 1 <= n /\ i \in 1 .. n - a + 1
      BY <1>1, <2>3
    <3>2. both[a + i - 1] = s[a + i - 1]
      BY <1>3, <2>1, <3>1
    <3>3. left[i] = rest[i] /\ rest[i] = s[a + i - 1]
      BY <1>5, <1>7, <2>3, <3>1
    <3> QED BY <2>2, <3>2, <3>3
  <2>4. CASE ~(i <= n - a + 1)
    <3>1. ~(a + i - 1 <= n) /\ (a + i - 1) - n = i - (n - a + 1)
      BY <1>1, <2>4
    <3>2. both[a + i - 1] = t[i - (n - a + 1)]
      BY <1>3, <2>1, <3>1
    <3>3. left[i] = t[i - (n - a + 1)]
      BY <1>5, <1>7, <2>4
    <3> QED BY <2>2, <3>2, <3>3
  <2> QED BY <2>3, <2>4
<1>13. right = left
  <2>1. Len(right) = Len(left) /\ \A i \in 1 .. Len(right) : right[i] = left[i]
    BY <1>11, <1>12
  <2> QED BY ONLY <2>1, right \in Seq(S), left \in Seq(S), SeqEqual
<1> QED BY <1>2, <1>4, <1>6, <1>9, <1>13 DEF n

(* All of it is left from the first place, nothing beyond the last.        *)
LEMMA RestOfAll ==
  ASSUME NEW S, NEW s \in Seq(S)
  PROVE  /\ SubSeq(s, 1, Len(s)) = s
         /\ SubSeq(s, Len(s) + 1, Len(s)) = <<>>
<1>1. Len(s) \in Int /\ Len(s) + 1 \in Int /\ Len(s) < Len(s) + 1
  OBVIOUS
<1>2. SubSeq(s, Len(s) + 1, Len(s)) = <<>>
  BY <1>1, SubSeqEmpty
<1> QED BY <1>2, SubSeqFull

(* The first part is left of a longer one.                                 *)
LEMMA PartStays ==
  ASSUME NEW S, NEW s \in Seq(S), NEW t \in Seq(S), NEW n \in 0 .. Len(s)
  PROVE  /\ SubSeq(s \o t, 1, n) = SubSeq(s, 1, n)
         /\ SubSeq(s, 1, n) \in Seq(S) /\ Len(SubSeq(s, 1, n)) = n
<1>1. Len(s) \in Nat /\ Len(t) \in Nat /\ n \in Int
  OBVIOUS
<1>2. PICK both \in Seq(S) : both = s \o t
  BY ConcatProperties
<1>3. \A i \in 1 .. Len(s) + Len(t) : both[i] = IF i <= Len(s) THEN s[i] ELSE t[i - Len(s)]
  BY <1>2, ConcatProperties
<1>4. Len(both) = Len(s) + Len(t)
  BY <1>2, ConcatProperties
<1>5. \A i \in 1 .. n : i \in 1 .. Len(s) /\ i \in 1 .. Len(s) + Len(t)
  BY <1>1
<1>6. \A i \in 1 .. n : s[i] \in S /\ both[i] = s[i]
  BY <1>1, <1>3, <1>5
<1>7. /\ SubSeq(s, 1, n) \in Seq(S)
      /\ Len(SubSeq(s, 1, n)) = IF 1 <= n THEN n - 1 + 1 ELSE 0
      /\ \A i \in 1 .. n - 1 + 1 : SubSeq(s, 1, n)[i] = s[1 + i - 1]
  BY <1>1, <1>6, SubSeqProperties
<1>8. /\ SubSeq(both, 1, n) \in Seq(S)
      /\ Len(SubSeq(both, 1, n)) = IF 1 <= n THEN n - 1 + 1 ELSE 0
      /\ \A i \in 1 .. n - 1 + 1 : SubSeq(both, 1, n)[i] = both[1 + i - 1]
  BY <1>1, <1>6, SubSeqProperties
<1>9. n - 1 + 1 = n /\ \A i \in 1 .. n : 1 + i - 1 = i
  BY <1>1
<1>10. (IF 1 <= n THEN n - 1 + 1 ELSE 0) = n
  BY <1>1
<1>11. PICK x \in Seq(S), y \in Seq(S) : x = SubSeq(s, 1, n) /\ y = SubSeq(both, 1, n)
  BY <1>7, <1>8
<1>12. Len(x) = n /\ Len(y) = n /\ \A i \in 1 .. n : x[i] = y[i]
  BY <1>6, <1>7, <1>8, <1>9, <1>10, <1>11
<1>13. Len(x) = Len(y) /\ \A i \in 1 .. Len(x) : x[i] = y[i]
  BY <1>12
<1>14. x = y
  BY ONLY <1>13, x \in Seq(S), y \in Seq(S), SeqEqual
<1> QED BY <1>2, <1>11, <1>12, <1>14

-----------------------------------------------------------------------------
(* Reading in leaps                                                        *)

(* A way of joining two members of T.                                      *)
Joins(join, T) == join \in [T \X T -> T]

(* What is read from place i on: a piece, and unless it is the last joined *)
(* to it what is read from the next place on.                              *)
From(f, i, next, piece, join) ==
  IF next[i] = 0 THEN piece[i] ELSE join[<<piece[i], f[next[i]]>>]

Leaps(f, n, next, piece, join) == f = [i \in 1 .. n |-> From(f, i, next, piece, join)]

LeapForward(T, n, next, piece, join) ==
  /\ n \in Nat
  /\ next \in [1 .. n -> Nat]
  /\ piece \in [1 .. n -> T]
  /\ Joins(join, T)
  /\ \A i \in 1 .. n : next[i] # 0 => next[i] \in i + 1 .. n

(* Such a way stays in T.                                                  *)
LEMMA JoinIn ==
  ASSUME NEW T, NEW join, Joins(join, T)
  PROVE  \A x, y \in T : join[<<x, y>>] \in T
BY DEF Joins

(* As every leap goes forward, this defines one function.                  *)
LEMMA LeapsDefine ==
  ASSUME NEW T, NEW n, NEW next, NEW piece, NEW join, LeapForward(T, n, next, piece, join)
  PROVE  \E f : /\ Leaps(f, n, next, piece, join)
                /\ \A i \in 1 .. n : f[i] \in T
                /\ \A h : Leaps(h, n, next, piece, join) => h = f
<1> USE DEF LeapForward
<1> DEFINE Defined(m) == \E f \in [m .. n -> T] :
                           \A i \in m .. n : f[i] = From(f, i, next, piece, join)
           Q == {k \in 0 .. n : Defined(n - k + 1)}
<1>1. 0 \in Q
  <2> DEFINE f == [i \in n - 0 + 1 .. n |-> <<>>]
  <2>1. f \in [n - 0 + 1 .. n -> T]
    OBVIOUS
  <2>2. \A i \in n - 0 + 1 .. n : FALSE
    OBVIOUS
  <2>3. \A i \in n - 0 + 1 .. n : f[i] = From(f, i, next, piece, join)
    BY <2>2
  <2> HIDE DEF f
  <2>4. Defined(n - 0 + 1)
    BY <2>1, <2>3
  <2> HIDE DEF Defined
  <2> QED BY <2>4
<1>2. ASSUME NEW k \in 0 .. n - 1, k \in Q PROVE k + 1 \in Q
  <2>1. PICK f \in [n - k + 1 .. n -> T] :
          \A i \in n - k + 1 .. n : f[i] = From(f, i, next, piece, join)
    BY <1>2
  <2>2. PICK m \in 1 .. n : m = n - k
    BY <1>2
  <2>3. n - k + 1 = m + 1 /\ n - (k + 1) + 1 = m
    BY <1>2, <2>2
  <2> DEFINE g == [i \in m .. n |-> IF i = m THEN From(f, m, next, piece, join) ELSE f[i]]
  <2>4. \A i \in m .. n : i # m => i \in m + 1 .. n
    OBVIOUS
  <2>5. \A i \in m .. n : i \in 1 .. n /\ (next[i] # 0 => next[i] \in m + 1 .. n)
    <3> SUFFICES ASSUME NEW i \in m .. n, next[i] # 0 PROVE next[i] \in m + 1 .. n
      OBVIOUS
    <3>1. next[i] \in i + 1 .. n
      OBVIOUS
    <3> QED BY <3>1
  <2>6. From(f, m, next, piece, join) \in T
    <3>1. next[m] # 0 => f[next[m]] \in T
      BY <2>1, <2>3, <2>5
    <3>2. next[m] # 0 => join[<<piece[m], f[next[m]]>>] \in T
      BY <3>1, JoinIn
    <3> QED BY <3>2 DEF From
  <2>7. g \in [m .. n -> T]
    BY <2>1, <2>3, <2>4, <2>6
  <2>8. ASSUME NEW i \in m .. n PROVE g[i] = From(g, i, next, piece, join)
    <3>1. From(g, i, next, piece, join) = From(f, i, next, piece, join)
      <4>1. CASE next[i] = 0
        BY <4>1 DEF From
      <4>2. CASE next[i] # 0
        <5>1. next[i] \in m + 1 .. n /\ next[i] \in m .. n /\ next[i] # m
          BY <2>5, <4>2
        <5>2. g[next[i]] = f[next[i]]
          BY <5>1
        <5> HIDE DEF g
        <5> QED BY <4>2, <5>2 DEF From
      <4> QED BY <4>1, <4>2
    <3>2. CASE i = m
      BY <3>1, <3>2
    <3>3. CASE i # m
      BY <2>1, <2>3, <2>4, <3>1, <3>3
    <3> QED BY <3>2, <3>3
  <2> HIDE DEF g
  <2>9. Defined(m)
    BY <2>7, <2>8
  <2> HIDE DEF Defined
  <2> QED BY <1>2, <2>3, <2>9
<1>3. PICK f \in [1 .. n -> T] : \A i \in 1 .. n : f[i] = From(f, i, next, piece, join)
  <2>1. n \in Q
    <3> HIDE DEF Q
    <3>1. \A i \in 0 .. n : i \in Q
      BY <1>1, <1>2, UpTo
    <3> QED BY <3>1
  <2>2. n - n + 1 = 1
    OBVIOUS
  <2> QED BY <2>1, <2>2
<1>4. ASSUME NEW h, Leaps(h, n, next, piece, join) PROVE h = f
  <2> DEFINE P == {k \in 0 .. n : \A i \in n - k + 1 .. n : h[i] = f[i]}
  <2>1. 0 \in P
    OBVIOUS
  <2>2. ASSUME NEW k \in 0 .. n - 1, k \in P PROVE k + 1 \in P
    <3>1. \A i \in n - k + 1 .. n : h[i] = f[i]
      BY <2>2
    <3>2. PICK m \in 1 .. n : m = n - k
      BY <2>2
    <3>3. n - k + 1 = m + 1 /\ n - (k + 1) + 1 = m
      BY <2>2, <3>2
    <3>4. next[m] # 0 => h[next[m]] = f[next[m]]
      BY <3>1, <3>3
    <3>5. h[m] = From(h, m, next, piece, join) /\ f[m] = From(f, m, next, piece, join)
      BY <1>3, <1>4 DEF Leaps
    <3>6. h[m] = f[m]
      BY <3>4, <3>5 DEF From
    <3>7. \A i \in m .. n : i = m \/ i \in m + 1 .. n
      OBVIOUS
    <3> QED BY <2>2, <3>1, <3>3, <3>6, <3>7
  <2>3. n \in P
    <3> HIDE DEF P
    <3>1. \A i \in 0 .. n : i \in P
      BY <2>1, <2>2, UpTo
    <3> QED BY <3>1
  <2>4. \A i \in 1 .. n : h[i] = f[i]
    BY <2>3
  <2>5. DOMAIN h = 1 .. n /\ h = [i \in 1 .. n |-> h[i]]
    BY <1>4 DEF Leaps
  <2> QED BY <2>4, <2>5
<1>5. Leaps(f, n, next, piece, join)
  BY <1>3 DEF Leaps
<1> QED BY <1>4, <1>5

(* Induction from above: a place is in Q if all later ones are.            *)
LEMMA DownFrom ==
  ASSUME NEW n \in Nat, NEW Q,
         \A i \in 1 .. n : (\A j \in i + 1 .. n : j \in Q) => i \in Q
  PROVE  \A i \in 1 .. n : i \in Q
<1> DEFINE P == {k \in 0 .. n : \A i \in n - k + 1 .. n : i \in Q}
<1>1. 0 \in P
  OBVIOUS
<1>2. ASSUME NEW k \in 0 .. n - 1, k \in P PROVE k + 1 \in P
  <2>1. PICK m \in 1 .. n : m = n - k
    BY <1>2
  <2>2. n - k + 1 = m + 1 /\ n - (k + 1) + 1 = m
    BY <1>2, <2>1
  <2>3. \A j \in m + 1 .. n : j \in Q
    BY <1>2, <2>2
  <2>4. m \in Q
    BY <2>3
  <2>5. \A i \in m .. n : i = m \/ i \in m + 1 .. n
    OBVIOUS
  <2> QED BY <1>2, <2>2, <2>3, <2>4, <2>5
<1>3. n \in P
  <2> HIDE DEF P
  <2>1. \A i \in 0 .. n : i \in P
    BY <1>1, <1>2, UpTo
  <2> QED BY <2>1
<1>4. n - n + 1 = 1
  OBVIOUS
<1> QED BY <1>3, <1>4

(* What is read is in T if each step keeps it there.                       *)
LEMMA LeapsTyped ==
  ASSUME NEW T, NEW n, NEW next, NEW piece, NEW join, LeapForward(T, n, next, piece, join),
         NEW h,
         \A i \in 1 .. n : next[i] = 0 => h[i] \in T,
         \A i \in 1 .. n : next[i] # 0 /\ h[next[i]] \in T => h[i] \in T
  PROVE  \A i \in 1 .. n : h[i] \in T
<1> DEFINE Q == {i \in 1 .. n : h[i] \in T}
<1>1. n \in Nat
  BY DEF LeapForward
<1>2. ASSUME NEW i \in 1 .. n, \A j \in i + 1 .. n : j \in Q PROVE i \in Q
  <2>1. next[i] # 0 => next[i] \in i + 1 .. n
    BY DEF LeapForward
  <2> QED BY <1>2, <2>1
<1>3. \A i \in 1 .. n : i \in Q
  <2> HIDE DEF Q
  <2> QED BY <1>1, <1>2, DownFrom
<1> QED BY <1>3

(* All that is read is in T.                                               *)
ReadIn(f, n, T) == \A i \in 1 .. n : f[i] \in T

(* A join that may be taken in any order.                                  *)
Associates(join, T) ==
  \A x, y, z \in T : join[<<join[<<x, y>>], z>>] = join[<<x, join[<<y, z>>]>>]

(* Leaps and pieces of a text and those of its first part, which ends just *)
(* before place m: none crosses the end, a last piece goes on with the one *)
(* from m.                                                                 *)
CutAt(m, next, piece, next1, piece1, join) ==
  \A i \in 1 .. m :
    \/ next1[i] # 0 /\ next[i] = next1[i] /\ piece[i] = piece1[i]
    \/ /\ next1[i] = 0 /\ next[i] = next[m]
       /\ piece[i] = join[<<piece1[i], piece[m]>>]

(* And those of its second part, which begins after place d.               *)
ShiftedBy(d, k, next, piece, next2, piece2) ==
  \A i \in 1 .. k :
    /\ piece2[i] = piece[d + i]
    /\ next[d + i] = IF next2[i] = 0 THEN 0 ELSE d + next2[i]

(* What is read of the second part alone is what is read of it there.      *)
Continued(g, f, d, m) == \A i \in 1 .. m : g[i] = f[d + i]

(* A text cut at place m, where no leap crosses: what is read of the whole *)
(* is what is read of the first part, joined to what is read from m on.    *)
LEMMA LeapsCut ==
  ASSUME NEW T, NEW n, NEW next, NEW piece, NEW join,
         LeapForward(T, n, next, piece, join),
         NEW f, Leaps(f, n, next, piece, join), ReadIn(f, n, T),
         NEW m \in 1 .. n, NEW next1, NEW piece1,
         LeapForward(T, m, next1, piece1, join),
         NEW g, Leaps(g, m, next1, piece1, join), ReadIn(g, m, T),
         Associates(join, T), CutAt(m, next, piece, next1, piece1, join)
  PROVE  \A i \in 1 .. m : f[i] = join[<<g[i], f[m]>>]
<1> DEFINE Q == {i \in 1 .. m : f[i] = join[<<g[i], f[m]>>]}
<1>1. n \in Nat /\ m \in Nat /\ m \in 1 .. n
      /\ (\A i \in 1 .. n : f[i] \in T) /\ (\A i \in 1 .. m : g[i] \in T)
  BY DEF LeapForward, ReadIn
<1>2. ASSUME NEW i \in 1 .. m, \A j \in i + 1 .. m : j \in Q PROVE i \in Q
  <2>1. i \in 1 .. n
    BY <1>1
  <2>2. f[i] = From(f, i, next, piece, join) /\ g[i] = From(g, i, next1, piece1, join)
        /\ f[m] = From(f, m, next, piece, join)
    BY <2>1 DEF Leaps
  <2>3. piece1[i] \in T /\ piece[m] \in T /\ f[m] \in T
        /\ (next[m] # 0 => next[m] \in 1 .. n)
    <3>1. next[m] # 0 => next[m] \in m + 1 .. n
      BY DEF LeapForward
    <3> QED BY <1>1, <3>1 DEF LeapForward
  <2>4. CASE next1[i] # 0 /\ next[i] = next1[i] /\ piece[i] = piece1[i]
    <3>1. PICK j \in i + 1 .. m : j = next1[i] /\ j # 0
      BY <2>4 DEF LeapForward
    <3>2. f[j] = join[<<g[j], f[m]>>]
      BY <1>2, <3>1
    <3>3. g[j] \in T
      BY <1>1, <3>1
    <3>4. f[i] = join[<<piece1[i], f[j]>>] /\ g[i] = join[<<piece1[i], g[j]>>]
      BY <2>2, <2>4, <3>1 DEF From
    <3>5. join[<<join[<<piece1[i], g[j]>>], f[m]>>] = join[<<piece1[i], join[<<g[j], f[m]>>]>>]
      BY <2>3, <3>3 DEF Associates
    <3> QED BY <3>2, <3>4, <3>5
  <2>5. CASE /\ next1[i] = 0 /\ next[i] = next[m]
             /\ piece[i] = join[<<piece1[i], piece[m]>>]
    <3>1. g[i] = piece1[i]
      BY <2>2, <2>5 DEF From
    <3>2. CASE next[m] = 0
      BY <2>2, <2>5, <3>1, <3>2 DEF From
    <3>3. CASE next[m] # 0
      <4>1. PICK y \in T : y = f[next[m]]
        <5>1. next[m] \in 1 .. n
          BY <2>3, <3>3
        <5>2. f[next[m]] \in T
          BY <5>1 DEF ReadIn
        <5> QED BY <5>2
      <4>2. f[i] = join[<<join[<<piece1[i], piece[m]>>], y>>] /\ f[m] = join[<<piece[m], y>>]
        BY <2>2, <2>5, <3>3, <4>1 DEF From
      <4>3. join[<<join[<<piece1[i], piece[m]>>], y>>] = join[<<piece1[i], join[<<piece[m], y>>]>>]
        BY <2>3 DEF Associates
      <4> QED BY <3>1, <4>2, <4>3
    <3> QED BY <3>2, <3>3
  <2> QED BY <2>4, <2>5 DEF CutAt
<1>3. \A i \in 1 .. m : i \in Q
  <2> HIDE DEF Q
  <2> QED BY <1>1, <1>2, DownFrom
<1> QED BY <1>3

(* The second part alone leads where it leads in the whole.                *)
LEMMA LeapsShift ==
  ASSUME NEW T, NEW n \in Nat, NEW next, NEW piece, NEW join,
         LeapForward(T, n, next, piece, join),
         NEW f, Leaps(f, n, next, piece, join),
         NEW d \in Nat, NEW m \in Nat, d + m = n, NEW next2, NEW piece2,
         LeapForward(T, m, next2, piece2, join),
         NEW g, Leaps(g, m, next2, piece2, join),
         ShiftedBy(d, m, next, piece, next2, piece2)
  PROVE  Continued(g, f, d, m)
<1> DEFINE Q == {i \in 1 .. m : g[i] = f[d + i]}
<1>1. n \in Nat
  BY DEF LeapForward
<1>2. ASSUME NEW i \in 1 .. m, \A j \in i + 1 .. m : j \in Q PROVE i \in Q
  <2>1. d + i \in 1 .. n
    BY <1>1
  <2>2. f[d + i] = From(f, d + i, next, piece, join) /\ g[i] = From(g, i, next2, piece2, join)
    BY <2>1 DEF Leaps
  <2>3. CASE next2[i] = 0
    BY <2>2, <2>3 DEF From, ShiftedBy
  <2>4. CASE next2[i] # 0
    <3>1. PICK j \in i + 1 .. m : j = next2[i]
      BY <2>4 DEF LeapForward
    <3>2. next[d + i] = d + j /\ d + j # 0 /\ g[j] = f[d + j]
      BY <1>2, <2>4, <3>1 DEF ShiftedBy
    <3> QED BY <2>2, <2>4, <3>1, <3>2 DEF From, ShiftedBy
  <2> QED BY <2>3, <2>4
<1>3. \A i \in 1 .. m : i \in Q
  <2> HIDE DEF Q
  <2> QED BY <1>2, DownFrom
<1> QED BY <1>3 DEF Continued

-----------------------------------------------------------------------------
(* Parts of texts                                                          *)

(* s stands in t after the first p.                                        *)
StandsAt(s, t, p) ==
  /\ p \in Nat
  /\ p + Len(s) <= Len(t)
  /\ \A i \in 1 .. Len(s) : t[p + i] = s[i]

(* That is what SubSeqs means.                                             *)
LEMMA PartsStand ==
  ASSUME NEW S, NEW s \in Seq(S), NEW t \in Seq(S), NEW p, StandsAt(s, t, p)
  PROVE  s \in SubSeqs(t)
<1> DEFINE m == Len(s)
           n == Len(t)
<1>1. m \in Nat /\ n \in Nat /\ p \in Nat /\ p + m <= n /\ \A i \in 1 .. n : t[i] \in S
  BY DEF StandsAt
<1>2. \A i \in 1 .. m : t[p + i] = s[i]
  BY DEF StandsAt
<1> HIDE DEF m, n
<1> DEFINE part == SubSeq(t, p + 1, p + m)
<1>3. p + 1 \in Int /\ p + m \in Int /\ (p + m) - (p + 1) + 1 = m
      /\ \A i \in p + 1 .. p + m : t[i] \in S
  BY <1>1
<1>4. /\ part \in Seq(S)
      /\ Len(part) = IF p + 1 <= p + m THEN (p + m) - (p + 1) + 1 ELSE 0
      /\ \A i \in 1 .. (p + m) - (p + 1) + 1 : part[i] = t[p + 1 + i - 1]
  BY <1>3, SubSeqProperties
<1> HIDE DEF part
<1>5. Len(part) = m
  BY <1>1, <1>3, <1>4
<1>6. \A i \in 1 .. m : part[i] = s[i]
  <2> SUFFICES ASSUME NEW i \in 1 .. m PROVE part[i] = s[i]
    OBVIOUS
  <2>1. p + 1 + i - 1 = p + i /\ i \in 1 .. (p + m) - (p + 1) + 1
    BY <1>1, <1>3
  <2> QED BY <1>2, <1>4, <2>1
<1>7. part = s
  <2>1. part \in Seq(S) /\ s \in Seq(S) /\ Len(part) = Len(s)
        /\ \A i \in 1 .. Len(part) : part[i] = s[i]
    BY <1>4, <1>5, <1>6 DEF m
  <2> QED BY ONLY <2>1, SeqEqual
<1>8. p \in 0 .. Len(t) /\ p + m \in 0 .. Len(t)
  BY <1>1 DEF n
<1> QED BY <1>7, <1>8 DEF SubSeqs, part

(* A text stands at the end of a longer one.                               *)
LEMMA StandsLast ==
  ASSUME NEW S, NEW s \in Seq(S), NEW t \in Seq(S)
  PROVE  StandsAt(s, t \o s, Len(t))
<1> DEFINE m == Len(s)
           n == Len(t)
           both == t \o s
<1>1. /\ m \in Nat /\ n \in Nat /\ Len(both) = n + m
      /\ \A i \in 1 .. n + m : both[i] = IF i <= n THEN t[i] ELSE s[i - n]
  <2>1. Len(s) \in Nat /\ Len(t) \in Nat
    OBVIOUS
  <2> QED BY <2>1, ConcatProperties
<1> HIDE DEF m, n, both
<1>2. ASSUME NEW i \in 1 .. m PROVE both[n + i] = s[i]
  <2>1. n + i \in 1 .. n + m /\ ~(n + i <= n) /\ (n + i) - n = i
    BY <1>1
  <2> QED BY <1>1, <2>1
<1>3. StandsAt(s, both, n)
  BY <1>1, <1>2 DEF StandsAt, m
<1> QED BY <1>3 DEF both, n

(* What stands in a text stands in any it begins.                          *)
LEMMA StandsStill ==
  ASSUME NEW S, NEW s \in Seq(S), NEW t \in Seq(S), NEW u \in Seq(S),
         NEW p, StandsAt(s, t, p)
  PROVE  StandsAt(s, t \o u, p)
<1> DEFINE m == Len(s)
           n == Len(t)
           k == Len(u)
           both == t \o u
<1>1. /\ m \in Nat /\ n \in Nat /\ k \in Nat /\ Len(both) = n + k
      /\ \A i \in 1 .. n + k : both[i] = IF i <= n THEN t[i] ELSE u[i - n]
  <2>1. Len(s) \in Nat /\ Len(t) \in Nat /\ Len(u) \in Nat
    OBVIOUS
  <2> QED BY <2>1, ConcatProperties
<1>2. p \in Nat /\ p + m <= n /\ \A i \in 1 .. m : t[p + i] = s[i]
  BY DEF StandsAt
<1> HIDE DEF m, n, both, k
<1>3. ASSUME NEW i \in 1 .. m PROVE both[p + i] = s[i]
  <2>1. p + i \in 1 .. n + k /\ p + i <= n
    BY <1>1, <1>2
  <2> QED BY <1>1, <1>2, <2>1
<1>4. p + m <= n + k
  BY <1>1, <1>2
<1>5. StandsAt(s, both, p)
  BY <1>1, <1>2, <1>3, <1>4 DEF StandsAt, m
<1> QED BY <1>5 DEF both

-----------------------------------------------------------------------------
(* Flattening                                                              *)

(* Flattening goes piece by piece.                                         *)
LEMMA FlattenConcat ==
  ASSUME NEW S
  PROVE  /\ \A s \in Seq(Seq(S)) : FlattenSeq(s) \in Seq(S)
         /\ \A s, t \in Seq(Seq(S)) : FlattenSeq(s \o t) = FlattenSeq(s) \o FlattenSeq(t)
         /\ \A e \in Seq(S) : FlattenSeq(<<e>>) = e
         /\ \A s \in Seq(Seq(S)) : (\A i \in 1 .. Len(s) : s[i] = <<>>) => FlattenSeq(s) = <<>>
<1> DEFINE T == Seq(S)
           F == [s \in T |-> s]
<1>1. Maps(F, T, Seq(S))
  BY DEF Maps
<1>2. ASSUME NEW s \in Seq(T) PROVE Gathered(F, s) = FlattenSeq(s)
  <2>1. DOMAIN s = 1 .. Len(s) /\ \A i \in 1 .. Len(s) : s[i] \in T
    OBVIOUS
  <2>2. Mapped(F, s) = [i \in 1 .. Len(s) |-> s[i]]
    BY <2>1 DEF Mapped
  <2>3. s = [i \in 1 .. Len(s) |-> s[i]]
    OBVIOUS
  <2> QED BY <2>2, <2>3 DEF Gathered
<1>3. \A e \in T : F[e] = e
  OBVIOUS
<1> HIDE DEF F
<1>4. /\ \A e \in T : Gathered(F, <<e>>) = F[e]
      /\ \A s \in Seq(T) : Gathered(F, s) \in Seq(S)
      /\ \A s, t \in Seq(T) : Gathered(F, s \o t) = Gathered(F, s) \o Gathered(F, t)
  <2> HIDE DEF T
  <2> QED BY <1>1, GatheredConcat
<1>5. \A e \in T : <<e>> \in Seq(T)
  OBVIOUS
<1>6. \A s, t \in Seq(T) : s \o t \in Seq(T)
  OBVIOUS
<1>7. ASSUME NEW s \in Seq(T), \A i \in 1 .. Len(s) : s[i] = <<>> PROVE FlattenSeq(s) = <<>>
  <2>1. \A i \in 1 .. Len(s) : s[i] \in T
    OBVIOUS
  <2>2. \A i \in 1 .. Len(s) : F[s[i]] = <<>>
    BY <1>3, <1>7, <2>1
  <2>3. Gathered(F, s) = <<>>
    <3> HIDE DEF T
    <3> QED BY <1>1, <2>2, GatheredNothing
  <2> QED BY <1>2, <2>3
<1> HIDE DEF T
<1>8. \A s \in Seq(T) : FlattenSeq(s) \in Seq(S)
  BY <1>2, <1>4
<1>9. \A s, t \in Seq(T) : FlattenSeq(s \o t) = FlattenSeq(s) \o FlattenSeq(t)
  <2> SUFFICES ASSUME NEW s \in Seq(T), NEW t \in Seq(T)
               PROVE  FlattenSeq(s \o t) = FlattenSeq(s) \o FlattenSeq(t)
    OBVIOUS
  <2>1. s \o t \in Seq(T)
    BY <1>6
  <2>2. Gathered(F, s \o t) = Gathered(F, s) \o Gathered(F, t)
    BY <1>4
  <2>3. Gathered(F, s \o t) = FlattenSeq(s \o t)
    BY <1>2, <2>1
  <2> QED BY <1>2, <2>2, <2>3
<1>10. \A e \in T : FlattenSeq(<<e>>) = e
  BY <1>2, <1>3, <1>4, <1>5
<1> QED BY <1>7, <1>8, <1>9, <1>10 DEF T

(* Nothing after the first piece.                                          *)
LEMMA FlattenFirst ==
  ASSUME NEW S, NEW s \in Seq(Seq(S)), Len(s) # 0, \A i \in 2 .. Len(s) : s[i] = <<>>
  PROVE  FlattenSeq(s) = s[1]
<1> DEFINE T == Seq(S)
           n == Len(s)
           rest == [i \in 1 .. n - 1 |-> s[i + 1]]
<1>1. n \in Nat /\ n >= 1 /\ n - 1 \in Nat
  OBVIOUS
<1>2. s[1] \in T /\ \A i \in 1 .. n - 1 : s[i + 1] \in T /\ s[i + 1] = <<>>
  BY <1>1
<1>3. PICK r \in Seq(T) : Len(r) = n - 1 /\ \A i \in 1 .. n - 1 : r[i] = s[i + 1]
  <2>1. rest \in Seq(T) /\ Len(rest) = n - 1
    <3>1. rest \in [1 .. n - 1 -> T]
      BY <1>2
    <3> HIDE DEF rest, T, n
    <3> QED BY <1>1, <3>1, FunctionIsSeq
  <2> QED BY <2>1
<1> HIDE DEF T, rest, n
<1>4. PICK h \in Seq(T) : h = <<s[1]>> /\ Len(h) = 1 /\ h[1] = s[1]
  <2>1. <<s[1]>> \in Seq(T)
    BY <1>2
  <2> QED BY <2>1
<1>5. h \o r \in Seq(T) /\ Len(h \o r) = 1 + (n - 1)
      /\ \A i \in 1 .. 1 + (n - 1) : (h \o r)[i] = IF i <= 1 THEN h[i] ELSE r[i - 1]
  BY <1>3, <1>4, ConcatProperties
<1>6. PICK b \in Seq(T) : b = h \o r
  BY <1>5
<1>7. Len(b) = n
  BY <1>1, <1>5, <1>6
<1>8. ASSUME NEW i \in 1 .. n PROVE b[i] = s[i]
  <2>1. b[i] = IF i <= 1 THEN h[i] ELSE r[i - 1]
    BY <1>1, <1>5, <1>6
  <2>2. CASE i = 1
    BY <1>4, <2>1, <2>2
  <2>3. CASE i # 1
    <3>1. ~(i <= 1) /\ i - 1 \in 1 .. n - 1 /\ (i - 1) + 1 = i
      BY <1>1, <2>3
    <3> QED BY <1>3, <2>1, <3>1
  <2> QED BY <2>2, <2>3
<1>9. b = s
  <2>1. s \in Seq(T) /\ Len(s) = Len(b) /\ \A i \in 1 .. Len(b) : b[i] = s[i]
    BY <1>7, <1>8 DEF T, n
  <2> QED BY ONLY <2>1, b \in Seq(T), SeqEqual
<1>10. FlattenSeq(s) = FlattenSeq(h) \o FlattenSeq(r)
  <2>1. FlattenSeq(h \o r) = FlattenSeq(h) \o FlattenSeq(r)
    <3>1. \A x, y \in Seq(T) : FlattenSeq(x \o y) = FlattenSeq(x) \o FlattenSeq(y)
      BY FlattenConcat DEF T
    <3> QED BY ONLY <3>1, h \in Seq(T), r \in Seq(T)
  <2> QED BY <1>6, <1>9, <2>1
<1>11. FlattenSeq(r) = <<>>
  <2>1. \A i \in 1 .. Len(r) : r[i] = <<>>
    BY <1>2, <1>3
  <2> QED BY <2>1, FlattenConcat DEF T
<1>12. FlattenSeq(h) = s[1]
  BY <1>2, <1>4, FlattenConcat DEF T
<1>13. s[1] \o <<>> = s[1]
  BY <1>2 DEF T
<1> QED BY <1>10, <1>11, <1>12, <1>13

=============================================================================
