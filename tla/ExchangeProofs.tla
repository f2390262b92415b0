-------------------------- MODULE ExchangeProofs --------------------------
(***************************************************************************)
(* Proofs about module Exchange: what goes over the wire is the            *)
(* conversation, for any prompts, questions, answers, tool and bounds.     *)
(* Texts of any length: the lemmas on turns and pieces are inductions over *)
(* the messages, from those of TextLemmas.                                 *)
(***************************************************************************)
EXTENDS Exchange, TextLemmas

(* Types.  The pieces of texts are strings; two that the code itself writes*)
(* are named, as the provers do not know a literal for a string.           *)
Words == STRING \cup {BlankLine, UnknownTool}
Roles == {"system", "user", "assistant", "tool"}
WireRoles == Roles \cup {"model"}
Tags == WireRoles \X Words
GoodCalls == {c \in Calls : ToolText(c) \in Seq(Words)}
Messages == [role : Roles, text : Seq(Words), call : Seq(GoodCalls)]
Sayings == [by : Roles, text : Seq(Words)]
TurnsSent == [role : WireRoles, text : Seq(Words)]

(* The pieces of the turns made of these messages, and of what was said.   *)
Told(k, ms) == TurnPieces(Turns(k, ms))
Spoken(k, sayings) == Pieces(OnWire(k, sayings))

(* Texts are sequences of words.                                           *)
LEMMA TextsOfWords == Texts \subseteq Seq(Words)
<1> SUFFICES ASSUME NEW t \in Texts PROVE t \in Seq(Words)
  OBVIOUS
<1>1. t \in Seq(STRING) /\ STRING \subseteq Words
  BY DEF Texts, Words
<1> HIDE DEF Words
<1> QED BY <1>1, SeqMonotonic

(* Roles on the wire.                                                      *)
LEMMA WireRoleTypes ==
  ASSUME NEW k \in Kinds, NEW r \in Roles
  PROVE  WireRole(k, r) \in WireRoles
BY DEF WireRole, WireRoles, Roles, Kinds

(* Tagging goes piece by piece.                                            *)
LEMMA TaggedFacts ==
  ASSUME NEW by \in WireRoles
  PROVE  /\ Tagged(by, <<>>) = <<>>
         /\ \A t \in Seq(Words) : Tagged(by, t) \in Seq(Tags)
         /\ \A s, t \in Seq(Words) : Tagged(by, s \o t) = Tagged(by, s) \o Tagged(by, t)
<1>1. Tagged(by, <<>>) = <<>>
  BY DEF Tagged
<1>2. ASSUME NEW t \in Seq(Words)
      PROVE  /\ Tagged(by, t) \in Seq(Tags) /\ Len(Tagged(by, t)) = Len(t) /\ Len(t) \in Nat
             /\ \A i \in 1 .. Len(t) : Tagged(by, t)[i] = <<by, t[i]>>
  <2>1. Len(t) \in Nat /\ DOMAIN t = 1 .. Len(t) /\ \A i \in 1 .. Len(t) : t[i] \in Words
    OBVIOUS
  <2>2. \A i \in 1 .. Len(t) : <<by, t[i]>> \in Tags
    BY <2>1 DEF Tags
  <2>3. Tagged(by, t) \in [1 .. Len(t) -> Tags]
    BY <2>1, <2>2 DEF Tagged
  <2>4. Tagged(by, t) \in Seq(Tags) /\ Len(Tagged(by, t)) = Len(t)
    BY <2>1, <2>3, FunctionIsSeq
  <2>5. \A i \in 1 .. Len(t) : Tagged(by, t)[i] = <<by, t[i]>>
    BY <2>1 DEF Tagged
  <2> QED BY <2>1, <2>4, <2>5
<1>3. ASSUME NEW s \in Seq(Words), NEW t \in Seq(Words)
      PROVE  Tagged(by, s \o t) = Tagged(by, s) \o Tagged(by, t)
  <2> DEFINE both == Tagged(by, s) \o Tagged(by, t)
             n == Len(s)
             m == Len(t)
  <2>1. /\ s \o t \in Seq(Words) /\ Len(s \o t) = n + m /\ n \in Nat /\ m \in Nat
        /\ \A i \in 1 .. n + m : (s \o t)[i] = IF i <= n THEN s[i] ELSE t[i - n]
    BY <1>2, ConcatProperties
  <2>2. /\ both \in Seq(Tags) /\ Len(both) = n + m
        /\ \A i \in 1 .. n + m : both[i] = IF i <= n THEN Tagged(by, s)[i]
                                                    ELSE Tagged(by, t)[i - n]
    <3>1. PICK a \in Seq(Tags), b \in Seq(Tags) : a = Tagged(by, s) /\ b = Tagged(by, t)
      BY <1>2
    <3>2. Len(a) = n /\ Len(b) = m
      BY <1>2, <3>1
    <3>3. /\ a \o b \in Seq(Tags) /\ Len(a \o b) = Len(a) + Len(b)
          /\ \A i \in 1 .. Len(a) + Len(b) :
               (a \o b)[i] = IF i <= Len(a) THEN a[i] ELSE b[i - Len(a)]
      BY ConcatProperties
    <3> HIDE DEF n, m
    <3> QED BY <3>1, <3>2, <3>3
  <2>3. Tagged(by, s \o t) \in Seq(Tags) /\ Len(Tagged(by, s \o t)) = n + m
        /\ \A i \in 1 .. n + m : Tagged(by, s \o t)[i] = <<by, (s \o t)[i]>>
    BY <1>2, <2>1
  <2> HIDE DEF both
  <2>4. ASSUME NEW i \in 1 .. n + m PROVE Tagged(by, s \o t)[i] = both[i]
    <3>1. CASE i <= n
      <4>1. i \in 1 .. n
        BY <2>1, <3>1
      <4>2. both[i] = Tagged(by, s)[i] /\ (s \o t)[i] = s[i]
        BY <2>1, <2>2, <3>1
      <4> QED BY <1>2, <2>3, <4>1, <4>2
    <3>2. CASE ~(i <= n)
      <4>1. i - n \in 1 .. m
        BY <2>1, <3>2
      <4>2. both[i] = Tagged(by, t)[i - n] /\ (s \o t)[i] = t[i - n]
        BY <2>1, <2>2, <3>2
      <4> QED BY <1>2, <2>3, <4>1, <4>2
    <3> QED BY <3>1, <3>2
  <2>5. Tagged(by, s \o t) = both
    <3> HIDE DEF n, m
    <3> QED BY <2>2, <2>3, <2>4, SeqEqual
  <2> QED BY <2>5 DEF both
<1> QED BY <1>1, <1>2, <1>3

(* Messages to turns to pieces: one after the other.                       *)
LEMMA ToldFacts ==
  ASSUME NEW k \in Kinds
  PROVE  /\ Told(k, <<>>) = <<>>
         /\ \A m \in Messages : Told(k, <<m>>) = IF Apart(k, m) THEN <<>>
                                              ELSE Tagged(WireRole(k, m.role), m.text)
         /\ \A s \in Seq(Messages) : Told(k, s) \in Seq(Tags)
         /\ \A s, t \in Seq(Messages) : Told(k, s \o t) = Told(k, s) \o Told(k, t)
<1> DEFINE F == [m \in Messages |-> IF Apart(k, m) THEN <<>> ELSE <<Turn(k, m)>>]
           G == [t \in TurnsSent |-> Tagged(t.role, t.text)]
<1>1. Maps(F, Messages, Seq(TurnsSent))
  <2>1. ASSUME NEW m \in Messages PROVE Turn(k, m) \in TurnsSent
    <3>1. m.role \in Roles /\ m.text \in Seq(Words)
      BY DEF Messages
    <3>2. WireRole(k, m.role) \in WireRoles
      BY <3>1, WireRoleTypes
    <3> QED BY <3>1, <3>2 DEF Turn, TurnsSent
  <2>2. \A m \in Messages : F[m] \in Seq(TurnsSent)
    BY <2>1
  <2> QED BY <2>2 DEF Maps
<1>2. Maps(G, TurnsSent, Seq(Tags))
  <2>1. ASSUME NEW t \in TurnsSent PROVE G[t] \in Seq(Tags)
    <3>1. t.role \in WireRoles /\ t.text \in Seq(Words)
      BY DEF TurnsSent
    <3> QED BY <3>1, TaggedFacts
  <2> QED BY <2>1 DEF Maps
<1>3. \A s \in Seq(Messages) : Turns(k, s) = Gathered(F, s)
  <2> SUFFICES ASSUME NEW s \in Seq(Messages) PROVE Turns(k, s) = Gathered(F, s)
    OBVIOUS
  <2>1. \A i \in DOMAIN s : s[i] \in Messages
    OBVIOUS
  <2>2. [i \in DOMAIN s |-> IF Apart(k, s[i]) THEN <<>> ELSE <<Turn(k, s[i])>>] = Mapped(F, s)
    BY <2>1 DEF Mapped
  <2> HIDE DEF F
  <2> QED BY <2>2 DEF Turns, Gathered
<1>4. \A t \in Seq(TurnsSent) : TurnPieces(t) = Gathered(G, t)
  <2> SUFFICES ASSUME NEW t \in Seq(TurnsSent) PROVE TurnPieces(t) = Gathered(G, t)
    OBVIOUS
  <2>1. \A i \in DOMAIN t : t[i] \in TurnsSent
    OBVIOUS
  <2>2. [i \in DOMAIN t |-> Tagged(t[i].role, t[i].text)] = Mapped(G, t)
    BY <2>1 DEF Mapped
  <2> HIDE DEF G
  <2> QED BY <2>2 DEF TurnPieces, Gathered
<1>5. \A m \in Messages : F[m] = IF Apart(k, m) THEN <<>> ELSE <<Turn(k, m)>>
  OBVIOUS
<1>6. \A t \in TurnsSent : G[t] = Tagged(t.role, t.text)
  OBVIOUS
<1> HIDE DEF F, G
<1>7. /\ Gathered(F, <<>>) = <<>>
      /\ \A m \in Messages : Gathered(F, <<m>>) = F[m]
      /\ \A s \in Seq(Messages) : Gathered(F, s) \in Seq(TurnsSent)
      /\ \A s, t \in Seq(Messages) : Gathered(F, s \o t) = Gathered(F, s) \o Gathered(F, t)
  BY <1>1, GatheredConcat
<1>8. /\ Gathered(G, <<>>) = <<>>
      /\ \A t \in TurnsSent : Gathered(G, <<t>>) = G[t]
      /\ \A s \in Seq(TurnsSent) : Gathered(G, s) \in Seq(Tags)
      /\ \A s, t \in Seq(TurnsSent) : Gathered(G, s \o t) = Gathered(G, s) \o Gathered(G, t)
  BY <1>2, GatheredConcat
<1>9. <<>> \in Seq(Messages) /\ <<>> \in Seq(TurnsSent)
  OBVIOUS
<1>10. \A s \in Seq(Messages) : Told(k, s) = Gathered(G, Gathered(F, s))
  BY <1>3, <1>4, <1>7 DEF Told
<1>11. Told(k, <<>>) = <<>>
  BY <1>7, <1>8, <1>9, <1>10
<1>12. ASSUME NEW m \in Messages
       PROVE  Told(k, <<m>>) = IF Apart(k, m) THEN <<>> ELSE Tagged(WireRole(k, m.role), m.text)
  <2>1. Told(k, <<m>>) = Gathered(G, F[m])
    <3>1. <<m>> \in Seq(Messages)
      OBVIOUS
    <3> QED BY <1>7, <1>10, <3>1
  <2>2. CASE Apart(k, m)
    BY <1>5, <1>8, <2>1, <2>2
  <2>3. CASE ~Apart(k, m)
    <3>1. F[m] = <<Turn(k, m)>>
      BY <1>5, <2>3
    <3>2. F[m] \in Seq(TurnsSent)
      BY <1>1 DEF Maps
    <3>3. Turn(k, m) \in TurnsSent
      BY <3>1, <3>2
    <3>4. Told(k, <<m>>) = Tagged(Turn(k, m).role, Turn(k, m).text)
      BY <1>6, <1>8, <2>1, <3>1, <3>3
    <3> QED BY <2>3, <3>4 DEF Turn
  <2> QED BY <2>2, <2>3
<1>13. \A s \in Seq(Messages) : Told(k, s) \in Seq(Tags)
  BY <1>7, <1>8, <1>10
<1>14. ASSUME NEW s \in Seq(Messages), NEW t \in Seq(Messages)
       PROVE  Told(k, s \o t) = Told(k, s) \o Told(k, t)
  <2>1. s \o t \in Seq(Messages)
    OBVIOUS
  <2>2. PICK a \in Seq(TurnsSent), b \in Seq(TurnsSent) :
          a = Gathered(F, s) /\ b = Gathered(F, t)
    BY <1>7
  <2>3. Told(k, s) = Gathered(G, a) /\ Told(k, t) = Gathered(G, b)
    BY <1>10, <2>2
  <2>4. Told(k, s \o t) = Gathered(G, a \o b)
    BY <1>7, <1>10, <2>1, <2>2
  <2>5. Gathered(G, a \o b) = Gathered(G, a) \o Gathered(G, b)
    BY <1>8
  <2> QED BY <2>3, <2>4, <2>5
<1> QED BY <1>11, <1>12, <1>13, <1>14

(* What was said to pieces likewise.                                       *)
LEMMA SpokenFacts ==
  ASSUME NEW k \in Kinds
  PROVE  /\ Spoken(k, <<>>) = <<>>
         /\ \A x \in Sayings : Spoken(k, <<x>>) = Tagged(WireRole(k, x.by), x.text)
         /\ \A s \in Seq(Sayings) : Spoken(k, s) \in Seq(Tags)
         /\ \A s, t \in Seq(Sayings) : Spoken(k, s \o t) = Spoken(k, s) \o Spoken(k, t)
<1> DEFINE F == [x \in Sayings |-> Tagged(WireRole(k, x.by), x.text)]
<1>1. Maps(F, Sayings, Seq(Tags))
  <2>1. ASSUME NEW x \in Sayings PROVE F[x] \in Seq(Tags)
    <3>1. x.by \in Roles /\ x.text \in Seq(Words)
      BY DEF Sayings
    <3>2. WireRole(k, x.by) \in WireRoles
      BY <3>1, WireRoleTypes
    <3> QED BY <3>1, <3>2, TaggedFacts
  <2> QED BY <2>1 DEF Maps
<1>2. \A s \in Seq(Sayings) : Spoken(k, s) = Gathered(F, s)
  <2> SUFFICES ASSUME NEW s \in Seq(Sayings) PROVE Spoken(k, s) = Gathered(F, s)
    OBVIOUS
  <2>1. \A i \in DOMAIN s : s[i] \in Sayings
    OBVIOUS
  <2>2. DOMAIN OnWire(k, s) = DOMAIN s
    BY DEF OnWire
  <2>3. \A i \in DOMAIN s : /\ OnWire(k, s)[i].by = WireRole(k, s[i].by)
                            /\ OnWire(k, s)[i].text = s[i].text
    BY DEF OnWire, Saying
  <2>4. [i \in DOMAIN OnWire(k, s) |-> Tagged(OnWire(k, s)[i].by, OnWire(k, s)[i].text)]
          = Mapped(F, s)
    BY <2>1, <2>2, <2>3 DEF Mapped
  <2> HIDE DEF F
  <2> QED BY <2>4 DEF Spoken, Pieces, Gathered
<1>3. \A x \in Sayings : F[x] = Tagged(WireRole(k, x.by), x.text)
  OBVIOUS
<1> HIDE DEF F
<1>4. /\ Gathered(F, <<>>) = <<>>
      /\ \A x \in Sayings : Gathered(F, <<x>>) = F[x]
      /\ \A s \in Seq(Sayings) : Gathered(F, s) \in Seq(Tags)
      /\ \A s, t \in Seq(Sayings) : Gathered(F, s \o t) = Gathered(F, s) \o Gathered(F, t)
  BY <1>1, GatheredConcat
<1>5. <<>> \in Seq(Sayings) /\ \A x \in Sayings : <<x>> \in Seq(Sayings)
  OBVIOUS
<1>6. \A s, t \in Seq(Sayings) : s \o t \in Seq(Sayings)
  OBVIOUS
<1> QED BY <1>2, <1>3, <1>4, <1>5, <1>6

(* The system messages sent apart.                                         *)
LEMMA ApartFacts ==
  ASSUME NEW k \in Kinds
  PROVE  /\ TextsApart(k, <<>>) = <<>>
         /\ \A m \in Messages :
              TextsApart(k, <<m>>) = IF Apart(k, m) THEN <<m.text>> ELSE <<>>
         /\ \A s \in Seq(Messages) : TextsApart(k, s) \in Seq(Seq(Words))
         /\ \A s, t \in Seq(Messages) :
              TextsApart(k, s \o t) = TextsApart(k, s) \o TextsApart(k, t)
<1> DEFINE F == [m \in Messages |-> IF Apart(k, m) THEN <<m.text>> ELSE <<>>]
<1>1. PICK X : X = Seq(Words)
  OBVIOUS
<1>2. Maps(F, Messages, Seq(X))
  <2>1. ASSUME NEW m \in Messages PROVE F[m] \in Seq(X)
    <3>1. m.text \in X
      BY <1>1 DEF Messages
    <3> QED BY <3>1
  <2> QED BY <2>1 DEF Maps
<1>3. \A s \in Seq(Messages) : TextsApart(k, s) = Gathered(F, s)
  <2> SUFFICES ASSUME NEW s \in Seq(Messages) PROVE TextsApart(k, s) = Gathered(F, s)
    OBVIOUS
  <2>1. \A i \in DOMAIN s : s[i] \in Messages
    OBVIOUS
  <2>2. [i \in DOMAIN s |-> IF Apart(k, s[i]) THEN <<s[i].text>> ELSE <<>>] = Mapped(F, s)
    BY <2>1 DEF Mapped
  <2> HIDE DEF F
  <2> QED BY <2>2 DEF TextsApart, Gathered
<1>4. \A m \in Messages : F[m] = IF Apart(k, m) THEN <<m.text>> ELSE <<>>
  OBVIOUS
<1> HIDE DEF F
<1>5. /\ Gathered(F, <<>>) = <<>>
      /\ \A m \in Messages : Gathered(F, <<m>>) = F[m]
      /\ \A s \in Seq(Messages) : Gathered(F, s) \in Seq(X)
      /\ \A s, t \in Seq(Messages) : Gathered(F, s \o t) = Gathered(F, s) \o Gathered(F, t)
  BY <1>2, GatheredConcat
<1>6. <<>> \in Seq(Messages) /\ \A m \in Messages : <<m>> \in Seq(Messages)
  OBVIOUS
<1>7. \A s, t \in Seq(Messages) : s \o t \in Seq(Messages)
  OBVIOUS
<1> QED BY <1>1, <1>3, <1>4, <1>5, <1>6, <1>7

(* None but system messages are.                                           *)
LEMMA NoneApart ==
  ASSUME NEW k \in Kinds, NEW ms \in Seq(Messages),
         \A i \in DOMAIN ms : ms[i].role # "system"
  PROVE  TextsApart(k, ms) = <<>>
<1> DEFINE F == [m \in Messages |-> IF Apart(k, m) THEN <<m.text>> ELSE <<>>]
<1>1. PICK X : X = Seq(Words)
  OBVIOUS
<1>2. Maps(F, Messages, Seq(X))
  <2>1. ASSUME NEW m \in Messages PROVE F[m] \in Seq(X)
    <3>1. m.text \in X
      BY <1>1 DEF Messages
    <3> QED BY <3>1
  <2> QED BY <2>1 DEF Maps
<1>3. TextsApart(k, ms) = Gathered(F, ms)
  <2>1. \A i \in DOMAIN ms : ms[i] \in Messages
    OBVIOUS
  <2>2. [i \in DOMAIN ms |-> IF Apart(k, ms[i]) THEN <<ms[i].text>> ELSE <<>>] = Mapped(F, ms)
    BY <2>1 DEF Mapped
  <2> HIDE DEF F
  <2> QED BY <2>2 DEF TextsApart, Gathered
<1>4. \A i \in 1 .. Len(ms) : F[ms[i]] = <<>>
  <2>1. \A i \in 1 .. Len(ms) : ms[i] \in Messages /\ ~Apart(k, ms[i])
    BY DEF Apart
  <2> QED BY <2>1
<1> HIDE DEF F
<1> QED BY <1>2, <1>3, <1>4, GatheredNothing
-----------------------------------------------------------------------------
(* Answers                                                                 *)

(* Texts as sayings, and as the messages Claude makes of them.             *)
Say(texts) == [i \in DOMAIN texts |-> Saying("assistant", texts[i])]
Each(texts) == [i \in DOMAIN texts |-> Message("assistant", texts[i], <<>>)]

(* Several texts are told as one, and as one message each.                 *)
LEMMA TextsTold ==
  ASSUME NEW k \in Kinds
  PROVE  \A ts \in Seq(Seq(Words)) :
           /\ Say(ts) \in Seq(Sayings)
           /\ Each(ts) \in Seq(Messages)
           /\ \A i \in DOMAIN Each(ts) : Each(ts)[i].role = "assistant" /\ Each(ts)[i].call = <<>>
           /\ FlattenSeq(ts) \in Seq(Words)
           /\ Spoken(k, Say(ts)) = Tagged(WireRole(k, "assistant"), FlattenSeq(ts))
           /\ Told(k, Each(ts)) = Spoken(k, Say(ts))
<1>1. PICK X : X = Seq(Words)
  OBVIOUS
<1>2. PICK r \in WireRoles : r = WireRole(k, "assistant")
  BY WireRoleTypes DEF Roles
<1> DEFINE J == [t \in X |-> Saying("assistant", t)]
           M == [t \in X |-> Message("assistant", t, <<>>)]
<1>3. \A t \in X : J[t] \in Sayings /\ J[t].by = "assistant" /\ J[t].text = t
  BY <1>1 DEF Sayings, Saying, Roles
<1>4. \A t \in X : /\ M[t] \in Messages /\ M[t].role = "assistant" /\ M[t].text = t
                   /\ M[t].call = <<>>
  <2>1. <<>> \in Seq(GoodCalls)
    OBVIOUS
  <2> QED BY <1>1, <2>1 DEF Messages, Message, Roles
<1>5. Maps(J, X, Sayings) /\ Maps(M, X, Messages)
  BY <1>3, <1>4 DEF Maps
<1>6. ASSUME NEW ts \in Seq(X)
      PROVE  Say(ts) = Mapped(J, ts) /\ Each(ts) = Mapped(M, ts)
  <2>1. \A i \in DOMAIN ts : ts[i] \in X
    OBVIOUS
  <2> QED BY <2>1 DEF Mapped, Say, Each
<1> HIDE DEF J, M
<1>7. /\ \A ts \in Seq(X) : Mapped(J, ts) \in Seq(Sayings)
      /\ \A ts \in Seq(X), t \in X : Mapped(J, Append(ts, t)) = Append(Mapped(J, ts), J[t])
  BY <1>5, MappedFacts
<1>8. /\ \A ts \in Seq(X) : /\ Mapped(M, ts) \in Seq(Messages)
                            /\ Len(Mapped(M, ts)) = Len(ts)
                            /\ \A i \in 1 .. Len(ts) : Mapped(M, ts)[i] = M[ts[i]]
      /\ \A ts \in Seq(X), t \in X : Mapped(M, Append(ts, t)) = Append(Mapped(M, ts), M[t])
  BY <1>5, MappedFacts
<1> DEFINE Good(ts) == /\ FlattenSeq(ts) \in X
                       /\ Spoken(k, Say(ts)) = Tagged(r, FlattenSeq(ts))
                       /\ Told(k, Each(ts)) = Spoken(k, Say(ts))
           Q == {ts \in Seq(X) : Good(ts)}
<1>9. <<>> \in Q
  <2>1. Say(<<>>) = <<>> /\ Each(<<>>) = <<>>
    BY DEF Say, Each
  <2>2. <<>> \in X /\ <<>> \in Seq(X)
    BY <1>1
  <2>3. Spoken(k, <<>>) = <<>> /\ Told(k, <<>>) = <<>> /\ Tagged(r, <<>>) = <<>>
    BY SpokenFacts, ToldFacts, TaggedFacts
  <2> QED BY <2>1, <2>2, <2>3, FlattenNothing
<1>10. ASSUME NEW ts \in Seq(X), NEW t \in X, ts \in Q PROVE Append(ts, t) \in Q
  <2>1. Append(ts, t) \in Seq(X)
    OBVIOUS
  <2>2. FlattenSeq(ts) \in X /\ FlattenSeq(Append(ts, t)) = FlattenSeq(ts) \o t
    BY <1>1, FlattenAppend
  <2>3. FlattenSeq(ts) \o t \in X
    BY <1>1, <2>2
  <2>4. PICK s \in Seq(Sayings), e \in Seq(Messages) : s = Say(ts) /\ e = Each(ts)
    BY <1>6, <1>7, <1>8
  <2>5. Say(Append(ts, t)) = Append(s, J[t]) /\ Each(Append(ts, t)) = Append(e, M[t])
    BY <1>6, <1>7, <1>8, <2>1, <2>4
  <2>6. Append(s, J[t]) = s \o <<J[t]>> /\ Append(e, M[t]) = e \o <<M[t]>>
    <3>1. J[t] \in Sayings /\ M[t] \in Messages
      BY <1>3, <1>4
    <3>2. Append(s, J[t]) = s \o <<J[t]>>
      BY ONLY <3>1, s \in Seq(Sayings), AppendIsConcat
    <3>3. Append(e, M[t]) = e \o <<M[t]>>
      BY ONLY <3>1, e \in Seq(Messages), AppendIsConcat
    <3> QED BY <3>2, <3>3
  <2>7. <<J[t]>> \in Seq(Sayings) /\ <<M[t]>> \in Seq(Messages)
    BY <1>3, <1>4
  <2>8. Spoken(k, s \o <<J[t]>>) = Spoken(k, s) \o Spoken(k, <<J[t]>>)
    BY <2>7, SpokenFacts
  <2>9. Told(k, e \o <<M[t]>>) = Told(k, e) \o Told(k, <<M[t]>>)
    BY <2>7, ToldFacts
  <2>10. Spoken(k, <<J[t]>>) = Tagged(r, t)
    BY <1>2, <1>3, SpokenFacts
  <2>11. Told(k, <<M[t]>>) = Tagged(r, t)
    <3>1. ~Apart(k, M[t])
      BY <1>4 DEF Apart
    <3> QED BY <1>2, <1>4, <3>1, ToldFacts
  <2>12. Tagged(r, FlattenSeq(ts) \o t) = Tagged(r, FlattenSeq(ts)) \o Tagged(r, t)
    BY <1>1, <2>2, TaggedFacts
  <2>13. Spoken(k, s) = Tagged(r, FlattenSeq(ts)) /\ Told(k, e) = Spoken(k, s)
    BY <1>10, <2>4
  <2>14. Good(Append(ts, t))
    BY <2>2, <2>3, <2>5, <2>6, <2>8, <2>9, <2>10, <2>11, <2>12, <2>13
  <2> HIDE DEF Good
  <2> QED BY <2>1, <2>14
<1>11. Seq(X) \subseteq Q
  <2> HIDE DEF Q
  <2> QED BY <1>9, <1>10, SeqInduction
<1>12. \A ts \in Seq(X) : Good(ts)
  <2> HIDE DEF Good
  <2> QED BY <1>11
<1>13. ASSUME NEW ts \in Seq(X), NEW i \in DOMAIN Each(ts)
       PROVE  Each(ts)[i].role = "assistant" /\ Each(ts)[i].call = <<>>
  BY DEF Each, Message
<1> HIDE DEF Q
<1> QED BY <1>1, <1>2, <1>6, <1>7, <1>8, <1>12, <1>13

(* The texts of an answer.                                                 *)
LEMMA TextsOfFacts ==
  ASSUME NEW choice \in AnswerChoices
  PROVE  TextsOf(choice) \in Seq(Seq(Words))
<1>1. PICK X : X = Seq(Words)
  OBVIOUS
<1>2. PICK Blocks : Blocks = [type : STRING, text : Texts]
  OBVIOUS
<1> DEFINE F == [b \in Blocks |-> IF b.type = "text" THEN <<b.text>> ELSE <<>>]
<1>3. Maps(F, Blocks, Seq(X))
  <2>1. ASSUME NEW b \in Blocks PROVE F[b] \in Seq(X)
    <3>1. b.text \in X
      BY <1>1, <1>2, TextsOfWords
    <3> QED BY <3>1
  <2> QED BY <2>1 DEF Maps
<1>4. choice.blocks \in Seq(Blocks)
  BY <1>2 DEF AnswerChoices
<1>5. TextsOf(choice) = Gathered(F, choice.blocks)
  <2>1. \A i \in DOMAIN choice.blocks : choice.blocks[i] \in Blocks
    BY <1>4
  <2>2. [i \in DOMAIN choice.blocks |->
           IF choice.blocks[i].type = "text" THEN <<choice.blocks[i].text>> ELSE <<>>]
          = Mapped(F, choice.blocks)
    BY <2>1 DEF Mapped
  <2> HIDE DEF F
  <2> QED BY <2>2 DEF TextsOf, Gathered
<1> HIDE DEF F
<1>6. Gathered(F, choice.blocks) \in Seq(X)
  BY <1>3, <1>4, GatheredConcat
<1> QED BY <1>1, <1>5, <1>6

(* The calls of a response.                                                *)
LEMMA CallsInFacts ==
  /\ \A response \in Seq(Messages) :
       (\A i \in DOMAIN response : response[i].call = <<>>) => CallsIn(response) = <<>>
  /\ \A m \in Messages : CallsIn(<<m>>) = m.call
<1>1. PICK X : X = GoodCalls
  OBVIOUS
<1> DEFINE F == [m \in Messages |-> m.call]
<1>2. Maps(F, Messages, Seq(X))
  <2>1. \A m \in Messages : F[m] \in Seq(X)
    BY <1>1 DEF Messages
  <2> QED BY <2>1 DEF Maps
<1>3. ASSUME NEW response \in Seq(Messages)
      PROVE  /\ Reverse(response) \in Seq(Messages)
             /\ CallsIn(response) = Gathered(F, Reverse(response))
             /\ \A i \in 1 .. Len(Reverse(response)) :
                  \E j \in DOMAIN response : Reverse(response)[i] = response[j]
  <2> DEFINE n == Len(response)
             back == Reverse(response)
  <2>1. n \in Nat /\ DOMAIN response = 1 .. n /\ \A i \in 1 .. n : response[i] \in Messages
    OBVIOUS
  <2>2. \A i \in 1 .. n : n - i + 1 \in 1 .. n
    BY <2>1
  <2>3. back = [i \in 1 .. n |-> response[n - i + 1]]
    BY DEF Reverse
  <2>4. back \in [1 .. n -> Messages] /\ \A i \in 1 .. n : back[i] = response[n - i + 1]
    BY <2>1, <2>2, <2>3
  <2> HIDE DEF back
  <2>5. back \in Seq(Messages) /\ Len(back) = n /\ DOMAIN back = 1 .. n
    BY <2>1, <2>4, FunctionIsSeq
  <2>6. [i \in DOMAIN response |-> back[i].call] = Mapped(F, back)
    BY <2>1, <2>4, <2>5 DEF Mapped
  <2>7. CallsIn(response) = Gathered(F, back)
    <3> HIDE DEF F
    <3> QED BY <2>6 DEF CallsIn, Gathered, back
  <2>8. \A i \in 1 .. n : \E j \in DOMAIN response : back[i] = response[j]
    BY <2>1, <2>2, <2>4
  <2> QED BY <2>5, <2>7, <2>8 DEF back
<1>4. \A m \in Messages : F[m] = m.call
  OBVIOUS
<1> HIDE DEF F
<1>5. ASSUME NEW response \in Seq(Messages), \A i \in DOMAIN response : response[i].call = <<>>
      PROVE  CallsIn(response) = <<>>
  <2>1. PICK back \in Seq(Messages) :
          /\ CallsIn(response) = Gathered(F, back)
          /\ \A i \in 1 .. Len(back) : \E j \in DOMAIN response : back[i] = response[j]
    BY <1>3
  <2>2. \A i \in 1 .. Len(back) : back[i] \in Messages
    OBVIOUS
  <2>3. \A i \in 1 .. Len(back) : F[back[i]] = <<>>
    BY <1>4, <1>5, <2>1, <2>2
  <2>4. Gathered(F, back) = <<>>
    BY <1>2, <2>3, GatheredNothing
  <2> QED BY <2>1, <2>4
<1>6. ASSUME NEW m \in Messages PROVE CallsIn(<<m>>) = m.call
  <2>1. <<m>> \in Seq(Messages) /\ Len(<<m>>) = 1
    OBVIOUS
  <2>2. Reverse(<<m>>) = <<m>>
    BY <2>1 DEF Reverse
  <2>3. CallsIn(<<m>>) = Gathered(F, <<m>>)
    BY <1>3, <2>1, <2>2
  <2>4. Gathered(F, <<m>>) = F[m]
    BY <1>2, GatheredConcat
  <2> QED BY <1>4, <2>3, <2>4
<1> QED BY <1>5, <1>6

(* What an answer that is understood gives: messages that say what was     *)
(* heard, of the assistant, with at most one call, which only OpenAI makes.*)
LEMMA ResponseFacts ==
  ASSUME NEW k \in Kinds, NEW body \in Bodies[k], ~Refused(k, body), NEW response,
         response = Response(k, body), response # <<>>
  PROVE  /\ response \in Seq(Messages)
         /\ Heard(body) \in Seq(Sayings)
         /\ Told(k, response) = Spoken(k, Heard(body))
         /\ \A i \in DOMAIN response : response[i].role = "assistant"
         /\ \/ /\ \A i \in DOMAIN response : response[i].call = <<>>
               /\ CallsIn(response) = <<>>
            \/ /\ k = "openai"
               /\ \E m \in Messages : /\ response = <<m>>
                                       /\ Len(m.call) = 1
                                       /\ CallsIn(response) = m.call
<1>1. /\ body.choices \in Seq(AnswerChoices) /\ body.choices # <<>>
      /\ response = MessagesOf(k, body.choices[1])
  <2>1. body \in Answers
    BY ExchangeAssumption
  <2> QED BY <2>1 DEF Answers, Response
<1>2. PICK choice \in AnswerChoices : choice = body.choices[1] /\ 1 \in DOMAIN body.choices
  BY <1>1
<1>3. PICK ts \in Seq(Seq(Words)) : ts = TextsOf(choice)
  BY TextsOfFacts
<1>4. Heard(body) = Say(ts)
  BY <1>2, <1>3 DEF Heard, Say
<1>5. /\ Say(ts) \in Seq(Sayings)
      /\ FlattenSeq(ts) \in Seq(Words)
      /\ Spoken(k, Say(ts)) = Tagged(WireRole(k, "assistant"), FlattenSeq(ts))
  BY TextsTold
<1>6. k # "claude" => choice.role \in {"assistant", "model"}
  BY <1>2, ExchangeAssumption
<1>7. ASSUME NEW c \in Seq(GoodCalls), response = <<Message("assistant", FlattenSeq(ts), c)>>
      PROVE  /\ \E m \in Messages : response = <<m>> /\ m.call = c
             /\ response \in Seq(Messages)
             /\ Told(k, response) = Spoken(k, Heard(body))
             /\ \A i \in DOMAIN response : response[i].role = "assistant" /\ response[i].call = c
             /\ CallsIn(response) = c
  <2>1. PICK m : m = Message("assistant", FlattenSeq(ts), c)
    OBVIOUS
  <2>2. m \in Messages /\ m.role = "assistant" /\ m.text = FlattenSeq(ts) /\ m.call = c
    BY <1>5, <2>1 DEF Message, Messages, Roles
  <2>3. ~Apart(k, m)
    BY <2>2 DEF Apart
  <2>4. Told(k, <<m>>) = Tagged(WireRole(k, "assistant"), FlattenSeq(ts))
    BY <2>2, <2>3, ToldFacts
  <2>5. CallsIn(<<m>>) = c
    BY <2>2, CallsInFacts
  <2>6. <<m>> \in Seq(Messages) /\ \A i \in DOMAIN <<m>> : <<m>>[i] = m
    BY <2>2
  <2>7. response = <<m>>
    BY <1>7, <2>1
  <2> QED BY <1>4, <1>5, <2>2, <2>4, <2>5, <2>6, <2>7
<1>8. CASE k = "claude"
  <2>1. response = Each(ts)
    BY <1>1, <1>2, <1>3, <1>8 DEF MessagesOf, Each
  <2>2. /\ Each(ts) \in Seq(Messages)
        /\ \A i \in DOMAIN Each(ts) : Each(ts)[i].role = "assistant" /\ Each(ts)[i].call = <<>>
        /\ Told(k, Each(ts)) = Spoken(k, Say(ts))
    BY TextsTold
  <2>3. CallsIn(response) = <<>>
    BY <2>1, <2>2, CallsInFacts
  <2> QED BY <1>4, <1>5, <2>1, <2>2, <2>3
<1>9. CASE k = "gemini"
  <2>1. response = <<Message("assistant", FlattenSeq(ts), <<>>)>>
    BY <1>1, <1>2, <1>3, <1>6, <1>9 DEF MessagesOf
  <2>2. <<>> \in Seq(GoodCalls)
    OBVIOUS
  <2> QED BY <1>4, <1>5, <1>7, <2>1, <2>2
<1>10. CASE k = "openai"
  <2>1. response = <<Message("assistant", FlattenSeq(ts), FirstCall(choice))>>
    BY <1>1, <1>2, <1>3, <1>6, <1>10 DEF MessagesOf
  <2>2. /\ FirstCall(choice) \in Seq(GoodCalls)
        /\ FirstCall(choice) = <<>> \/ Len(FirstCall(choice)) = 1
    <3>1. CASE choice.calls = <<>>
      <4>1. FirstCall(choice) = <<>>
        BY <3>1 DEF FirstCall
      <4> QED BY <4>1
    <3>2. CASE choice.calls # <<>>
      <4>1. choice.calls \in Seq(Calls)
        BY DEF AnswerChoices
      <4>2. PICK call \in Calls : call = choice.calls[1] /\ 1 \in DOMAIN choice.calls
        BY <3>2, <4>1
      <4>3. ToolExecute(call.expression) \in Texts
        BY <1>2, <4>2, ExchangeAssumption
      <4>4. ToolExecute(call.expression) \in Seq(Words)
        BY <4>3, TextsOfWords
      <4>5. <<UnknownTool>> \in Seq(Words)
        BY DEF Words
      <4>6. call \in GoodCalls
        BY <4>4, <4>5 DEF GoodCalls, ToolText
      <4>7. FirstCall(choice) = <<call>>
        BY <3>2, <4>1, <4>2 DEF FirstCall
      <4> QED BY <4>6, <4>7
    <3> QED BY <3>1, <3>2
  <2>3. PICK c \in Seq(GoodCalls) : c = FirstCall(choice) /\ (c = <<>> \/ Len(c) = 1)
    BY <2>2
  <2> QED BY <1>4, <1>5, <1>7, <1>10, <2>1, <2>3
<1> QED BY <1>8, <1>9, <1>10 DEF Kinds

-----------------------------------------------------------------------------
(* The invariant                                                           *)

AnswerTo(call) == Message("tool", ToolText(call), <<call>>)

Asks(message) == message.role = "assistant" /\ message.call # <<>>

(* Every call is answered by the next message; only OpenAI's servers call. *)
Settled(k, ms) ==
  \A i \in DOMAIN ms : Asks(ms[i]) =>
    /\ k = "openai"
    /\ i + 1 \in DOMAIN ms
    /\ ms[i + 1] = AnswerTo(ms[i].call[1])

(* The one call of a response is yet to be answered while the tools are    *)
(* at work.                                                                *)
Settling(k, at, h, ms, cs) ==
  /\ Settled(k, h)
  /\ at \in {"ask", "wait"} => Settled(k, ms)
  /\ at = "tools" => /\ k = "openai"
                     /\ Len(cs) = 1
                     /\ Settled(k, Append(ms, AnswerTo(cs[1])))

Opening(p) == IF p = <<>> THEN <<>> ELSE <<Message("system", p, <<>>)>>

(* What Return makes of the history, if the messages are long enough.      *)
Kept(p, h, ms) == h \o SubSeq(ms, IF p = <<>> THEN 1 ELSE 2 + Len(h), Len(ms))

LongEnough(p, h, ms) == p = <<>> \/ Len(ms) >= 1 + Len(h)

(* What has been said, with the prompt before it in the messages, without  *)
(* it in what will be the history.                                         *)
Conversation(k, p, h, ms, sd) ==
  /\ TextsApart(k, ms) = TextsApart(k, Opening(p))
  /\ Told(k, ms) = Told(k, Opening(p)) \o Spoken(k, sd)
  /\ TextsApart(k, Kept(p, h, ms)) = <<>>
  /\ Told(k, Kept(p, h, ms)) = Spoken(k, sd)

Telling(k, p, at, h, ms, sd, b) ==
  /\ TextsApart(k, h) = <<>>
  /\ IF at = "idle" THEN Told(k, h) = Spoken(k, sd)
                    ELSE /\ Told(k, h) = Spoken(k, SubSeq(sd, 1, b))
                         /\ Conversation(k, p, h, ms, sd)

Types ==
  /\ kind \in Kinds /\ prompt \in Prompts
  /\ history \in Seq(Messages) /\ messages \in Seq(Messages)
  /\ calls \in Seq(GoodCalls)
  /\ pc \in {"idle", "ask", "wait", "tools"}
  /\ steps \in Nat /\ runs \in Nat
  /\ said \in Seq(Sayings)
  /\ begun \in 0 .. Len(said)

(* Without a prompt the first run alone is told right.                     *)
Bearings ==
  /\ pc # "idle" => LongEnough(prompt, history, messages)
  /\ pc = "wait" => request = RequestBody(kind, messages)
  /\ runs = 0 => pc = "idle"
  /\ runs = 0 \/ (runs = 1 /\ pc # "idle") => history = <<>>

ExchangeInv ==
  /\ Types
  /\ Bearings
  /\ Settling(kind, pc, history, messages, calls)
  /\ prompt # <<>> \/ runs <= 1 =>
       Telling(kind, prompt, pc, history, messages, said, begun)

-----------------------------------------------------------------------------
(* Lemmas on the parts of the invariant                                    *)

(* A call answered stays so, with more messages before and after.          *)
LEMMA SettledConcat ==
  ASSUME NEW k, NEW s \in Seq(Messages), NEW t \in Seq(Messages), Settled(k, s), Settled(k, t)
  PROVE  Settled(k, s \o t)
<1> DEFINE n == Len(s)
           m == Len(t)
<1>1. n \in Nat /\ m \in Nat /\ DOMAIN s = 1 .. n /\ DOMAIN t = 1 .. m
  OBVIOUS
<1>2. PICK both \in Seq(Messages) : both = s \o t
  BY ConcatProperties
<1>3. /\ DOMAIN both = 1 .. n + m
      /\ \A i \in 1 .. n + m : both[i] = IF i <= n THEN s[i] ELSE t[i - n]
  <2>1. Len(both) = n + m
    BY <1>2, ConcatProperties
  <2> QED BY <1>2, <2>1, ConcatProperties
<1> HIDE DEF n, m
<1>4. ASSUME NEW i \in 1 .. n + m, Asks(both[i])
      PROVE  k = "openai" /\ i + 1 \in 1 .. n + m /\ both[i + 1] = AnswerTo(both[i].call[1])
  <2>1. CASE i <= n
    <3>1. i \in DOMAIN s /\ both[i] = s[i]
      BY <1>1, <1>3, <2>1
    <3>2. k = "openai" /\ i + 1 \in 1 .. n /\ s[i + 1] = AnswerTo(s[i].call[1])
      BY <1>1, <1>4, <3>1 DEF Settled
    <3>3. i + 1 \in 1 .. n + m /\ i + 1 <= n
      BY <1>1, <3>2
    <3>4. both[i + 1] = s[i + 1]
      BY <1>3, <3>3
    <3> QED BY <3>1, <3>2, <3>3, <3>4
  <2>2. CASE ~(i <= n)
    <3>1. i - n \in DOMAIN t /\ both[i] = t[i - n]
      BY <1>1, <1>3, <2>2
    <3>2. k = "openai" /\ (i - n) + 1 \in 1 .. m /\ t[(i - n) + 1] = AnswerTo(t[i - n].call[1])
      BY <1>1, <1>4, <3>1 DEF Settled
    <3>3. i + 1 \in 1 .. n + m /\ ~(i + 1 <= n) /\ (i + 1) - n = (i - n) + 1
      BY <1>1, <2>2, <3>2
    <3>4. both[i + 1] = t[(i - n) + 1]
      BY <1>3, <3>3
    <3> QED BY <3>1, <3>2, <3>3, <3>4
  <2> QED BY <2>1, <2>2
<1> QED BY <1>2, <1>3, <1>4 DEF Settled

(* And with fewer before.                                                  *)
LEMMA SettledRest ==
  ASSUME NEW k, NEW s \in Seq(Messages), Settled(k, s), NEW a \in Int, 1 <= a, a <= Len(s) + 1
  PROVE  Settled(k, SubSeq(s, a, Len(s)))
<1> DEFINE n == Len(s)
<1>1. n \in Nat /\ DOMAIN s = 1 .. n
  OBVIOUS
<1>2. PICK rest \in Seq(Messages) : rest = SubSeq(s, a, n)
  BY RestFacts
<1>3. DOMAIN rest = 1 .. n - a + 1 /\ \A i \in 1 .. n - a + 1 : rest[i] = s[a + i - 1]
  BY <1>2, RestFacts
<1> HIDE DEF n
<1>4. ASSUME NEW i \in 1 .. n - a + 1, Asks(rest[i])
      PROVE  k = "openai" /\ i + 1 \in 1 .. n - a + 1 /\ rest[i + 1] = AnswerTo(rest[i].call[1])
  <2>1. a + i - 1 \in 1 .. n /\ rest[i] = s[a + i - 1]
    BY <1>1, <1>3
  <2>2. k = "openai" /\ (a + i - 1) + 1 \in 1 .. n /\ s[(a + i - 1) + 1] = AnswerTo(s[a + i - 1].call[1])
    BY <1>1, <1>4, <2>1 DEF Settled
  <2>3. i + 1 \in 1 .. n - a + 1 /\ a + (i + 1) - 1 = (a + i - 1) + 1
    BY <1>1, <2>2
  <2>4. rest[i + 1] = s[(a + i - 1) + 1]
    BY <1>3, <2>3
  <2> QED BY <2>1, <2>2, <2>3, <2>4
<1> QED BY <1>2, <1>3, <1>4 DEF Settled, n

(* What an action adds, well formed.                                       *)
LEMMA OpeningFacts ==
  ASSUME NEW p \in Seq(Words)
  PROVE  /\ Opening(p) \in Seq(Messages)
         /\ p = <<>> => Opening(p) = <<>>
         /\ p # <<>> => Len(Opening(p)) = 1
         /\ \A i \in DOMAIN Opening(p) : ~Asks(Opening(p)[i])
<1>1. PICK m \in Messages : m = Message("system", p, <<>>) /\ m.call = <<>>
  <2>1. <<>> \in Seq(GoodCalls)
    OBVIOUS
  <2>2. Message("system", p, <<>>) \in Messages /\ Message("system", p, <<>>).call = <<>>
    BY <2>1 DEF Message, Messages, Roles
  <2> QED BY <2>2
<1>2. ~Asks(m)
  BY <1>1 DEF Asks
<1> QED BY <1>1, <1>2 DEF Opening

(* A question, as a message and as a saying.                               *)
LEMMA UserFacts ==
  ASSUME NEW t \in Seq(Words)
  PROVE  /\ \E u : /\ u = Message("user", t, <<>>) /\ u \in Messages
                   /\ u.role = "user" /\ u.text = t /\ ~Asks(u)
         /\ \E w : w = Saying("user", t) /\ w \in Sayings /\ w.by = "user" /\ w.text = t
<1>1. <<>> \in Seq(GoodCalls)
  OBVIOUS
<1>2. /\ Message("user", t, <<>>) \in Messages
      /\ Message("user", t, <<>>).role = "user" /\ Message("user", t, <<>>).text = t
      /\ Message("user", t, <<>>).call = <<>>
  BY <1>1 DEF Message, Messages, Roles
<1>3. /\ Saying("user", t) \in Sayings
      /\ Saying("user", t).by = "user" /\ Saying("user", t).text = t
  BY DEF Saying, Sayings, Roles
<1> QED BY <1>2, <1>3 DEF Asks

(* What a tool answers, as a message and as a saying.                      *)
LEMMA ToolFacts ==
  ASSUME NEW c \in GoodCalls
  PROVE  /\ \E a : /\ a = AnswerTo(c) /\ a \in Messages
                   /\ a.role = "tool" /\ a.text = ToolText(c)
         /\ \E w : /\ w = Saying("tool", ToolText(c)) /\ w \in Sayings
                   /\ w.by = "tool" /\ w.text = ToolText(c)
<1>1. PICK t \in Seq(Words) : t = ToolText(c)
  BY DEF GoodCalls
<1>2. PICK cs \in Seq(GoodCalls) : cs = <<c>>
  <2>1. <<c>> \in Seq(GoodCalls)
    OBVIOUS
  <2> QED BY <2>1
<1>3. /\ Message("tool", t, cs) \in Messages
      /\ Message("tool", t, cs).role = "tool" /\ Message("tool", t, cs).text = t
  BY DEF Message, Messages, Roles
<1>4. /\ Saying("tool", t) \in Sayings
      /\ Saying("tool", t).by = "tool" /\ Saying("tool", t).text = t
  BY DEF Saying, Sayings, Roles
<1>5. AnswerTo(c) = Message("tool", t, cs)
  BY <1>1, <1>2 DEF AnswerTo
<1> QED BY <1>1, <1>3, <1>4, <1>5

(* A call and its answer.                                                  *)
LEMMA SettledCall ==
  ASSUME NEW ms \in Seq(Messages), Settled("openai", ms),
         NEW m \in Messages, Len(m.call) = 1
  PROVE  Settled("openai", Append(ms \o <<m>>, AnswerTo(m.call[1])))
<1>1. m.call \in Seq(GoodCalls)
  BY DEF Messages
<1>2. PICK c \in GoodCalls : c = m.call[1]
  BY <1>1
<1>3. PICK a \in Messages : a = AnswerTo(c) /\ a.role = "tool"
  BY ToolFacts
<1>4. <<m, a>> \in Seq(Messages) /\ <<m>> \in Seq(Messages) /\ ms \o <<m>> \in Seq(Messages)
  OBVIOUS
<1>5. Settled("openai", <<m, a>>)
  <2>1. DOMAIN <<m, a>> = 1 .. 2 /\ <<m, a>>[1] = m /\ <<m, a>>[2] = a
    OBVIOUS
  <2>2. ~Asks(a)
    BY <1>3 DEF Asks
  <2> QED BY <1>2, <1>3, <2>1, <2>2 DEF Settled
<1>6. Append(ms \o <<m>>, a) = ms \o <<m, a>>
  <2>1. PICK all \in Seq(Messages) : all = ms \o <<m>>
    BY <1>4
  <2>2. Append(all, a) = all \o <<a>>
    BY ONLY all \in Seq(Messages), a \in Messages, AppendIsConcat
  <2>3. <<a>> \in Seq(Messages) /\ <<m, a>> = <<m>> \o <<a>>
    OBVIOUS
  <2>4. \A x, y, z \in Seq(Messages) : (x \o y) \o z = x \o (y \o z)
    BY Associative
  <2>5. (ms \o <<m>>) \o <<a>> = ms \o (<<m>> \o <<a>>)
    BY <1>4, <2>3, <2>4, Zenon
  <2> QED BY <2>1, <2>2, <2>3, <2>5
<1>7. Settled("openai", ms \o <<m, a>>)
  BY <1>4, <1>5, SettledConcat
<1> QED BY <1>2, <1>3, <1>6, <1>7

(* Messages that ask nothing need no answer.                               *)
LEMMA SettledQuiet ==
  ASSUME NEW k, NEW ms \in Seq(Messages), \A i \in DOMAIN ms : ~Asks(ms[i])
  PROVE  Settled(k, ms)
BY DEF Settled

(* What will be the history.                                               *)
LEMMA KeptFacts ==
  ASSUME NEW p, NEW h \in Seq(Messages), NEW ms \in Seq(Messages), LongEnough(p, h, ms)
  PROVE  /\ Kept(p, h, ms) \in Seq(Messages)
         /\ \A k : Settled(k, h) /\ Settled(k, ms) => Settled(k, Kept(p, h, ms))
         /\ \A r \in Seq(Messages) : /\ Kept(p, h, ms \o r) = Kept(p, h, ms) \o r
                                     /\ LongEnough(p, h, ms \o r)
<1> DEFINE n == Len(ms)
           m == Len(h)
<1>1. n \in Nat /\ m \in Nat
  OBVIOUS
<1>2. PICK a \in Int : a = IF p = <<>> THEN 1 ELSE 2 + m
  BY <1>1
<1>3. 1 <= a /\ a <= n + 1
  BY <1>1, <1>2 DEF LongEnough
<1>4. PICK rest \in Seq(Messages) : rest = SubSeq(ms, a, n)
  BY <1>3, RestFacts
<1>5. Kept(p, h, ms) = h \o rest
  BY <1>2, <1>4 DEF Kept
<1>6. h \o rest \in Seq(Messages)
  OBVIOUS
<1>7. ASSUME NEW k, Settled(k, h), Settled(k, ms) PROVE Settled(k, h \o rest)
  <2>1. Settled(k, rest)
    BY <1>3, <1>4, <1>7, SettledRest
  <2> QED BY <1>7, <2>1, SettledConcat
<1>8. ASSUME NEW r \in Seq(Messages)
      PROVE  Kept(p, h, ms \o r) = (h \o rest) \o r /\ LongEnough(p, h, ms \o r)
  <2>1. SubSeq(ms \o r, a, Len(ms \o r)) = rest \o r
    BY <1>3, <1>4, RestGrows
  <2>2. Kept(p, h, ms \o r) = h \o (rest \o r)
    BY <1>2, <2>1 DEF Kept
  <2>3. (h \o rest) \o r = h \o (rest \o r)
    <3>1. \A x, y, z \in Seq(Messages) : (x \o y) \o z = x \o (y \o z)
      BY Associative
    <3> QED BY <3>1, Zenon
  <2>4. Len(ms \o r) = n + Len(r) /\ Len(r) \in Nat
    BY ConcatProperties
  <2>5. LongEnough(p, h, ms \o r)
    BY <1>1, <2>4 DEF LongEnough
  <2> QED BY <2>2, <2>3, <2>5
<1> QED BY <1>5, <1>6, <1>7, <1>8

(* Pieces are joined in either order.                                      *)
LEMMA TagsAssociative ==
  \A a, b, c \in Seq(Tags) : (a \o b) \o c = a \o (b \o c)
<1> HIDE DEF Tags
<1>1. PICK T : T = Tags
  OBVIOUS
<1>2. \A a, b, c \in Seq(T) : (a \o b) \o c = a \o (b \o c)
  BY Associative
<1> QED BY <1>1, <1>2

(* What Return makes of the history of a conversation.                     *)
LEMMA ConversationGrows ==
  ASSUME NEW k \in Kinds, NEW p \in Seq(Words), NEW h \in Seq(Messages),
         NEW ms \in Seq(Messages), NEW sd \in Seq(Sayings),
         LongEnough(p, h, ms), Conversation(k, p, h, ms, sd),
         NEW r \in Seq(Messages), NEW s \in Seq(Sayings),
         TextsApart(k, r) = <<>>, Told(k, r) = Spoken(k, s)
  PROVE  Conversation(k, p, h, ms \o r, sd \o s)
<1>1. PICK kept \in Seq(Messages) : kept = Kept(p, h, ms) /\ Kept(p, h, ms \o r) = kept \o r
  BY KeptFacts
<1>2. Spoken(k, sd \o s) = Spoken(k, sd) \o Spoken(k, s)
  BY SpokenFacts
<1>3. TextsApart(k, ms \o r) = TextsApart(k, Opening(p))
  <2>1. TextsApart(k, ms \o r) = TextsApart(k, ms) \o TextsApart(k, r)
    BY ApartFacts
  <2>2. TextsApart(k, ms) \in Seq(Seq(Words))
    BY ApartFacts
  <2>3. PICK X : X = Seq(Words)
    OBVIOUS
  <2>4. PICK a \in Seq(X) : a = TextsApart(k, ms)
    BY <2>2, <2>3
  <2>5. a \o <<>> = a
    OBVIOUS
  <2> QED BY <2>1, <2>4, <2>5 DEF Conversation
<1>4. TextsApart(k, kept \o r) = <<>>
  <2>1. TextsApart(k, kept \o r) = TextsApart(k, kept) \o TextsApart(k, r)
    BY ApartFacts
  <2>2. <<>> \o <<>> = <<>>
    OBVIOUS
  <2> QED BY <1>1, <2>1, <2>2 DEF Conversation
<1>5. Told(k, ms \o r) = Told(k, Opening(p)) \o Spoken(k, sd \o s)
  <2>1. Told(k, ms \o r) = Told(k, ms) \o Told(k, r)
    BY ToldFacts
  <2>2. Opening(p) \in Seq(Messages)
    BY OpeningFacts
  <2>3. PICK x \in Seq(Tags), y \in Seq(Tags), z \in Seq(Tags) :
          x = Told(k, Opening(p)) /\ y = Spoken(k, sd) /\ z = Spoken(k, s)
    BY <2>2, ToldFacts, SpokenFacts
  <2>4. (x \o y) \o z = x \o (y \o z)
    BY TagsAssociative
  <2> QED BY <1>2, <2>1, <2>3, <2>4 DEF Conversation
<1>6. Told(k, kept \o r) = Spoken(k, sd \o s)
  <2>1. Told(k, kept \o r) = Told(k, kept) \o Told(k, r)
    BY ToldFacts
  <2> QED BY <1>1, <1>2, <2>1 DEF Conversation
<1> QED BY <1>1, <1>3, <1>4, <1>5, <1>6 DEF Conversation

(* The user's question after the history.                                  *)
LEMMA ConversationBegins ==
  ASSUME NEW k \in Kinds, NEW p \in Seq(Words), NEW h \in Seq(Messages),
         NEW sd \in Seq(Sayings), NEW t \in Seq(Words),
         p # <<>> \/ h = <<>>,
         TextsApart(k, h) = <<>>, Told(k, h) = Spoken(k, sd)
  PROVE  Conversation(k, p, h, Opening(p) \o h \o <<Message("user", t, <<>>)>>,
                      Append(sd, Saying("user", t)))
<1>1. PICK u : u = Message("user", t, <<>>) /\ u \in Messages /\ u.role = "user" /\ u.text = t
  BY UserFacts
<1>2. PICK w : w = Saying("user", t) /\ w \in Sayings /\ w.by = "user" /\ w.text = t
  BY UserFacts
<1>3. PICK q \in Seq(Messages) : q = Opening(p)
  BY OpeningFacts
<1>4. PICK r \in Seq(Messages) : r = <<u>>
  <2>1. <<u>> \in Seq(Messages)
    BY <1>1
  <2> QED BY <2>1
<1>5. PICK s \in Seq(Sayings) : s = <<w>>
  <2>1. <<w>> \in Seq(Sayings)
    BY <1>2
  <2> QED BY <2>1
<1>6. Append(sd, w) = sd \o s
  BY ONLY <1>2, <1>5, sd \in Seq(Sayings), AppendIsConcat
<1>7. TextsApart(k, r) = <<>>
  <2>1. ~Apart(k, u)
    BY <1>1 DEF Apart
  <2> QED BY <1>1, <1>4, <2>1, ApartFacts
<1>8. Told(k, r) = Spoken(k, s)
  <2>1. ~Apart(k, u)
    BY <1>1 DEF Apart
  <2>2. Told(k, <<u>>) = Tagged(WireRole(k, "user"), t)
    BY <1>1, <2>1, ToldFacts
  <2>3. Spoken(k, <<w>>) = Tagged(WireRole(k, "user"), t)
    BY <1>2, SpokenFacts
  <2> QED BY <1>4, <1>5, <2>2, <2>3
<1>9. PICK all \in Seq(Messages) : all = q \o h
  BY ConcatProperties
<1>10. LongEnough(p, h, all)
  <2>1. Len(all) = Len(q) + Len(h) /\ Len(h) \in Nat
    BY <1>9, ConcatProperties
  <2>2. p # <<>> => Len(q) = 1
    BY <1>3, OpeningFacts
  <2>3. PICK a, b, c : a = Len(all) /\ b = Len(q) /\ c = Len(h)
    OBVIOUS
  <2>4. b = 1 => a >= 1 + c
    BY <2>1, <2>3
  <2> QED BY <2>2, <2>3, <2>4 DEF LongEnough
<1>11. Kept(p, h, all) = h
  <2>1. CASE p = <<>>
    <3>1. h = <<>> /\ q = <<>>
      BY <1>3, <2>1, OpeningFacts
    <3>2. all = <<>>
      BY <1>9, <3>1
    <3>3. SubSeq(all, 1, Len(all)) = all
      BY RestOfAll
    <3>4. Kept(p, h, all) = <<>> \o <<>>
      BY <2>1, <3>1, <3>2, <3>3 DEF Kept
    <3> QED BY <3>1, <3>4
  <2>2. CASE p # <<>>
    <3>1. Len(all) = Len(q) + Len(h) /\ Len(q) = 1 /\ Len(h) \in Nat
      BY <1>3, <1>9, <2>2, OpeningFacts, ConcatProperties
    <3>2. 2 + Len(h) = Len(all) + 1
      BY <3>1
    <3>3. SubSeq(all, Len(all) + 1, Len(all)) = <<>>
      BY RestOfAll
    <3>4. Kept(p, h, all) = h \o <<>>
      BY <2>2, <3>2, <3>3 DEF Kept
    <3> QED BY <3>4
  <2> QED BY <2>1, <2>2
<1>12. Conversation(k, p, h, all, sd)
  <2>1. TextsApart(k, all) = TextsApart(k, q)
    <3>1. TextsApart(k, q \o h) = TextsApart(k, q) \o TextsApart(k, h)
      BY ApartFacts
    <3>2. TextsApart(k, q) \in Seq(Seq(Words))
      BY ApartFacts
    <3>3. PICK X : X = Seq(Words)
      OBVIOUS
    <3>4. PICK a \in Seq(X) : a = TextsApart(k, q)
      BY <3>2, <3>3
    <3>5. a \o <<>> = a
      OBVIOUS
    <3> QED BY <1>9, <3>1, <3>4, <3>5
  <2>2. Told(k, all) = Told(k, q) \o Told(k, h)
    BY <1>9, ToldFacts
  <2> QED BY <1>3, <1>11, <2>1, <2>2 DEF Conversation
<1>13. Conversation(k, p, h, all \o r, sd \o s)
  BY <1>7, <1>8, <1>10, <1>12, ConversationGrows
<1> QED BY <1>1, <1>2, <1>3, <1>4, <1>6, <1>9, <1>13

-----------------------------------------------------------------------------
(* The steps                                                               *)

(* The parts of the invariant in the next state.                           *)
LEMMA PartsSuffice ==
  ASSUME Types', Bearings', Settling(kind', pc', history', messages', calls'),
         prompt' # <<>> \/ runs' <= 1 =>
           Telling(kind', prompt', pc', history', messages', said', begun')
  PROVE  ExchangeInv'
BY DEF ExchangeInv

(* A run that ends with these messages and sayings.                        *)
LEMMA ReturnKeeps ==
  ASSUME Types, NEW ms \in Seq(Messages), NEW sd \in Seq(Sayings), NEW text,
         LongEnough(prompt, history, ms),
         Settled(kind, history), Settled(kind, ms),
         prompt # <<>> \/ runs <= 1 => Conversation(kind, prompt, history, ms, sd),
         Return(ms, text), said' = sd, runs # 0, begun \in 0 .. Len(sd), steps' \in Nat,
         UNCHANGED <<kind, prompt, runs, begun>>
  PROVE  ExchangeInv'
<1> USE DEF Types
<1>1. PICK kept \in Seq(Messages) : kept = Kept(prompt, history, ms) /\ Settled(kind, kept)
  <2>1. history \in Seq(Messages)
    OBVIOUS
  <2>2. Kept(prompt, history, ms) \in Seq(Messages)
    BY <2>1, KeptFacts
  <2>3. Settled(kind, Kept(prompt, history, ms))
    BY <2>1, KeptFacts
  <2> QED BY <2>2, <2>3
<1>2. history' = kept /\ pc' = "idle" /\ messages' = <<>> /\ calls' = <<>>
  BY <1>1 DEF Return, Kept
<1>3. Types'
  <2>1. <<>> \in Seq(Messages) /\ <<>> \in Seq(GoodCalls)
    OBVIOUS
  <2> QED BY <1>2, <2>1
<1>4. Bearings'
  BY <1>2 DEF Bearings
<1>5. Settling(kind', pc', history', messages', calls')
  BY <1>1, <1>2 DEF Settling
<1>6. prompt' # <<>> \/ runs' <= 1 =>
        Telling(kind', prompt', pc', history', messages', said', begun')
  BY <1>1, <1>2 DEF Telling, Conversation
<1> QED BY <1>3, <1>4, <1>5, <1>6, PartsSuffice

(* run: the prompt, the history and the question become the messages.      *)
LEMMA RunKeeps ==
  ASSUME ExchangeInv, NEW text \in UserTexts, Run(text)
  PROVE  ExchangeInv'
<1> USE DEF Types
<1>1. Types /\ Bearings /\ Settling(kind, pc, history, messages, calls)
  BY DEF ExchangeInv
<1>2. prompt \in Seq(Words) /\ text \in Seq(Words)
  BY <1>1, ExchangeAssumption, TextsOfWords
<1>3. PICK q \in Seq(Messages) : /\ q = Opening(prompt) /\ SystemPart = q
                                 /\ prompt # <<>> => Len(q) = 1
                                 /\ \A i \in DOMAIN q : ~Asks(q[i])
  BY <1>2, OpeningFacts DEF SystemPart, Opening
<1>4. PICK u \in Messages : u = Message("user", text, <<>>) /\ ~Asks(u)
  BY <1>2, UserFacts
<1>5. PICK w \in Sayings : w = Saying("user", text)
  BY <1>2, UserFacts
<1>6. PICK ms \in Seq(Messages) : ms = q \o history \o <<u>>
  <2>1. <<u>> \in Seq(Messages) /\ q \o history \in Seq(Messages)
    BY <1>1
  <2> QED BY <2>1, ConcatProperties
<1>7. PICK sd \in Seq(Sayings) : sd = Append(said, w) /\ Len(said) \in 0 .. Len(sd)
  <2>1. said \in Seq(Sayings) /\ Len(said) \in Nat
    BY <1>1
  <2>2. PICK sd \in Seq(Sayings) : sd = Append(said, w) /\ Len(sd) = Len(said) + 1
    BY <2>1, AppendProperties
  <2>3. Len(said) \in 0 .. Len(sd)
    BY <2>1, <2>2
  <2> QED BY <2>2, <2>3
<1>8. /\ pc = "idle" /\ runs' = runs + 1 /\ messages' = ms /\ said' = sd /\ begun' = Len(said)
      /\ pc' = "ask" /\ steps' = 0
      /\ UNCHANGED <<kind, prompt, history, calls, request>>
  BY <1>3, <1>4, <1>5, <1>6, <1>7 DEF Run
<1>9. Types'
  BY <1>1, <1>7, <1>8
<1>10. LongEnough(prompt, history, ms)
  <2>1. PICK both \in Seq(Messages) : both = q \o history
    BY <1>1, ConcatProperties
  <2>2. Len(both) = Len(q) + Len(history) /\ Len(history) \in Nat
    BY <1>1, <2>1, ConcatProperties
  <2>3. <<u>> \in Seq(Messages) /\ Len(<<u>>) = 1
    OBVIOUS
  <2>4. Len(ms) = Len(both) + 1
    BY <1>6, <2>1, <2>3, ConcatProperties
  <2>5. PICK a, b, c, d : a = Len(ms) /\ b = Len(q) /\ c = Len(history) /\ d = Len(both)
    OBVIOUS
  <2>6. b = 1 => a >= 1 + c
    BY <2>2, <2>4, <2>5
  <2> QED BY <1>3, <2>5, <2>6 DEF LongEnough
<1>11. Bearings'
  <2>1. runs' # 0
    BY <1>1, <1>8
  <2>2. runs' = 1 => history = <<>>
    <3>1. runs' = 1 => runs = 0
      BY <1>1, <1>8
    <3> QED BY <1>1, <3>1 DEF Bearings
  <2> QED BY <1>8, <1>10, <2>1, <2>2 DEF Bearings
<1>12. Settling(kind', pc', history', messages', calls')
  <2>1. Settled(kind, history)
    BY <1>1 DEF Settling
  <2>2. Settled(kind, q)
    BY <1>3, SettledQuiet
  <2>3. <<u>> \in Seq(Messages) /\ \A i \in DOMAIN <<u>> : ~Asks(<<u>>[i])
    BY <1>4
  <2>4. Settled(kind, <<u>>)
    BY <2>3, SettledQuiet
  <2>5. PICK both \in Seq(Messages) : both = q \o history
    BY <1>1, ConcatProperties
  <2>6. Settled(kind, both)
    BY <1>1, <2>1, <2>2, <2>5, SettledConcat
  <2>7. Settled(kind, ms)
    BY <1>6, <2>3, <2>4, <2>5, <2>6, SettledConcat
  <2> QED BY <1>8, <2>1, <2>7 DEF Settling
<1>13. ASSUME prompt # <<>> \/ runs' <= 1
       PROVE  Telling(kind, prompt, "ask", history, ms, sd, Len(said))
  <2>1. prompt # <<>> \/ (runs <= 1 /\ runs = 0)
    BY <1>1, <1>8, <1>13
  <2>2. Telling(kind, prompt, pc, history, messages, said, begun)
    BY <2>1 DEF ExchangeInv
  <2>3. TextsApart(kind, history) = <<>> /\ Told(kind, history) = Spoken(kind, said)
    BY <1>8, <2>2 DEF Telling
  <2>4. prompt # <<>> \/ history = <<>>
    BY <1>1, <2>1 DEF Bearings
  <2>5. Conversation(kind, prompt, history, ms, sd)
    BY <1>1, <1>2, <1>3, <1>4, <1>5, <1>6, <1>7, <2>3, <2>4, ConversationBegins
  <2>6. SubSeq(sd, 1, Len(said)) = said
    <3>1. sd = said \o <<w>>
      BY ONLY <1>7, said \in Seq(Sayings), w \in Sayings, AppendIsConcat, <1>1
    <3>2. <<w>> \in Seq(Sayings) /\ Len(said) \in 0 .. Len(said)
      BY <1>1
    <3>3. SubSeq(said \o <<w>>, 1, Len(said)) = SubSeq(said, 1, Len(said))
      BY <1>1, <3>2, PartStays
    <3> QED BY <1>1, <3>1, <3>3, RestOfAll
  <2> QED BY <2>3, <2>5, <2>6 DEF Telling
<1> QED BY <1>8, <1>9, <1>11, <1>12, <1>13, PartsSuffice

(* The request is built of the messages as they are.                       *)
LEMMA AskKeeps ==
  ASSUME ExchangeInv, Ask
  PROVE  ExchangeInv'
<1>1. Types' /\ Bearings'
  BY DEF Ask, ExchangeInv, Types, Bearings
<1>2. Settling(kind', pc', history', messages', calls')
  BY DEF Ask, ExchangeInv, Settling
<1>3. prompt' # <<>> \/ runs' <= 1 =>
        Telling(kind', prompt', pc', history', messages', said', begun')
  BY DEF Ask, ExchangeInv, Telling
<1> QED BY <1>1, <1>2, <1>3, PartsSuffice

(* An exception of chat, or the end of the loop: the run ends with the     *)
(* messages it has.                                                        *)
LEMMA LeaveKeeps ==
  ASSUME ExchangeInv,
         \/ LeaveLoop
         \/ \E body \in Bodies[kind] : AnswerRefused(body)
  PROVE  ExchangeInv'
<1>1. Types /\ Bearings
  BY DEF ExchangeInv
<1>2. /\ pc \in {"ask", "wait"} /\ Return(messages, <<>>) /\ said' = said
      /\ UNCHANGED <<kind, prompt, steps, runs, begun>>
  BY DEF LeaveLoop, AnswerRefused
<1>3. LongEnough(prompt, history, messages) /\ runs # 0
  BY <1>1, <1>2 DEF Bearings
<1>4. Settled(kind, history) /\ Settled(kind, messages)
  BY <1>2 DEF ExchangeInv, Settling
<1>5. prompt # <<>> \/ runs <= 1 => Conversation(kind, prompt, history, messages, said)
  BY <1>2 DEF ExchangeInv, Telling
<1>6. messages \in Seq(Messages) /\ said \in Seq(Sayings) /\ begun \in 0 .. Len(said)
      /\ steps' \in Nat
  BY <1>1, <1>2 DEF Types
<1> QED BY <1>1, <1>2, <1>3, <1>4, <1>5, <1>6, ReturnKeeps

(* A response without messages: the history and what was said stay as they *)
(* were before the run.                                                    *)
LEMMA EmptyKeeps ==
  ASSUME ExchangeInv, NEW body \in Bodies[kind], AnswerEmpty(body)
  PROVE  ExchangeInv'
<1> USE DEF Types
<1>1. Types /\ Bearings
  BY DEF ExchangeInv
<1>2. /\ pc = "wait" /\ pc' = "idle" /\ messages' = <<>> /\ calls' = <<>>
      /\ said' = SubSeq(said, 1, begun)
      /\ UNCHANGED <<kind, prompt, history, steps, request, runs, begun>>
  BY DEF AnswerEmpty
<1>3. PICK sd \in Seq(Sayings) : sd = SubSeq(said, 1, begun) /\ Len(sd) = begun
  BY <1>1, PartStays
<1>4. Types'
  <2>1. <<>> \in Seq(Messages) /\ <<>> \in Seq(GoodCalls) /\ begun \in 0 .. Len(sd)
    BY <1>1, <1>3
  <2> QED BY <1>1, <1>2, <1>3, <2>1
<1>5. Bearings'
  BY <1>1, <1>2 DEF Bearings
<1>6. Settling(kind', pc', history', messages', calls')
  BY <1>2 DEF ExchangeInv, Settling
<1>7. prompt' # <<>> \/ runs' <= 1 =>
        Telling(kind', prompt', pc', history', messages', said', begun')
  BY <1>2 DEF ExchangeInv, Telling
<1> QED BY <1>4, <1>5, <1>6, <1>7, PartsSuffice

(* A response: an answer ends the run, a call is followed by its answer.   *)
LEMMA AnswerKeeps ==
  ASSUME ExchangeInv, NEW body \in Bodies[kind], AnswerTaken(body)
  PROVE  ExchangeInv'
<1>1. Types /\ Bearings /\ Settling(kind, pc, history, messages, calls)
  BY DEF ExchangeInv
<1>2. PICK r : r = Response(kind, body)
  OBVIOUS
<1>3. /\ pc = "wait" /\ ~Refused(kind, body) /\ r # <<>>
      /\ steps' = steps + 1 /\ said' = said \o Heard(body)
      /\ CallsIn(r) = <<>> => \E text : Return(messages \o r, text)
      /\ CallsIn(r) # <<>> => /\ messages' = messages \o r
                              /\ calls' = CallsIn(r)
                              /\ pc' = "tools"
                              /\ history' = history
      /\ UNCHANGED <<kind, prompt, request, runs, begun>>
  BY <1>2 DEF AnswerTaken
<1>4. kind \in Kinds
  BY <1>1 DEF Types
<1>5. /\ r \in Seq(Messages)
      /\ Heard(body) \in Seq(Sayings)
      /\ Told(kind, r) = Spoken(kind, Heard(body))
      /\ \A i \in DOMAIN r : r[i].role = "assistant"
      /\ \/ (\A i \in DOMAIN r : r[i].call = <<>>) /\ CallsIn(r) = <<>>
         \/ /\ kind = "openai"
            /\ \E m \in Messages : r = <<m>> /\ Len(m.call) = 1 /\ CallsIn(r) = m.call
  <2>1. Refused(kind, body) = Refused(kind, body) /\ ~Refused(kind, body)
    BY <1>3
  <2> QED BY <1>2, <1>3, <1>4, ResponseFacts
<1>6. PICK s \in Seq(Sayings) : s = Heard(body)
  BY <1>5
<1>7. PICK ms \in Seq(Messages), sd \in Seq(Sayings) :
        /\ ms = messages \o r /\ sd = said \o s
        /\ begun \in 0 .. Len(sd)
  <2>1. messages \in Seq(Messages) /\ said \in Seq(Sayings) /\ begun \in 0 .. Len(said)
    BY <1>1 DEF Types
  <2>2. /\ messages \o r \in Seq(Messages) /\ said \o s \in Seq(Sayings)
        /\ Len(said \o s) = Len(said) + Len(s)
    BY <1>5, <2>1, ConcatProperties
  <2>3. Len(s) \in Nat /\ Len(said) \in Nat
    BY <2>1
  <2>4. begun \in 0 .. Len(said \o s)
    BY <2>1, <2>2, <2>3
  <2> QED BY <2>2, <2>4
<1>8. LongEnough(prompt, history, ms) /\ runs # 0
  <2>1. LongEnough(prompt, history, messages) /\ runs # 0
    BY <1>1, <1>3 DEF Bearings
  <2>2. history \in Seq(Messages) /\ messages \in Seq(Messages)
    BY <1>1 DEF Types
  <2> QED BY <1>5, <1>7, <2>1, <2>2, KeptFacts
<1>9. ASSUME prompt # <<>> \/ runs <= 1
      PROVE  /\ Conversation(kind, prompt, history, ms, sd)
             /\ TextsApart(kind, history) = <<>>
             /\ Told(kind, history) = Spoken(kind, SubSeq(sd, 1, begun))
  <2>1. /\ prompt \in Seq(Words) /\ history \in Seq(Messages) /\ messages \in Seq(Messages)
        /\ said \in Seq(Sayings) /\ begun \in 0 .. Len(said)
    BY <1>1, ExchangeAssumption, TextsOfWords DEF Types
  <2>2. /\ Conversation(kind, prompt, history, messages, said)
        /\ TextsApart(kind, history) = <<>>
        /\ Told(kind, history) = Spoken(kind, SubSeq(said, 1, begun))
    BY <1>3, <1>9 DEF ExchangeInv, Telling
  <2>3. LongEnough(prompt, history, messages)
    BY <1>1, <1>3 DEF Bearings
  <2>4. TextsApart(kind, r) = <<>>
    BY <1>4, <1>5, NoneApart
  <2>5. Conversation(kind, prompt, history, ms, sd)
    BY <1>4, <1>5, <1>6, <1>7, <2>1, <2>2, <2>3, <2>4, ConversationGrows
  <2>6. SubSeq(sd, 1, begun) = SubSeq(said, 1, begun)
    BY <1>7, <2>1, PartStays
  <2> QED BY <2>2, <2>5, <2>6
<1>10. Settled(kind, history) /\ Settled(kind, messages)
  BY <1>1, <1>3 DEF Settling
<1>11. steps' \in Nat
  BY <1>1, <1>3 DEF Types
<1>12. CASE CallsIn(r) = <<>>
  <2>1. \A i \in DOMAIN r : ~Asks(r[i])
    <3>1. ASSUME NEW m \in Messages, r = <<m>>, Len(m.call) = 1, CallsIn(r) = m.call
          PROVE  FALSE
      <4>1. m.call = <<>>
        BY <1>12, <3>1
      <4>2. Len(<<>>) = 0
        OBVIOUS
      <4> QED BY <3>1, <4>1, <4>2
    <3>2. \A i \in DOMAIN r : r[i].call = <<>>
      BY <1>5, <3>1
    <3> QED BY <3>2 DEF Asks
  <2>2. Settled(kind, r)
    BY <1>5, <2>1, SettledQuiet
  <2>3. Settled(kind, ms)
    <3>1. messages \in Seq(Messages)
      BY <1>1 DEF Types
    <3> QED BY <1>5, <1>7, <1>10, <2>2, <3>1, SettledConcat
  <2>4. PICK text : Return(ms, text)
    BY <1>3, <1>7, <1>12
  <2> QED BY <1>1, <1>3, <1>6, <1>7, <1>8, <1>9, <1>10, <1>11, <2>3, <2>4, ReturnKeeps
<1>13. CASE CallsIn(r) # <<>>
  <2>1. PICK m \in Messages : r = <<m>> /\ Len(m.call) = 1 /\ CallsIn(r) = m.call /\ kind = "openai"
    BY <1>5, <1>13
  <2>2. PICK cs \in Seq(GoodCalls) : cs = m.call
    BY DEF Messages
  <2>3. /\ messages' = ms /\ calls' = cs /\ pc' = "tools" /\ history' = history /\ said' = sd
        /\ UNCHANGED <<kind, prompt, request, runs, begun>>
    BY <1>3, <1>6, <1>7, <1>13, <2>1, <2>2
  <2>4. Types'
    BY <1>1, <1>7, <1>11, <2>3 DEF Types
  <2>5. Bearings'
    BY <1>1, <1>3, <1>8, <2>3 DEF Bearings
  <2>6. Settled("openai", Append(ms, AnswerTo(cs[1])))
    <3>1. messages \in Seq(Messages)
      BY <1>1 DEF Types
    <3>2. Settled("openai", messages)
      BY <1>10, <2>1
    <3>3. Settled("openai", Append(messages \o <<m>>, AnswerTo(m.call[1])))
      BY <2>1, <3>1, <3>2, SettledCall
    <3> QED BY <1>7, <2>1, <2>2, <3>3
  <2>7. Settling(kind', pc', history', messages', calls')
    BY <1>10, <2>1, <2>2, <2>3, <2>6 DEF Settling
  <2>8. prompt' # <<>> \/ runs' <= 1 =>
          Telling(kind', prompt', pc', history', messages', said', begun')
    BY <1>9, <2>3 DEF Telling
  <2> QED BY <2>4, <2>5, <2>7, <2>8, PartsSuffice
<1> QED BY <1>12, <1>13

(* The answer to the one call.                                             *)
LEMMA ToolKeeps ==
  ASSUME ExchangeInv, ExecuteTool
  PROVE  ExchangeInv'
<1>1. Types /\ Bearings /\ Settling(kind, pc, history, messages, calls)
  BY DEF ExchangeInv
<1>2. /\ pc = "tools"
      /\ messages' = Append(messages, AnswerTo(calls[1]))
      /\ said' = Append(said, Saying("tool", ToolText(calls[1])))
      /\ calls' = Tail(calls)
      /\ pc' = IF calls' = <<>> THEN "ask" ELSE "tools"
      /\ UNCHANGED <<kind, prompt, history, steps, request, answer, runs, begun>>
  BY DEF ExecuteTool, AnswerTo
<1>3. /\ kind \in Kinds /\ kind = "openai" /\ Len(calls) = 1
      /\ Settled(kind, history)
      /\ Settled(kind, Append(messages, AnswerTo(calls[1])))
  BY <1>1, <1>2 DEF Settling, Types
<1>4. PICK cs \in Seq(GoodCalls), c \in GoodCalls :
        cs = calls /\ cs # <<>> /\ Len(cs) = 1 /\ c = cs[1]
  <2>1. PICK cs \in Seq(GoodCalls) : cs = calls
    BY <1>1 DEF Types
  <2>2. Len(cs) = 1
    BY <1>3, <2>1
  <2>3. cs # <<>> /\ cs[1] \in GoodCalls
    BY <2>2
  <2> QED BY <2>1, <2>2, <2>3
<1>5. Tail(cs) = <<>>
  <2>2. PICK rest \in Seq(GoodCalls) : rest = Tail(cs)
    BY <1>4, HeadTailProperties
  <2>3. Len(rest) = 0
    BY <1>4, <2>2, HeadTailProperties
  <2>4. rest = <<>>
    BY <2>3, EmptySeq
  <2> QED BY <2>2, <2>4
<1>6. PICK a \in Messages : a = AnswerTo(c) /\ a.role = "tool" /\ a.text = ToolText(c)
  BY ToolFacts
<1>7. PICK w \in Sayings : /\ w = Saying("tool", ToolText(c)) /\ w.by = "tool"
                           /\ w.text = ToolText(c)
  BY ToolFacts
<1>8. PICK r \in Seq(Messages) : r = <<a>>
  <2>1. <<a>> \in Seq(Messages)
    OBVIOUS
  <2> QED BY <2>1
<1>9. PICK s \in Seq(Sayings) : s = <<w>> /\ Len(s) = 1
  <2>1. <<w>> \in Seq(Sayings) /\ Len(<<w>>) = 1
    OBVIOUS
  <2> QED BY <2>1
<1>10. PICK ms \in Seq(Messages) : ms = messages \o r /\ ms = Append(messages, a)
  <2>1. messages \in Seq(Messages)
    BY <1>1 DEF Types
  <2>2. Append(messages, a) = messages \o <<a>>
    BY ONLY <2>1, a \in Messages, AppendIsConcat
  <2> QED BY <1>8, <2>1, <2>2, ConcatProperties
<1>11. PICK sd \in Seq(Sayings) : /\ sd = said \o s /\ sd = Append(said, w)
                                  /\ begun \in 0 .. Len(sd)
  <2>1. said \in Seq(Sayings) /\ begun \in 0 .. Len(said)
    BY <1>1 DEF Types
  <2>2. Append(said, w) = said \o <<w>>
    BY ONLY <2>1, w \in Sayings, AppendIsConcat
  <2>3. said \o s \in Seq(Sayings) /\ Len(said \o s) = Len(said) + Len(s)
    BY <2>1, ConcatProperties
  <2>4. begun \in 0 .. Len(said \o s)
    BY <1>9, <2>1, <2>3
  <2> QED BY <1>9, <2>2, <2>3, <2>4
<1>12. /\ messages' = ms /\ said' = sd /\ calls' = <<>> /\ pc' = "ask"
       /\ UNCHANGED <<kind, prompt, history, steps, request, runs, begun>>
  BY <1>2, <1>4, <1>5, <1>6, <1>7, <1>10, <1>11
<1>13. Types'
  <2>1. <<>> \in Seq(GoodCalls)
    OBVIOUS
  <2> QED BY <1>1, <1>11, <1>12, <2>1 DEF Types
<1>14. LongEnough(prompt, history, messages) /\ runs # 0
  BY <1>1, <1>2 DEF Bearings
<1>15. Bearings'
  <2>1. history \in Seq(Messages) /\ messages \in Seq(Messages)
    BY <1>1 DEF Types
  <2>2. LongEnough(prompt, history, messages \o r)
    BY <1>14, <2>1, KeptFacts
  <2>3. LongEnough(prompt, history, ms)
    BY <1>10, <2>2
  <2> QED BY <1>1, <1>2, <1>12, <1>14, <2>3 DEF Bearings
<1>16. Settling(kind', pc', history', messages', calls')
  <2>1. Settled(kind, ms)
    BY <1>3, <1>4, <1>6, <1>10
  <2> QED BY <1>3, <1>12, <2>1 DEF Settling
<1>17. ASSUME prompt # <<>> \/ runs <= 1
       PROVE  Telling(kind, prompt, "ask", history, ms, sd, begun)
  <2>1. /\ prompt \in Seq(Words) /\ history \in Seq(Messages) /\ messages \in Seq(Messages)
        /\ said \in Seq(Sayings) /\ begun \in 0 .. Len(said)
    BY <1>1, ExchangeAssumption, TextsOfWords DEF Types
  <2>2. /\ Conversation(kind, prompt, history, messages, said)
        /\ TextsApart(kind, history) = <<>>
        /\ Told(kind, history) = Spoken(kind, SubSeq(said, 1, begun))
    BY <1>2, <1>17 DEF ExchangeInv, Telling
  <2>3. ~Apart(kind, a)
    BY <1>6 DEF Apart
  <2>4. TextsApart(kind, r) = <<>>
    BY <1>3, <1>8, <2>3, ApartFacts
  <2>5. Told(kind, r) = Spoken(kind, s)
    <3>1. Told(kind, <<a>>) = Tagged(WireRole(kind, "tool"), ToolText(c))
      BY <1>3, <1>6, <2>3, ToldFacts
    <3>2. Spoken(kind, <<w>>) = Tagged(WireRole(kind, "tool"), ToolText(c))
      BY <1>3, <1>7, SpokenFacts
    <3> QED BY <1>8, <1>9, <3>1, <3>2
  <2>6. Conversation(kind, prompt, history, ms, sd)
    BY <1>3, <1>10, <1>11, <1>14, <2>1, <2>2, <2>4, <2>5, ConversationGrows
  <2>7. SubSeq(sd, 1, begun) = SubSeq(said, 1, begun)
    BY <1>11, <2>1, PartStays
  <2> QED BY <2>2, <2>6, <2>7 DEF Telling
<1> QED BY <1>12, <1>13, <1>15, <1>16, <1>17, PartsSuffice

(* At first nothing has been said.                                         *)
LEMMA InitKeeps ==
  ASSUME Init
  PROVE  ExchangeInv
<1>1. /\ kind \in Kinds /\ prompt \in Prompts /\ history = <<>> /\ pc = "idle" /\ runs = 0
      /\ messages = <<>> /\ calls = <<>> /\ said = <<>> /\ begun = 0 /\ steps = 0
  BY DEF Init
<1>2. Types
  <2>1. <<>> \in Seq(Messages) /\ <<>> \in Seq(GoodCalls) /\ <<>> \in Seq(Sayings)
        /\ 0 \in 0 .. Len(<<>>)
    OBVIOUS
  <2> QED BY <1>1, <2>1 DEF Types
<1>3. Bearings
  BY <1>1 DEF Bearings
<1>4. Settling(kind, pc, history, messages, calls)
  BY <1>1 DEF Settling, Settled
<1>5. Telling(kind, prompt, pc, history, messages, said, begun)
  <2>1. TextsApart(kind, <<>>) = <<>> /\ Told(kind, <<>>) = <<>> /\ Spoken(kind, <<>>) = <<>>
    BY <1>1, ApartFacts, ToldFacts, SpokenFacts
  <2> QED BY <1>1, <2>1 DEF Telling
<1> QED BY <1>2, <1>3, <1>4, <1>5 DEF ExchangeInv

(* The invariant holds, whatever the prompts, the questions, the answers,  *)
(* the tool and the bounds.                                                *)
THEOREM ExchangeInvariant == Spec => []ExchangeInv
<1>1. Init => ExchangeInv
  BY InitKeeps
<1>2. ASSUME ExchangeInv, [Next]_vars PROVE ExchangeInv'
  <2>1. CASE UNCHANGED vars
    <3>1. Types' /\ Bearings'
      BY <1>2, <2>1 DEF vars, ExchangeInv, Types, Bearings
    <3>2. Settling(kind', pc', history', messages', calls')
      BY <1>2, <2>1 DEF vars, ExchangeInv
    <3>3. prompt' # <<>> \/ runs' <= 1 =>
            Telling(kind', prompt', pc', history', messages', said', begun')
      BY <1>2, <2>1 DEF vars, ExchangeInv
    <3> QED BY <3>1, <3>2, <3>3, PartsSuffice
  <2>2. CASE \E text \in UserTexts : Run(text)
    BY <1>2, <2>2, RunKeeps
  <2>3. CASE Ask
    BY <1>2, <2>3, AskKeeps
  <2>4. CASE ExecuteTool
    BY <1>2, <2>4, ToolKeeps
  <2>5. CASE LeaveLoop \/ \E body \in Bodies[kind] : AnswerRefused(body)
    BY <1>2, <2>5, LeaveKeeps
  <2>6. CASE \E body \in Bodies[kind] : AnswerEmpty(body)
    BY <1>2, <2>6, EmptyKeeps
  <2>7. CASE \E body \in Bodies[kind] : AnswerTaken(body)
    BY <1>2, <2>7, AnswerKeeps
  <2> QED BY <1>2, <2>1, <2>2, <2>3, <2>4, <2>5, <2>6, <2>7 DEF Next
<1> QED BY <1>1, <1>2, PTL DEF Spec

-----------------------------------------------------------------------------
(* The properties                                                          *)

(* One text apart is sent as it is, none as nothing.                       *)
LEMMA JoinedFacts ==
  /\ Joined(<<>>) = <<>>
  /\ \A p \in Seq(Words) : Joined(<<p>>) = p
<1>1. Joined(<<>>) = <<>>
  <2>1. [i \in DOMAIN <<>> |->
           (IF \E j \in 1 .. i - 1 : <<>>[j] # <<>> THEN <<BlankLine>> ELSE <<>>) \o <<>>[i]] = <<>>
    OBVIOUS
  <2> QED BY <2>1, FlattenNothing DEF Joined
<1>2. ASSUME NEW p \in Seq(Words) PROVE Joined(<<p>>) = p
  <2> DEFINE parts == [i \in DOMAIN <<p>> |->
        (IF \E j \in 1 .. i - 1 : <<p>>[j] # <<>> THEN <<BlankLine>> ELSE <<>>) \o <<p>>[i]]
  <2>1. DOMAIN <<p>> = 1 .. 1 /\ <<p>>[1] = p /\ \A j \in 1 .. 1 - 1 : FALSE
    OBVIOUS
  <2>2. <<>> \o p = p
    OBVIOUS
  <2>3. parts = [i \in 1 .. 1 |-> p]
    <3>1. \A i \in 1 .. 1 : i = 1
      OBVIOUS
    <3>2. \A i \in 1 .. 1 : parts[i] = p
      BY <2>1, <2>2, <3>1
    <3> QED BY <2>1, <3>2
  <2> HIDE DEF parts
  <2>4. parts = Append(<<>>, p)
    BY <2>3
  <2>5. <<>> \in Seq(Seq(Words))
    OBVIOUS
  <2>6. FlattenSeq(Append(<<>>, p)) = FlattenSeq(<<>>) \o p
    BY <2>5, FlattenAppend
  <2> QED BY <2>2, <2>4, <2>6, FlattenNothing DEF Joined, parts
<1> QED BY <1>1, <1>2

(* OpenAI's turns are the messages, one for one.                           *)
LEMMA TurnsInline ==
  ASSUME NEW ms \in Seq(Messages)
  PROVE  /\ Len(Turns("openai", ms)) = Len(ms)
         /\ DOMAIN Turns("openai", ms) = 1 .. Len(ms)
         /\ \A i \in 1 .. Len(ms) : Turns("openai", ms)[i] = Turn("openai", ms[i])
<1> DEFINE F == [m \in Messages |-> <<Turn("openai", m)>>]
           Q == {s \in Seq(Messages) :
                   /\ Len(Gathered(F, s)) = Len(s)
                   /\ \A i \in 1 .. Len(s) : Gathered(F, s)[i] = Turn("openai", s[i])}
<1>1. Maps(F, Messages, Seq(TurnsSent))
  <2>1. ASSUME NEW m \in Messages PROVE F[m] \in Seq(TurnsSent)
    <3>1. m.role \in Roles /\ m.text \in Seq(Words)
      BY DEF Messages
    <3>2. WireRole("openai", m.role) \in WireRoles
      BY <3>1, WireRoleTypes DEF Kinds
    <3>3. Turn("openai", m) \in TurnsSent
      BY <3>1, <3>2 DEF Turn, TurnsSent
    <3> QED BY <3>3
  <2> QED BY <2>1 DEF Maps
<1>2. Turns("openai", ms) = Gathered(F, ms)
  <2>1. \A i \in DOMAIN ms : ms[i] \in Messages /\ ~Apart("openai", ms[i])
    BY DEF Apart
  <2>2. [i \in DOMAIN ms |-> IF Apart("openai", ms[i]) THEN <<>> ELSE <<Turn("openai", ms[i])>>]
          = Mapped(F, ms)
    BY <2>1 DEF Mapped
  <2> HIDE DEF F
  <2> QED BY <2>2 DEF Turns, Gathered
<1>3. \A m \in Messages : F[m] = <<Turn("openai", m)>>
  OBVIOUS
<1> HIDE DEF F
<1>4. /\ Gathered(F, <<>>) = <<>>
      /\ \A s \in Seq(Messages) : Gathered(F, s) \in Seq(TurnsSent)
      /\ \A m \in Messages : Gathered(F, <<m>>) = F[m]
      /\ \A s, t \in Seq(Messages) : Gathered(F, s \o t) = Gathered(F, s) \o Gathered(F, t)
  BY <1>1, GatheredConcat
<1>5. <<>> \in Q
  BY <1>4
<1>6. ASSUME NEW s \in Seq(Messages), NEW m \in Messages, s \in Q PROVE Append(s, m) \in Q
  <2>1. PICK more \in Seq(Messages) : /\ more = Append(s, m) /\ Len(more) = Len(s) + 1
                                      /\ \A i \in 1 .. Len(s) : more[i] = s[i]
                                      /\ more[Len(s) + 1] = m
    BY AppendProperties
  <2>2. PICK g \in Seq(TurnsSent) :
          /\ g = Gathered(F, s) /\ Len(g) = Len(s)
          /\ \A i \in 1 .. Len(s) : g[i] = Turn("openai", s[i])
    BY <1>4, <1>6
  <2>3. PICK one \in Seq(TurnsSent) : one = <<Turn("openai", m)>> /\ one = F[m]
    <3>1. F[m] \in Seq(TurnsSent)
      BY <1>1 DEF Maps
    <3> QED BY <1>3, <3>1
  <2>4. Gathered(F, more) = g \o one
    <3>1. <<m>> \in Seq(Messages)
      OBVIOUS
    <3>2. more = s \o <<m>>
      BY ONLY <2>1, s \in Seq(Messages), m \in Messages, AppendIsConcat
    <3> QED BY <1>4, <2>2, <2>3, <3>1, <3>2
  <2>5. PICK n \in Nat : n = Len(s)
    OBVIOUS
  <2>6. Len(one) = 1 /\ one[1] = Turn("openai", m)
    BY <2>3
  <2>7. PICK all \in Seq(TurnsSent) :
          /\ all = g \o one /\ Len(all) = n + 1
          /\ \A i \in 1 .. n + 1 : all[i] = IF i <= n THEN g[i] ELSE one[i - n]
    <3>1. Len(g) = n /\ Len(one) = 1
      BY <2>2, <2>5, <2>6
    <3>2. /\ g \o one \in Seq(TurnsSent)
          /\ Len(g \o one) = Len(g) + Len(one)
          /\ \A i \in 1 .. Len(g) + Len(one) :
               (g \o one)[i] = IF i <= Len(g) THEN g[i] ELSE one[i - Len(g)]
      BY ONLY g \in Seq(TurnsSent), one \in Seq(TurnsSent), ConcatProperties
    <3> QED BY <3>1, <3>2
  <2>8. ASSUME NEW i \in 1 .. n + 1 PROVE all[i] = Turn("openai", more[i])
    <3>1. CASE i <= n
      <4>1. i \in 1 .. n
        BY <3>1
      <4> QED BY <2>1, <2>2, <2>5, <2>7, <3>1, <4>1
    <3>2. CASE ~(i <= n)
      <4>1. i = n + 1 /\ i - n = 1
        BY <3>2
      <4>2. all[i] = one[1] /\ more[i] = m
        BY <2>1, <2>5, <2>7, <3>2, <4>1
      <4> QED BY <2>6, <4>2
    <3> QED BY <3>1, <3>2
  <2>9. Len(Gathered(F, more)) = Len(more)
    BY <2>1, <2>4, <2>5, <2>7
  <2>10. \A i \in 1 .. Len(more) : Gathered(F, more)[i] = Turn("openai", more[i])
    BY <2>1, <2>4, <2>5, <2>7, <2>8
  <2> QED BY <2>1, <2>9, <2>10
<1>7. ms \in Q
  <2> HIDE DEF Q
  <2> QED BY <1>5, <1>6, SeqInduction
<1>8. PICK g \in Seq(TurnsSent) : g = Gathered(F, ms)
  BY <1>4
<1>9. Len(g) = Len(ms) /\ \A i \in 1 .. Len(ms) : g[i] = Turn("openai", ms[i])
  BY <1>7, <1>8
<1> QED BY <1>2, <1>8, <1>9

(* Every request gives the server the whole conversation (agent.cpp's copy *)
(* of the messages, as the providers write them), however long it is and   *)
(* whatever was said in it.                                                *)
THEOREM RequestsHoldTheConversation == Spec => []ContextIsComplete
<1>1. ASSUME ExchangeInv PROVE ContextIsComplete
  <2> SUFFICES ASSUME pc = "wait", prompt # <<>> \/ runs = 1
               PROVE  Tagged("system", request.system) \o TurnPieces(request.turns)
                      = Tagged("system", prompt) \o Pieces(OnWire(kind, said))
    BY DEF ContextIsComplete
  <2>1. kind \in Kinds /\ prompt \in Seq(Words) /\ messages \in Seq(Messages) /\ said \in Seq(Sayings)
    BY <1>1, ExchangeAssumption, TextsOfWords DEF ExchangeInv, Types
  <2>2. Conversation(kind, prompt, history, messages, said)
    <3>1. prompt # <<>> \/ runs <= 1
      BY <1>1 DEF ExchangeInv, Types
    <3> QED BY <1>1, <3>1 DEF ExchangeInv, Telling
  <2>3. request = RequestBody(kind, messages)
    BY <1>1 DEF ExchangeInv, Bearings
  <2>4. /\ request.system = Joined(TextsApart(kind, Opening(prompt)))
        /\ TurnPieces(request.turns) = Told(kind, Opening(prompt)) \o Spoken(kind, said)
    BY <2>2, <2>3 DEF RequestBody, Conversation, Told
  <2>5. PICK x \in Seq(Tags) : x = Spoken(kind, said) /\ <<>> \o x = x
    BY <2>1, SpokenFacts
  <2>6. CASE prompt = <<>>
    <3>1. Opening(prompt) = <<>>
      BY <2>6 DEF Opening
    <3>2. request.system = prompt /\ TurnPieces(request.turns) = <<>> \o x
      BY <2>1, <2>4, <2>5, <2>6, <3>1, ApartFacts, ToldFacts, JoinedFacts
    <3> QED BY <2>5, <3>2 DEF Spoken
  <2>7. CASE prompt # <<>>
    <3>1. PICK m \in Messages : m.role = "system" /\ m.text = prompt /\ Opening(prompt) = <<m>>
      <4>1. <<>> \in Seq(GoodCalls)
        OBVIOUS
      <4>2. /\ Message("system", prompt, <<>>) \in Messages
            /\ Message("system", prompt, <<>>).role = "system"
            /\ Message("system", prompt, <<>>).text = prompt
        BY <2>1, <4>1 DEF Message, Messages, Roles
      <4> QED BY <2>7, <4>2 DEF Opening
    <3>2. CASE kind = "openai"
      <4>1. ~Apart(kind, m)
        BY <3>2 DEF Apart
      <4>2. TextsApart(kind, <<m>>) = <<>>
        BY <2>1, <4>1, ApartFacts
      <4>3. Told(kind, <<m>>) = Tagged("system", prompt)
        BY <2>1, <3>1, <3>2, <4>1, ToldFacts DEF WireRole
      <4>4. Tagged("system", request.system) = <<>>
        BY <2>4, <3>1, <4>2, JoinedFacts, TaggedFacts DEF WireRoles, Roles
      <4>5. PICK y \in Seq(Tags) : y = Tagged("system", prompt)
        BY <2>1, TaggedFacts DEF WireRoles, Roles
      <4>6. y \o x \in Seq(Tags)
        BY ConcatProperties
      <4>7. <<>> \o (y \o x) = y \o x
        BY <4>6, ConcatEmptySeq
      <4> QED BY <2>4, <2>5, <3>1, <4>3, <4>4, <4>5, <4>7 DEF Spoken
    <3>3. CASE kind # "openai"
      <4>1. Apart(kind, m)
        BY <3>1, <3>3 DEF Apart
      <4>2. TextsApart(kind, <<m>>) = <<prompt>>
        BY <2>1, <3>1, <4>1, ApartFacts
      <4>3. Told(kind, <<m>>) = <<>>
        BY <2>1, <4>1, ToldFacts
      <4>4. request.system = prompt
        BY <2>1, <2>4, <3>1, <4>2, JoinedFacts
      <4> QED BY <2>4, <2>5, <3>1, <4>3, <4>4 DEF Spoken
    <3> QED BY <3>2, <3>3
  <2> QED BY <2>6, <2>7
<1> QED BY <1>1, ExchangeInvariant, PTL

(* In every request the answer to a call (execute_tool_call's, an error if *)
(* there is no such tool) is the turn after it.                            *)
THEOREM AnswersFollowCalls == Spec => []CallsAnsweredInPlace
<1>1. ASSUME ExchangeInv PROVE CallsAnsweredInPlace
  <2> SUFFICES ASSUME pc = "wait", NEW i \in DOMAIN messages,
                      messages[i].role = "assistant", messages[i].call # <<>>
               PROVE  LET call == messages[i].call[1]
                          turn == i + 1 - Len(messages) + Len(request.turns)
                      IN  /\ turn \in DOMAIN request.turns
                          /\ request.turns[turn].role = WireRole(kind, "tool")
                          /\ request.turns[turn].text = ToolText(call)
    BY DEF CallsAnsweredInPlace
  <2>0. PICK c : c = messages[i].call[1]
    OBVIOUS
  <2>1. PICK ms \in Seq(Messages) : ms = messages /\ i \in 1 .. Len(ms)
    BY <1>1 DEF ExchangeInv, Types
  <2>2. Settled(kind, ms)
    BY <1>1, <2>1 DEF ExchangeInv, Settling
  <2>3. kind = "openai" /\ i + 1 \in DOMAIN ms /\ ms[i + 1] = AnswerTo(c)
    BY <2>0, <2>1, <2>2 DEF Settled, Asks
  <2>4. request.turns = Turns("openai", ms)
    BY <1>1, <2>1, <2>3 DEF ExchangeInv, Bearings, RequestBody
  <2>5. PICK n \in Nat : n = Len(ms) /\ DOMAIN ms = 1 .. n
    BY <2>1
  <2>6. /\ Len(request.turns) = n /\ DOMAIN request.turns = 1 .. n
        /\ \A j \in 1 .. n : request.turns[j] = Turn("openai", ms[j])
    BY <2>4, <2>5, TurnsInline
  <2>7. PICK turn : turn = i + 1 - Len(messages) + Len(request.turns)
    OBVIOUS
  <2>8. turn = i + 1 /\ i + 1 \in 1 .. n
    BY <2>1, <2>3, <2>5, <2>6, <2>7
  <2>9. request.turns[i + 1] = Turn("openai", AnswerTo(c))
    BY <2>3, <2>6, <2>8
  <2>10. /\ Turn("openai", AnswerTo(c)).role = WireRole("openai", "tool")
         /\ Turn("openai", AnswerTo(c)).text = ToolText(c)
    BY DEF Turn, AnswerTo, Message
  <2> QED BY <2>0, <2>3, <2>6, <2>7, <2>8, <2>9, <2>10
<1> QED BY <1>1, ExchangeInvariant, PTL
=============================================================================
