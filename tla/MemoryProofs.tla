---------------------------- MODULE MemoryProofs ----------------------------
(***************************************************************************)
(* Theorems about Memory for any items, windows and scores.                *)
(*                                                                         *)
(* MemoryInv is inductive: TypeOK; Aligned, that the embeddings stand      *)
(* beside their items; and what is true of the last call's result,         *)
(* FoundIsBest, AddRestoresWindow and SimpleItemsComeBack, each of which   *)
(* the step that makes the call establishes from the first two, and every  *)
(* other step leaves by recording another call.                            *)
(***************************************************************************)
EXTENDS Memory, SequenceTheorems, TLAPS

-----------------------------------------------------------------------------
(* The window.                                                             *)

(* What is left after the oldest have gone.                                *)
LEMMA DropFacts ==
  ASSUME NEW S, NEW s \in Seq(S), NEW e \in Nat, e <= Len(s)
  PROVE  /\ DropOldest(s, e) \in Seq(S)
         /\ Len(DropOldest(s, e)) = Len(s) - e
         /\ \A i \in 1 .. Len(s) - e : DropOldest(s, e)[i] = s[e + i]
<1> DEFINE n == Len(s)
<1>1. n \in Nat /\ \A i \in e + 1 .. n : s[i] \in S
  OBVIOUS
<1> HIDE DEF n
<1>2. e + 1 \in Int /\ n \in Int
  BY <1>1
<1>3. /\ SubSeq(s, e + 1, n) \in Seq(S)
      /\ Len(SubSeq(s, e + 1, n)) = IF e + 1 <= n THEN n - (e + 1) + 1 ELSE 0
      /\ \A i \in 1 .. n - (e + 1) + 1 : SubSeq(s, e + 1, n)[i] = s[e + 1 + i - 1]
  BY <1>1, <1>2, SubSeqProperties
<1>4. e <= n
  BY DEF n
<1>5. Len(SubSeq(s, e + 1, n)) = n - e
  BY <1>1, <1>3, <1>4
<1>6. \A i \in 1 .. n - e : i \in 1 .. n - (e + 1) + 1 /\ e + 1 + i - 1 = e + i
  BY <1>1
<1>7. DropOldest(s, e) = SubSeq(s, e + 1, n)
  BY DEF DropOldest, n
<1> QED BY <1>3, <1>5, <1>6, <1>7 DEF n

(* What remains fits in the window, and fills it if there was enough.      *)
LEMMA ExcessFacts ==
  ASSUME TypeOK, NEW s, Len(s) \in Nat
  PROVE  /\ Excess(s) \in Nat /\ Excess(s) <= Len(s)
         /\ Len(s) - Excess(s) <= window
         /\ window > 0 /\ Len(s) > 0 => Len(s) - Excess(s) >= 1
BY MemoryAssumption DEF TypeOK, Excess

-----------------------------------------------------------------------------
(* What is read back.                                                      *)

(* A line is skipped, read as it was written, cut or garbled.              *)
LEMMA RereadReadings ==
  ASSUME NEW x \in AnyItem PROVE Reread(x) \subseteq {x, Cut(x), Garble(x), Skipped}
<1>1. ShortMeta(x) \subseteq {x, Garble(x), Skipped}
  BY DEF ShortMeta, AnyItem, Metas
<1>2. LongMeta(x) \subseteq {x, Garble(x), Skipped}
  BY DEF LongMeta, AnyItem, Metas
<1>3. x.content \in {"plain", "special", "cut"}
  BY DEF AnyItem, Contents
<1> QED BY <1>1, <1>2, <1>3 DEF Reread, RereadContent

(* What is not skipped is an item.                                         *)
LEMMA RereadTypes ==
  ASSUME NEW x \in AnyItem PROVE Reread(x) \subseteq AnyItem \cup {Skipped}
<1>1. Cut(x) \in AnyItem /\ Garble(x) \in AnyItem
  BY DEF Cut, Garble, AnyItem, Contents, Metas
<1> QED BY <1>1, RereadReadings

(* A selection, as a sequence.                                             *)
LEMMA SelectionFacts ==
  ASSUME NEW n \in Nat, NEW s \in Selections(n)
  PROVE  /\ Len(s) \in 0 .. n /\ DOMAIN s = 1 .. Len(s)
         /\ \A i \in 1 .. Len(s) : s[i] \in 1 .. n
         /\ \A i, j \in 1 .. Len(s) : i < j => s[i] < s[j]
<1>1. PICK m \in 0 .. n : s \in [1 .. m -> 1 .. n]
  BY DEF Selections
<1>2. Len(s) = m /\ DOMAIN s = 1 .. m
  BY <1>1
<1> QED BY <1>1, <1>2 DEF Selections

(* What is read keeps some of the lines, in order.                         *)
LEMMA ReadingFacts ==
  ASSUME NEW lines \in Seq(AnyItem), NEW kept \in Readings(lines)
  PROVE  /\ kept \in Seq(AnyItem)
         /\ \E s \in Selections(Len(lines)) :
              Len(kept) = Len(s) /\ DOMAIN kept = DOMAIN s /\ Keeps(lines, s, kept)
<1> DEFINE readable == UNION {Reread(lines[i]) : i \in DOMAIN lines}
<1>1. PICK s \in Selections(Len(lines)) :
        kept \in [DOMAIN s -> readable] /\ Keeps(lines, s, kept)
  BY DEF Readings
<1>2. Len(lines) \in Nat /\ \A i \in 1 .. Len(lines) : lines[i] \in AnyItem
  OBVIOUS
<1>3. /\ Len(s) \in Nat /\ DOMAIN s = 1 .. Len(s)
      /\ \A i \in 1 .. Len(s) : s[i] \in 1 .. Len(lines)
  BY <1>2, SelectionFacts
<1>4. \A i \in 1 .. Len(s) : kept[i] \in AnyItem
  <2> SUFFICES ASSUME NEW i \in 1 .. Len(s) PROVE kept[i] \in AnyItem
    OBVIOUS
  <2>1. kept[i] \in Reread(lines[s[i]]) \ {Skipped}
    BY <1>1, <1>3 DEF Keeps
  <2> QED BY <1>2, <1>3, <2>1, RereadTypes
<1>5. kept \in [1 .. Len(s) -> AnyItem]
  BY <1>1, <1>3, <1>4
<1> HIDE DEF Keeps
<1>6. kept \in Seq(AnyItem) /\ Len(kept) = Len(s)
  BY <1>3, <1>5
<1> QED BY <1>1, <1>6

-----------------------------------------------------------------------------
(* The types are inductive.                                                *)

(* Embeddings are those of items, or none.                                 *)
Embeddings == (Ids \X Contents) \cup {NoEmbedding}

(* Every item has an embedding, or none is asked for.                      *)
LEMMA EmbedTypes == ASSUME NEW x \in AnyItem PROVE Embed(x) \in Embeddings
BY DEF AnyItem, Embed, Embeddings

(* The items added are such as are stored.                                 *)
LEMMA ItemsAreItems == Items \subseteq AnyItem
BY MemoryAssumption DEF AnyItem, Contents

(* The embeddings a load makes: of all items, or of a selection.           *)
LEMMA LoadedEmbeddings ==
  ASSUME NEW lines, LoadLong(lines), items' \in Seq(AnyItem)
  PROVE  /\ embeddings' \in Seq(Embeddings)
         /\ Len(embeddings') <= Len(items')
         /\ threw' \in BOOLEAN
         /\ ~threw' => /\ Len(embeddings') = Len(items')
                       /\ \A i \in DOMAIN items' : embeddings'[i] = Embed(items'[i])
<1>1. PICK kept \in Seq(AnyItem) : kept = items'
  OBVIOUS
<1>2. Len(kept) \in Nat /\ DOMAIN kept = 1 .. Len(kept)
      /\ \A i \in 1 .. Len(kept) : kept[i] \in AnyItem
  OBVIOUS
<1>3. CASE threw' = FALSE /\ embeddings' = [i \in DOMAIN kept |-> Embed(kept[i])]
  <2>1. embeddings' \in [1 .. Len(kept) -> Embeddings]
    BY <1>2, <1>3, EmbedTypes
  <2>2. embeddings' \in Seq(Embeddings) /\ Len(embeddings') = Len(kept)
    BY <1>2, <2>1
  <2>3. \A i \in DOMAIN kept : embeddings'[i] = Embed(kept[i])
    BY <1>3
  <2>4. /\ Len(embeddings') <= Len(kept) /\ threw' = FALSE
        /\ \A i \in DOMAIN kept : embeddings'[i] = Embed(kept[i])
    BY <1>2, <1>3, <2>2, <2>3
  <2> QED BY ONLY <1>1, <2>2, <2>4
<1>4. ASSUME threw' = TRUE, NEW s \in Selections(Len(kept)),
             embeddings' = [i \in DOMAIN s |-> Embed(kept[s[i]])]
      PROVE  /\ embeddings' \in Seq(Embeddings) /\ Len(embeddings') <= Len(kept)
  <2>1. /\ Len(s) \in 0 .. Len(kept) /\ DOMAIN s = 1 .. Len(s)
        /\ \A i \in 1 .. Len(s) : s[i] \in 1 .. Len(kept)
    BY <1>2, SelectionFacts
  <2>2. embeddings' \in [1 .. Len(s) -> Embeddings]
    BY <1>2, <1>4, <2>1, EmbedTypes
  <2>3. embeddings' \in Seq(Embeddings) /\ Len(embeddings') = Len(s)
    BY <1>2, <2>1, <2>2
  <2> QED BY <1>2, <2>1, <2>3
<1>5. \/ /\ threw' = FALSE
         /\ embeddings' = [i \in DOMAIN kept |-> Embed(kept[i])]
      \/ /\ threw' = TRUE
         /\ \E s \in Selections(Len(kept)) :
              embeddings' = [i \in DOMAIN s |-> Embed(kept[s[i]])]
  BY <1>1 DEF LoadLong
<1>6. CASE /\ threw' = TRUE
           /\ \E s \in Selections(Len(kept)) :
                embeddings' = [i \in DOMAIN s |-> Embed(kept[s[i]])]
  <2>1. embeddings' \in Seq(Embeddings) /\ Len(embeddings') <= Len(kept)
    BY <1>4, <1>6
  <2>2. threw' = TRUE
    BY <1>6
  <2> QED BY ONLY <1>1, <2>1, <2>2
<1> QED BY <1>3, <1>5, <1>6

(* No step leaves the types.                                               *)
LEMMA TypeStep == TypeOK /\ [Next]_vars => TypeOK'
<1> SUFFICES ASSUME TypeOK, [Next]_vars PROVE TypeOK'
  OBVIOUS
<1>1. /\ items \in Seq(AnyItem) /\ Len(items) \in Nat
      /\ embeddings \in Seq(Embeddings) /\ Len(embeddings) \in Nat
      /\ <<>> \in Seq(AnyItem) /\ <<>> \in Seq(Embeddings)
  BY DEF TypeOK, Embeddings
<1>2. ASSUME kind' \in {"short", "long", "broken"}, window' \in Windows, embeds' \in BOOLEAN,
             items' \in Seq(AnyItem), embeddings' \in Seq(Embeddings),
             saved' \in Seq(AnyItem) \cup {Nothing},
             last'.op \in {"none", "add", "load", "retrieve"}, threw' \in BOOLEAN,
             embeds' => kind' = "long", kind' = "short" => embeddings' = <<>>
      PROVE  TypeOK'
  BY <1>2 DEF TypeOK, Embeddings
<1>3. CASE Restart
  BY <1>1, <1>2, <1>3 DEF Restart, Construct, NoCall, TypeOK
<1>4. ASSUME NEW x \in Items, AddShort(x) \/ AddLong(x) \/ AddLongThrows(x) PROVE TypeOK'
  <2> DEFINE grown == Append(items, x)
             vectors == Append(embeddings, Embed(x))
  <2>1. x \in AnyItem /\ Embed(x) \in Embeddings
    BY ItemsAreItems, EmbedTypes
  <2>2. /\ grown \in Seq(AnyItem) /\ Len(grown) = Len(items) + 1
        /\ vectors \in Seq(Embeddings) /\ Len(vectors) = Len(embeddings) + 1
    BY <1>1, <2>1
  <2>3. /\ UNCHANGED <<kind, window, embeds, saved>>
        /\ last' \in {NoCall, [op |-> "add", item |-> x]} /\ threw' \in {threw, TRUE}
    BY <1>4 DEF AddShort, AddLong, AddLongThrows
  <2>9. last'.op \in {"none", "add"}
    BY <2>3 DEF NoCall
  <2>4. items' \in {grown, DropOldest(grown, Excess(grown))}
    BY <1>4 DEF AddShort, AddLong, AddLongThrows
  <2>5. \/ embeddings' = embeddings
        \/ /\ kind = "long" /\ Excess(grown) <= Len(vectors)
           /\ embeddings' = DropOldest(vectors, Excess(grown))
    BY <1>4, <2>2 DEF AddShort, AddLong, AddLongThrows
  <2> HIDE DEF grown, vectors
  <2>6. Excess(grown) \in Nat /\ Excess(grown) <= Len(grown)
    BY <1>1, <2>2, ExcessFacts
  <2>7. items' \in Seq(AnyItem)
    BY <2>2, <2>4, <2>6, DropFacts
  <2>8. embeddings' \in Seq(Embeddings) /\ (kind' = "short" => embeddings' = <<>>)
    BY <1>1, <2>2, <2>3, <2>5, <2>6, DropFacts DEF TypeOK
  <2> QED BY <1>2, <2>3, <2>7, <2>8, <2>9 DEF TypeOK
<1>5. CASE Undefined \/ Clear
  <2>1. /\ items' = <<>> /\ embeddings' = <<>> /\ last' = NoCall
        /\ UNCHANGED <<window, saved>> /\ (threw' = threw \/ threw' = FALSE)
    BY <1>5 DEF Undefined, Clear
  <2>3. last'.op = "none"
    BY <2>1 DEF NoCall
  <2>2. \/ kind' = "broken" /\ embeds' = FALSE
        \/ UNCHANGED <<kind, embeds>>
    BY <1>5 DEF Undefined, Clear
  <2> QED BY <1>1, <1>2, <2>1, <2>2, <2>3 DEF TypeOK
<1>6. ASSUME NEW k, RetrieveShort(k) \/ \E q \in Queries : RetrieveLong(q, k) PROVE TypeOK'
  <2>1. /\ UNCHANGED <<kind, window, embeds, items, embeddings, saved, threw>>
        /\ last'.op = "retrieve"
    BY <1>6 DEF RetrieveShort, RetrieveLong
  <2> QED BY <1>1, <1>2, <2>1 DEF TypeOK
<1>7. CASE SaveShort \/ SaveLong
  BY <1>1, <1>2, <1>7 DEF SaveShort, SaveLong, NoCall, TypeOK
<1>8. ASSUME NEW lines \in Seq(AnyItem), Load(lines) PROVE TypeOK'
  <2>1. items' \in Seq(AnyItem)
    BY <1>8, ReadingFacts DEF Load, LoadShort, LoadLong
  <2>2. CASE LoadShort(lines)
    BY <1>1, <1>2, <2>1, <2>2 DEF LoadShort, TypeOK
  <2>3. CASE LoadLong(lines)
    <3>1. embeddings' \in Seq(Embeddings) /\ threw' \in BOOLEAN
      BY <2>1, <2>3, LoadedEmbeddings
    <3>2. UNCHANGED <<kind, window, embeds, saved>> /\ kind = "long" /\ last'.op = "load"
      BY <2>3 DEF LoadLong
    <3> QED BY <1>2, <2>1, <3>1, <3>2 DEF TypeOK
  <2> QED BY <1>8, <2>2, <2>3 DEF Load
<1>9. CASE UNCHANGED vars
  BY <1>9 DEF vars, TypeOK
<1>10. saved # Nothing => saved \in Seq(AnyItem)
  BY DEF TypeOK
<1> QED
  BY <1>1, <1>3, <1>4, <1>5, <1>6, <1>7, <1>8, <1>9, <1>10 DEF Next

-----------------------------------------------------------------------------
(* Embeddings beside their items.                                          *)

(* The same number leave at the front of both, after one came to each.     *)
LEMMA AddAligned ==
  ASSUME TypeOK, Aligned, NEW x \in Items, AddLong(x)
  PROVE  Aligned'
<1> DEFINE n == Len(items)
           m == Len(embeddings)
           grown == Append(items, x)
           vectors == Append(embeddings, Embed(x))
           e == Excess(grown)
<1>1. x \in AnyItem /\ Embed(x) \in Embeddings
  BY ItemsAreItems, EmbedTypes
<1>2. /\ n \in Nat /\ grown \in Seq(AnyItem) /\ Len(grown) = n + 1
      /\ m \in Nat /\ vectors \in Seq(Embeddings) /\ Len(vectors) = m + 1
      /\ grown[n + 1] = x /\ \A i \in 1 .. n : grown[i] = items[i]
      /\ vectors[m + 1] = Embed(x) /\ \A i \in 1 .. m : vectors[i] = embeddings[i]
  BY <1>1 DEF TypeOK, Embeddings
<1>3. /\ kind = "long" /\ UNCHANGED <<kind, embeds, threw>>
      /\ e <= Len(vectors)
      /\ items' = DropOldest(grown, e) /\ embeddings' = DropOldest(vectors, e)
  BY <1>2 DEF AddLong
<1>4. m <= n /\ (~threw => m = n /\ \A i \in 1 .. n : embeddings[i] = Embed(items[i]))
  BY <1>3 DEF Aligned, TypeOK
<1>5. \A y : Embed(y)' = Embed(y)
  BY <1>3 DEF Embed
<1> HIDE DEF grown, vectors, n, m
<1>6. e \in Nat /\ e <= Len(grown)
  BY <1>2, ExcessFacts
<1> HIDE DEF e
<1>7. /\ items' \in Seq(AnyItem) /\ Len(items') = n + 1 - e
      /\ \A i \in 1 .. n + 1 - e : items'[i] = grown[e + i]
  <2>1. /\ DropOldest(grown, e) \in Seq(AnyItem)
        /\ Len(DropOldest(grown, e)) = Len(grown) - e
        /\ \A i \in 1 .. Len(grown) - e : DropOldest(grown, e)[i] = grown[e + i]
    <3>1. grown \in Seq(AnyItem) /\ e \in Nat /\ e <= Len(grown)
      BY <1>2, <1>6
    <3> QED BY ONLY <3>1, DropFacts
  <2>2. items' = DropOldest(grown, e)
    BY <1>3
  <2>3. Len(grown) - e = n + 1 - e
    <3>1. Len(grown) = n + 1 /\ n \in Nat /\ e \in Nat
      BY <1>2, <1>6
    <3> QED BY ONLY <3>1
  <2> QED BY ONLY <2>1, <2>2, <2>3
<1>8. /\ Len(embeddings') = m + 1 - e
      /\ \A i \in 1 .. m + 1 - e : embeddings'[i] = vectors[e + i]
  <2>1. /\ Len(DropOldest(vectors, e)) = Len(vectors) - e
        /\ \A i \in 1 .. Len(vectors) - e : DropOldest(vectors, e)[i] = vectors[e + i]
    <3>1. vectors \in Seq(Embeddings) /\ e \in Nat /\ e <= Len(vectors)
      BY <1>2, <1>3, <1>6
    <3> QED BY ONLY <3>1, DropFacts
  <2>2. embeddings' = DropOldest(vectors, e)
    BY <1>3
  <2>3. Len(vectors) - e = m + 1 - e
    <3>1. Len(vectors) = m + 1 /\ m \in Nat /\ e \in Nat
      BY <1>2, <1>6
    <3> QED BY ONLY <3>1
  <2> QED BY ONLY <2>1, <2>2, <2>3
<1>9. ASSUME ~threw, NEW i \in 1 .. n + 1 - e PROVE embeddings'[i] = Embed(items'[i])
  <2>1. e + i \in 1 .. n + 1 /\ m = n
    BY <1>2, <1>4, <1>6, <1>9
  <2>2. embeddings'[i] = vectors[e + i] /\ items'[i] = grown[e + i]
    BY <1>7, <1>8, <2>1
  <2>3. CASE e + i = n + 1
    BY <1>2, <2>1, <2>2, <2>3
  <2>4. CASE e + i # n + 1
    <3>1. e + i \in 1 .. n
      BY <1>2, <2>1, <2>4
    <3> QED BY <1>2, <1>4, <1>9, <2>1, <2>2, <3>1
  <2> QED BY <2>3, <2>4
<1>10. Len(embeddings') <= Len(items')
  BY <1>2, <1>4, <1>6, <1>7, <1>8
<1>11. DOMAIN items' = 1 .. n + 1 - e
  BY <1>7
<1> QED BY <1>3, <1>4, <1>5, <1>7, <1>8, <1>9, <1>10, <1>11 DEF Aligned

(* No step takes the embeddings from their items, and only embed_fn_       *)
(* throwing leaves an item without.                                        *)
LEMMA AlignedStep == TypeOK /\ TypeOK' /\ Aligned /\ [Next]_vars => Aligned'
<1> SUFFICES ASSUME TypeOK, TypeOK', Aligned, [Next]_vars PROVE Aligned'
  OBVIOUS
<1>1. ASSUME kind' # "long" PROVE Aligned'
  BY <1>1 DEF Aligned
<1>2. ASSUME items' = <<>>, embeddings' = <<>> PROVE Aligned'
  BY <1>2 DEF Aligned
<1>3. ASSUME UNCHANGED <<kind, embeds, items, embeddings, threw>> PROVE Aligned'
  BY <1>3 DEF Aligned, Embed
<1>4. CASE Restart
  BY <1>2, <1>4 DEF Restart, Construct
<1>5. ASSUME NEW x \in Items, AddShort(x) PROVE Aligned'
  BY <1>1, <1>5 DEF AddShort
<1>6. ASSUME NEW x \in Items, AddLongThrows(x) PROVE Aligned'
  <2>1. Len(items') = Len(items) + 1 /\ Len(items) \in Nat /\ Len(embeddings) \in Nat
    <3>1. x \in AnyItem
      BY ItemsAreItems
    <3> QED BY <1>6, <3>1 DEF AddLongThrows, TypeOK
  <2>2. kind = "long" /\ threw' = TRUE /\ embeddings' = embeddings
    BY <1>6 DEF AddLongThrows
  <2>3. Len(embeddings) <= Len(items)
    BY <2>2 DEF Aligned
  <2> QED BY <2>1, <2>2, <2>3 DEF Aligned
<1>7. CASE Undefined \/ Clear
  BY <1>2, <1>7 DEF Undefined, Clear
<1>8. ASSUME NEW k, RetrieveShort(k) \/ \E q \in Queries : RetrieveLong(q, k) PROVE Aligned'
  BY <1>3, <1>8 DEF RetrieveShort, RetrieveLong
<1>9. CASE SaveShort \/ SaveLong
  BY <1>3, <1>9 DEF SaveShort, SaveLong
<1>10. ASSUME NEW lines, Load(lines) PROVE Aligned'
  <2>1. CASE LoadShort(lines)
    BY <1>1, <2>1 DEF LoadShort
  <2>2. CASE LoadLong(lines)
    <3>1. items' \in Seq(AnyItem)
      BY DEF TypeOK
    <3>2. /\ Len(embeddings') <= Len(items')
          /\ ~threw' => /\ Len(embeddings') = Len(items')
                        /\ \A i \in DOMAIN items' : embeddings'[i] = Embed(items'[i])
      BY <2>2, <3>1, LoadedEmbeddings
    <3>3. \A y : Embed(y)' = Embed(y)
      BY <2>2 DEF LoadLong, Embed
    <3> QED BY <3>2, <3>3 DEF Aligned
  <2> QED BY <1>10, <2>1, <2>2 DEF Load
<1>11. CASE UNCHANGED vars
  BY <1>3, <1>11 DEF vars
<1> QED
  BY <1>4, <1>5, <1>6, <1>7, <1>8, <1>9, <1>10, <1>11, AddAligned DEF Next

-----------------------------------------------------------------------------
(* The window after an add.                                                *)

(* What an add leaves fits in the window, and ends with what was added.    *)
LEMMA AddRestores ==
  ASSUME TypeOK, NEW x \in Items, AddShort(x) \/ AddLong(x)
  PROVE  AddRestoresWindow'
<1> DEFINE n == Len(items)
           grown == Append(items, x)
           e == Excess(grown)
<1>1. x \in AnyItem
  BY ItemsAreItems
<1>2. n \in Nat /\ grown \in Seq(AnyItem) /\ Len(grown) = n + 1 /\ grown[n + 1] = x
  BY <1>1 DEF TypeOK
<1>3. items' = DropOldest(grown, e) /\ window' = window /\ last'.item = x
  BY DEF AddShort, AddLong
<1>4. /\ e \in Nat /\ e <= Len(grown) /\ Len(grown) - e <= window
      /\ window > 0 /\ Len(grown) > 0 => Len(grown) - e >= 1
  <2>1. Len(grown) \in Nat
    BY <1>2
  <2> HIDE DEF grown
  <2> QED BY <2>1, ExcessFacts
<1> HIDE DEF grown, e, n
<1>5. PICK k \in Int : k = n + 1 - e
  BY <1>2, <1>4
<1>6. Len(grown) - e = k /\ e + k = n + 1
  BY <1>2, <1>4, <1>5
<1>7. /\ items' \in Seq(AnyItem) /\ Len(items') = k
      /\ \A i \in 1 .. k : items'[i] = grown[e + i]
  <2>1. /\ DropOldest(grown, e) \in Seq(AnyItem)
        /\ Len(DropOldest(grown, e)) = Len(grown) - e
        /\ \A i \in 1 .. Len(grown) - e : DropOldest(grown, e)[i] = grown[e + i]
    <3>1. grown \in Seq(AnyItem) /\ e \in Nat /\ e <= Len(grown)
      BY <1>2, <1>4
    <3> QED BY ONLY <3>1, DropFacts
  <2> QED BY <1>3, <1>6, <2>1
<1>8. k <= window /\ (window > 0 => k \in 1 .. k)
  BY <1>2, <1>4, <1>5, <1>6
<1>9. window > 0 => items'[k] = x
  BY <1>2, <1>6, <1>7, <1>8
<1> QED BY <1>3, <1>7, <1>8, <1>9 DEF AddRestoresWindow, Last

-----------------------------------------------------------------------------
(* What retrieve returns.                                                  *)

(* The latest items, read backwards, end the sequence of items.            *)
LEMMA LatestAreSuffix ==
  ASSUME NEW S, NEW s \in Seq(S), NEW start \in 0 .. Len(s)
  PROVE  LET got == Reverse(SubSeq(s, start + 1, Len(s)))
         IN  Len(got) = Len(s) - start /\ IsSuffix(Reverse(got), s)
<1> DEFINE n == Len(s)
           tail == SubSeq(s, start + 1, n)
           got == Reverse(tail)
           k == n - start
<1>1. n \in Nat /\ start \in Nat /\ start <= n /\ k \in Nat
  OBVIOUS
<1>2. /\ tail \in Seq(S) /\ Len(tail) = k
      /\ \A i \in 1 .. k : tail[i] = s[start + i]
  <2>1. start \in Nat /\ start <= Len(s)
    OBVIOUS
  <2>2. tail = DropOldest(s, start)
    BY DEF DropOldest
  <2> HIDE DEF tail
  <2>3. /\ DropOldest(s, start) \in Seq(S)
        /\ Len(DropOldest(s, start)) = Len(s) - start
        /\ \A i \in 1 .. Len(s) - start : DropOldest(s, start)[i] = s[start + i]
    BY ONLY s \in Seq(S), <2>1, DropFacts
  <2> QED BY <2>2, <2>3
<1> HIDE DEF tail, k, n
<1>3. got = [i \in 1 .. k |-> tail[(k - i) + 1]] /\ Len(got) = k
  BY <1>1, <1>2 DEF Reverse
<1> HIDE DEF got
<1>4. Reverse(got) = [i \in 1 .. k |-> got[(k - i) + 1]]
  BY <1>3 DEF Reverse
<1>5. \A i \in 1 .. k : (k - i) + 1 \in 1 .. k /\ (k - ((k - i) + 1)) + 1 = i
  BY <1>1
<1>6. Reverse(got) = [i \in 1 .. k |-> tail[i]]
  BY <1>3, <1>4, <1>5
<1>7. Reverse(Reverse(got)) = got
  <2> DEFINE back == [i \in 1 .. k |-> tail[i]]
  <2>1. Len(back) = k /\ \A i \in 1 .. k : back[(k - i) + 1] = tail[(k - i) + 1]
    BY <1>1, <1>5
  <2> HIDE DEF back
  <2>2. Reverse(back) = [i \in 1 .. k |-> tail[(k - i) + 1]]
    BY <2>1 DEF Reverse
  <2> QED BY <1>3, <1>6, <2>2 DEF back
<1>8. Reverse(s) = [i \in 1 .. n |-> s[(n - i) + 1]]
  BY DEF Reverse, n
<1>9. Len(Reverse(s)) = n
  BY <1>1, <1>8
<1>10. \A i \in 1 .. k : got[i] = Reverse(s)[i]
  <2> SUFFICES ASSUME NEW i \in 1 .. k PROVE got[i] = Reverse(s)[i]
    OBVIOUS
  <2>1. got[i] = s[start + ((k - i) + 1)]
    BY <1>2, <1>3, <1>5
  <2>2. i \in 1 .. n /\ start + ((k - i) + 1) = (n - i) + 1
    BY <1>1 DEF k
  <2> QED BY <1>8, <2>1, <2>2
<1>11. k <= n
  BY <1>1 DEF k
<1>12. SubSeq(got, 1, k) = SubSeq(Reverse(s), 1, k)
  <2> DEFINE rev == Reverse(s)
  <2>1. got \in Seq(S)
    BY <1>1, <1>2, <1>3, <1>5
  <2>2. rev \in Seq(S)
    <3>1. \A i \in 1 .. n : (n - i) + 1 \in 1 .. n
      BY <1>1
    <3>2. \A i \in 1 .. n : s[i] \in S
      BY DEF n
    <3> QED BY <1>1, <1>8, <3>1, <3>2
  <2>3. Len(rev) = n /\ \A i \in 1 .. k : got[i] = rev[i]
    BY <1>9, <1>10
  <2> HIDE DEF rev
  <2>4. /\ SubSeq(got, 1, k) \in Seq(S) /\ Len(SubSeq(got, 1, k)) = k
        /\ \A i \in 1 .. k : SubSeq(got, 1, k)[i] = got[i]
    BY <1>1, <1>3, <2>1
  <2>5. /\ SubSeq(rev, 1, k) \in Seq(S) /\ Len(SubSeq(rev, 1, k)) = k
        /\ \A i \in 1 .. k : SubSeq(rev, 1, k)[i] = rev[i]
    BY <1>1, <1>11, <2>2, <2>3
  <2>6. SubSeq(got, 1, k) = SubSeq(rev, 1, k)
    BY ONLY <2>3, <2>4, <2>5, SeqEqual
  <2> QED BY <2>6 DEF rev
<1>13. IsPrefix(Reverse(Reverse(got)), Reverse(s))
  BY <1>3, <1>7, <1>9, <1>11, <1>12 DEF IsPrefix
<1> QED BY <1>3, <1>13 DEF IsSuffix, got, tail, n, k

(* RetrieveShort returns the latest items.                                 *)
LEMMA FoundShort ==
  ASSUME TypeOK, NEW k \in Windows, RetrieveShort(k)
  PROVE  FoundIsBest'
<1> DEFINE n == Len(items)
           start == IF n > k THEN n - k ELSE 0
           got == Reverse(SubSeq(items, start + 1, n))
<1>1. n \in Nat /\ k \in Nat
  BY MemoryAssumption DEF TypeOK
<1>2. start \in 0 .. n /\ n - start <= k /\ (n - start < k => n - start = n)
  BY <1>1
<1>3. last'.items = got /\ last'.most = k /\ items' = items /\ kind' = "short"
  BY DEF RetrieveShort
<1>4. Len(got) = n - start /\ IsSuffix(Reverse(got), items)
  <2> HIDE DEF start
  <2>1. items \in Seq(AnyItem) /\ start \in 0 .. Len(items)
    BY <1>2 DEF TypeOK
  <2> QED BY ONLY <2>1, LatestAreSuffix
<1> HIDE DEF got, start
<1> QED BY <1>2, <1>3, <1>4 DEF FoundIsBest, n

(* What RetrieveLong returns is in the order of the scores, and these are  *)
(* of the items' own contents as long as every embedding is in place.      *)
LEMMA FoundLong ==
  ASSUME TypeOK, Aligned, NEW q, NEW k \in Windows, RetrieveLong(q, k)
  PROVE  FoundIsBest'
<1> DEFINE n == Len(items)
           m == IF n > k THEN k ELSE n
<1>1. n \in Nat /\ k \in Nat /\ DOMAIN items = 1 .. n
  BY MemoryAssumption DEF TypeOK
<1>2. m \in Nat /\ m <= k /\ m <= n /\ (m < k => m = n)
  <2> HIDE DEF n
  <2> QED BY <1>1
<1>3. PICK r \in Rankings(q, k) :
        last' = [op |-> "retrieve", query |-> q, most |-> k,
                 items |-> [i \in DOMAIN r |-> items[r[i]]]]
  BY DEF RetrieveLong
<1>4. /\ r \in [1 .. m -> 1 .. n] /\ IsInjective(r)
      /\ \A i \in 1 .. m, j \in 1 .. n :
           j \notin {r[h] : h \in 1 .. i} => Score(q, r[i]) >= Score(q, j)
  BY DEF Rankings
<1>5. PICK got : got = [i \in 1 .. m |-> items[r[i]]]
  OBVIOUS
<1>6. last'.op = "retrieve" /\ last'.items = got /\ last'.query = q /\ last'.most = k
  BY <1>3, <1>4, <1>5
<1>7. kind' = "long" /\ UNCHANGED <<embeds, items, embeddings, threw>>
  BY DEF RetrieveLong
<1> HIDE DEF m
<1>8. Len(got) = m /\ DOMAIN got = 1 .. m
  BY <1>2, <1>5
<1>9. ASSUME embeds, ~threw
      PROVE  /\ \A i, j \in DOMAIN got : i < j => Own(q, got[i]) >= Own(q, got[j])
             /\ \A x \in ToSet(items) \ ToSet(got), i \in DOMAIN got :
                  Own(q, got[i]) >= Own(q, x)
  <2>1. \A i \in 1 .. n : Score(q, i) = Own(q, items[i])
    <3>1. kind = "long"
      BY DEF RetrieveLong
    <3>2. \A i \in 1 .. n : embeddings[i] = Embed(items[i])
      BY <1>1, <1>9, <3>1 DEF Aligned
    <3> QED BY <1>9, <3>2 DEF Score, Own
  <2>2. \A i \in 1 .. m : r[i] \in 1 .. n /\ Score(q, r[i]) = Own(q, got[i])
    BY <1>4, <1>5, <2>1
  <2>3. ASSUME NEW i \in 1 .. m, NEW j \in 1 .. m, i < j
        PROVE  Own(q, got[i]) >= Own(q, got[j])
    <3>1. \A h \in 1 .. i : h \in 1 .. m /\ h # j
      BY <1>2, <2>3
    <3>2. r[j] \notin {r[h] : h \in 1 .. i}
      BY <1>4, <3>1 DEF IsInjective
    <3>3. Score(q, r[i]) >= Score(q, r[j])
      BY <1>4, <2>2, <3>2
    <3> QED BY <2>2, <3>3
  <2>4. ASSUME NEW x \in ToSet(items) \ ToSet(got), NEW i \in 1 .. m
        PROVE  Own(q, got[i]) >= Own(q, x)
    <3>1. PICK j \in 1 .. n : x = items[j]
      BY <1>1 DEF ToSet
    <3>2. \A h \in 1 .. i : h \in 1 .. m
      BY <1>2
    <3>3. j \notin {r[h] : h \in 1 .. i}
      <4>1. \A h \in 1 .. m : got[h] \in ToSet(got) /\ got[h] = items[r[h]]
        BY <1>5, <1>8 DEF ToSet
      <4> QED BY <3>1, <3>2, <4>1
    <3>4. Score(q, r[i]) >= Score(q, j)
      BY <1>4, <3>3
    <3> QED BY <2>1, <2>2, <3>1, <3>4
  <2> QED BY <1>8, <2>3, <2>4
<1>10. \A y : Own(q, y)' = Own(q, y)
  BY <1>7 DEF Own, Embed
<1>11. Len(got) <= k /\ (Len(got) < k => Len(got) = Len(items'))
  BY <1>2, <1>7, <1>8
<1>12. embeds' /\ ~threw' =>
             /\ \A i, j \in DOMAIN got : i < j => Own(q, got[i]) >= Own(q, got[j])
             /\ \A x \in ToSet(items') \ ToSet(got), i \in DOMAIN got :
                  Own(q, got[i]) >= Own(q, x)
  BY <1>7, <1>9
<1> QED BY <1>7, <1>10, <1>11, <1>12, <1>6 DEF FoundIsBest

-----------------------------------------------------------------------------
(* What a load brings back.                                                *)

(* A simple line is read as the item written, and as nothing else; and no  *)
(* other line reads as a simple item.                                      *)
LEMMA SimpleReread ==
  ASSUME NEW x \in AnyItem
  PROVE  /\ Simple(x) => Reread(x) = {x} /\ x # Skipped
         /\ \A y \in Reread(x) \ {Skipped} : Simple(y) => y = x
<1>1. Simple(x) => x # Skipped
  BY DEF Simple, Skipped
<1>2. Simple(x) => Reread(x) = {x}
  <2> SUFFICES ASSUME Simple(x) PROVE Reread(x) = {x}
    OBVIOUS
  <2>1. x.content = "plain" /\ x.meta = "none"
    BY DEF Simple
  <2>2. ShortMeta(x) = {x} /\ LongMeta(x) = {x}
    BY <2>1 DEF ShortMeta, LongMeta
  <2>3. Reread(x) = IF kind = "short" THEN ShortMeta(x) ELSE LongMeta(x)
    BY <2>1 DEF Reread, RereadContent
  <2> QED BY <2>2, <2>3
<1>3. Cut(x).meta = "garbled" /\ Garble(x).meta = "garbled"
  BY DEF Cut, Garble, AnyItem
<1>4. ~Simple(Cut(x)) /\ ~Simple(Garble(x))
  BY <1>3 DEF Simple
<1> QED BY <1>1, <1>2, <1>4, RereadReadings

(* Whatever the other lines are read as, the simple items among those read *)
(* are the simple ones among the lines, in their order.                    *)
LEMMA ReadingKeepsSimple ==
  ASSUME NEW lines \in Seq(AnyItem), NEW kept \in Readings(lines)
  PROVE  \E from \in Bijection(SimpleIn(kept), SimpleIn(lines)) :
           /\ \A i \in SimpleIn(kept) : kept[i] = lines[from[i]]
           /\ \A i, j \in SimpleIn(kept) : i < j => from[i] < from[j]
<1> DEFINE n == Len(lines)
<1>1. PICK s \in Selections(n) :
        Len(kept) = Len(s) /\ DOMAIN kept = DOMAIN s /\ Keeps(lines, s, kept)
  BY ReadingFacts
<1>2. n \in Nat /\ DOMAIN lines = 1 .. n /\ \A i \in 1 .. n : lines[i] \in AnyItem
  OBVIOUS
<1> HIDE DEF n
<1>3. /\ DOMAIN s = 1 .. Len(s) /\ Len(s) \in Nat
      /\ \A i \in 1 .. Len(s) : s[i] \in 1 .. n
      /\ \A i, j \in 1 .. Len(s) : i < j => s[i] < s[j]
  BY <1>2, SelectionFacts
<1> DEFINE m == Len(s)
<1> HIDE DEF m
<1>4. /\ DOMAIN kept = 1 .. m /\ m \in Nat /\ Range(s) = {s[i] : i \in 1 .. m}
      /\ \A i \in 1 .. m : s[i] \in 1 .. n
      /\ \A i, j \in 1 .. m : i < j => s[i] < s[j]
  BY <1>1, <1>3 DEF m, Range
<1>5. /\ \A j \in 1 .. n : j \notin Range(s) => Skipped \in Reread(lines[j])
      /\ \A i \in 1 .. m : kept[i] \in Reread(lines[s[i]]) \ {Skipped}
  BY <1>1, <1>2, <1>3 DEF Keeps, m
<1>6. ASSUME NEW i \in SimpleIn(kept)
      PROVE  i \in 1 .. m /\ s[i] \in SimpleIn(lines) /\ kept[i] = lines[s[i]]
  <2>1. i \in 1 .. m /\ Simple(kept[i])
    BY <1>4 DEF SimpleIn
  <2>2. kept[i] = lines[s[i]]
    BY <1>2, <1>4, <1>5, <2>1, SimpleReread
  <2> QED BY <1>2, <1>4, <2>1, <2>2 DEF SimpleIn
<1>7. ASSUME NEW j \in SimpleIn(lines)
      PROVE  \E i \in SimpleIn(kept) : s[i] = j
  <2>1. j \in 1 .. n /\ Reread(lines[j]) = {lines[j]} /\ lines[j] # Skipped
        /\ Simple(lines[j])
    BY <1>2, SimpleReread DEF SimpleIn
  <2>2. PICK i \in 1 .. m : s[i] = j
    BY <1>4, <1>5, <2>1
  <2>3. Simple(kept[i])
    BY <1>5, <2>1, <2>2
  <2> QED BY <1>4, <2>2, <2>3 DEF SimpleIn
<1> DEFINE from == [i \in SimpleIn(kept) |-> s[i]]
<1>8. ASSUME NEW i \in SimpleIn(kept), NEW j \in SimpleIn(kept), from[i] = from[j]
      PROVE  i = j
  <2>1. i \in 1 .. m /\ j \in 1 .. m /\ s[i] = s[j]
    BY <1>6, <1>8
  <2>2. ~(i < j) /\ ~(j < i)
    BY <1>4, <2>1
  <2> QED BY <1>4, <2>1, <2>2
<1>9. from \in Bijection(SimpleIn(kept), SimpleIn(lines))
  <2>1. from \in [SimpleIn(kept) -> SimpleIn(lines)]
    BY <1>6
  <2>2. IsInjective(from)
    BY <1>8 DEF IsInjective
  <2>3. \A j \in SimpleIn(lines) : \E i \in SimpleIn(kept) : from[i] = j
    BY <1>7
  <2> HIDE DEF from
  <2> QED BY <2>1, <2>2, <2>3 DEF Bijection, Injection, Surjection
<1>10. \A i \in SimpleIn(kept) : kept[i] = lines[from[i]]
  BY <1>6
<1>11. \A i, j \in SimpleIn(kept) : i < j => from[i] < from[j]
  BY <1>4, <1>6
<1> HIDE DEF from
<1> QED BY <1>9, <1>10, <1>11

-----------------------------------------------------------------------------
(* The inductive invariant: beyond the types, that embeddings stand beside *)
(* their items.  What the last call was asked and returned is then true of *)
(* the state it left.                                                      *)
MemoryInv ==
  /\ TypeOK
  /\ Aligned
  /\ FoundIsBest
  /\ AddRestoresWindow
  /\ SimpleItemsComeBack

(* It holds of a new memory.                                               *)
LEMMA MemoryInit == Init => MemoryInv
<1> SUFFICES ASSUME Init PROVE MemoryInv
  OBVIOUS
<1>1. last.op = "none"
  BY DEF Init, NoCall
<1>2. TypeOK
  <2>1. items \in Seq(AnyItem) /\ embeddings \in Seq((Ids \X Contents) \cup {NoEmbedding})
    BY DEF Init
  <2>2. /\ kind \in {"short", "long", "broken"} /\ window \in Windows /\ embeds \in BOOLEAN
        /\ saved \in Seq(AnyItem) \cup {Nothing} /\ threw \in BOOLEAN
        /\ (embeds => kind = "long") /\ (kind = "short" => embeddings = <<>>)
    BY DEF Init
  <2> QED BY <1>1, <2>1, <2>2 DEF TypeOK
<1>3. Aligned
  BY DEF Init, Aligned
<1> QED BY <1>1, <1>2, <1>3
  DEF MemoryInv, FoundIsBest, AddRestoresWindow, SimpleItemsComeBack

(* Every step keeps it.                                                    *)
LEMMA MemoryStep == MemoryInv /\ [Next]_vars => MemoryInv'
<1> SUFFICES ASSUME MemoryInv, [Next]_vars PROVE MemoryInv'
  OBVIOUS
<1>1. TypeOK /\ Aligned /\ FoundIsBest /\ AddRestoresWindow /\ SimpleItemsComeBack
  BY DEF MemoryInv
<1>2. TypeOK' /\ Aligned'
  BY <1>1, TypeStep, AlignedStep
<1>3. ASSUME FoundIsBest', AddRestoresWindow', SimpleItemsComeBack' PROVE MemoryInv'
  BY <1>2, <1>3 DEF MemoryInv
<1>4. ASSUME last'.op # "retrieve" PROVE FoundIsBest'
  BY <1>4 DEF FoundIsBest
<1>5. ASSUME last'.op # "add" PROVE AddRestoresWindow'
  BY <1>5 DEF AddRestoresWindow
<1>6. ASSUME last'.op # "load" PROVE SimpleItemsComeBack'
  BY <1>6 DEF SimpleItemsComeBack
<1>7. CASE last' = NoCall
  <2>1. last'.op = "none"
    BY <1>7 DEF NoCall
  <2> QED BY <1>3, <1>4, <1>5, <1>6, <2>1
<1>8. ASSUME NEW x \in Items, AddShort(x) \/ AddLong(x) PROVE MemoryInv'
  <2>1. last'.op = "add"
    BY <1>8 DEF AddShort, AddLong
  <2>2. AddRestoresWindow'
    BY <1>1, <1>8, AddRestores
  <2> QED BY <1>3, <1>4, <1>6, <2>1, <2>2
<1>9. ASSUME NEW k \in Windows, RetrieveShort(k) \/ \E q \in Queries : RetrieveLong(q, k)
      PROVE  MemoryInv'
  <2>1. last'.op = "retrieve"
    BY <1>9 DEF RetrieveShort, RetrieveLong
  <2>2. FoundIsBest'
    BY <1>1, <1>9, FoundShort, FoundLong
  <2> QED BY <1>3, <1>5, <1>6, <2>1, <2>2
<1>10. ASSUME NEW lines \in Seq(AnyItem), Load(lines) PROVE MemoryInv'
  <2>1. last'.op = "load" /\ last'.lines = lines /\ items' \in Readings(lines)
    BY <1>10 DEF Load, LoadShort, LoadLong
  <2>2. SimpleItemsComeBack'
    <3>1. PICK kept \in Readings(lines) : kept = items'
      BY <2>1
    <3>2. \E from \in Bijection(SimpleIn(kept), SimpleIn(lines)) :
            /\ \A i \in SimpleIn(kept) : kept[i] = lines[from[i]]
            /\ \A i, j \in SimpleIn(kept) : i < j => from[i] < from[j]
      BY ReadingKeepsSimple
    <3> QED BY <2>1, <3>1, <3>2 DEF SimpleItemsComeBack, SimpleIn
  <2> QED BY <1>3, <1>4, <1>5, <2>1, <2>2
<1>11. CASE UNCHANGED vars
  BY <1>1, <1>2, <1>11
  DEF MemoryInv, vars, FoundIsBest, Own, Embed, AddRestoresWindow,
      SimpleItemsComeBack, SimpleIn
<1>12. Restart \/ Undefined \/ Clear \/ SaveShort \/ SaveLong
       \/ (\E x \in Items : AddLongThrows(x)) => last' = NoCall
  BY DEF Restart, Construct, Undefined, Clear, SaveShort, SaveLong, AddLongThrows
<1>13. (saved # Nothing => saved \in Seq(AnyItem)) /\ <<>> \in Seq(AnyItem)
  BY <1>1 DEF TypeOK
<1> QED
  BY <1>7, <1>8, <1>9, <1>10, <1>11, <1>12, <1>13 DEF Next

-----------------------------------------------------------------------------
(* Whatever is added, saved, loaded and asked for, by whatever scores, and *)
(* wherever embed_fn_ throws, the invariant holds.                         *)
THEOREM MemoryInvariant == Spec => []MemoryInv
<1>1. Init => MemoryInv
  BY MemoryInit
<1>2. MemoryInv /\ [Next]_vars => MemoryInv'
  BY MemoryStep
<1> QED BY <1>1, <1>2, PTL DEF Spec

(* Every variable has its type, whatever text is loaded: what deserialize  *)
(* reads of a damaged line is an item all the same.                        *)
THEOREM MemoryTypes == Spec => []TypeOK
<1>1. MemoryInv => TypeOK
  BY DEF MemoryInv
<1> QED BY <1>1, MemoryInvariant, PTL

(* LongTermMemory never reads an embedding of another item: while          *)
(* embed_fn_ has not thrown, embeddings_[i] is that of items_[i], after    *)
(* any sequence of adds, slides, clears, restarts and loads.               *)
THEOREM EmbeddingsBesideItems == Spec => []Aligned
<1>1. MemoryInv => Aligned
  BY DEF MemoryInv
<1> QED BY <1>1, MemoryInvariant, PTL

(* What retrieve returns is the latest of the short term, and for the long *)
(* term the nearest by the items' own content, for any similarity and      *)
(* however the sort breaks ties.                                           *)
THEOREM RetrieveFindsBest == Spec => []FoundIsBest
<1>1. MemoryInv => FoundIsBest
  BY DEF MemoryInv
<1> QED BY <1>1, MemoryInvariant, PTL

(* An add brings the items back within max_items_, however many a load has *)
(* put there, and keeps the one added.                                     *)
THEOREM AddsRestoreWindow == Spec => []AddRestoresWindow
<1>1. MemoryInv => AddRestoresWindow
  BY DEF MemoryInv
<1> QED BY <1>1, MemoryInvariant, PTL

(* deserialize brings back the items without escapes and metadata that     *)
(* serialize wrote, all of them, each once and in order, and makes up no   *)
(* other such item.                                                        *)
THEOREM SimpleItemsSurvive == Spec => []SimpleItemsComeBack
<1>1. MemoryInv => SimpleItemsComeBack
  BY DEF MemoryInv
<1> QED BY <1>1, MemoryInvariant, PTL
=============================================================================
