------------------------------- MODULE Memory -------------------------------
(***************************************************************************)
(* ShortTermMemory and LongTermMemory (src/memory.cpp): a window of items, *)
(* for the long term with one embedding beside each, and the text they are *)
(* saved to and loaded from.                                               *)
(*                                                                         *)
(* Every operation is one step: a memory belongs to one thread.  The text  *)
(* is a sequence of lines, a line being the item written there; reading it *)
(* back is Reread, in which only what the format tells apart is kept of an *)
(* item: whether its content holds characters that are escaped, and how    *)
(* many metadata entries it has and what is escaped in the first.          *)
(***************************************************************************)
EXTENDS Integers, SequencesExt

CONSTANTS
  Items,             \* the items added
  Windows,           \* arguments of the constructors
  Queries,           \* arguments of retrieve
  Similarity,        \* [Queries \X item ids -> Int]: cosine_similarity
  Appeal,            \* [Queries \X item ids -> Int]: relevance and match
  MaxItems,          \* bound: items stored by adds that throw
  Nothing

Contents == {"plain", "special", "cut"}
Metas == {"none", "one", "oneKey", "oneValue", "many", "manyOdd", "garbled"}

Ids == {x.id : x \in Items}

ASSUME MemoryAssumption ==
  /\ Items \subseteq [id : Ids, content : {"plain", "special"},
                     meta : Metas \ {"garbled"}]
  /\ Windows \subseteq Nat
  /\ MaxItems \in Nat

VARIABLES
  kind,        \* "short" or "long"; "broken" after undefined behaviour
  window,      \* max_items_
  embeds,      \* whether there is an embed_fn_
  items,       \* items_, oldest first
  embeddings,  \* embeddings_, for the long term
  saved,       \* the last text serialize returned: what it wrote, per line
  last,        \* history: what the last call was asked and returned
  threw        \* history: embed_fn_ threw since items_ was last emptied

vars == <<kind, window, embeds, items, embeddings, saved, last, threw>>

(* The embedding of no text, where there is no embed_fn_.                  *)
NoEmbedding == <<>>
Embed(x) == IF embeds THEN <<x.id, x.content>> ELSE NoEmbedding

NoCall == [op |-> "none"]

(* A newly constructed memory.                                             *)
Construct ==
  /\ kind' \in {"short", "long"}
  /\ window' \in Windows
  /\ embeds' \in BOOLEAN
  /\ embeds' => kind' = "long"
  /\ items' = <<>>
  /\ embeddings' = <<>>
  /\ last' = NoCall
  /\ threw' = FALSE

Init ==
  /\ kind \in {"short", "long"}
  /\ window \in Windows
  /\ embeds \in BOOLEAN
  /\ embeds => kind = "long"
  /\ items = <<>>
  /\ embeddings = <<>>
  /\ saved = Nothing
  /\ last = NoCall
  /\ threw = FALSE

(* The text outlives the memory it came from.                              *)
Restart == Construct /\ UNCHANGED saved

-----------------------------------------------------------------------------
(* add *)

(* erase(begin()), as often as there are items in excess of the window.    *)
DropOldest(s, excess) == SubSeq(s, excess + 1, Len(s))

Excess(s) == IF Len(s) > window THEN Len(s) - window ELSE 0

(* Faulty: at most one item leaves for one that comes.                     *)
AddShortDropsOne(x) ==
  /\ kind = "short"
  /\ LET grown == Append(items, x)
     IN  items' = IF Len(grown) > window THEN Tail(grown) ELSE grown
  /\ last' = [op |-> "add", item |-> x]
  /\ UNCHANGED <<kind, window, embeds, embeddings, saved, threw>>

AddShort(x) ==
  /\ kind = "short"
  /\ LET grown == Append(items, x)
     IN  items' = DropOldest(grown, Excess(grown))
  /\ last' = [op |-> "add", item |-> x]
  /\ UNCHANGED <<kind, window, embeds, embeddings, saved, threw>>

(* Faulty: the window slides over the items only.                          *)
AddLongLeavesEmbeddings(x) ==
  /\ kind = "long"
  /\ LET grown == Append(items, x)
     IN  /\ items' = DropOldest(grown, Excess(grown))
         /\ embeddings' = Append(embeddings, Embed(x))
  /\ last' = [op |-> "add", item |-> x]
  /\ UNCHANGED <<kind, window, embeds, saved, threw>>

AddLong(x) ==
  /\ kind = "long"
  /\ LET grown == Append(items, x)
     IN  /\ Excess(grown) <= Len(embeddings) + 1
         /\ items' = DropOldest(grown, Excess(grown))
         /\ embeddings' = DropOldest(Append(embeddings, Embed(x)),
                                     Excess(grown))
  /\ last' = [op |-> "add", item |-> x]
  /\ UNCHANGED <<kind, window, embeds, saved, threw>>

(* embed_fn_ throws out of add, after the item was stored.                 *)
AddLongThrows(x) ==
  /\ kind = "long"
  /\ embeds
  /\ Len(items) < MaxItems
  /\ items' = Append(items, x)
  /\ last' = NoCall
  /\ threw' = TRUE
  /\ UNCHANGED <<kind, window, embeds, embeddings, saved>>

(* With embeddings missing, an add that erases more of them than there     *)
(* are, or a retrieve, which reads one per item: undefined behaviour,      *)
(* standing for the end of the process.                                    *)
Undefined ==
  /\ kind = "long"
  /\ Len(embeddings) < Len(items)
  /\ kind' = "broken"
  /\ embeds' = FALSE
  /\ items' = <<>>
  /\ embeddings' = <<>>
  /\ last' = NoCall
  /\ UNCHANGED <<window, saved, threw>>

Clear ==
  /\ kind # "broken"
  /\ items' = <<>>
  /\ embeddings' = <<>>
  /\ last' = NoCall
  /\ threw' = FALSE
  /\ UNCHANGED <<kind, window, embeds, saved>>

-----------------------------------------------------------------------------
(* retrieve *)

(* Faulty: the oldest items, not the newest.                               *)
RetrieveShortOldest(k) ==
  /\ kind = "short"
  /\ last' = [op |-> "retrieve", query |-> Nothing, most |-> k,
               items |-> Reverse(SubSeq(items, 1, IF Len(items) > k
                                                  THEN k ELSE Len(items)))]
  /\ UNCHANGED <<kind, window, embeds, items, embeddings, saved, threw>>

(* The newest first, whatever the query.                                   *)
RetrieveShort(k) ==
  /\ kind = "short"
  /\ LET start == IF Len(items) > k THEN Len(items) - k ELSE 0
     IN  last' = [op |-> "retrieve", query |-> Nothing, most |-> k,
                   items |-> Reverse(SubSeq(items, start + 1, Len(items)))]
  /\ UNCHANGED <<kind, window, embeds, items, embeddings, saved, threw>>

(* An embedding of content that was cut is like none of the others.        *)
SimilarityTo(q, e) == IF e[2] = "cut" THEN 0 ELSE Similarity[q, e[1]]

(* The score of the i-th item: its embedding's similarity to the query's,  *)
(* or its relevance with a bonus for containing the query.                 *)
Score(q, i) == IF embeds THEN SimilarityTo(q, embeddings[i])
                         ELSE Appeal[q, items[i].id]

(* Faulty: the comparison the wrong way round.                             *)
RankingsRising(q, k) ==
  LET n == IF Len(items) > k THEN k ELSE Len(items)
  IN  {r \in [1..n -> 1..Len(items)] :
         /\ IsInjective(r)
         /\ \A i \in 1..n, j \in 1..Len(items) :
              j \notin {r[h] : h \in 1..i} => Score(q, r[i]) <= Score(q, j)}

(* The first k indices by falling score; the sort is not stable, so equal  *)
(* scores come in any order.                                               *)
Rankings(q, k) ==
  LET n == IF Len(items) > k THEN k ELSE Len(items)
  IN  {r \in [1..n -> 1..Len(items)] :
         /\ IsInjective(r)
         /\ \A i \in 1..n, j \in 1..Len(items) :
              j \notin {r[h] : h \in 1..i} => Score(q, r[i]) >= Score(q, j)}

RetrieveLong(q, k) ==
  /\ kind = "long"
  /\ embeds => Len(embeddings) >= Len(items)
  /\ \E r \in Rankings(q, k) :
       last' = [op |-> "retrieve", query |-> q, most |-> k,
                 items |-> [i \in DOMAIN r |-> items[r[i]]]]
  /\ UNCHANGED <<kind, window, embeds, items, embeddings, saved, threw>>

-----------------------------------------------------------------------------
(* serialize and deserialize *)

SaveShort ==
  /\ kind = "short"
  /\ saved' = items
  /\ last' = NoCall
  /\ UNCHANGED <<kind, window, embeds, items, embeddings, threw>>

SaveLong ==
  /\ kind = "long"
  /\ saved' = items
  /\ last' = NoCall
  /\ UNCHANGED <<kind, window, embeds, items, embeddings, threw>>

Skipped == [id |-> Nothing, content |-> "cut", meta |-> "garbled"]
Cut(x) == [x EXCEPT !.content = "cut", !.meta = "garbled"]
Garble(x) == [x EXCEPT !.meta = "garbled"]

(* The length written is that before escaping, and so many characters of   *)
(* the escaped text are read: what is left of an escaped content stands    *)
(* where a number is expected.  That skips the line, or, if it starts with *)
(* digits, reads wrong numbers from there on.                              *)
RereadContent(x, metaReadings) ==
  CASE x.content = "plain" -> metaReadings
    [] x.content = "special" -> {Skipped, Cut(x)}
    [] x.content = "cut" -> {Skipped, x}

(* ShortTermMemory reads one entry; the separator after its value is not   *)
(* skipped, so a second one reads as an empty number.                      *)
ShortMeta(x) ==
  CASE x.meta = "none" -> {x}
    [] x.meta = "one" -> {x}
    [] x.meta = "oneValue" -> {Garble(x)}
    [] x.meta = "oneKey" -> {Skipped, Garble(x)}
    [] x.meta = "many" -> {Skipped}
    [] x.meta \in {"manyOdd", "garbled"} -> {Skipped, Garble(x)}

(* LongTermMemory does not skip the separator after the key either.        *)
LongMeta(x) ==
  CASE x.meta = "none" -> {x}
    [] x.meta \in {"one", "oneValue", "many"} -> {Skipped}
    [] x.meta \in {"oneKey", "manyOdd", "garbled"} -> {Skipped, Garble(x)}

Reread(x) ==
  RereadContent(x, IF kind = "short" THEN ShortMeta(x) ELSE LongMeta(x))

(* The ways to leave out some of n things.                                 *)
Selections(n) ==
  {s \in UNION {[1..m -> 1..n] : m \in 0..n} :
     \A i, j \in DOMAIN s : i < j => s[i] < s[j]}

(* What is read from the lines, each on its own: s says which of them are  *)
(* kept, the others must be such as can be skipped.                        *)
Keeps(lines, s, kept) ==
  /\ \A i \in DOMAIN lines \ Range(s) : Skipped \in Reread(lines[i])
  /\ \A i \in DOMAIN s : kept[i] \in Reread(lines[s[i]]) \ {Skipped}

Readings(lines) ==
  LET Readable == UNION {Reread(lines[i]) : i \in DOMAIN lines}
  IN  UNION {{kept \in [DOMAIN s -> Readable] : Keeps(lines, s, kept)} :
               s \in Selections(Len(lines))}

(* Faulty: what was there stays in front of what is read.                  *)
LoadShortAppends(lines) ==
  /\ kind = "short"
  /\ \E kept \in Readings(lines) : items' = items \o kept
  /\ last' = [op |-> "load", lines |-> lines]
  /\ threw' = FALSE
  /\ UNCHANGED <<kind, window, embeds, embeddings, saved>>

(* max_items_ stays as configured and is not looked at.                    *)
LoadShort(lines) ==
  /\ kind = "short"
  /\ items' \in Readings(lines)
  /\ last' = [op |-> "load", lines |-> lines]
  /\ threw' = FALSE
  /\ UNCHANGED <<kind, window, embeds, embeddings, saved>>

(* Faulty: a line that cannot be read is stored as far as it was read.     *)
LoadLongStoresSkipped(lines) ==
  /\ kind = "long"
  /\ items' = [i \in DOMAIN lines |-> CHOOSE x \in Reread(lines[i]) : TRUE]
  /\ embeddings' = [i \in DOMAIN items' |-> Embed(items'[i])]
  /\ last' = [op |-> "load", lines |-> lines]
  /\ threw' = FALSE
  /\ UNCHANGED <<kind, window, embeds, saved>>

(* embed_fn_ may throw for any kept item, which its catch-all hides: the   *)
(* item stays, its embedding is missing.                                   *)
LoadLong(lines) ==
  /\ kind = "long"
  /\ items' \in Readings(lines)
  /\ \/ /\ threw' = FALSE
        /\ embeddings' = [i \in DOMAIN items' |-> Embed(items'[i])]
     \/ /\ embeds /\ threw' = TRUE
        /\ \E s \in Selections(Len(items')) :
             /\ Len(s) < Len(items')
             /\ embeddings' = [i \in DOMAIN s |-> Embed(items'[s[i]])]
  /\ last' = [op |-> "load", lines |-> lines]
  /\ UNCHANGED <<kind, window, embeds, saved>>

(* An empty text, or one whose first line is no header, holds no line.     *)
Load(lines) == LoadShort(lines) \/ LoadLong(lines)

-----------------------------------------------------------------------------
Next ==
  \/ Restart
  \/ \E x \in Items : AddShort(x) \/ AddLong(x) \/ AddLongThrows(x)
  \/ Undefined
  \/ Clear
  \/ \E k \in Windows : RetrieveShort(k) \/ \E q \in Queries : RetrieveLong(q, k)
  \/ SaveShort
  \/ SaveLong
  \/ saved # Nothing /\ Load(saved)
  \/ Load(<<>>)

Spec == Init /\ [][Next]_vars

-----------------------------------------------------------------------------
AnyItem == [id : Ids, content : Contents, meta : Metas]

(* Every variable has its type, and a short-term memory has no embeddings. *)
TypeOK ==
  /\ kind \in {"short", "long", "broken"}
  /\ window \in Windows
  /\ embeds \in BOOLEAN
  /\ items \in Seq(AnyItem)
  /\ embeddings \in Seq((Ids \X Contents) \cup {NoEmbedding})
  /\ saved \in Seq(AnyItem) \cup {Nothing}
  /\ last.op \in {"none", "add", "load", "retrieve"}
  /\ threw \in BOOLEAN
  /\ embeds => kind = "long"
  /\ kind = "short" => embeddings = <<>>

(* embeddings_[i] belongs to items_[i], after any number of adds, slides   *)
(* of the window, clears and loads: retrieve indexes one by the other.     *)
(* Only embed_fn_ throwing breaks this, until the items are next emptied;  *)
(* then embeddings are missing, never left over.                           *)
Aligned ==
  kind = "long" =>
    /\ Len(embeddings) <= Len(items)
    /\ ~threw =>
         /\ Len(embeddings) = Len(items)
         /\ \A i \in DOMAIN items : embeddings[i] = Embed(items[i])

(* What a retrieve of the long term should go by: each item's own content. *)
Own(q, x) == SimilarityTo(q, Embed(x))

(* "Long-term memory: vector retrieval with embedding-based similarity":   *)
(* what it returns is ordered by the similarity of each item's own         *)
(* content, and no item it leaves out has a higher one.  ShortTermMemory   *)
(* returns the latest items, the latest first: read backwards they end the *)
(* sequence of items.  Both return fewer than asked only if there are none *)
(* left.                                                                   *)
FoundIsBest ==
  last.op = "retrieve" =>
    LET got == last.items
        q == last.query
    IN  /\ Len(got) <= last.most
        /\ Len(got) < last.most => Len(got) = Len(items)
        /\ kind = "short" => IsSuffix(Reverse(got), items)
        /\ kind = "long" /\ embeds /\ ~threw =>
             /\ \A i, j \in DOMAIN got : i < j => Own(q, got[i]) >= Own(q, got[j])
             /\ \A x \in ToSet(items) \ ToSet(got), i \in DOMAIN got :
                  Own(q, got[i]) >= Own(q, x)

(* An add leaves no more than max_items_ items, and the one added last if  *)
(* there is room for any, even if a load has put in more than that.        *)
AddRestoresWindow ==
  last.op = "add" =>
    /\ Len(items) <= window
    /\ window > 0 => Last(items) = last.item

Simple(x) == x.content = "plain" /\ x.meta = "none"

SimpleIn(s) == {i \in DOMAIN s : Simple(s[i])}

(* "Deserialize memory from string (replaces current contents)": the lines *)
(* of items without escapes and metadata come back, all of them and in     *)
(* order, whatever the others are read as and whatever was there before.   *)
SimpleItemsComeBack ==
  last.op = "load" =>
    \E from \in Bijection(SimpleIn(items), SimpleIn(last.lines)) :
      /\ \A i \in SimpleIn(items) : items[i] = last.lines[from[i]]
      /\ \A i, j \in SimpleIn(items) : i < j => from[i] < from[j]

(* "Serialize memory to string", "Deserialize memory from string": an item *)
(* whose content needs no escaping comes back with its metadata when none  *)
(* of that needs escaping either.                                          *)
MetadataComesBack ==
  last.op = "load" =>
    \A x \in ToSet(last.lines) :
      x.content = "plain" /\ x.meta \in {"one", "many"} => x \in ToSet(items)
=============================================================================
