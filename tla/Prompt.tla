------------------------------- MODULE Prompt -------------------------------
(***************************************************************************)
(* boostchain::PromptTemplate (src/prompt.cpp): replacing {{name}} in a    *)
(* template.                                                               *)
(*                                                                         *)
(* A text is a sequence of tokens: the two markers, white space, and       *)
(* whatever else its user writes.  Variables are a function from names to  *)
(* texts; a name is a single token, or the empty string, which is none.  A *)
(* marker is found from left to right only, so a third brace beside one is *)
(* an ordinary token.                                                      *)
(***************************************************************************)
EXTENDS Naturals, SequencesExt

(* std::string::find: the first place at or after from, 0 for npos.        *)
Find(s, token, from) ==
  LET places == {i \in from .. Len(s) : s[i] = token}
  IN  IF places = {} THEN 0 ELSE CHOOSE i \in places : \A j \in places : i <= j

White == {" ", "\t", "\n", "\r"}

Trim(s) ==
  LET black == {i \in DOMAIN s : s[i] \notin White}
  IN  IF black = {} THEN <<>>
      ELSE SubSeq(s, CHOOSE i \in black : \A j \in black : i <= j,
                     CHOOSE i \in black : \A j \in black : i >= j)

(* Faulty: the closing marker is looked for from the same place.          *)
HoleFromEither(template, from) ==
  LET open == Find(template, "{{", from)
  IN  [open |-> open,
       close |-> IF open = 0 THEN 0 ELSE Find(template, "}}", from)]

(* The next {{...}} at or after from: where it opens and closes, 0 if not. *)
HoleFrom(template, from) ==
  LET open == Find(template, "{{", from)
  IN  [open |-> open,
       close |-> IF open = 0 THEN 0 ELSE Find(template, "}}", open)]

NameIn(template, hole) ==
  Trim(SubSeq(template, hole.open + 1, hole.close - 1))

(* The first pass of render: the names it asks for, the empty one aside.   *)
Required(template) ==
  LET names[from \in 1 .. Len(template) + 1] ==
        LET hole == HoleFrom(template, from)
        IN  IF hole.close = 0 THEN {}
            ELSE {NameIn(template, hole)} \cup names[hole.close + 1]
  IN  names[1] \ {<<>>}

(* A name as it stands in a text.                                          *)
EmptyName == ""
NameText(v) == IF v = EmptyName THEN <<>> ELSE <<v>>

Bound(variables, name) == \E v \in DOMAIN variables : name = NameText(v)

Missing(template, variables) ==
  {name \in Required(template) : ~Bound(variables, name)}

Replacement(variables, name) ==
  IF Bound(variables, name)
  THEN variables[CHOOSE v \in DOMAIN variables : name = NameText(v)]
  ELSE <<>>

(* The second pass, when nothing is missing: it looks up the empty name    *)
(* too; a marker without its other half stays as it is, and what replaces  *)
(* a name is not searched again.                                           *)
Render(template, variables) ==
  LET text[from \in 1 .. Len(template) + 1] ==
        LET hole == HoleFrom(template, from)
        IN  IF hole.close = 0 THEN SubSeq(template, from, Len(template))
            ELSE SubSeq(template, from, hole.open - 1)
                 \o Replacement(variables, NameIn(template, hole))
                 \o text[hole.close + 1]
  IN  text[1]
=============================================================================
