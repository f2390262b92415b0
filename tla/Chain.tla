-------------------------------- MODULE Chain --------------------------------
(***************************************************************************)
(* boostchain::Chain (src/chain.cpp): a list of prompt and LLM nodes, run  *)
(* one after the other over accumulated variables, and its text form.      *)
(*                                                                         *)
(* A run takes one step per node; the step of an LLM node is everything    *)
(* from get_model to the answer or the exception.  Texts and templates are *)
(* those of module Prompt, with brackets as tokens of their own; a         *)
(* provider's get_model gives the same name throughout.                    *)
(***************************************************************************)
EXTENDS Prompt

CONSTANTS
  Templates,   \* arguments of add_prompt
  Models,      \* names of the providers' models
  Inputs,      \* arguments of run: functions from names to texts
  NameOrder,   \* the names in the order of std::map
  Replies,     \* Replies[i]: a text only node i may answer
  MaxNodes,    \* bound: nodes of a chain
  MaxLoads     \* bound: calls of deserialize

Names == ToSet(NameOrder)

Colon == ": "
Newline == "\n"
PromptBegin == "prompt node"   \* {"type":"prompt","template":"
LLMBegin == "llm node"         \* {"type":"llm","model":"
NodeEnd == "node end"          \* "}
NullText == "null node"        \* {"type":"llm"}
ArrayEnd == "]"
Quote == "quote"
Backslash == "backslash"
Escaped == "escaped quote"     \* a quote in a template, as it is written
Markers == {PromptBegin, LLMBegin, NodeEnd, NullText}
Unescaped == {Quote, Backslash}

TokensOf(texts) == UNION {ToSet(t) : t \in texts}
InputTexts == UNION {{i[n] : n \in DOMAIN i} : i \in Inputs}
Tokens == TokensOf(Templates) \cup TokensOf(Models) \cup TokensOf(ToSet(Replies))
            \cup TokensOf(InputTexts) \cup (Names \ {EmptyName}) \cup {Colon, Newline, "}"}
Texts == Seq(Tokens)
IsVariables(vs) == DOMAIN vs \subseteq Names /\ vs \in [DOMAIN vs -> Texts]

ASSUME ChainAssumption ==
  /\ Templates \subseteq Texts /\ Models \subseteq Texts
  /\ \A t \in Templates : ToSet(t) \cap (Markers \cup Unescaped) = {}
  /\ \A m \in Models : ToSet(m) \cap (Markers \cup {Escaped}) = {}
  /\ \A i \in Inputs : IsVariables(i)
  /\ NameOrder \in Seq(Names) /\ "last_output" \in Names
  /\ EmptyName \notin Tokens
  /\ Replies \in Seq(Texts)
  /\ MaxNodes \in Nat /\ MaxNodes <= Len(Replies)
  /\ MaxLoads \in Nat

VARIABLES
  nodes,        \* nodes_
  place,        \* the node run is at; 0 outside run
  accumulated,  \* the local `accumulated' of run
  result,       \* the local `result', then what run returned
  input,        \* history: the argument of the last run of these nodes,
  outputs,      \*   the outputs of its nodes so far,
  asked,        \*   and what its LLM nodes sent: [node, text]
  loads,        \* how often deserialize was called,
  loaded        \* and how it ended the last time

run == <<place, accumulated, result, input, outputs, asked>>
vars == <<nodes, run, loads, loaded>>

Nothing == [v \in {} |-> <<>>]
Fresh == [success |-> TRUE, output |-> <<>>, variables |-> Nothing]

PromptNode(t) == [type |-> "prompt", text |-> t]
LLMNode(m) == [type |-> "llm", text |-> m]
NullNode == [type |-> "null", text |-> <<>>]     \* add_llm(nullptr)

Init ==
  /\ nodes = <<>>
  /\ place = 0
  /\ accumulated = Nothing /\ result = Fresh
  /\ input = Nothing /\ outputs = <<>> /\ asked = <<>>
  /\ loads = 0
  /\ loaded = [ok |-> TRUE, whole |-> TRUE]

(* Other nodes from here on: the last run was not theirs.                  *)
Replace(newNodes) ==
  /\ place = 0
  /\ nodes' = newNodes
  /\ accumulated' = Nothing /\ result' = Fresh
  /\ input' = Nothing /\ outputs' = <<>> /\ asked' = <<>>
  /\ UNCHANGED place

Add(node) ==
  /\ Len(nodes) < MaxNodes
  /\ Replace(Append(nodes, node))
  /\ UNCHANGED <<loads, loaded>>

AddPrompt(t) == Add(PromptNode(t))

AddLLM == (\E m \in Models : Add(LLMNode(m))) \/ Add(NullNode)

-----------------------------------------------------------------------------
(* run *)

Start(variables) ==
  /\ place = 0
  /\ place' = 1
  /\ input' = variables
  /\ accumulated' = variables
  /\ result' = Fresh
  /\ outputs' = <<>> /\ asked' = <<>>
  /\ UNCHANGED <<nodes, loads, loaded>>

At(type) == place \in DOMAIN nodes /\ nodes[place].type = type

(* A node has succeeded: its variables join the accumulated ones, here     *)
(* variables itself because a node passes on all it was given.             *)
Succeed(output, variables) ==
  /\ result' = [success |-> TRUE, output |-> output, variables |-> variables]
  /\ accumulated' = variables
  /\ outputs' = Append(outputs, output)
  /\ place' = place + 1
  /\ UNCHANGED <<nodes, input, loads, loaded>>

(* Faulty: the failure is noted and the next node executed.                *)
FailGoesOn ==
  /\ result' = [success |-> FALSE, output |-> <<>>, variables |-> accumulated]
  /\ place' = place + 1
  /\ UNCHANGED <<nodes, accumulated, input, outputs, loads, loaded>>

(* A node has failed: run returns the node's own result.                   *)
Fail ==
  /\ result' = [success |-> FALSE, output |-> <<>>, variables |-> accumulated]
  /\ place' = 0
  /\ UNCHANGED <<nodes, accumulated, input, outputs, loads, loaded>>

(* render throws ConfigError if a name is missing: then the template is    *)
(* the output as it is.                                                    *)
PromptOutput(template, variables) ==
  IF Missing(template, variables) = {} THEN Render(template, variables)
                                       ELSE template

PromptStep ==
  /\ At("prompt")
  /\ Succeed(PromptOutput(nodes[place].text, accumulated), accumulated)
  /\ UNCHANGED asked

(* What an LLM node sends: last_output, or all variables line by line; no  *)
(* message at all if that is empty.                                        *)
Question(variables) ==
  IF "last_output" \in DOMAIN variables THEN variables["last_output"]
  ELSE FlattenSeq([i \in DOMAIN NameOrder |->
         IF NameOrder[i] \notin DOMAIN variables THEN <<>>
         ELSE (IF \E j \in 1 .. i - 1 : NameOrder[j] \in DOMAIN variables
               THEN <<Newline>> ELSE <<>>)
              \o NameText(NameOrder[i]) \o <<Colon>> \o variables[NameOrder[i]]])

Ask == asked' = Append(asked, [node |-> place, text |-> Question(accumulated)])

Assign(variables, name, text) ==
  [n \in DOMAIN variables \cup {name} |->
     IF n = name THEN text ELSE variables[n]]

(* Faulty: map::insert, which leaves a value that is there.                *)
LLMAnswersInserting(output) ==
  /\ At("llm")
  /\ Succeed(output, IF "last_output" \in DOMAIN accumulated THEN accumulated
                     ELSE Assign(accumulated, "last_output", output))
  /\ Ask

(* The content of the last message of the response; empty if it has none.  *)
LLMAnswers(output) ==
  /\ At("llm")
  /\ Succeed(output, Assign(accumulated, "last_output", output))
  /\ Ask

LLMThrows ==
  /\ At("llm")
  /\ Fail
  /\ Ask

(* An LLM node without a provider.                                         *)
NoProvider ==
  /\ At("null")
  /\ Fail
  /\ UNCHANGED asked

(* Past the last node; result.output is that node's output already.        *)
Finish ==
  /\ place = Len(nodes) + 1
  /\ place' = 0
  /\ result' = [result EXCEPT !.variables = accumulated]
  /\ UNCHANGED <<nodes, accumulated, input, outputs, asked, loads, loaded>>

-----------------------------------------------------------------------------
(* serialize and deserialize *)

(* What a node writes: a template with its quotes escaped, a model's name  *)
(* as it is.                                                               *)
NodeText(node) ==
  CASE node.type = "prompt" -> <<PromptBegin>> \o node.text \o <<NodeEnd>>
    [] node.type = "llm"    -> <<LLMBegin>> \o node.text \o <<NodeEnd>>
    [] OTHER                -> <<NullText>>

(* The text between "nodes":[ and the end of the document, but for commas. *)
Serialized(list) ==
  FlattenSeq([i \in DOMAIN list |-> NodeText(list[i])]) \o <<ArrayEnd>>

(* Faulty: opening brackets are not counted.                               *)
DepthClosingOnly(text, n) ==
  1 - Cardinality({i \in 1 .. n : text[i] = ArrayEnd})

(* The depth after n tokens.  Every bracket counts, also inside templates. *)
Depth(text, n) ==
  1 + Cardinality({i \in 1 .. n : text[i] = "["})
    - Cardinality({i \in 1 .. n : text[i] = ArrayEnd})

ArrayEnds(text) == {n \in DOMAIN text : Depth(text, n) = 0}

(* The array is read from left to right.  depth counts the braces that are *)
(* open, string tells whether a quote is (or a character in it is passed   *)
(* over), type is the first type in the node, text its first template and  *)
(* reading whether that goes on.  Between two nodes all but a brace is     *)
(* passed over.                                                            *)
Between(read) ==
  [depth |-> 0, string |-> "out", type |-> "none",
   reading |-> FALSE, text |-> <<>>, read |-> read]

Opening(token) ==
  CASE token = "{{" -> 2
    [] token \in {"{", PromptBegin, LLMBegin} -> 1
    [] OTHER -> 0

Closing(token) ==
  CASE token = "}}" -> 2
    [] token \in {"}", NodeEnd} -> 1
    [] OTHER -> 0

StringAfter(string, token) ==
  CASE string = "escape" -> "in"
    [] token \in {PromptBegin, LLMBegin, NodeEnd, Quote} /\ string # "escape"
         -> IF string = "in" THEN "out" ELSE "in"
    [] token = Backslash /\ string = "in" -> "escape"
    [] token = Escaped /\ string = "out" -> "in"
    [] OTHER -> string

TypeIn(token) ==
  CASE token = PromptBegin -> "prompt"
    [] token \in {LLMBegin, NullText} -> "llm"
    [] OTHER -> "none"

(* The nodes read once the node ends here: LLM nodes are passed over.      *)
ReadAt(s) ==
  IF s.type = "prompt" THEN Append(s.read, PromptNode(s.text)) ELSE s.read

Scan(s, token) ==
  LET bare == s.string = IF token = NodeEnd THEN "in" ELSE "out"
      going == s.reading /\ token # NodeEnd
      read(part) == IF going THEN Append(s.text, part) ELSE s.text
  IN  IF s.depth = 0 /\ Opening(token) = 0 THEN s
      ELSE IF bare /\ s.depth \in 1 .. Closing(token)
      THEN Between(ReadAt([s EXCEPT !.text =
                             read(IF s.depth < Closing(token) THEN "}" ELSE token)]))
      ELSE [depth   |-> IF bare THEN s.depth + Opening(token) - Closing(token)
                                ELSE s.depth,
            string  |-> StringAfter(s.string, token),
            type    |-> IF s.type = "none" THEN TypeIn(token) ELSE s.type,
            reading |-> going \/ (s.type = "none" /\ token = PromptBegin),
            text    |-> read(token),
            read    |-> s.read]

Scanned(start, text) ==
  LET after[n \in 0 .. Len(text)] ==
        IF n = 0 THEN start ELSE Scan(after[n - 1], text[n])
  IN  after[Len(text)]

(* A node the array cuts off is read as far as it goes.                    *)
Parsed(body) == ReadAt(Scanned(Between(<<>>), body))

(* The array ends at the first bracket that brings the depth to 0.         *)
Deserialized(text) ==
  LET end == CHOOSE n \in ArrayEnds(text) : \A m \in ArrayEnds(text) : n <= m
  IN  Parsed(SubSeq(text, 1, end - 1))

(* Deserializing the first n tokens of this chain's text, into a chain     *)
(* that takes its place; without an end of the array, SerializationError.  *)
Reload(n) ==
  LET text == SubSeq(Serialized(nodes), 1, n)
  IN  /\ loads < MaxLoads
      /\ loads' = loads + 1
      /\ loaded' = [ok |-> ArrayEnds(text) # {},
                    whole |-> n = Len(Serialized(nodes))]
      /\ Replace(IF ArrayEnds(text) = {} THEN nodes ELSE Deserialized(text))

-----------------------------------------------------------------------------
NodeStep(output) == PromptStep \/ LLMAnswers(output) \/ LLMThrows \/ NoProvider

Next ==
  \/ \E t \in Templates : AddPrompt(t)
  \/ AddLLM
  \/ \E variables \in Inputs : Start(variables)
  \/ place \in DOMAIN nodes /\ \E output \in {<<>>, Replies[place]} : NodeStep(output)
  \/ Finish
  \/ \E n \in 0 .. Len(Serialized(nodes)) : Reload(n)

Spec == Init /\ [][Next]_vars

-----------------------------------------------------------------------------
(* Properties.                                                             *)
(* The type invariant; run is at one node at most, every node before it    *)
(* has an output.                                                          *)
TypeOK ==
  /\ nodes \in Seq([type : {"prompt", "llm", "null"}, text : Texts])
  /\ Len(nodes) <= MaxNodes
  /\ place \in 0 .. Len(nodes) + 1
  /\ \A vs \in {accumulated, input, result.variables} : IsVariables(vs)
  /\ result.success \in BOOLEAN /\ result.output \in Texts
  /\ outputs \in Seq(Texts)
  /\ place # 0 => Len(outputs) = place - 1
  /\ \A k \in DOMAIN asked : asked[k].node \in DOMAIN nodes /\ asked[k].text \in Texts
  /\ loads \in 0 .. MaxLoads
  /\ loaded \in [ok : BOOLEAN, whole : BOOLEAN]

(* Each LLM node is asked the answer of the LLM node before it, whatever   *)
(* prompt nodes lie between, an empty answer included; the first one the   *)
(* last_output its caller gave, or else every input with its name.         *)
AskedWithLatestAnswer ==
  \A k \in DOMAIN asked :
    IF k > 1 THEN asked[k].text = outputs[asked[k - 1].node]
    ELSE IF "last_output" \in DOMAIN input
         THEN asked[k].text = input["last_output"]
         ELSE \A n \in DOMAIN input :
                NameText(n) \o <<Colon>> \o input[n] \in SubSeqs(asked[k].text)

(* chain.hpp:21: "Nodes are executed in order, with each receiving the     *)
(* output of the previous."                                                *)
ReceivesPreviousOutput ==
  \A k \in DOMAIN asked :
    asked[k].node > 1 => asked[k].text = outputs[asked[k].node - 1]

Ended == place = 0 /\ (outputs # <<>> \/ ~result.success)
Providers == {i \in DOMAIN nodes : nodes[i].type = "llm"}
Answered == Providers \cap DOMAIN outputs

(* When run has returned: success means every node was executed, a failure *)
(* that one with an LLM was not and none after it; no provider was asked   *)
(* twice, out of order or after the failure.  The caller's variables come  *)
(* back as they went in, last_output as the last answer.                   *)
ResultTellsRun ==
  Ended =>
    /\ result.success <=> Len(outputs) = Len(nodes)
    /\ result.output = IF result.success THEN Last(outputs) ELSE <<>>
    /\ ~result.success => nodes[Len(outputs) + 1].type # "prompt"
    /\ \A k \in 2 .. Len(asked) : asked[k - 1].node < asked[k].node
    /\ {asked[k].node : k \in DOMAIN asked}
         = Providers \cap 1 .. Len(outputs) + (IF result.success THEN 0 ELSE 1)
    /\ \A n \in DOMAIN result.variables :
         IF n = "last_output" /\ Answered # {}
         THEN result.variables[n] = outputs[CHOOSE i \in Answered :
                                              \A j \in Answered : i >= j]
         ELSE result.variables[n] = input[n]
    /\ DOMAIN input \subseteq DOMAIN result.variables

(* A text in which no hole is left open.                                   *)
Closed(t) ==
  \A i \in DOMAIN t : t[i] = "{{" => \E j \in i + 1 .. Len(t) : t[j] = "}}"

(* What render promises, piece by piece: a text without holes stays as it  *)
(* is, a name becomes its value, the empty one too if it has one and       *)
(* nothing if not, and where no hole is open a template can be cut and its *)
(* parts rendered apart.                                                   *)
RendersByPieces(t, vs) ==
  LET n == Len(t)
      part(a, b) == PromptOutput(SubSeq(t, a, b), vs)
      hole(a, b) == a < b /\ t[a] = "{{" /\ t[b] = "}}"
                    /\ \A j \in a + 1 .. b - 1 : t[j] \notin {"{{", "}}"}
  IN  /\ \A a \in 1 .. n : "{{" \notin ToSet(SubSeq(t, a, n)) =>
                             part(a, n) = SubSeq(t, a, n)
      /\ \A a, b \in 1 .. n, name \in DOMAIN vs :
           hole(a, b) /\ Trim(SubSeq(t, a + 1, b - 1)) = NameText(name) =>
             part(a, b) = vs[name]
      /\ \A a, b \in 1 .. n :
           hole(a, b) /\ Trim(SubSeq(t, a + 1, b - 1)) = <<>> /\ EmptyName \notin DOMAIN vs =>
             part(a, b) = <<>>
      /\ \A c \in 1 .. n - 1 :
           Closed(SubSeq(t, 1, c)) /\ Missing(t, vs) = {} =>
             part(1, n) = part(1, c) \o part(c + 1, n)

(* Every template of a chain keeps it, whatever run is given, although one *)
(* pass of render asks for the names and another puts in their values.     *)
RenderedByPieces ==
  \A i \in DOMAIN nodes, vs \in Inputs :
    nodes[i].type = "prompt" => RendersByPieces(nodes[i].text, vs)

PromptsOf(list) ==
  FlattenSeq([i \in DOMAIN list |->
    IF list[i].type = "prompt" THEN <<list[i]>> ELSE <<>>])

Count(t, n, token) == Cardinality({i \in 1 .. n : t[i] = token})

Balanced(t) ==
  /\ Count(t, Len(t), "[") = Count(t, Len(t), "]")
  /\ \A n \in DOMAIN t : Count(t, n, "[") >= Count(t, n, "]")

(* Part of a text, from its start and perhaps to the middle of a marker.   *)
Begins(part, whole) ==
  IsPrefix(part, whole)
  \/ \E n \in DOMAIN whole :
       whole[n] = "}}" /\ part = SubSeq(whole, 1, n - 1) \o <<"}">>

Clean(node) == node.type = "llm" => ToSet(node.text) \cap Unescaped = {}

(* A text that is refused, as one without its end is if the brackets of    *)
(* all templates and model names match, costs nothing.  No prompt comes    *)
(* back but a saved one, or its beginning, and no more than there were.    *)
(* Up to the first model name with a quote or backslash, which is not      *)
(* escaped, they come back in order from the first on; only the last can   *)
(* be cut, and is cut at a bracket; and if brackets match, all come back   *)
(* whole.  If no name is like that and brackets match in each, what was    *)
(* loaded, cut or not, survives being saved and loaded again.              *)
PromptsKept ==
  LET before == PromptsOf(nodes)
      last == Len(nodes')
      balanced == \A i \in DOMAIN nodes : Balanced(nodes[i].text)
      level == \A i \in DOMAIN nodes : nodes[i].type = "llm" => Balanced(nodes[i].text)
      clean(n) == \A i \in 1 .. n : Clean(nodes[i])
      first(n) == PromptsOf(SubSeq(nodes, 1, n))
  IN  /\ ~loaded'.ok => nodes' = nodes
      /\ balanced => (loaded'.ok <=> loaded'.whole)
      /\ loaded'.ok =>
           /\ last <= Len(before)
           /\ \A i \in 1 .. last : \E j \in DOMAIN before :
                Begins(nodes'[i].text, before[j].text)
           /\ \A n \in 0 .. Len(nodes), i \in 1 .. last :
                clean(n) /\ i <= Len(first(n)) =>
                  \/ nodes'[i] = before[i]
                  \/ /\ i = last
                     /\ IsPrefix(nodes'[i].text \o <<ArrayEnd>>, before[i].text)
           /\ \A n \in 0 .. Len(nodes) :
                balanced /\ clean(n) => IsPrefix(first(n), nodes')
           /\ clean(Len(nodes)) /\ level =>
                /\ ArrayEnds(Serialized(nodes')) # {}
                /\ Deserialized(Serialized(nodes')) = nodes'

(* Every call of deserialize keeps that promise.                           *)
ReloadKeepsPrompts == [][loads' # loads => PromptsKept]_vars
=============================================================================
