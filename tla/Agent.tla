------------------------------- MODULE Agent -------------------------------
(***************************************************************************)
(* boostchain::Agent (src/agent.cpp, include/boostchain/agent.hpp): a      *)
(* conversation with an LLM, with or without tools, and its save_state and *)
(* load_state.                                                             *)
(*                                                                         *)
(* A call of run is a sequence of steps, one per answer of the LLM or of a *)
(* tool, so every way the outside world can answer is explored.  The other *)
(* operations are one step each, between runs: an Agent belongs to one     *)
(* thread.                                                                 *)
(*                                                                         *)
(* A message is [role, id, call].  id stands for its content: every        *)
(* message created gets a fresh one, so a message met twice is a copy.     *)
(* call is the id of the assistant message whose tool_call it carries (a   *)
(* tool's answer carries the call it answers), NoCall for no tool_call.    *)
(***************************************************************************)
EXTENDS Integers, Sequences, FiniteSets

CONSTANTS
  Prompts,              \* system prompts
  EmptyPrompt,          \* the empty one, the initial value
  DefaultIterations,    \* initial max_iterations_: 10 in the code
  Iterations,           \* arguments of set_max_iterations
  MaxReply,             \* bound: messages in one response of the LLM
  MaxRuns,              \* bound: calls of run
  MaxLoads,             \* bound: calls of load_state
  MaxMessages,          \* bound: messages created, never reached
  NoDocument

ASSUME AgentAssumption ==
  /\ EmptyPrompt \in Prompts
  /\ DefaultIterations \in Int
  /\ Iterations \subseteq Int
  /\ MaxReply \in Nat
  /\ MaxRuns \in Nat
  /\ MaxLoads \in Nat
  /\ MaxMessages \in Nat

VARIABLES
  hasTools,       \* ~tools_.empty(), fixed by the constructor
  prompt,         \* system_prompt_
  maxIterations,  \* max_iterations_
  history,        \* conversation_history_
  pc,             \* where run is
  messages,       \* the local `messages' of run
  todo,           \* calls of the last response still to be executed
  steps,          \* the local `steps'
  result,         \* the local `result', then what run returned
  saved,          \* the last text save_state returned
  loaded,         \* what the last load_state returned
  runs, loads,    \* how often run and load_state were called
  fresh           \* the id of the newest message

vars == <<hasTools, prompt, maxIterations, history, pc, messages, todo, steps,
          result, saved, loaded, runs, loads, fresh>>

NoCall == 0
Garbled == 0     \* the id of content cut short

(* result before any assignment: AgentResult has no initializers.          *)
Unset == [completed |-> FALSE, steps |-> -1, answer |-> -1]
ErrorText == 0

Completed(n, id) == [completed |-> TRUE, steps |-> n, answer |-> id]
Failed(n) == [completed |-> FALSE, steps |-> n, answer |-> ErrorText]

Msg(role, id, call) == [role |-> role, id |-> id, call |-> call]

Init ==
  /\ hasTools \in BOOLEAN
  /\ prompt = EmptyPrompt
  /\ maxIterations = DefaultIterations
  /\ history = <<>>
  /\ pc = "idle"
  /\ messages = <<>>
  /\ todo = {}
  /\ steps = 0
  /\ result = Unset
  /\ saved = NoDocument
  /\ loaded = "never"
  /\ runs = 0 /\ loads = 0
  /\ fresh = 0

-----------------------------------------------------------------------------
(* Between runs.                                                           *)
settings == <<hasTools, prompt, maxIterations>>
running == <<pc, messages, todo, steps, result, runs, fresh>>
storage == <<saved, loaded, loads>>

SetSystemPrompt(p) ==
  /\ pc = "idle"
  /\ prompt' = p
  /\ UNCHANGED <<hasTools, maxIterations, history, running, storage>>

SetMaxIterations(n) ==
  /\ pc = "idle"
  /\ maxIterations' = n
  /\ UNCHANGED <<hasTools, prompt, history, running, storage>>

Reset ==
  /\ pc = "idle"
  /\ history' = <<>>
  /\ UNCHANGED <<settings, running, storage>>

-----------------------------------------------------------------------------
(* run: agent.cpp:74-215.                                                  *)
SystemPart == IF prompt = EmptyPrompt THEN <<>> ELSE <<Msg("system", 0, NoCall)>>

(* build_messages.                                                         *)
Start ==
  /\ pc = "idle"
  /\ runs < MaxRuns
  /\ fresh < MaxMessages
  /\ runs' = runs + 1
  /\ fresh' = fresh + 1
  /\ messages' = SystemPart \o history \o <<Msg("user", fresh + 1, NoCall)>>
  /\ pc' = IF hasTools THEN "loop" ELSE "plain"
  /\ steps' = 0
  /\ result' = Unset
  /\ UNCHANGED <<settings, history, todo, storage>>

(* What the LLM may send: MaxReply messages at most, each with or without  *)
(* a tool_call.                                                            *)
Replies == UNION {[1 .. n -> BOOLEAN] : n \in 1 .. MaxReply}

ReplyMessages(reply) ==
  [i \in DOMAIN reply |->
     Msg("assistant", fresh + i, IF reply[i] THEN fresh + i ELSE NoCall)]

CallsOf(reply) == {fresh + i : i \in {j \in DOMAIN reply : reply[j]}}

Return(r) ==
  /\ pc' = "idle"
  /\ messages' = <<>>
  /\ todo' = {}
  /\ result' = r

(* Without tools: only the last message of the response is kept.           *)
PlainReply(reply) ==
  /\ pc = "plain"
  /\ fresh + Len(reply) <= MaxMessages
  /\ history' = history \o <<messages[Len(messages)],
                             ReplyMessages(reply)[Len(reply)]>>
  /\ fresh' = fresh + Len(reply)
  /\ Return(Completed(1, fresh + Len(reply)))
  /\ UNCHANGED <<settings, steps, storage, runs>>

(* An empty response or an exception: nothing is kept.                     *)
PlainFailure ==
  /\ pc = "plain"
  /\ Return(Failed(0))
  /\ UNCHANGED <<settings, history, steps, storage, runs, fresh>>

(* Faulty: the system prompt is forgotten in the index.                    *)
UserMsgIndexOffByOne == IF prompt = EmptyPrompt THEN 0 ELSE Len(history)

(* agent.cpp:204-212, with the conditional expression as C++ reads it:     *)
(* (system_prompt_.empty()) ? 0 : (1 + history_size).                      *)
UserMsgIndex == IF prompt = EmptyPrompt THEN 0 ELSE 1 + Len(history)

Remember(msgs) ==
  history' = history \o SubSeq(msgs, UserMsgIndex + 1, Len(msgs))

(* Faulty: the loop left with the equality in place of the comparison.     *)
AfterLoopOnEquality(n, r) == IF n = maxIterations THEN Failed(n) ELSE r

(* agent.cpp:191-196 replaces whatever the loop left in result.            *)
AfterLoop(n, r) == IF n >= maxIterations THEN Failed(n) ELSE r

(* Faulty: the loop is left only when the count meets the limit, which it  *)
(* never does when that is below zero.                                     *)
LeaveLoopOnEquality ==
  /\ pc = "loop"
  /\ steps = maxIterations
  /\ Remember(messages)
  /\ Return(AfterLoop(steps, result))
  /\ UNCHANGED <<settings, steps, storage, runs, fresh>>

(* The while condition fails.                                              *)
LeaveLoop ==
  /\ pc = "loop"
  /\ steps >= maxIterations
  /\ Remember(messages)
  /\ Return(AfterLoop(steps, result))
  /\ UNCHANGED <<settings, steps, storage, runs, fresh>>

(* A response without tool calls ends the loop.                            *)
FinalReply(reply) ==
  /\ pc = "loop"
  /\ steps < maxIterations
  /\ fresh + Len(reply) <= MaxMessages
  /\ CallsOf(reply) = {}
  /\ Remember(messages \o ReplyMessages(reply))
  /\ steps' = steps + 1
  /\ fresh' = fresh + Len(reply)
  /\ Return(AfterLoop(steps + 1, Completed(steps + 1, fresh + Len(reply))))
  /\ UNCHANGED <<settings, storage, runs>>

(* Faulty: only the last call of a response is executed.                   *)
CallingReplyLastOnly(reply) ==
  /\ pc = "loop"
  /\ steps < maxIterations
  /\ fresh + Len(reply) <= MaxMessages
  /\ CallsOf(reply) # {}
  /\ messages' = messages \o ReplyMessages(reply)
  /\ todo' = {c \in CallsOf(reply) : \A d \in CallsOf(reply) : d <= c}
  /\ pc' = "tools"
  /\ steps' = steps + 1
  /\ fresh' = fresh + Len(reply)
  /\ UNCHANGED <<settings, history, result, storage, runs>>

(* Faulty: the limit is tested before the tools are executed.              *)
CallingReplyAtLimit(reply) ==
  /\ pc = "loop"
  /\ steps < maxIterations
  /\ fresh + Len(reply) <= MaxMessages
  /\ CallsOf(reply) # {}
  /\ messages' = messages \o ReplyMessages(reply)
  /\ todo' = IF steps + 1 < maxIterations THEN CallsOf(reply) ELSE {}
  /\ pc' = IF todo' = {} THEN "loop" ELSE "tools"
  /\ steps' = steps + 1
  /\ fresh' = fresh + Len(reply)
  /\ UNCHANGED <<settings, history, result, storage, runs>>

(* A response with tool calls: they are executed next.                     *)
CallingReply(reply) ==
  /\ pc = "loop"
  /\ steps < maxIterations
  /\ fresh + Len(reply) <= MaxMessages
  /\ CallsOf(reply) # {}
  /\ messages' = messages \o ReplyMessages(reply)
  /\ todo' = CallsOf(reply)
  /\ pc' = "tools"
  /\ steps' = steps + 1
  /\ fresh' = fresh + Len(reply)
  /\ UNCHANGED <<settings, history, result, storage, runs>>

(* An empty response returns from inside the loop.                         *)
EmptyReply ==
  /\ pc = "loop"
  /\ steps < maxIterations
  /\ Return(Failed(steps))
  /\ UNCHANGED <<settings, history, steps, storage, runs, fresh>>

(* The LLM throws, or a tool does: the messages so far are kept.           *)
Throw ==
  /\ \/ pc = "loop" /\ steps < maxIterations
     \/ pc = "tools"
  /\ Remember(messages)
  /\ Return(Failed(steps))
  /\ UNCHANGED <<settings, steps, storage, runs, fresh>>

(* Faulty: back to the LLM after the first tool.                           *)
ExecuteToolOnce(call) ==
  /\ pc = "tools"
  /\ call \in todo
  /\ \A other \in todo : other <= call
  /\ fresh < MaxMessages
  /\ messages' = Append(messages, Msg("tool", fresh + 1, call))
  /\ todo' = todo \ {call}
  /\ pc' = "loop"
  /\ fresh' = fresh + 1
  /\ UNCHANGED <<settings, history, steps, result, storage, runs>>

(* execute_tool_call, from the last message of the response to the first:  *)
(* the tool's content, its error, or "Unknown tool" becomes a message.     *)
ExecuteTool(call) ==
  /\ pc = "tools"
  /\ call \in todo
  /\ \A other \in todo : other <= call
  /\ fresh < MaxMessages
  /\ messages' = Append(messages, Msg("tool", fresh + 1, call))
  /\ todo' = todo \ {call}
  /\ pc' = IF todo' = {} THEN "loop" ELSE "tools"
  /\ fresh' = fresh + 1
  /\ UNCHANGED <<settings, history, steps, result, storage, runs>>

-----------------------------------------------------------------------------
(* save_state and load_state: agent.cpp:248-280, 405-493.                  *)

(* role, content and name are written; tool_call is not.  Bound: a text    *)
(* that can no longer be loaded is not kept, here and in Loading.          *)
SaveState ==
  /\ pc = "idle"
  /\ loads < MaxLoads
  /\ saved' = [prompt |-> prompt,
               entries |-> [i \in DOMAIN history |->
                              [history[i] EXCEPT !.call = NoCall]]]
  /\ UNCHANGED <<settings, history, running, loaded, loads>>

Loading ==
  /\ pc = "idle"
  /\ loads < MaxLoads
  /\ loads' = loads + 1
  /\ saved' = IF loads' < MaxLoads THEN saved ELSE NoDocument
  /\ UNCHANGED <<hasTools, maxIterations, running>>

(* Text without a leading '{'.                                             *)
LoadNonsense ==
  /\ Loading
  /\ loaded' = "false"
  /\ UNCHANGED <<prompt, history>>

(* Text that ends before the '[': the prompt found so far is already       *)
(* assigned when false is returned.  A cut prompt is empty or whole here;  *)
(* no property tells the prefixes between apart.                           *)
LoadWithoutHistory ==
  /\ saved # NoDocument
  /\ Loading
  /\ prompt' \in {EmptyPrompt, saved.prompt}
  /\ loaded' = "false"
  /\ UNCHANGED history

(* Text that holds the first k entries, the whole text when k is all of    *)
(* them.                                                                   *)
LoadEntries(k) ==
  /\ saved # NoDocument
  /\ Loading
  /\ k <= Len(saved.entries)
  /\ prompt' = saved.prompt
  /\ history' = SubSeq(saved.entries, 1, k)
  /\ loaded' = "true"

(* Text that ends inside entry k + 1: its content is cut, and its role     *)
(* becomes `user' if that is cut too.                                      *)
LoadTorn(k) ==
  /\ saved # NoDocument
  /\ Loading
  /\ k < Len(saved.entries)
  /\ prompt' = saved.prompt
  /\ \E role \in {"user", saved.entries[k + 1].role} :
       history' = Append(SubSeq(saved.entries, 1, k), Msg(role, Garbled, NoCall))
  /\ loaded' = "true"

-----------------------------------------------------------------------------
RunStep ==
  \/ \E reply \in Replies :
       PlainReply(reply) \/ FinalReply(reply) \/ CallingReply(reply)
  \/ PlainFailure \/ EmptyReply \/ Throw \/ LeaveLoop
  \/ \E call \in todo : ExecuteTool(call)

Next ==
  \/ \E p \in Prompts : SetSystemPrompt(p)
  \/ \E n \in Iterations : SetMaxIterations(n)
  \/ Reset \/ Start \/ RunStep
  \/ SaveState \/ LoadNonsense \/ LoadWithoutHistory
  \/ \E k \in 0 .. MaxMessages : LoadEntries(k) \/ LoadTorn(k)

Spec == Init /\ [][Next]_vars

(* The LLM and the tools answer or throw in the end: the providers' HTTP   *)
(* requests time out (http_client.cpp), and a tool is a local function.    *)
(* Nobody is obliged to call the agent.                                    *)
FairSpec == Spec /\ WF_vars(RunStep)

-----------------------------------------------------------------------------
(* Properties.                                                             *)
Roles == {"user", "assistant", "system", "tool"}
Messages == [role : Roles, id : 0 .. MaxMessages, call : 0 .. MaxMessages]
Ids(h) == {h[i].id : i \in DOMAIN h}

(* The type invariant; run's locals are empty between runs, and calls are  *)
(* outstanding exactly while they are being executed.                      *)
TypeOK ==
  /\ hasTools \in BOOLEAN
  /\ prompt \in Prompts
  /\ maxIterations \in Iterations \cup {DefaultIterations}
  /\ history \in Seq(Messages)
  /\ pc \in {"idle", "plain", "loop", "tools"}
  /\ messages \in Seq(Messages)
  /\ pc = "idle" <=> messages = <<>>
  /\ todo \subseteq 1 .. fresh
  /\ pc = "tools" <=> todo # {}
  /\ steps \in Nat
  /\ result \in [completed : BOOLEAN, steps : Int, answer : Int]
  /\ saved # NoDocument => saved.prompt \in Prompts /\ saved.entries \in Seq(Messages)
  /\ loaded \in {"never", "true", "false"}
  /\ runs \in 0 .. MaxRuns
  /\ loads \in 0 .. MaxLoads
  /\ fresh \in 0 .. MaxMessages

(* Each time the LLM is asked, every call it made in this run has been     *)
(* answered by exactly one tool message further on in the request.         *)
AskedWithAnswers ==
  pc = "loop" =>
    \A i \in Len(SystemPart \o history) + 2 .. Len(messages) :
      messages[i].role = "assistant" /\ messages[i].call # NoCall =>
        Cardinality({j \in i + 1 .. Len(messages) :
                       /\ messages[j].role = "tool"
                       /\ messages[j].call = messages[i].call}) = 1

RunEnds == pc # "idle" /\ pc' = "idle"
NewPart == SubSeq(history', Len(history) + 1, Len(history'))

(* The history after the run: the old one, untouched, and messages of this *)
(* run, each once.                                                         *)
OnlyNewAppended ==
  /\ SubSeq(history', 1, Len(history)) = history
  /\ Ids(NewPart) \cap Ids(history) = {}
  /\ \A i, j \in DOMAIN NewPart : NewPart[i].id = NewPart[j].id => i = j

(* With a system prompt, or at the start of a conversation, a run adds its *)
(* own messages to the history and nothing else.                           *)
AppendsOnlyNewWithPrompt ==
  [][RunEnds /\ (prompt # EmptyPrompt \/ history = <<>>) => OnlyNewAppended]_vars

(* agent.cpp:204: "Update conversation history with only the NEW messages  *)
(* from this run."                                                         *)
AppendsOnlyNew == [][RunEnds => OnlyNewAppended]_vars

(* What run returns is set on every path and agrees with the history it    *)
(* leaves: a completed run names the call-free assistant message the       *)
(* history ends with, any other run carries an error text, and the LLM was *)
(* asked at most max_iterations_ times.                                    *)
ResultTellsTruth ==
  [][RunEnds =>
       /\ result'.steps >= 0
       /\ hasTools => result'.steps = 0 \/ result'.steps <= maxIterations
       /\ IF result'.completed
          THEN LET last == history'[Len(history')] IN
               /\ last.role = "assistant"
               /\ last.id = result'.answer
               /\ hasTools => last.call = NoCall
          ELSE result'.answer = ErrorText]_vars

(* agent.hpp:36-37: "Set the maximum number of tool-use iterations before  *)
(* the agent stops and returns whatever it has": a run that ends on an     *)
(* answer of the LLM returns that answer.                                  *)
FinalAnswerReturned ==
  [][RunEnds /\ fresh' > fresh => result'.answer = fresh']_vars

(* The calls of a conversation that no tool message further on answers.    *)
Unanswered(h) ==
  {h[i].call : i \in {j \in DOMAIN h :
                       /\ h[j].role = "assistant"
                       /\ h[j].call # NoCall
                       /\ \A k \in j + 1 .. Len(h) :
                            h[k].role = "tool" => h[k].call # h[j].call}}

(* Of an agent with tools no run, whatever ends it and whatever history it *)
(* began with, leaves a call in the history without its answer, but those  *)
(* that were still to be executed when a tool threw: no other call can be  *)
(* in the next request unanswered.                                         *)
NoCallLeftBehind ==
  [][RunEnds /\ hasTools =>
       Unanswered(history') \subseteq Unanswered(history) \cup todo]_vars

(* run returns: the loop cannot go on for ever, whatever the LLM sends.    *)
RunReturns == pc # "idle" ~> pc = "idle"
=============================================================================
