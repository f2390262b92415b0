------------------------------ MODULE Exchange ------------------------------
(***************************************************************************)
(* An Agent with the calculator (src/agent.cpp) talking to a server        *)
(* through one of the providers (src/llm/*_provider.cpp): what is said, as *)
(* it goes over the wire and comes back.  What the calculator computes is  *)
(* the business of module Calculator.                                      *)
(*                                                                         *)
(* Module Agent has every way a run can go, with messages that are mere    *)
(* names; here the messages have contents and the runs are few.            *)
(***************************************************************************)
EXTENDS Integers, Dialect

CONSTANTS
  ToolExecute(_),  \* what execute of the calculator answers to an expression
  Prompts,         \* system prompts
  UserTexts,       \* arguments of run
  Bodies,          \* Bodies[kind]: the answers a server may give
  MaxIterations,   \* max_iterations_
  MaxRuns          \* bound: calls of run

(* Answers are as Dialect describes them, and a server that is understood  *)
(* speaks as the assistant.                                                *)
ASSUME ExchangeAssumption ==
  /\ Prompts \subseteq Texts
  /\ UserTexts \subseteq Texts
  /\ DOMAIN Bodies = Kinds
  /\ \A k \in Kinds : \A body \in Bodies[k] :
       /\ body \in Answers
       /\ \A i \in DOMAIN body.choices :
            LET choice == body.choices[i] IN
            /\ ~Refused(k, body) /\ k # "claude" =>
                 choice.role \in {"assistant", "model"}
            /\ \A j \in DOMAIN choice.calls :
                 ToolExecute(choice.calls[j].expression) \in Texts
  /\ MaxIterations \in Nat /\ MaxRuns \in Nat

VARIABLES
  kind,       \* the class of llm_
  prompt,     \* system_prompt_
  history,    \* conversation_history_
  pc,         \* where run_with_tools is
  messages,   \* its local `messages'
  calls,      \* the calls of the last response, in the order of execution
  steps,      \* its local `steps'
  request,    \* the body of the last request
  answer,     \* result.final_answer if completed, else <<>>
  runs,       \* how often run was called
  said,       \* history: who said what, as [by, text]; a run without effect
  begun       \*   on the agent counts for nothing, this one began after begun

vars == <<kind, prompt, history, pc, messages, calls, steps, request, answer,
          runs, said, begun>>

Saying(by, text) == [by |-> by, text |-> text]

Init ==
  /\ kind \in Kinds
  /\ prompt \in Prompts
  /\ history = <<>>
  /\ pc = "idle"
  /\ messages = <<>> /\ calls = <<>> /\ steps = 0
  /\ request = RequestBody(kind, <<>>)
  /\ answer = <<>>
  /\ runs = 0
  /\ said = <<>> /\ begun = 0

SystemPart == IF prompt = <<>> THEN <<>> ELSE <<Message("system", prompt, <<>>)>>

Run(text) ==
  /\ pc = "idle"
  /\ runs < MaxRuns
  /\ runs' = runs + 1
  /\ messages' = SystemPart \o history \o <<Message("user", text, <<>>)>>
  /\ said' = Append(said, Saying("user", text))
  /\ begun' = Len(said)
  /\ pc' = "ask"
  /\ steps' = 0
  /\ answer' = <<>>
  /\ UNCHANGED <<kind, prompt, history, calls, request>>

(* The request is built from a copy of messages.                           *)
Ask ==
  /\ pc = "ask"
  /\ steps < MaxIterations
  /\ request' = RequestBody(kind, messages)
  /\ pc' = "wait"
  /\ UNCHANGED <<kind, prompt, history, messages, calls, steps, answer, runs,
                 said, begun>>

(* run ends; the new part of the messages joins the history.               *)
Return(all, text) ==
  LET first == IF prompt = <<>> THEN 1 ELSE 2 + Len(history)
  IN  /\ history' = history \o SubSeq(all, first, Len(all))
      /\ pc' = "idle"
      /\ messages' = <<>> /\ calls' = <<>>
      /\ answer' = text

(* An error of the provider: chat throws.                                  *)
AnswerRefused(body) ==
  /\ pc = "wait"
  /\ Refused(kind, body)
  /\ Return(messages, <<>>)
  /\ UNCHANGED <<kind, prompt, steps, request, runs, said, begun>>

(* A response without messages: the run leaves no trace in the history.    *)
AnswerEmpty(body) ==
  /\ pc = "wait"
  /\ ~Refused(kind, body)
  /\ Response(kind, body) = <<>>
  /\ pc' = "idle"
  /\ messages' = <<>> /\ calls' = <<>>
  /\ answer' = <<>>
  /\ said' = SubSeq(said, 1, begun)
  /\ UNCHANGED <<kind, prompt, history, steps, request, runs, begun>>

Heard(body) ==
  LET texts == TextsOf(body.choices[1])
  IN  [i \in DOMAIN texts |-> Saying("assistant", texts[i])]

CallsIn(response) ==
  FlattenSeq([i \in DOMAIN response |-> Reverse(response)[i].call])

(* A response: without tool calls it is the answer, unless it was the last *)
(* that max_iterations_ allows.                                            *)
AnswerTaken(body) ==
  LET response == Response(kind, body)
  IN  /\ pc = "wait"
      /\ ~Refused(kind, body)
      /\ response # <<>>
      /\ steps' = steps + 1
      /\ said' = said \o Heard(body)
      /\ IF CallsIn(response) = <<>>
         THEN Return(messages \o response,
                     IF steps' >= MaxIterations THEN <<>> ELSE Last(response).text)
         ELSE /\ messages' = messages \o response
              /\ calls' = CallsIn(response)
              /\ pc' = "tools"
              /\ UNCHANGED <<history, answer>>
      /\ UNCHANGED <<kind, prompt, request, runs, begun>>

(* execute_tool_call.                                                      *)
UnknownTool == "Error: Unknown tool"

ToolText(call) ==
  IF call.tool = "calculator" THEN ToolExecute(call.expression) ELSE <<UnknownTool>>

(* Faulty: a tool that fails is passed over.                               *)
ExecuteToolIfKnown ==
  /\ pc = "tools"
  /\ IF calls[1].tool = "calculator"
     THEN /\ messages' = Append(messages, Message("tool", ToolText(calls[1]),
                                                  <<calls[1]>>))
          /\ said' = Append(said, Saying("tool", ToolText(calls[1])))
     ELSE UNCHANGED <<messages, said>>
  /\ calls' = Tail(calls)
  /\ pc' = IF calls' = <<>> THEN "ask" ELSE "tools"
  /\ UNCHANGED <<kind, prompt, history, steps, request, answer, runs, begun>>

ExecuteTool ==
  /\ pc = "tools"
  /\ messages' = Append(messages, Message("tool", ToolText(calls[1]), <<calls[1]>>))
  /\ said' = Append(said, Saying("tool", ToolText(calls[1])))
  /\ calls' = Tail(calls)
  /\ pc' = IF calls' = <<>> THEN "ask" ELSE "tools"
  /\ UNCHANGED <<kind, prompt, history, steps, request, answer, runs, begun>>

LeaveLoop ==
  /\ pc = "ask"
  /\ steps >= MaxIterations
  /\ Return(messages, <<>>)
  /\ UNCHANGED <<kind, prompt, steps, request, runs, said, begun>>

Next ==
  \/ \E text \in UserTexts : Run(text)
  \/ Ask \/ ExecuteTool \/ LeaveLoop
  \/ \E body \in Bodies[kind] :
       AnswerRefused(body) \/ AnswerEmpty(body) \/ AnswerTaken(body)

Spec == Init /\ [][Next]_vars

-----------------------------------------------------------------------------
(* Properties.                                                             *)

(* Who said which piece, in the order it was said and as it was sent.      *)
Tagged(by, text) == [k \in DOMAIN text |-> <<by, text[k]>>]

Pieces(sayings) ==
  FlattenSeq([i \in DOMAIN sayings |-> Tagged(sayings[i].by, sayings[i].text)])

OnWire(k, sayings) ==
  [i \in DOMAIN sayings |-> Saying(WireRole(k, sayings[i].by), sayings[i].text)]

TurnPieces(turns) ==
  FlattenSeq([i \in DOMAIN turns |-> Tagged(turns[i].role, turns[i].text)])

(* Every request gives the server the whole conversation: the system       *)
(* prompt once, then all the user, the server and the tools have said in   *)
(* this run and the earlier ones, in order, each piece once and as its     *)
(* speaker's.  Without a system prompt a second run repeats the history    *)
(* (Agent!AppendsOnlyNew); an answer that cannot be used adds nothing.     *)
ContextIsComplete ==
  pc = "wait" /\ (prompt # <<>> \/ runs = 1) =>
    Tagged("system", request.system) \o TurnPieces(request.turns)
    = Tagged("system", prompt) \o Pieces(OnWire(kind, said))

(* A tool's answer names no call on the wire, so its place must: in each   *)
(* request the answer to the call of a reply is the turn right after it,   *)
(* with what the tool makes of it, or an error if there is no such tool.   *)
CallsAnsweredInPlace ==
  pc = "wait" =>
    \A i \in DOMAIN messages :
      messages[i].role = "assistant" /\ messages[i].call # <<>> =>
        LET call == messages[i].call[1]
            turn == i + 1 - Len(messages) + Len(request.turns)
        IN  /\ turn \in DOMAIN request.turns
            /\ request.turns[turn].role = WireRole(kind, "tool")
            /\ request.turns[turn].text = ToolText(call)
=============================================================================
