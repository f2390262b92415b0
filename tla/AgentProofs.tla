---------------------------- MODULE AgentProofs ----------------------------
(***************************************************************************)
(* Theorems about Agent for any prompts, limits, lengths of responses and  *)
(* numbers of runs and loads.                                              *)
(*                                                                         *)
(* AgentInv is inductive: the types; the shape of run's locals (RunShape); *)
(* each call of the run outstanding or answered once (CallsInHand); where  *)
(* the history stands in the request (RequestOfHistory); and the ids,      *)
(* which tell old messages from new ones (IdsInOrder).                     *)
(***************************************************************************)
EXTENDS Agent, SequenceTheorems, FiniteSetTheorems, TLAPS

-----------------------------------------------------------------------------
(* Where the messages of this run begin.                                   *)

(* How many messages of a request come before the new user message.        *)
Before(p, h) == Len(h) + IF p = EmptyPrompt THEN 0 ELSE 1

(* build_messages puts the system prompt, if there is one, before the      *)
(* history.                                                                *)
LEMMA PromptAndHistory ==
  ASSUME TypeOK
  PROVE  /\ SystemPart \o history \in Seq(Messages)
         /\ Len(SystemPart \o history) = Before(prompt, history)
<1>1. Msg("system", 0, NoCall) \in Messages
  BY AgentAssumption DEF Msg, Messages, Roles, NoCall
<1>2. /\ SystemPart \in Seq(Messages)
      /\ Len(SystemPart) = IF prompt = EmptyPrompt THEN 0 ELSE 1
  BY <1>1 DEF SystemPart
<1>3. history \in Seq(Messages) /\ Len(history) \in Nat
  BY DEF TypeOK
<1>4. /\ SystemPart \o history \in Seq(Messages)
      /\ Len(SystemPart \o history) = Len(SystemPart) + Len(history)
  BY <1>2, <1>3, ConcatProperties
<1>5. Before(prompt, history) = Len(SystemPart) + Len(history)
  BY <1>2, <1>3 DEF Before
<1> QED BY <1>4, <1>5

(* What a response adds: messages of the assistant with fresh ids, the     *)
(* calls among them.                                                       *)
LEMMA ReplyFacts ==
  ASSUME TypeOK, NEW reply \in Replies, fresh + Len(reply) <= MaxMessages
  PROVE  /\ Len(reply) \in Nat \ {0} /\ DOMAIN reply = 1 .. Len(reply)
         /\ ReplyMessages(reply) \in Seq(Messages)
         /\ Len(ReplyMessages(reply)) = Len(reply)
         /\ \A i \in 1 .. Len(reply) :
              ReplyMessages(reply)[i] =
                Msg("assistant", fresh + i,
                    IF fresh + i \in CallsOf(reply) THEN fresh + i ELSE NoCall)
         /\ CallsOf(reply) \subseteq fresh + 1 .. fresh + Len(reply)
<1> USE AgentAssumption DEF TypeOK
<1>1. PICK n \in 1 .. MaxReply : reply \in [1 .. n -> BOOLEAN]
  BY DEF Replies
<1>2. n \in Nat \ {0} /\ Len(reply) = n /\ DOMAIN reply = 1 .. n
  BY <1>1
<1>3. ASSUME NEW i \in 1 .. n PROVE fresh + i \in CallsOf(reply) <=> reply[i]
  <2>1. CASE reply[i]
    BY <1>2, <2>1 DEF CallsOf
  <2>2. ASSUME fresh + i \in CallsOf(reply) PROVE reply[i]
    <3>1. PICK j \in DOMAIN reply : reply[j] /\ fresh + i = fresh + j
      BY <2>2 DEF CallsOf
    <3>2. i = j
      BY <1>2, <3>1
    <3> QED BY <3>1, <3>2
  <2> QED BY <2>1, <2>2
<1>4. \A i \in 1 .. n :
        ReplyMessages(reply)[i] =
          Msg("assistant", fresh + i,
              IF fresh + i \in CallsOf(reply) THEN fresh + i ELSE NoCall)
  BY <1>2, <1>3 DEF ReplyMessages
<1>5. ASSUME NEW i \in 1 .. n PROVE ReplyMessages(reply)[i] \in Messages
  <2>1. fresh + i \in 0 .. MaxMessages
    BY <1>2
  <2>2. \A call \in {fresh + i, NoCall} : Msg("assistant", fresh + i, call) \in Messages
    BY <2>1 DEF Msg, Messages, Roles, NoCall
  <2> QED BY <1>4, <2>2
<1>6. DOMAIN ReplyMessages(reply) = 1 .. n
  BY <1>2 DEF ReplyMessages
<1>7. ReplyMessages(reply) \in [1 .. n -> Messages]
  BY <1>5, <1>6 DEF ReplyMessages
<1>8. CallsOf(reply) \subseteq fresh + 1 .. fresh + n
  BY <1>2 DEF CallsOf
<1> HIDE DEF TypeOK
<1>9. ReplyMessages(reply) \in Seq(Messages) /\ Len(ReplyMessages(reply)) = n
  BY <1>2, <1>7
<1> QED BY <1>2, <1>4, <1>8, <1>9

(* What is added to the history at the end of a run.                       *)
LEMMA RememberFacts ==
  ASSUME TypeOK, NEW msgs \in Seq(Messages), UserMsgIndex <= Len(msgs), Remember(msgs)
  PROVE  /\ history' \in Seq(Messages)
         /\ Len(history') = Len(history) + Len(msgs) - UserMsgIndex
         /\ \A i \in 1 .. Len(history) : history'[i] = history[i]
         /\ \A i \in 1 .. Len(msgs) - UserMsgIndex :
              history'[Len(history) + i] = msgs[UserMsgIndex + i]
<1> DEFINE u == UserMsgIndex
           tail == SubSeq(msgs, u + 1, Len(msgs))
<1>1. history \in Seq(Messages) /\ Len(history) \in Nat
  BY DEF TypeOK
<1>2. u \in Nat /\ Len(msgs) \in Nat /\ u <= Len(msgs)
  BY <1>1 DEF UserMsgIndex
<1>3. history' = history \o tail
  BY DEF Remember
<1> HIDE DEF u
<1>4. \A i \in u + 1 .. Len(msgs) : msgs[i] \in Messages
  BY <1>2
<1>5. /\ tail \in Seq(Messages) /\ Len(tail) = Len(msgs) - u
      /\ \A i \in 1 .. Len(msgs) - u : tail[i] = msgs[u + i]
  <2>1. u + 1 \in Int /\ Len(msgs) \in Int /\ Len(msgs) - (u + 1) + 1 = Len(msgs) - u
    BY <1>2
  <2>2. /\ tail \in Seq(Messages)
        /\ Len(tail) = IF u + 1 <= Len(msgs) THEN Len(msgs) - (u + 1) + 1 ELSE 0
        /\ \A i \in 1 .. Len(msgs) - (u + 1) + 1 : tail[i] = msgs[u + 1 + i - 1]
    BY <1>4, <2>1, SubSeqProperties
  <2>3. Len(tail) = Len(msgs) - u
    BY <1>2, <2>2
  <2> HIDE DEF tail
  <2>4. \A i \in 1 .. Len(msgs) - u : u + 1 + i - 1 = u + i
    BY <1>2
  <2> QED BY <2>1, <2>2, <2>3, <2>4
<1> HIDE DEF tail
<1>6. /\ history' \in Seq(Messages)
      /\ Len(history') = Len(history) + Len(tail)
      /\ \A i \in 1 .. Len(history) + Len(tail) :
           history'[i] = IF i <= Len(history) THEN history[i] ELSE tail[i - Len(history)]
  BY <1>1, <1>3, <1>5, ConcatProperties
<1>7. \A i \in 1 .. Len(msgs) - u : history'[Len(history) + i] = msgs[u + i]
  BY <1>1, <1>2, <1>5, <1>6
<1>8. \A i \in 1 .. Len(history) : history'[i] = history[i]
  BY <1>1, <1>2, <1>5, <1>6
<1> QED BY <1>5, <1>6, <1>7, <1>8 DEF u

-----------------------------------------------------------------------------
(* Steps seen alike.                                                       *)

(* The operations between runs leave run's locals and the tools alone.     *)
Between == pc = "idle" /\ UNCHANGED <<running, hasTools>>

(* Every step of an agent is one of these.                                 *)
LEMMA StepCases ==
  ASSUME [Next]_vars
  PROVE  \/ Between \/ Start
         \/ \E reply \in Replies :
              PlainReply(reply) \/ FinalReply(reply) \/ CallingReply(reply)
         \/ \E call \in todo : ExecuteTool(call)
         \/ PlainFailure \/ EmptyReply \/ Throw \/ LeaveLoop
         \/ UNCHANGED vars
BY DEF Next, RunStep, Between, SetSystemPrompt, SetMaxIterations, Reset, SaveState,
       LoadNonsense, LoadWithoutHistory, LoadEntries, LoadTorn, Loading, settings

-----------------------------------------------------------------------------
(* The types are inductive.                                                *)

(* save_state writes every message of the history, without its call, and   *)
(* load_state reads some of what was written.                              *)
LEMMA DocumentTypes ==
  ASSUME TypeOK
  PROVE  /\ SaveState => saved'.prompt \in Prompts /\ saved'.entries \in Seq(Messages)
         /\ \A k \in Nat : LoadEntries(k) \/ LoadTorn(k) =>
              history' \in Seq(Messages) /\ prompt' \in Prompts
<1>1. ASSUME SaveState PROVE saved'.prompt \in Prompts /\ saved'.entries \in Seq(Messages)
  <2>1. /\ saved'.prompt = prompt
        /\ saved'.entries = [i \in DOMAIN history |-> [history[i] EXCEPT !.call = NoCall]]
    BY <1>1 DEF SaveState
  <2>2. \A i \in 1 .. Len(history) : [history[i] EXCEPT !.call = NoCall] \in Messages
    <3>1. \A m \in Messages : [m EXCEPT !.call = NoCall] \in Messages
      BY AgentAssumption DEF Messages, NoCall
    <3>2. \A i \in 1 .. Len(history) : history[i] \in Messages
      BY DEF TypeOK
    <3> QED BY <3>1, <3>2
  <2>3. DOMAIN history = 1 .. Len(history) /\ Len(history) \in Nat
    BY DEF TypeOK
  <2>4. saved'.entries \in [1 .. Len(history) -> Messages]
    BY <2>1, <2>2, <2>3
  <2>5. saved'.entries \in Seq(Messages)
    BY <2>3, <2>4
  <2> QED BY <2>1, <2>5 DEF TypeOK
<1>2. ASSUME NEW k \in Nat, LoadEntries(k) \/ LoadTorn(k)
      PROVE  history' \in Seq(Messages) /\ prompt' \in Prompts
  <2> DEFINE entries == saved.entries
             kept == SubSeq(entries, 1, k)
  <2>1. entries \in Seq(Messages) /\ saved.prompt \in Prompts /\ k <= Len(entries)
    BY <1>2 DEF LoadEntries, LoadTorn, TypeOK
  <2> HIDE DEF entries
  <2>2. kept \in Seq(Messages)
    <3>1. \A i \in 1 .. k : entries[i] \in Messages
      BY <2>1
    <3> QED BY <3>1, SubSeqProperties
  <2>3. CASE LoadEntries(k)
    BY <2>1, <2>2, <2>3 DEF LoadEntries, entries
  <2>4. CASE LoadTorn(k)
    <3>1. PICK role \in {"user", entries[k + 1].role} :
             history' = Append(kept, Msg(role, Garbled, NoCall))
      BY <2>4 DEF LoadTorn, entries
    <3>2. entries[k + 1] \in Messages
      BY <2>1, <2>4 DEF LoadTorn, entries
    <3>3. Msg(role, Garbled, NoCall) \in Messages
      BY <3>2, AgentAssumption DEF Msg, Messages, Roles, Garbled, NoCall
    <3> HIDE DEF kept
    <3>4. Append(kept, Msg(role, Garbled, NoCall)) \in Seq(Messages)
      BY <2>2, <3>3
    <3>5. prompt' = saved.prompt
      BY <2>4 DEF LoadTorn
    <3> QED BY <2>1, <3>1, <3>4, <3>5
  <2> QED BY <1>2, <2>3, <2>4
<1> QED BY <1>1, <1>2

(* Between runs the locals of run are as they were.                        *)
LEMMA BetweenTypes == ASSUME TypeOK, Next, Between PROVE TypeOK'
<1> USE AgentAssumption
<1>1. UNCHANGED running /\ hasTools' = hasTools
  BY DEF Between
<1>2. ASSUME prompt' \in Prompts, maxIterations' \in Iterations \cup {DefaultIterations},
             history' \in Seq(Messages),
             saved' # NoDocument => saved'.prompt \in Prompts /\ saved'.entries \in Seq(Messages),
             loaded' \in {"never", "true", "false"}, loads' \in 0 .. MaxLoads
      PROVE  TypeOK'
  BY <1>1, <1>2 DEF TypeOK, running
<1>3. ASSUME Loading, loaded' \in {"true", "false"}, prompt' \in Prompts, history' \in Seq(Messages)
      PROVE  TypeOK'
  <2>1. loads' \in 0 .. MaxLoads
    BY <1>3 DEF Loading, TypeOK
  <2>2. saved' \in {saved, NoDocument} /\ maxIterations' = maxIterations
    BY <1>3 DEF Loading
  <2> QED BY <1>2, <1>3, <2>1, <2>2 DEF TypeOK
<1>4. ASSUME NEW p \in Prompts, SetSystemPrompt(p) PROVE TypeOK'
  BY <1>2, <1>4 DEF SetSystemPrompt, storage, TypeOK
<1>5. ASSUME NEW n \in Iterations, SetMaxIterations(n) PROVE TypeOK'
  BY <1>2, <1>5 DEF SetMaxIterations, storage, TypeOK
<1>6. CASE Reset
  BY <1>2, <1>6 DEF Reset, settings, storage, TypeOK
<1>7. CASE SaveState
  <2>1. saved'.prompt \in Prompts /\ saved'.entries \in Seq(Messages)
    BY <1>7, DocumentTypes
  <2> QED BY <1>2, <1>7, <2>1 DEF SaveState, settings, TypeOK
<1>8. CASE LoadNonsense
  BY <1>3, <1>8 DEF LoadNonsense, TypeOK
<1>9. CASE LoadWithoutHistory
  BY <1>3, <1>9 DEF LoadWithoutHistory, TypeOK
<1>10. ASSUME NEW k \in 0 .. MaxMessages, LoadEntries(k) \/ LoadTorn(k) PROVE TypeOK'
  <2>1. history' \in Seq(Messages) /\ prompt' \in Prompts
    BY <1>10, DocumentTypes
  <2> QED BY <1>3, <1>10, <2>1 DEF LoadEntries, LoadTorn
<1>11. ~Start /\ ~RunStep
  BY DEF Between, Start, RunStep, PlainReply, FinalReply, CallingReply, ExecuteTool,
         PlainFailure, EmptyReply, Throw, LeaveLoop, running, TypeOK
<1> QED BY <1>4, <1>5, <1>6, <1>7, <1>8, <1>9, <1>10, <1>11 DEF Next

(* run's locals: the request is the prompt, the history, a new message and,*)
(* with tools, what was said since; the steps counted stay in the limit.   *)
RunShape ==
  /\ pc = "plain" => ~hasTools /\ Len(messages) = Before(prompt, history) + 1
  /\ pc \in {"loop", "tools"} =>
       hasTools /\ Len(messages) >= Before(prompt, history) + 1
  /\ pc # "idle" => steps = 0 \/ steps <= maxIterations

(* user_msg_idx lies within the request, at the new user message when a    *)
(* prompt precedes the history.                                            *)
LEMMA IndexInRequest ==
  ASSUME TypeOK, RunShape, pc \in {"loop", "tools"}
  PROVE  /\ UserMsgIndex \in Nat /\ UserMsgIndex <= Len(messages)
         /\ prompt # EmptyPrompt => UserMsgIndex = Before(prompt, history)
         /\ Len(messages) \in Nat
BY DEF TypeOK, RunShape, UserMsgIndex, Before

(* A run goes on with the request put together, or made longer.            *)
LEMMA RunGoesOn ==
  ASSUME TypeOK, RunShape,
         \/ Start \/ \E reply \in Replies : CallingReply(reply)
         \/ \E call \in todo : ExecuteTool(call)
  PROVE  TypeOK' /\ RunShape'
<1> USE AgentAssumption
<1>1. CASE Start
  <2>1. PICK start \in Seq(Messages) :
           start = SystemPart \o history /\ Len(start) = Before(prompt, history)
    BY PromptAndHistory
  <2>2. Msg("user", fresh + 1, NoCall) \in Messages
    BY <1>1 DEF Start, Msg, Messages, Roles, NoCall, TypeOK
  <2>3. messages' = start \o <<Msg("user", fresh + 1, NoCall)>>
    BY <1>1, <2>1 DEF Start
  <2>4. messages' \in Seq(Messages) /\ Len(messages') = Before(prompt, history) + 1
    BY <2>1, <2>2, <2>3
  <2>5. Before(prompt, history) \in Nat
    BY <2>1
  <2>6. messages' # <<>>
    BY <2>4, <2>5
  <2>7. /\ pc = "idle" /\ UNCHANGED <<settings, history, todo, storage>>
        /\ pc' = IF hasTools THEN "loop" ELSE "plain"
        /\ steps' = 0 /\ result' = Unset /\ runs' = runs + 1 /\ runs < MaxRuns
        /\ fresh' = fresh + 1 /\ fresh < MaxMessages
    BY <1>1 DEF Start
  <2>8. TypeOK'
    <3>1. Unset \in [completed : BOOLEAN, steps : Int, answer : Int]
      BY DEF Unset
    <3>2. runs' \in 0 .. MaxRuns /\ fresh' \in 0 .. MaxMessages
      BY <2>7 DEF TypeOK
    <3>3. todo' = {} /\ todo' \subseteq 1 .. fresh'
      BY <2>7 DEF TypeOK
    <3> QED BY <2>4, <2>6, <2>7, <3>1, <3>2, <3>3 DEF TypeOK, settings, storage
  <2>9. RunShape'
    BY <2>4, <2>5, <2>7 DEF RunShape, settings, TypeOK
  <2> QED BY <2>8, <2>9
<1>2. ASSUME NEW reply \in Replies, CallingReply(reply) PROVE TypeOK' /\ RunShape'
  <2>1. /\ UNCHANGED <<settings, history, result, storage, runs>>
        /\ messages' = messages \o ReplyMessages(reply)
        /\ pc = "loop" /\ pc' = "tools" /\ todo' = CallsOf(reply) /\ CallsOf(reply) # {}
        /\ steps' = steps + 1 /\ steps < maxIterations
        /\ fresh' = fresh + Len(reply) /\ fresh + Len(reply) <= MaxMessages
    BY <1>2 DEF CallingReply
  <2>2. /\ ReplyMessages(reply) \in Seq(Messages) /\ Len(reply) \in Nat \ {0}
        /\ Len(ReplyMessages(reply)) = Len(reply)
        /\ CallsOf(reply) \subseteq fresh + 1 .. fresh + Len(reply)
    BY <2>1, ReplyFacts
  <2>3. messages \in Seq(Messages) /\ Len(messages) \in Nat
    BY DEF TypeOK
  <2>4. /\ messages' \in Seq(Messages) /\ Len(messages') = Len(messages) + Len(reply)
    BY <2>1, <2>2, <2>3, ConcatProperties
  <2>5. messages' # <<>>
    BY <2>2, <2>3, <2>4
  <2>6. TypeOK'
    <3>1. fresh' \in 0 .. MaxMessages /\ todo' \subseteq 1 .. fresh' /\ steps' \in Nat
      BY <2>1, <2>2 DEF TypeOK
    <3> QED BY <2>1, <2>4, <2>5, <3>1 DEF TypeOK, settings, storage
  <2>7. RunShape'
    <3>1. Len(messages') >= Before(prompt, history) + 1
      BY <2>1, <2>2, <2>3, <2>4, PromptAndHistory DEF RunShape
    <3>2. steps' <= maxIterations
      BY <2>1 DEF TypeOK
    <3> QED BY <2>1, <3>1, <3>2 DEF RunShape, settings
  <2> QED BY <2>6, <2>7
<1>3. ASSUME NEW call \in todo, ExecuteTool(call) PROVE TypeOK' /\ RunShape'
  <2>1. /\ UNCHANGED <<settings, history, steps, result, storage, runs>>
        /\ messages' = Append(messages, Msg("tool", fresh + 1, call))
        /\ pc = "tools" /\ pc' = IF todo' = {} THEN "loop" ELSE "tools"
        /\ todo' = todo \ {call}
        /\ fresh' = fresh + 1 /\ fresh < MaxMessages
    BY <1>3 DEF ExecuteTool
  <2>2. call \in 1 .. fresh
    BY DEF TypeOK
  <2>3. Msg("tool", fresh + 1, call) \in Messages
    BY <2>1, <2>2 DEF Msg, Messages, Roles, TypeOK
  <2>4. messages \in Seq(Messages) /\ Len(messages) \in Nat
    BY DEF TypeOK
  <2>5. /\ messages' \in Seq(Messages) /\ Len(messages') = Len(messages) + 1
        /\ messages' # <<>>
    BY <2>1, <2>3, <2>4
  <2>6. TypeOK'
    <3>1. fresh' \in 0 .. MaxMessages /\ todo' \subseteq 1 .. fresh'
      BY <2>1 DEF TypeOK
    <3> QED BY <2>1, <2>5, <3>1 DEF TypeOK, settings, storage
  <2>7. RunShape'
    <3>1. Len(messages') >= Before(prompt, history) + 1
      BY <2>1, <2>4, <2>5, PromptAndHistory DEF RunShape
    <3> QED BY <2>1, <3>1 DEF RunShape, settings
  <2> QED BY <2>6, <2>7
<1> QED BY <1>1, <1>2, <1>3

(* How a run ends, whatever it returns.                                    *)
Ends ==
  /\ pc # "idle" /\ pc' = "idle" /\ messages' = <<>> /\ todo' = {}
  /\ UNCHANGED <<settings, storage, runs>>

(* A run that ends adds messages to the history, or none, and returns a    *)
(* result.                                                                 *)
LEMMA RunEndsTyped ==
  ASSUME TypeOK, RunShape,
         \/ \E reply \in Replies : PlainReply(reply) \/ FinalReply(reply)
         \/ PlainFailure \/ EmptyReply \/ Throw \/ LeaveLoop
  PROVE  Ends /\ TypeOK' /\ RunShape'
<1> USE AgentAssumption
<1> DEFINE Results == [completed : BOOLEAN, steps : Int, answer : Int]
<1>1. Ends
  BY DEF Ends, Return, PlainReply, FinalReply, PlainFailure, EmptyReply, Throw,
         LeaveLoop, settings, storage
<1>2. ASSUME history' \in Seq(Messages), steps' \in Nat, fresh' \in 0 .. MaxMessages,
             result' \in Results
      PROVE  TypeOK' /\ RunShape'
  BY <1>1, <1>2 DEF Ends, TypeOK, RunShape, settings, storage
<1>3. \A n \in Int, r \in Results : AfterLoop(n, r) \in Results /\ Failed(n) \in Results
  BY DEF AfterLoop, Failed, ErrorText
<1>4. \A n, id \in Int : Completed(n, id) \in Results
  BY DEF Completed
<1>5. /\ fresh \in Nat /\ steps \in Nat /\ result \in Results /\ history \in Seq(Messages)
      /\ messages \in Seq(Messages) /\ fresh \in 0 .. MaxMessages
  BY DEF TypeOK
<1> HIDE DEF Results
<1>6. ASSUME NEW reply \in Replies, PlainReply(reply) PROVE TypeOK' /\ RunShape'
  <2>1. /\ pc = "plain" /\ steps' = steps /\ fresh' = fresh + Len(reply)
        /\ fresh + Len(reply) <= MaxMessages
        /\ result' = Completed(1, fresh + Len(reply))
        /\ history' = history \o <<messages[Len(messages)], ReplyMessages(reply)[Len(reply)]>>
    BY <1>6 DEF PlainReply, Return
  <2>2. /\ Len(reply) \in Nat \ {0} /\ ReplyMessages(reply) \in Seq(Messages)
        /\ Len(ReplyMessages(reply)) = Len(reply)
    BY <2>1, ReplyFacts
  <2>3. messages[Len(messages)] \in Messages
    BY <1>5, <2>1 DEF TypeOK
  <2>4. ReplyMessages(reply)[Len(reply)] \in Messages
    BY <2>2
  <2>5. history' \in Seq(Messages)
    BY <1>5, <2>1, <2>3, <2>4
  <2>6. fresh' \in 0 .. MaxMessages /\ result' \in Results
    BY <1>4, <1>5, <2>1, <2>2
  <2> QED BY <1>2, <1>5, <2>1, <2>5, <2>6
<1>7. ASSUME NEW reply \in Replies, FinalReply(reply) PROVE TypeOK' /\ RunShape'
  <2>1. /\ pc = "loop" /\ steps' = steps + 1 /\ fresh' = fresh + Len(reply)
        /\ fresh + Len(reply) <= MaxMessages
        /\ result' = AfterLoop(steps + 1, Completed(steps + 1, fresh + Len(reply)))
        /\ Remember(messages \o ReplyMessages(reply))
    BY <1>7 DEF FinalReply, Return
  <2>2. /\ Len(reply) \in Nat \ {0} /\ ReplyMessages(reply) \in Seq(Messages)
        /\ Len(ReplyMessages(reply)) = Len(reply)
    BY <2>1, ReplyFacts
  <2>3. PICK msgs \in Seq(Messages) : /\ msgs = messages \o ReplyMessages(reply)
                                     /\ Len(msgs) = Len(messages) + Len(reply)
    <3>1. /\ messages \o ReplyMessages(reply) \in Seq(Messages)
          /\ Len(messages \o ReplyMessages(reply)) = Len(messages) + Len(reply)
      BY <1>5, <2>2, ConcatProperties
    <3> QED BY <3>1
  <2>4. UserMsgIndex <= Len(msgs)
    BY <2>1, <2>2, <2>3, IndexInRequest
  <2>5. history' \in Seq(Messages)
    BY <2>1, <2>3, <2>4, RememberFacts
  <2>6. fresh' \in 0 .. MaxMessages /\ result' \in Results /\ steps' \in Nat
    BY <1>3, <1>4, <1>5, <2>1, <2>2
  <2> QED BY <1>2, <2>5, <2>6
<1>8. CASE PlainFailure \/ EmptyReply
  <2>1. /\ UNCHANGED <<history, steps, fresh>>
        /\ \E n \in Int : result' = Failed(n)
    BY <1>5, <1>8 DEF PlainFailure, EmptyReply, Return
  <2> QED BY <1>1, <1>2, <1>3, <1>5, <2>1
<1>9. CASE Throw \/ LeaveLoop
  <2>1. /\ UNCHANGED <<steps, fresh>> /\ Remember(messages) /\ pc \in {"loop", "tools"}
        /\ result' \in {Failed(steps), AfterLoop(steps, result)}
    BY <1>9 DEF Throw, LeaveLoop, Return
  <2>2. history' \in Seq(Messages)
    BY <1>5, <2>1, IndexInRequest, RememberFacts
  <2>3. Failed(steps) \in Results /\ AfterLoop(steps, result) \in Results
    BY <1>3, <1>5
  <2> QED BY <1>1, <1>2, <1>5, <2>1, <2>2, <2>3
<1> QED BY <1>1, <1>6, <1>7, <1>8, <1>9

(* No step leaves the types, or breaks the shape of run's locals.          *)
LEMMA TypeStep == TypeOK /\ RunShape /\ [Next]_vars => TypeOK' /\ RunShape'
<1> SUFFICES ASSUME TypeOK, RunShape, [Next]_vars PROVE TypeOK' /\ RunShape'
  OBVIOUS
<1>1. CASE UNCHANGED vars
  BY <1>1 DEF vars, TypeOK, RunShape
<1>2. CASE Next /\ Between
  <2>1. TypeOK'
    BY <1>2, BetweenTypes
  <2>2. RunShape'
    BY <1>2 DEF Between, running, RunShape
  <2> QED BY <2>1, <2>2
<1> QED BY <1>1, <1>2, StepCases, RunGoesOn, RunEndsTyped

-----------------------------------------------------------------------------
(* Tool calls and their answers.                                           *)

(* b messages and the user's precede what was said in this run.            *)
Calls(msgs, i) == msgs[i].role = "assistant" /\ msgs[i].call # NoCall

AnswersTo(msgs, i) ==
  {j \in i + 1 .. Len(msgs) : msgs[j].role = "tool" /\ msgs[j].call = msgs[i].call}

(* A call still to be executed has no answer, any other exactly one.       *)
OutstandingOrAnswered(msgs, outstanding, b, newest) ==
  \A i \in b + 2 .. Len(msgs) :
    Calls(msgs, i) =>
      /\ msgs[i].call <= newest
      /\ IF msgs[i].call \in outstanding
         THEN AnswersTo(msgs, i) = {}
         ELSE \E j \in AnswersTo(msgs, i) : AnswersTo(msgs, i) = {j}

CallsInHand ==
  pc \in {"loop", "tools"} =>
    OutstandingOrAnswered(messages, todo, Before(prompt, history), fresh)

(* run goes back to the LLM when no call is outstanding any more.          *)
LEMMA CallsInHandSuffice == TypeOK /\ CallsInHand => AskedWithAnswers
<1> SUFFICES ASSUME TypeOK, CallsInHand, pc = "loop",
                    NEW i \in Len(SystemPart \o history) + 2 .. Len(messages),
                    messages[i].role = "assistant", messages[i].call # NoCall
             PROVE  Cardinality(AnswersTo(messages, i)) = 1
  BY DEF AskedWithAnswers, AnswersTo
<1>1. todo = {}
  BY DEF TypeOK
<1>2. i \in Before(prompt, history) + 2 .. Len(messages)
  BY PromptAndHistory
<1>3. PICK j : AnswersTo(messages, i) = {j}
  BY <1>1, <1>2 DEF CallsInHand, OutstandingOrAnswered, Calls
<1> QED BY <1>3, FS_Singleton

(* A response: its calls are outstanding, older ones answered as before.   *)
LEMMA ResponseKeepsCalls ==
  ASSUME TypeOK, RunShape, CallsInHand, NEW reply \in Replies, CallingReply(reply)
  PROVE  CallsInHand'
<1> DEFINE b == Before(prompt, history)
           n == Len(messages)
<1>1. /\ pc = "loop" /\ todo = {} /\ todo' = CallsOf(reply)
      /\ messages' = messages \o ReplyMessages(reply)
      /\ UNCHANGED <<prompt, history>> /\ fresh' = fresh + Len(reply)
      /\ fresh + Len(reply) <= MaxMessages
  BY DEF CallingReply, settings, TypeOK
<1>2. /\ Len(reply) \in Nat \ {0} /\ ReplyMessages(reply) \in Seq(Messages)
      /\ Len(ReplyMessages(reply)) = Len(reply)
      /\ \A i \in 1 .. Len(reply) :
           ReplyMessages(reply)[i] =
             Msg("assistant", fresh + i,
                 IF fresh + i \in CallsOf(reply) THEN fresh + i ELSE NoCall)
      /\ CallsOf(reply) \subseteq fresh + 1 .. fresh + Len(reply)
  BY <1>1, ReplyFacts
<1>3. messages \in Seq(Messages) /\ n \in Nat /\ fresh \in Nat /\ b \in Nat
  BY DEF TypeOK, Before
<1>4. /\ Len(messages') = n + Len(reply)
      /\ \A i \in 1 .. n + Len(reply) :
           messages'[i] = IF i <= n THEN messages[i] ELSE ReplyMessages(reply)[i - n]
  BY <1>1, <1>2, <1>3, ConcatProperties
<1>5. ASSUME NEW i \in 1 .. Len(reply)
      PROVE  /\ messages'[n + i].role = "assistant"
             /\ messages'[n + i].call # NoCall =>
                  messages'[n + i].call = fresh + i /\ fresh + i \in CallsOf(reply)
  <2>1. messages'[n + i] = ReplyMessages(reply)[i]
    <3>1. n + i \in 1 .. n + Len(reply) /\ ~(n + i <= n) /\ (n + i) - n = i
      BY <1>2, <1>3
    <3> HIDE DEF n
    <3> QED BY <1>4, <3>1
  <2>2. PICK call : /\ messages'[n + i] = Msg("assistant", fresh + i, call)
                    /\ call = IF fresh + i \in CallsOf(reply) THEN fresh + i ELSE NoCall
    BY <1>2, <2>1
  <2>3. /\ messages'[n + i].role = "assistant" /\ messages'[n + i].call = call
    BY <2>2 DEF Msg
  <2> QED BY <2>2, <2>3
<1>6. \A i \in 1 .. n : messages'[i] = messages[i]
  BY <1>2, <1>3, <1>4
<1>7. OutstandingOrAnswered(messages, {}, b, fresh)
  BY <1>1 DEF CallsInHand
<1> HIDE DEF b, n
<1> SUFFICES ASSUME NEW i \in b + 2 .. n + Len(reply), Calls(messages', i)
             PROVE  /\ messages'[i].call <= fresh + Len(reply)
                    /\ IF messages'[i].call \in CallsOf(reply)
                       THEN AnswersTo(messages', i) = {}
                       ELSE \E j : AnswersTo(messages', i) = {j}
  BY <1>1, <1>4 DEF CallsInHand, OutstandingOrAnswered, b
<1>8. CASE i <= n
  <2>1. messages'[i] = messages[i] /\ i \in b + 2 .. n
    BY <1>3, <1>6, <1>8
  <2>2. messages[i].call <= fresh
    BY <1>7, <2>1 DEF OutstandingOrAnswered, Calls, n
  <2>3. PICK j : AnswersTo(messages, i) = {j}
    BY <1>7, <2>1 DEF OutstandingOrAnswered, Calls, n
  <2>4. AnswersTo(messages', i) = AnswersTo(messages, i)
    <3>1. ASSUME NEW k \in AnswersTo(messages', i) PROVE k \in AnswersTo(messages, i)
      <4>1. /\ k \in i + 1 .. n + Len(reply) /\ messages'[k].role = "tool"
            /\ messages'[k].call = messages'[i].call
        BY <1>4, <3>1 DEF AnswersTo, n
      <4>2. k <= n
        <5>1. CASE k > n
          <6>1. k - n \in 1 .. Len(reply) /\ n + (k - n) = k
            BY <1>2, <1>3, <4>1, <5>1
          <6>2. messages'[k].role = "assistant"
            BY <1>5, <6>1
          <6> QED BY <4>1, <6>2
        <5> QED BY <1>3, <4>1, <5>1
      <4>3. k \in i + 1 .. n /\ messages'[k] = messages[k]
        BY <1>3, <1>6, <4>1, <4>2
      <4> QED BY <2>1, <4>1, <4>3 DEF AnswersTo, n
    <3>2. ASSUME NEW k \in AnswersTo(messages, i) PROVE k \in AnswersTo(messages', i)
      <4>1. /\ k \in i + 1 .. n /\ messages[k].role = "tool"
            /\ messages[k].call = messages[i].call
        BY <3>2 DEF AnswersTo, n
      <4>2. k \in i + 1 .. n + Len(reply) /\ messages'[k] = messages[k]
        BY <1>2, <1>3, <1>6, <4>1
      <4> QED BY <1>4, <2>1, <4>1, <4>2 DEF AnswersTo, n
    <3> QED BY <3>1, <3>2
  <2>5. messages'[i].call \notin CallsOf(reply)
    <3>1. messages[i] \in Messages
      BY <1>3, <2>1 DEF n
    <3>2. messages[i].call \in Int
      BY <3>1, AgentAssumption DEF Messages
    <3> QED BY <1>2, <1>3, <2>1, <2>2, <3>2
  <2>6. messages'[i].call <= fresh + Len(reply)
    <3>1. messages[i] \in Messages
      BY <1>3, <2>1 DEF n
    <3>2. messages[i].call \in Int
      BY <3>1, AgentAssumption DEF Messages
    <3> QED BY <1>2, <1>3, <2>1, <2>2, <3>2
  <2> QED BY <2>3, <2>4, <2>5, <2>6
<1>9. CASE i > n
  <2>1. i - n \in 1 .. Len(reply) /\ n + (i - n) = i
    BY <1>2, <1>3, <1>9
  <2>2. /\ messages'[i].call = fresh + (i - n)
        /\ messages'[i].call \in CallsOf(reply)
    BY <1>5, <2>1 DEF Calls
  <2>3. AnswersTo(messages', i) = {}
    <3> SUFFICES ASSUME NEW k \in AnswersTo(messages', i) PROVE FALSE
      OBVIOUS
    <3>1. k \in i + 1 .. n + Len(reply) /\ messages'[k].role = "tool"
      BY <1>4 DEF AnswersTo, n
    <3>2. k - n \in 1 .. Len(reply) /\ n + (k - n) = k
      BY <1>2, <1>3, <1>9, <3>1
    <3> QED BY <1>5, <3>1, <3>2
  <2>4. messages'[i].call <= fresh + Len(reply)
    BY <1>2, <1>3, <2>1, <2>2
  <2> QED BY <2>2, <2>3, <2>4
<1>10. i <= n \/ i > n
  BY <1>2, <1>3
<1> QED BY <1>8, <1>9, <1>10

(* A tool's answer: the one its call was waiting for.                      *)
LEMMA AnswerKeepsCalls ==
  ASSUME TypeOK, RunShape, CallsInHand, NEW call \in todo, ExecuteTool(call)
  PROVE  CallsInHand'
<1> DEFINE b == Before(prompt, history)
           n == Len(messages)
           answer == Msg("tool", fresh + 1, call)
<1>1. /\ pc = "tools" /\ todo' = todo \ {call}
      /\ messages' = Append(messages, answer)
      /\ UNCHANGED <<prompt, history>> /\ fresh' = fresh + 1
  BY DEF ExecuteTool, settings
<1>2. messages \in Seq(Messages) /\ n \in Nat /\ fresh \in Nat /\ b \in Nat
  BY DEF TypeOK, Before
<1> HIDE DEF b, answer
<1>3. /\ Len(messages') = n + 1 /\ messages'[n + 1] = answer
      /\ \A i \in 1 .. n : messages'[i] = messages[i]
  BY <1>1, <1>2
<1>4. answer.role = "tool" /\ answer.call = call
  BY DEF answer, Msg
<1>5. OutstandingOrAnswered(messages, todo, b, fresh)
  BY <1>1 DEF CallsInHand, b
<1> HIDE DEF n
<1> SUFFICES ASSUME NEW i \in b + 2 .. n + 1, Calls(messages', i)
             PROVE  /\ messages'[i].call <= fresh + 1
                    /\ IF messages'[i].call \in todo \ {call}
                       THEN AnswersTo(messages', i) = {}
                       ELSE \E j : AnswersTo(messages', i) = {j}
  BY <1>1, <1>3 DEF CallsInHand, OutstandingOrAnswered, b
<1>6. i \in b + 2 .. n /\ messages'[i] = messages[i]
  <2>1. i # n + 1
    BY <1>3, <1>4 DEF Calls
  <2> QED BY <1>2, <1>3, <2>1
<1>7. /\ Calls(messages, i) /\ messages[i].call <= fresh
      /\ IF messages[i].call \in todo
         THEN AnswersTo(messages, i) = {}
         ELSE \E j : AnswersTo(messages, i) = {j}
  BY <1>5, <1>6 DEF OutstandingOrAnswered, Calls, n
<1>8. AnswersTo(messages', i) =
        AnswersTo(messages, i) \cup (IF messages[i].call = call THEN {n + 1} ELSE {})
  <2>1. ASSUME NEW k \in i + 1 .. n
        PROVE  k \in AnswersTo(messages', i) <=> k \in AnswersTo(messages, i)
    <3>1. messages'[k] = messages[k] /\ k \in i + 1 .. n + 1
      BY <1>2, <1>3, <1>6
    <3> QED BY <1>3, <1>6, <3>1 DEF AnswersTo, n
  <2>2. n + 1 \in AnswersTo(messages', i) <=> messages[i].call = call
    BY <1>2, <1>3, <1>4, <1>6 DEF AnswersTo
  <2>3. AnswersTo(messages, i) \subseteq i + 1 .. n
    BY DEF AnswersTo, n
  <2>4. AnswersTo(messages', i) \subseteq (i + 1 .. n) \cup {n + 1}
    BY <1>2, <1>3, <1>6 DEF AnswersTo
  <2> QED BY <2>1, <2>2, <2>3, <2>4
<1>9. messages'[i].call <= fresh + 1
  <2>1. messages[i] \in Messages
    BY <1>2, <1>6 DEF n
  <2>2. messages[i].call \in Int
    BY <2>1, AgentAssumption DEF Messages
  <2> QED BY <1>2, <1>6, <1>7, <2>2
<1>10. CASE messages[i].call = call
  <2>1. AnswersTo(messages', i) = {n + 1}
    BY <1>7, <1>8, <1>10
  <2> QED BY <1>2, <1>6, <1>9, <1>10, <2>1
<1>11. CASE messages[i].call # call
  <2>1. AnswersTo(messages', i) = AnswersTo(messages, i)
    BY <1>8, <1>11
  <2> QED BY <1>6, <1>7, <1>9, <1>11, <2>1
<1> QED BY <1>10, <1>11

(* Every step keeps each call outstanding or answered.                     *)
LEMMA CallsStep == TypeOK /\ RunShape /\ CallsInHand /\ [Next]_vars => CallsInHand'
<1> SUFFICES ASSUME TypeOK, RunShape, CallsInHand, [Next]_vars PROVE CallsInHand'
  OBVIOUS
<1>1. CASE UNCHANGED vars
  BY <1>1 DEF vars, CallsInHand
<1>2. CASE Between
  BY <1>2 DEF Between, running, CallsInHand
<1>3. CASE Start
  <2>1. /\ messages' = (SystemPart \o history) \o <<Msg("user", fresh + 1, NoCall)>>
        /\ UNCHANGED <<prompt, history>>
    BY <1>3 DEF Start, settings
  <2>2. SystemPart \o history \in Seq(Messages) /\ Before(prompt, history) \in Nat
        /\ Len(SystemPart \o history) = Before(prompt, history)
    BY PromptAndHistory
  <2>3. Len(messages') = Before(prompt, history) + 1
    BY <2>1, <2>2
  <2> QED BY <2>1, <2>2, <2>3 DEF CallsInHand, OutstandingOrAnswered
<1>4. ASSUME \/ \E reply \in Replies : PlainReply(reply) \/ FinalReply(reply)
             \/ PlainFailure \/ EmptyReply \/ Throw \/ LeaveLoop
      PROVE  CallsInHand'
  BY <1>4, RunEndsTyped DEF Ends, CallsInHand
<1> QED
  BY <1>1, <1>2, <1>3, <1>4, ResponseKeepsCalls, AnswerKeepsCalls, StepCases

-----------------------------------------------------------------------------
(* Where the history stands in the request.                                *)

(* The history stands right before the new user message all through a run. *)
RequestOfHistory ==
  pc # "idle" =>
    LET b == Before(prompt, history) IN
    /\ messages[b + 1].role = "user"
    /\ \A i \in 1 .. Len(history) : messages[b - Len(history) + i] = history[i]

(* Whatever makes the request longer leaves its beginning alone.           *)
LEMMA LongerRequest ==
  ASSUME TypeOK, RunShape, RequestOfHistory, pc # "idle",
         NEW added \in Seq(Messages), messages' = messages \o added,
         UNCHANGED <<prompt, history>>
  PROVE  RequestOfHistory'
<1> DEFINE b == Before(prompt, history)
           h == Len(history)
           n == Len(messages)
<1>1. /\ h \in Nat /\ n \in Nat /\ b \in {h, h + 1} /\ b + 1 <= n
      /\ messages \in Seq(Messages)
  BY DEF TypeOK, RunShape, Before
<1>2. /\ messages[b + 1].role = "user"
      /\ \A i \in 1 .. h : messages[b - h + i] = history[i]
  BY DEF RequestOfHistory
<1> HIDE DEF b, h, n
<1>3. \A i \in 1 .. n : messages'[i] = messages[i]
  BY <1>1, ConcatProperties DEF n
<1>4. b + 1 \in 1 .. n /\ \A i \in 1 .. h : b - h + i \in 1 .. n
  BY <1>1
<1>5. /\ messages'[b + 1].role = "user"
      /\ \A i \in 1 .. h : messages'[b - h + i] = history[i]
  BY <1>2, <1>3, <1>4
<1> QED BY <1>5 DEF RequestOfHistory, b, h

(* build_messages puts the history there, and no step of run moves it.     *)
LEMMA RequestStep ==
  TypeOK /\ RunShape /\ RequestOfHistory /\ [Next]_vars => RequestOfHistory'
<1> SUFFICES ASSUME TypeOK, RunShape, RequestOfHistory, [Next]_vars
             PROVE  RequestOfHistory'
  OBVIOUS
<1>1. CASE UNCHANGED vars
  BY <1>1 DEF vars, RequestOfHistory
<1>2. CASE Between
  BY <1>2 DEF Between, running, RequestOfHistory
<1>3. CASE Start
  <2> DEFINE user == Msg("user", fresh + 1, NoCall)
             s == Len(SystemPart)
             h == Len(history)
             start == SystemPart \o history
  <2>1. messages' = start \o <<user>> /\ UNCHANGED <<prompt, history>>
    BY <1>3 DEF Start, settings
  <2>2. user.role = "user" /\ user \in Messages
    BY <1>3, AgentAssumption DEF Start, Msg, Messages, Roles, NoCall, TypeOK
  <2>3. start \in Seq(Messages) /\ Len(start) = Before(prompt, history)
    BY PromptAndHistory
  <2>4. /\ SystemPart \in Seq(Messages) /\ s \in Nat /\ h \in Nat
        /\ history \in Seq(Messages)
        /\ s = IF prompt = EmptyPrompt THEN 0 ELSE 1
    <3>1. Msg("system", 0, NoCall) \in Messages
      BY AgentAssumption DEF Msg, Messages, Roles, NoCall
    <3> QED BY <3>1 DEF SystemPart, TypeOK
  <2> HIDE DEF user
  <2>5. ASSUME NEW i \in 1 .. h PROVE start[s + i] = history[i] /\ s + i \in 1 .. Len(start)
    <3>1. /\ Len(start) = s + h
          /\ \A j \in 1 .. s + h :
               start[j] = IF j <= s THEN SystemPart[j] ELSE history[j - s]
      BY <2>4, ConcatProperties
    <3> HIDE DEF s, h, start
    <3>2. s + i \in 1 .. s + h /\ ~(s + i <= s) /\ (s + i) - s = i
      BY <2>4
    <3> QED BY <3>1, <3>2
  <2>6. s = Before(prompt, history) - h
    BY <2>4 DEF Before
  <2> HIDE DEF s, h, start
  <2>7. /\ messages'[Len(start) + 1] = user
        /\ \A i \in 1 .. Len(start) : messages'[i] = start[i]
    BY <2>1, <2>2, <2>3
  <2>8. /\ messages'[Before(prompt, history) + 1].role = "user"
        /\ \A i \in 1 .. h : messages'[Before(prompt, history) - h + i] = history[i]
    BY <2>2, <2>3, <2>5, <2>6, <2>7
  <2> QED BY <2>1, <2>8 DEF RequestOfHistory, h
<1>4. ASSUME NEW reply \in Replies, CallingReply(reply) PROVE RequestOfHistory'
  <2>1. /\ messages' = messages \o ReplyMessages(reply) /\ UNCHANGED <<prompt, history>>
        /\ pc = "loop" /\ fresh + Len(reply) <= MaxMessages
    BY <1>4 DEF CallingReply, settings
  <2>2. ReplyMessages(reply) \in Seq(Messages) /\ pc # "idle"
    BY <2>1, ReplyFacts
  <2> QED BY <2>1, <2>2, LongerRequest
<1>5. ASSUME NEW call \in todo, ExecuteTool(call) PROVE RequestOfHistory'
  <2>1. /\ messages' = Append(messages, Msg("tool", fresh + 1, call))
        /\ UNCHANGED <<prompt, history>> /\ pc = "tools" /\ fresh < MaxMessages
    BY <1>5 DEF ExecuteTool, settings
  <2>2. Msg("tool", fresh + 1, call) \in Messages /\ pc # "idle"
    BY <2>1, AgentAssumption DEF Msg, Messages, Roles, TypeOK
  <2>3. <<Msg("tool", fresh + 1, call)>> \in Seq(Messages)
    BY <2>2
  <2>4. messages' = messages \o <<Msg("tool", fresh + 1, call)>>
    <3>1. messages \in Seq(Messages)
      BY DEF TypeOK
    <3> QED BY <2>1, <2>2, <3>1, AppendIsConcat
  <2> QED BY <2>1, <2>2, <2>3, <2>4, LongerRequest
<1>6. ASSUME \/ \E reply \in Replies : PlainReply(reply) \/ FinalReply(reply)
             \/ PlainFailure \/ EmptyReply \/ Throw \/ LeaveLoop
      PROVE  RequestOfHistory'
  BY <1>6, RunEndsTyped DEF Ends, RequestOfHistory
<1> QED BY <1>1, <1>2, <1>3, <1>4, <1>5, <1>6, StepCases

-----------------------------------------------------------------------------
(* Which messages are new.                                                 *)

(* No message is newer than the newest.                                    *)
NoneNewer(msgs, newest) == \A i \in 1 .. Len(msgs) : msgs[i].id <= newest

(* The messages of this run, from place b + 1 on, are newer than any of    *)
(* the history h, each newer than the one before.                          *)
NewInOrder(msgs, h, b, newest) ==
  \A i \in b + 1 .. Len(msgs) :
    /\ msgs[i].id <= newest
    /\ \A k \in 1 .. Len(h) : h[k].id < msgs[i].id
    /\ \A j \in i + 1 .. Len(msgs) : msgs[i].id < msgs[j].id

IdsInOrder ==
  /\ NoneNewer(history, fresh)
  /\ saved # NoDocument => NoneNewer(saved.entries, fresh)
  /\ pc # "idle" =>
       /\ NoneNewer(messages, fresh)
       /\ NewInOrder(messages, history, Before(prompt, history), fresh)

(* A request made longer by k messages with the next ids.                  *)
Longer(new, old, newest, k) ==
  /\ Len(new) = Len(old) + k
  /\ \A i \in 1 .. Len(old) : new[i] = old[i]
  /\ \A i \in 1 .. k : new[Len(old) + i].id = newest + i

(* The messages added are the newest.                                      *)
LEMMA LongerInOrder ==
  ASSUME NEW new, NEW old \in Seq(Messages), NEW h \in Seq(Messages), NEW b \in Nat,
         NEW newest \in Nat, NEW k \in Nat, Longer(new, old, newest, k),
         NoneNewer(h, newest), NewInOrder(old, h, b, newest), b <= Len(old)
  PROVE  NewInOrder(new, h, b, newest + k) /\ NoneNewer(h, newest + k)
<1> DEFINE n == Len(old)
<1>1. n \in Nat /\ Len(h) \in Nat /\ Len(new) = n + k
  BY DEF Longer
<1>2. /\ \A i \in 1 .. n : old[i].id \in Int
      /\ \A i \in 1 .. Len(h) : h[i].id \in Int /\ h[i].id <= newest
  <2>1. \A m \in Messages : m.id \in Int
    BY AgentAssumption DEF Messages
  <2>2. /\ \A i \in 1 .. n : old[i] \in Messages
        /\ \A i \in 1 .. Len(h) : h[i] \in Messages
    BY <1>1
  <2> QED BY <2>1, <2>2 DEF NoneNewer
<1> HIDE DEF n
<1>3. ASSUME NEW i \in b + 1 .. n + k
      PROVE  \/ /\ i \in b + 1 .. n /\ new[i].id = old[i].id /\ old[i].id \in Int
                /\ old[i].id <= newest
             \/ i \in n + 1 .. n + k /\ new[i].id = newest + (i - n)
  <2>1. CASE i <= n
    <3>1. i \in b + 1 .. n /\ i \in 1 .. n
      BY <1>1, <2>1
    <3>2. new[i] = old[i]
      BY <3>1 DEF Longer, n
    <3>3. old[i].id <= newest
      BY <3>1 DEF NewInOrder, n
    <3> QED BY <1>2, <3>1, <3>2, <3>3
  <2>2. CASE i > n
    <3>1. i - n \in 1 .. k /\ n + (i - n) = i
      BY <1>1, <2>2
    <3>2. new[n + (i - n)].id = newest + (i - n)
      BY <3>1 DEF Longer, n
    <3>3. i \in n + 1 .. n + k
      BY <1>1, <2>2
    <3> QED BY <3>1, <3>2, <3>3
  <2> QED BY <1>1, <2>1, <2>2
<1>4. ASSUME NEW i \in b + 1 .. n + k PROVE new[i].id <= newest + k
  BY <1>1, <1>3
<1>5. ASSUME NEW i \in b + 1 .. n + k, NEW j \in 1 .. Len(h) PROVE h[j].id < new[i].id
  <2>1. i \in b + 1 .. n => h[j].id < old[i].id
    BY DEF NewInOrder, n
  <2> QED BY <1>1, <1>2, <1>3, <2>1
<1>6. ASSUME NEW i \in b + 1 .. n + k, NEW j \in i + 1 .. n + k PROVE new[i].id < new[j].id
  <2>1. j \in b + 1 .. n + k /\ i < j
    BY <1>1
  <2>2. CASE j \in b + 1 .. n
    <3>1. i \in b + 1 .. n /\ j \in i + 1 .. n
      BY <1>1, <2>1, <2>2
    <3>2. old[i].id < old[j].id
      BY <3>1 DEF NewInOrder, n
    <3>3. new[i].id = old[i].id /\ new[j].id = old[j].id
      BY <1>1, <1>3, <2>1, <2>2, <3>1
    <3> QED BY <3>2, <3>3
  <2>3. CASE j \notin b + 1 .. n
    <3>1. new[j].id = newest + (j - n) /\ j \in n + 1 .. n + k
      BY <1>3, <2>1, <2>3
    <3>2. CASE i \in b + 1 .. n /\ new[i].id = old[i].id /\ old[i].id \in Int
                /\ old[i].id <= newest
      BY <1>1, <3>1, <3>2
    <3>3. CASE i \in n + 1 .. n + k /\ new[i].id = newest + (i - n)
      BY <1>1, <2>1, <3>1, <3>3
    <3> QED BY <1>3, <3>2, <3>3
  <2> QED BY <2>2, <2>3
<1>7. NoneNewer(h, newest + k)
  BY <1>1, <1>2 DEF NoneNewer
<1> QED BY <1>1, <1>4, <1>5, <1>6, <1>7 DEF NewInOrder

(* Nor are the others newer.                                               *)
LEMMA LongerNoneNewer ==
  ASSUME NEW new, NEW old \in Seq(Messages), NEW newest \in Nat, NEW k \in Nat,
         Longer(new, old, newest, k), NoneNewer(old, newest)
  PROVE  NoneNewer(new, newest + k)
<1> DEFINE n == Len(old)
<1>1. n \in Nat /\ Len(new) = n + k
  BY DEF Longer
<1>2. \A i \in 1 .. n : old[i].id \in Int /\ old[i].id <= newest
  <2>1. \A m \in Messages : m.id \in Int
    BY AgentAssumption DEF Messages
  <2>2. \A i \in 1 .. n : old[i] \in Messages
    BY <1>1
  <2> QED BY <2>1, <2>2 DEF NoneNewer
<1>3. /\ \A i \in 1 .. n : new[i] = old[i]
      /\ \A i \in 1 .. k : new[n + i].id = newest + i
  BY DEF Longer
<1> HIDE DEF n
<1> SUFFICES ASSUME NEW i \in 1 .. n + k PROVE new[i].id <= newest + k
  BY <1>1 DEF NoneNewer
<1>4. CASE i <= n
  BY <1>1, <1>2, <1>3, <1>4
<1>5. CASE i > n
  <2>1. i - n \in 1 .. k /\ n + (i - n) = i
    BY <1>1, <1>5
  <2>2. new[n + (i - n)].id = newest + (i - n)
    BY <1>3, <2>1
  <2> QED BY <1>1, <2>1, <2>2
<1> QED BY <1>1, <1>4, <1>5

(* The system prompt is as old as can be.                                  *)
LEMMA PromptNoneNewer ==
  ASSUME TypeOK, NoneNewer(history, fresh)
  PROVE  NoneNewer(SystemPart \o history, fresh)
<1> DEFINE both == SystemPart \o history
<1>1. history \in Seq(Messages) /\ Len(history) \in Nat /\ fresh \in Nat
  BY DEF TypeOK
<1>2. /\ SystemPart \in Seq(Messages) /\ Len(SystemPart) \in Nat
      /\ \A i \in 1 .. Len(SystemPart) : SystemPart[i].id = 0
  <2>1. Msg("system", 0, NoCall) \in Messages /\ Msg("system", 0, NoCall).id = 0
    BY AgentAssumption DEF Msg, Messages, Roles, NoCall
  <2> QED BY <2>1 DEF SystemPart
<1>3. /\ Len(both) = Len(SystemPart) + Len(history)
      /\ \A i \in 1 .. Len(SystemPart) + Len(history) :
           both[i] = IF i <= Len(SystemPart) THEN SystemPart[i]
                     ELSE history[i - Len(SystemPart)]
  BY <1>1, <1>2, ConcatProperties
<1> HIDE DEF both
<1> SUFFICES ASSUME NEW i \in 1 .. Len(SystemPart) + Len(history)
             PROVE  both[i].id <= fresh
  BY <1>3 DEF NoneNewer, both
<1>4. CASE i <= Len(SystemPart)
  BY <1>1, <1>2, <1>3, <1>4
<1>5. CASE i > Len(SystemPart)
  <2>1. i - Len(SystemPart) \in 1 .. Len(history)
    BY <1>1, <1>2, <1>5
  <2> QED BY <1>3, <1>5, <1>2, <2>1 DEF NoneNewer
<1> QED BY <1>1, <1>2, <1>4, <1>5

(* A response makes the request longer.                                    *)
LEMMA ResponseIsLonger ==
  ASSUME TypeOK, NEW reply \in Replies, fresh + Len(reply) <= MaxMessages
  PROVE  /\ messages \o ReplyMessages(reply) \in Seq(Messages)
         /\ Longer(messages \o ReplyMessages(reply), messages, fresh, Len(reply))
         /\ \A i \in 1 .. Len(reply) :
              (messages \o ReplyMessages(reply))[Len(messages) + i] = ReplyMessages(reply)[i]
<1> DEFINE R == ReplyMessages(reply)
           n == Len(messages)
           both == messages \o R
<1>1. /\ Len(reply) \in Nat /\ R \in Seq(Messages) /\ Len(R) = Len(reply)
      /\ \A i \in 1 .. Len(reply) : R[i].id = fresh + i
  <2>1. \A i, call : Msg("assistant", fresh + i, call).id = fresh + i
    BY DEF Msg
  <2> QED BY <2>1, ReplyFacts
<1>2. messages \in Seq(Messages) /\ n \in Nat
  BY DEF TypeOK
<1> HIDE DEF R
<1>3. /\ both \in Seq(Messages) /\ Len(both) = n + Len(R)
      /\ \A i \in 1 .. n + Len(R) : both[i] = IF i <= n THEN messages[i] ELSE R[i - n]
  BY <1>1, <1>2, ConcatProperties
<1> HIDE DEF both
<1>4. ASSUME NEW i \in 1 .. Len(reply) PROVE both[n + i] = R[i]
  <2>1. n + i \in 1 .. n + Len(R) /\ ~(n + i <= n) /\ (n + i) - n = i
    BY <1>1, <1>2
  <2> QED BY <1>3, <2>1
<1>5. \A i \in 1 .. n : both[i] = messages[i]
  BY <1>1, <1>2, <1>3
<1>6. Longer(both, messages, fresh, Len(reply))
  BY <1>1, <1>3, <1>4, <1>5 DEF Longer
<1> QED BY <1>3, <1>4, <1>6 DEF both, R

(* The new messages stay the newest while a run goes on.                   *)
LEMMA RunKeepsOrder ==
  ASSUME TypeOK, RunShape, IdsInOrder,
         \/ Start \/ \E reply \in Replies : CallingReply(reply)
         \/ \E call \in todo : ExecuteTool(call)
  PROVE  IdsInOrder'
<1>1. /\ history \in Seq(Messages) /\ messages \in Seq(Messages) /\ Len(messages) \in Nat
      /\ Before(prompt, history) \in Nat /\ fresh \in Nat
  BY DEF TypeOK, Before
<1>2. UNCHANGED <<prompt, history, saved>> /\ NoneNewer(history, fresh)
  BY DEF Start, CallingReply, ExecuteTool, settings, storage, IdsInOrder
<1>3. ASSUME NEW k \in Nat, fresh' = fresh + k, NEW old \in Seq(Messages),
             NoneNewer(old, fresh),
             NewInOrder(old, history, Before(prompt, history), fresh),
             Longer(messages', old, fresh, k), Before(prompt, history) <= Len(old)
      PROVE  IdsInOrder'
  <2>1. /\ NewInOrder(messages', history, Before(prompt, history), fresh')
        /\ NoneNewer(history, fresh') /\ NoneNewer(messages', fresh')
    BY <1>1, <1>2, <1>3, LongerInOrder, LongerNoneNewer
  <2>2. saved # NoDocument => NoneNewer(saved.entries, fresh')
    <3> SUFFICES ASSUME saved # NoDocument PROVE NoneNewer(saved.entries, fresh')
      OBVIOUS
    <3>1. \A m \in Messages : m.id \in Int
      BY AgentAssumption DEF Messages
    <3>2. \A i \in 1 .. Len(saved.entries) : saved.entries[i] \in Messages
      BY DEF TypeOK
    <3>3. ASSUME NEW i \in 1 .. Len(saved.entries) PROVE saved.entries[i].id <= fresh'
      <4>1. saved.entries[i].id <= fresh
        BY DEF IdsInOrder, NoneNewer
      <4>2. saved.entries[i].id \in Int
        BY <3>1, <3>2
      <4> QED BY <1>1, <1>3, <4>1, <4>2
    <3> QED BY <3>3 DEF NoneNewer
  <2> QED BY <1>2, <2>1, <2>2 DEF IdsInOrder
<1>4. CASE Start
  <2>1. PICK old \in Seq(Messages) :
           old = SystemPart \o history /\ Len(old) = Before(prompt, history)
    BY PromptAndHistory
  <2>2. messages' = old \o <<Msg("user", fresh + 1, NoCall)>> /\ fresh' = fresh + 1
    BY <1>4, <2>1 DEF Start
  <2>3. NewInOrder(old, history, Before(prompt, history), fresh)
    BY <1>1, <2>1 DEF NewInOrder
  <2>4. Msg("user", fresh + 1, NoCall).id = fresh + 1
    BY DEF Msg
  <2>5. Longer(messages', old, fresh, 1)
    <3>1. /\ Len(messages') = Len(old) + 1
          /\ messages'[Len(old) + 1] = Msg("user", fresh + 1, NoCall)
          /\ \A i \in 1 .. Len(old) : messages'[i] = old[i]
      BY <2>1, <2>2
    <3> QED BY <2>4, <3>1 DEF Longer
  <2>6. Before(prompt, history) <= Len(old)
    BY <1>1, <2>1
  <2>7. NoneNewer(old, fresh)
    BY <1>2, <2>1, PromptNoneNewer
  <2> QED BY <1>3, <2>2, <2>3, <2>5, <2>6, <2>7
<1>5. ASSUME pc \in {"loop", "tools"}
      PROVE  /\ NoneNewer(messages, fresh)
             /\ NewInOrder(messages, history, Before(prompt, history), fresh)
             /\ Before(prompt, history) <= Len(messages)
  BY <1>1, <1>5 DEF IdsInOrder, RunShape
<1>6. ASSUME NEW reply \in Replies, CallingReply(reply) PROVE IdsInOrder'
  <2>1. /\ pc = "loop" /\ messages' = messages \o ReplyMessages(reply)
        /\ fresh' = fresh + Len(reply) /\ fresh + Len(reply) <= MaxMessages
    BY <1>6 DEF CallingReply
  <2>2. Len(reply) \in Nat
    BY <2>1, ReplyFacts
  <2>3. Longer(messages', messages, fresh, Len(reply))
    BY <2>1, ResponseIsLonger
  <2> QED BY <1>1, <1>3, <1>5, <2>1, <2>2, <2>3
<1>7. ASSUME NEW call \in todo, ExecuteTool(call) PROVE IdsInOrder'
  <2>1. /\ pc = "tools" /\ messages' = Append(messages, Msg("tool", fresh + 1, call))
        /\ fresh' = fresh + 1
    BY <1>7 DEF ExecuteTool
  <2>2. Msg("tool", fresh + 1, call).id = fresh + 1
    BY DEF Msg
  <2>3. Longer(messages', messages, fresh, 1)
    BY <1>1, <2>1, <2>2 DEF Longer
  <2> QED BY <1>1, <1>3, <1>5, <2>1, <2>3
<1> QED BY <1>4, <1>6, <1>7

(* What a run leaves: the old history, and behind it messages of this run, *)
(* unless the history is taken up twice for want of a prompt.              *)
Keeps(newest) ==
  /\ Len(history') >= Len(history)
  /\ \A i \in 1 .. Len(history) : history'[i] = history[i]
  /\ NoneNewer(history', newest)
  /\ prompt # EmptyPrompt \/ history = <<>> =>
       NewInOrder(history', history, Len(history), newest)

(* What is remembered of a request in order is in order.                   *)
LEMMA RememberInOrder ==
  ASSUME TypeOK, RunShape, pc \in {"loop", "tools"}, NEW newest \in Nat,
         NEW msgs \in Seq(Messages), Len(msgs) >= Len(messages), Remember(msgs),
         NoneNewer(history, newest), NoneNewer(msgs, newest),
         NewInOrder(msgs, history, Before(prompt, history), newest)
  PROVE  Keeps(newest)
<1> DEFINE h == Len(history)
           u == UserMsgIndex
           b == Before(prompt, history)
<1>1. /\ h \in Nat /\ u \in Nat /\ Len(msgs) \in Nat /\ u <= Len(msgs)
      /\ (prompt # EmptyPrompt \/ history = <<>>) => u = b
  <2>1. h \in Nat /\ Len(msgs) \in Nat /\ u <= Len(msgs) /\ u \in Nat
    BY IndexInRequest DEF TypeOK
  <2>2. history = <<>> => h = 0
    BY DEF TypeOK
  <2> QED BY <2>1, <2>2, IndexInRequest DEF UserMsgIndex, Before
<1>2. /\ Len(history') = h + Len(msgs) - u
      /\ \A i \in 1 .. h : history'[i] = history[i]
      /\ \A i \in 1 .. Len(msgs) - u : history'[h + i] = msgs[u + i]
  BY <1>1, RememberFacts
<1> HIDE DEF h, u, b
<1>3. ASSUME NEW i \in h + 1 .. h + Len(msgs) - u
      PROVE  history'[i] = msgs[u + (i - h)] /\ u + (i - h) \in u + 1 .. Len(msgs)
  <2>1. i - h \in 1 .. Len(msgs) - u /\ h + (i - h) = i
    BY <1>1
  <2>2. history'[h + (i - h)] = msgs[u + (i - h)]
    BY <1>2, <2>1
  <2> QED BY <1>1, <2>1, <2>2
<1>4. NoneNewer(history', newest)
  <2> SUFFICES ASSUME NEW i \in 1 .. h + Len(msgs) - u PROVE history'[i].id <= newest
    BY <1>2 DEF NoneNewer
  <2>1. CASE i <= h
    BY <1>1, <1>2, <2>1 DEF NoneNewer, h
  <2>2. CASE i > h
    <3>1. i \in h + 1 .. h + Len(msgs) - u
      BY <1>1, <2>2
    <3>2. u + (i - h) \in 1 .. Len(msgs)
      BY <1>1, <1>3, <3>1
    <3> QED BY <1>3, <3>1, <3>2 DEF NoneNewer
  <2> QED BY <1>1, <2>1, <2>2
<1>5. ASSUME prompt # EmptyPrompt \/ history = <<>>
      PROVE  NewInOrder(history', history, h, newest)
  <2>1. u = b
    BY <1>1, <1>5
  <2> SUFFICES ASSUME NEW i \in h + 1 .. h + Len(msgs) - u
               PROVE  /\ history'[i].id <= newest
                      /\ \A k \in 1 .. Len(history) : history[k].id < history'[i].id
                      /\ \A j \in i + 1 .. h + Len(msgs) - u :
                           history'[i].id < history'[j].id
    BY <1>2 DEF NewInOrder
  <2> DEFINE at(k) == u + (k - h)
  <2>2. history'[i] = msgs[at(i)] /\ at(i) \in b + 1 .. Len(msgs)
    BY <1>3, <2>1
  <2>3. ASSUME NEW j \in i + 1 .. h + Len(msgs) - u
        PROVE  history'[j] = msgs[at(j)] /\ at(j) \in at(i) + 1 .. Len(msgs)
    <3>1. j \in h + 1 .. h + Len(msgs) - u
      BY <1>1
    <3> QED BY <1>1, <1>3, <3>1
  <2> HIDE DEF at
  <2> QED BY <2>2, <2>3 DEF NewInOrder, b
<1>6. Len(history') >= h
  BY <1>1, <1>2
<1> QED BY <1>2, <1>4, <1>5, <1>6 DEF Keeps, h

(* However a run ends, it keeps the old history and adds new messages.     *)
LEMMA RunEndsInOrder ==
  ASSUME TypeOK, RunShape, IdsInOrder,
         \/ \E reply \in Replies : PlainReply(reply) \/ FinalReply(reply)
         \/ PlainFailure \/ EmptyReply \/ Throw \/ LeaveLoop
  PROVE  fresh' \in Nat /\ fresh <= fresh' /\ Keeps(fresh')
<1>1. /\ history \in Seq(Messages) /\ Len(history) \in Nat /\ fresh \in Nat
      /\ messages \in Seq(Messages) /\ NoneNewer(history, fresh)
  BY DEF TypeOK, IdsInOrder
<1>2. ASSUME pc # "idle"
      PROVE  /\ NoneNewer(messages, fresh)
             /\ NewInOrder(messages, history, Before(prompt, history), fresh)
  BY <1>2 DEF IdsInOrder
<1>3. ASSUME NEW reply \in Replies, FinalReply(reply)
      PROVE  fresh' \in Nat /\ fresh <= fresh' /\ Keeps(fresh')
  <2>1. /\ pc = "loop" /\ fresh' = fresh + Len(reply) /\ fresh + Len(reply) <= MaxMessages
        /\ Remember(messages \o ReplyMessages(reply))
    BY <1>3 DEF FinalReply
  <2>2. Len(reply) \in Nat
    BY <2>1, ReplyFacts
  <2>3. PICK msgs \in Seq(Messages) : /\ msgs = messages \o ReplyMessages(reply)
                                     /\ Longer(msgs, messages, fresh, Len(reply))
    BY <2>1, ResponseIsLonger
  <2>4. Before(prompt, history) \in Nat /\ Before(prompt, history) <= Len(messages)
        /\ Len(messages) \in Nat
    BY <1>1, <2>1 DEF RunShape, Before
  <2>5. /\ NoneNewer(msgs, fresh + Len(reply)) /\ NoneNewer(history, fresh + Len(reply))
        /\ NewInOrder(msgs, history, Before(prompt, history), fresh + Len(reply))
    BY <1>1, <1>2, <2>1, <2>2, <2>3, <2>4, LongerInOrder, LongerNoneNewer
  <2>6. Len(msgs) >= Len(messages)
    BY <2>2, <2>3, <2>4 DEF Longer
  <2>7. Keeps(fresh + Len(reply))
    <3>1. fresh + Len(reply) \in Nat /\ Remember(msgs) /\ pc \in {"loop", "tools"}
      BY <1>1, <2>1, <2>2, <2>3
    <3> QED BY <2>5, <2>6, <3>1, RememberInOrder
  <2> QED BY <1>1, <2>1, <2>2, <2>7
<1>4. CASE Throw \/ LeaveLoop
  <2>1. fresh' = fresh /\ Remember(messages) /\ pc \in {"loop", "tools"}
    BY <1>4 DEF Throw, LeaveLoop
  <2>2. Len(messages) \in Nat
    BY <1>1
  <2> QED BY <1>1, <1>2, <2>1, <2>2, RememberInOrder
<1>5. CASE PlainFailure \/ EmptyReply
  <2>1. UNCHANGED <<fresh, history>>
    BY <1>5 DEF PlainFailure, EmptyReply
  <2> QED BY <1>1, <2>1 DEF Keeps, NewInOrder
<1>6. ASSUME NEW reply \in Replies, PlainReply(reply)
      PROVE  fresh' \in Nat /\ fresh <= fresh' /\ Keeps(fresh')
  <2> DEFINE h == Len(history)
             user == messages[Len(messages)]
             last == ReplyMessages(reply)[Len(reply)]
  <2>1. /\ pc = "plain" /\ fresh' = fresh + Len(reply) /\ fresh + Len(reply) <= MaxMessages
        /\ history' = history \o <<user, last>>
    BY <1>6 DEF PlainReply
  <2>2. /\ Len(reply) \in Nat \ {0} /\ ReplyMessages(reply) \in Seq(Messages)
        /\ Len(ReplyMessages(reply)) = Len(reply) /\ last.id = fresh + Len(reply)
    <3>1. \A i, call : Msg("assistant", fresh + i, call).id = fresh + i
      BY DEF Msg
    <3>2. Len(reply) \in 1 .. Len(reply)
      BY <2>1, ReplyFacts
    <3> QED BY <2>1, <3>1, <3>2, ReplyFacts
  <2>3. /\ Len(messages) = Before(prompt, history) + 1 /\ Before(prompt, history) \in Nat
    BY <1>1, <2>1 DEF RunShape, Before
  <2>4. user \in Messages /\ last \in Messages
    BY <1>1, <2>2, <2>3
  <2>5. /\ user.id <= fresh /\ user.id \in Int
        /\ \A k \in 1 .. h : history[k].id < user.id /\ history[k].id \in Int
    <3>1. \A m \in Messages : m.id \in Int
      BY AgentAssumption DEF Messages
    <3>2. \A k \in 1 .. h : history[k] \in Messages
      BY <1>1
    <3>3. Len(messages) \in Before(prompt, history) + 1 .. Len(messages)
      BY <2>3
    <3> QED BY <1>2, <2>1, <2>4, <3>1, <3>2, <3>3 DEF NewInOrder
  <2> HIDE DEF user, last
  <2>6. /\ Len(history') = h + 2 /\ \A i \in 1 .. h : history'[i] = history[i]
        /\ history'[h + 1] = user /\ history'[h + 2] = last
    BY <1>1, <2>1, <2>4
  <2>7. \A i \in 1 .. h : history[i].id <= fresh
    BY <1>1 DEF NoneNewer
  <2> HIDE DEF h
  <2>8. /\ user.id <= fresh' /\ last.id <= fresh' /\ user.id < last.id
        /\ \A k \in 1 .. h : history[k].id < last.id
    BY <1>1, <2>1, <2>2, <2>5
  <2>9. NoneNewer(history', fresh')
    <3> SUFFICES ASSUME NEW i \in 1 .. h + 2 PROVE history'[i].id <= fresh'
      BY <2>6 DEF NoneNewer
    <3>1. i \in 1 .. h \/ i = h + 1 \/ i = h + 2
      BY <1>1 DEF h
    <3> QED BY <1>1, <2>1, <2>2, <2>5, <2>6, <2>7, <3>1
  <2>10. NewInOrder(history', history, h, fresh')
    <3> SUFFICES ASSUME NEW i \in h + 1 .. h + 2
                 PROVE  /\ history'[i].id <= fresh'
                        /\ \A k \in 1 .. h : history[k].id < history'[i].id
                        /\ \A j \in i + 1 .. h + 2 : history'[i].id < history'[j].id
      BY <2>6 DEF NewInOrder, h
    <3>1. CASE i = h + 1
      <4>1. \A j \in i + 1 .. h + 2 : j = h + 2
        BY <1>1, <3>1 DEF h
      <4> QED BY <2>5, <2>6, <2>8, <3>1, <4>1
    <3>2. CASE i = h + 2
      <4>1. i + 1 .. h + 2 = {}
        BY <1>1, <3>2 DEF h
      <4> QED BY <2>6, <2>8, <3>2, <4>1
    <3> QED BY <1>1, <3>1, <3>2 DEF h
  <2>11. fresh' \in Nat /\ fresh <= fresh' /\ Len(history') >= Len(history)
    BY <1>1, <2>1, <2>2, <2>6 DEF h
  <2> QED BY <2>6, <2>9, <2>10, <2>11 DEF Keeps, h
<1> QED BY <1>3, <1>4, <1>5, <1>6

(* Saving, loading and forgetting bring no newer message.                  *)
LEMMA BetweenInOrder ==
  ASSUME TypeOK, IdsInOrder, Next, Between PROVE IdsInOrder'
<1>1. /\ pc' = "idle" /\ fresh' = fresh /\ fresh \in Nat /\ Len(history) \in Nat
      /\ history \in Seq(Messages)
  BY DEF Between, running, TypeOK
<1>2. ASSUME NoneNewer(history', fresh),
             saved' # NoDocument => NoneNewer(saved'.entries, fresh)
      PROVE  IdsInOrder'
  BY <1>1, <1>2 DEF IdsInOrder
<1>3. ASSUME Loading, NoneNewer(history', fresh) PROVE IdsInOrder'
  <2>1. saved' \in {saved, NoDocument}
    BY <1>3 DEF Loading
  <2> QED BY <1>2, <1>3, <2>1 DEF IdsInOrder
<1>4. ASSUME UNCHANGED saved, history' \in {history, <<>>} PROVE IdsInOrder'
  <2>1. NoneNewer(<<>>, fresh)
    BY DEF NoneNewer
  <2> QED BY <1>2, <1>4, <2>1 DEF IdsInOrder
<1>5. CASE SaveState
  <2>1. /\ history' = history
        /\ saved'.entries = [i \in DOMAIN history |-> [history[i] EXCEPT !.call = NoCall]]
    BY <1>5 DEF SaveState
  <2>2. /\ DOMAIN saved'.entries = 1 .. Len(history)
        /\ \A i \in 1 .. Len(history) : saved'.entries[i] = [history[i] EXCEPT !.call = NoCall]
    BY <1>1, <2>1
  <2>3. \A m \in Messages : [m EXCEPT !.call = NoCall].id = m.id
    BY DEF Messages
  <2>4. \A i \in 1 .. Len(history) : history[i] \in Messages /\ history[i].id <= fresh
    BY <1>1 DEF IdsInOrder, NoneNewer
  <2>5. \A i \in 1 .. Len(history) : saved'.entries[i].id <= fresh
    BY <2>2, <2>3, <2>4
  <2>6. saved'.entries \in Seq(Messages)
    BY <1>5, DocumentTypes
  <2>7. NoneNewer(saved'.entries, fresh)
    BY <1>1, <2>2, <2>5, <2>6 DEF NoneNewer
  <2> QED BY <1>2, <2>1, <2>7 DEF IdsInOrder
<1>6. ASSUME NEW k \in 0 .. MaxMessages, LoadEntries(k) \/ LoadTorn(k)
      PROVE  IdsInOrder'
  <2> DEFINE entries == saved.entries
             kept == SubSeq(entries, 1, k)
  <2>1. /\ Loading /\ entries \in Seq(Messages) /\ k <= Len(entries) /\ NoneNewer(entries, fresh)
        /\ k \in Nat
    BY <1>6, AgentAssumption DEF LoadEntries, LoadTorn, TypeOK, IdsInOrder
  <2>2. history' = kept \/ \E role : history' = Append(kept, Msg(role, Garbled, NoCall))
    BY <1>6 DEF LoadEntries, LoadTorn
  <2> HIDE DEF entries
  <2>3. /\ kept \in Seq(Messages) /\ Len(kept) = k
        /\ \A i \in 1 .. k : kept[i] = entries[i]
    <3>1. /\ \A i \in 1 .. k : entries[i] \in Messages
          /\ Len(entries) \in Nat
      BY <2>1
    <3>2. /\ kept \in Seq(Messages)
          /\ Len(kept) = IF 1 <= k THEN k - 1 + 1 ELSE 0
          /\ \A i \in 1 .. k - 1 + 1 : kept[i] = entries[1 + i - 1]
      BY <2>1, <3>1, SubSeqProperties
    <3> QED BY <2>1, <3>2
  <2> HIDE DEF kept
  <2>4. \A i \in 1 .. k : kept[i].id <= fresh
    <3>1. \A i \in 1 .. k : i \in 1 .. Len(entries)
      BY <2>1
    <3> QED BY <2>1, <2>3, <3>1 DEF NoneNewer
  <2>5. CASE history' = kept
    BY <1>3, <2>1, <2>3, <2>4, <2>5 DEF NoneNewer
  <2>6. ASSUME NEW role, history' = Append(kept, Msg(role, Garbled, NoCall))
        PROVE  IdsInOrder'
    <3>1. Msg(role, Garbled, NoCall).id = 0
      BY DEF Msg, Garbled
    <3>2. /\ Len(history') = k + 1 /\ history'[k + 1].id = 0
          /\ \A i \in 1 .. k : history'[i] = kept[i]
      BY <2>1, <2>3, <2>6, <3>1
    <3>3. NoneNewer(history', fresh)
      BY <1>1, <2>1, <2>4, <3>2 DEF NoneNewer
    <3> QED BY <1>3, <2>1, <3>3
  <2> QED BY <2>2, <2>5, <2>6
<1>7. CASE LoadNonsense \/ LoadWithoutHistory
  <2>1. Loading /\ history' = history
    BY <1>7 DEF LoadNonsense, LoadWithoutHistory
  <2> QED BY <1>3, <2>1 DEF IdsInOrder
<1>8. ASSUME NEW p, SetSystemPrompt(p) \/ SetMaxIterations(p) \/ Reset PROVE IdsInOrder'
  BY <1>4, <1>8 DEF SetSystemPrompt, SetMaxIterations, Reset, storage
<1>9. ~Start /\ ~RunStep
  BY DEF Between, Start, RunStep, PlainReply, FinalReply, CallingReply, ExecuteTool,
         PlainFailure, EmptyReply, Throw, LeaveLoop, running, TypeOK
<1> QED BY <1>5, <1>6, <1>7, <1>8, <1>9 DEF Next

(* Every step keeps the order of the ids.                                  *)
LEMMA OrderStep == TypeOK /\ RunShape /\ IdsInOrder /\ [Next]_vars => IdsInOrder'
<1> SUFFICES ASSUME TypeOK, RunShape, IdsInOrder, [Next]_vars PROVE IdsInOrder'
  OBVIOUS
<1>1. CASE UNCHANGED vars
  BY <1>1 DEF vars, IdsInOrder
<1>2. CASE Next /\ Between
  BY <1>2, BetweenInOrder
<1>3. ASSUME \/ \E reply \in Replies : PlainReply(reply) \/ FinalReply(reply)
             \/ PlainFailure \/ EmptyReply \/ Throw \/ LeaveLoop
      PROVE  IdsInOrder'
  <2>1. Ends /\ fresh' \in Nat /\ fresh <= fresh' /\ NoneNewer(history', fresh')
    BY <1>3, RunEndsTyped, RunEndsInOrder DEF Keeps
  <2>2. saved' = saved /\ pc' = "idle"
    BY <2>1 DEF Ends, storage
  <2>3. ASSUME saved # NoDocument PROVE NoneNewer(saved.entries, fresh')
    <3>1. \A m \in Messages : m.id \in Int
      BY AgentAssumption DEF Messages
    <3>2. \A i \in 1 .. Len(saved.entries) : saved.entries[i] \in Messages
      BY <2>3 DEF TypeOK
    <3> SUFFICES ASSUME NEW i \in 1 .. Len(saved.entries) PROVE saved.entries[i].id <= fresh'
      BY DEF NoneNewer
    <3>3. saved.entries[i].id <= fresh /\ fresh \in Nat /\ saved.entries[i].id \in Int
      BY <2>3, <3>1, <3>2 DEF IdsInOrder, NoneNewer, TypeOK
    <3> QED BY <2>1, <3>3
  <2> QED BY <2>1, <2>2, <2>3 DEF IdsInOrder
<1> QED BY <1>1, <1>2, <1>3, RunKeepsOrder, StepCases

-----------------------------------------------------------------------------
(* The invariant, and what follows from it.                                *)

(* All of the above: inductive together.                                   *)
AgentInv == TypeOK /\ RunShape /\ CallsInHand /\ RequestOfHistory /\ IdsInOrder

(* A new agent has no history, and is in no run.                           *)
LEMMA InitEstablishes == Init => AgentInv
<1> SUFFICES ASSUME Init PROVE AgentInv
  OBVIOUS
<1>1. TypeOK
  <2>1. Unset \in [completed : BOOLEAN, steps : Int, answer : Int]
    BY DEF Unset
  <2>2. /\ hasTools \in BOOLEAN /\ prompt \in Prompts /\ maxIterations = DefaultIterations
        /\ history = <<>> /\ pc = "idle" /\ messages = <<>> /\ todo = {} /\ steps = 0
        /\ result = Unset /\ saved = NoDocument /\ loaded = "never"
        /\ runs = 0 /\ loads = 0 /\ fresh = 0
    BY AgentAssumption DEF Init
  <2>3. 0 \in 0 .. MaxRuns /\ 0 \in 0 .. MaxLoads /\ 0 \in 0 .. MaxMessages
    BY AgentAssumption
  <2>4. <<>> \in Seq(Messages)
    OBVIOUS
  <2> QED BY <2>1, <2>2, <2>3, <2>4 DEF TypeOK
<1>2. NoneNewer(<<>>, 0)
  BY DEF NoneNewer
<1> QED BY <1>1, <1>2 DEF Init, AgentInv, RunShape, CallsInHand, RequestOfHistory, IdsInOrder

(* The invariant holds in every state of every history of an agent.        *)
THEOREM AgentInvariant == Spec => []AgentInv
<1>1. AgentInv /\ [Next]_vars => AgentInv'
  BY TypeStep, CallsStep, RequestStep, OrderStep DEF AgentInv
<1> QED BY <1>1, InitEstablishes, PTL DEF Spec

(* Every variable has its type in every state, for any bounds.             *)
THEOREM AgentTypes == Spec => []TypeOK
<1>1. AgentInv => TypeOK
  BY DEF AgentInv
<1> QED BY <1>1, AgentInvariant, PTL

(* The LLM never sees a call of this run without its one answer, whatever  *)
(* it calls, however often, and whatever the tools do.                     *)
THEOREM CallsAreAnswered == Spec => []AskedWithAnswers
<1>1. AgentInv => AskedWithAnswers
  BY CallsInHandSuffice DEF AgentInv
<1> QED BY <1>1, AgentInvariant, PTL

(* A run that ends takes one of these steps.                               *)
LEMMA EndSteps ==
  ASSUME [Next]_vars, RunEnds
  PROVE  \/ \E reply \in Replies : PlainReply(reply) \/ FinalReply(reply)
         \/ PlainFailure \/ EmptyReply \/ Throw \/ LeaveLoop
BY StepCases DEF RunEnds, Between, Start, CallingReply, ExecuteTool, vars

(* New messages in order, behind the old history, are only new ones.       *)
LEMMA KeptAreNew ==
  ASSUME TypeOK, TypeOK', NEW newest, Keeps(newest), prompt # EmptyPrompt \/ history = <<>>
  PROVE  OnlyNewAppended
<1> DEFINE h == Len(history)
           m == Len(history')
<1>1. /\ history \in Seq(Messages) /\ history' \in Seq(Messages)
      /\ h \in Nat /\ m \in Nat /\ h <= m
      /\ \A i \in 1 .. h : history'[i] = history[i]
      /\ NewInOrder(history', history, h, newest)
  BY DEF TypeOK, Keeps
<1> HIDE DEF h, m
<1>2. SubSeq(history', 1, h) = history
  <2>1. \A i \in 1 .. h : history'[i] \in Messages
    BY <1>1 DEF m
  <2>2. /\ SubSeq(history', 1, h) \in Seq(Messages)
        /\ Len(SubSeq(history', 1, h)) = IF 1 <= h THEN h - 1 + 1 ELSE 0
        /\ \A i \in 1 .. h - 1 + 1 : SubSeq(history', 1, h)[i] = history'[1 + i - 1]
    BY <1>1, <2>1, SubSeqProperties
  <2> DEFINE s == SubSeq(history', 1, h)
  <2> HIDE DEF s
  <2>3. s \in Seq(Messages) /\ Len(s) = h /\ \A i \in 1 .. h : s[i] = history[i]
    BY <1>1, <2>2 DEF s
  <2>4. s = history
    BY <1>1, <2>3, SeqEqual DEF h
  <2> QED BY <2>4 DEF s
<1>3. /\ NewPart \in Seq(Messages) /\ Len(NewPart) = m - h
      /\ \A i \in 1 .. m - h : NewPart[i] = history'[h + i]
  <2>1. \A i \in h + 1 .. m : history'[i] \in Messages
    BY <1>1 DEF m
  <2>2. h + 1 \in Int /\ m \in Int
    BY <1>1
  <2>3. /\ SubSeq(history', h + 1, m) \in Seq(Messages)
        /\ Len(SubSeq(history', h + 1, m)) = IF h + 1 <= m THEN m - (h + 1) + 1 ELSE 0
        /\ \A i \in 1 .. m - (h + 1) + 1 :
             SubSeq(history', h + 1, m)[i] = history'[h + 1 + i - 1]
    BY <2>1, <2>2, SubSeqProperties
  <2>4. NewPart = SubSeq(history', h + 1, m)
    BY DEF NewPart, h, m
  <2> HIDE DEF NewPart
  <2>5. Len(NewPart) = m - h
    BY <1>1, <2>3, <2>4
  <2>6. \A i \in 1 .. m - h : i \in 1 .. m - (h + 1) + 1 /\ h + 1 + i - 1 = h + i
    BY <1>1
  <2> QED BY <2>3, <2>4, <2>5, <2>6
<1> HIDE DEF NewPart
<1>4. DOMAIN NewPart = 1 .. m - h /\ DOMAIN history = 1 .. h
  BY <1>1, <1>3 DEF h
<1>5. ASSUME NEW i \in DOMAIN NewPart
      PROVE  /\ \A k \in DOMAIN history : history[k].id < NewPart[i].id
             /\ \A j \in DOMAIN NewPart : i < j => NewPart[i].id < NewPart[j].id
             /\ NewPart[i].id \in Int
  <2>1. h + i \in h + 1 .. m /\ NewPart[i] = history'[h + i]
    BY <1>1, <1>3, <1>4
  <2>2. NewPart[i] \in Messages
    BY <1>1, <2>1 DEF m
  <2>3. \A k \in 1 .. h : history[k].id < history'[h + i].id
    BY <1>1, <2>1 DEF NewInOrder, h, m
  <2>4. ASSUME NEW j \in DOMAIN NewPart, i < j PROVE NewPart[i].id < NewPart[j].id
    <3>1. h + j \in h + i + 1 .. m /\ NewPart[j] = history'[h + j]
      BY <1>1, <1>3, <1>4, <2>4
    <3> QED BY <1>1, <2>1, <3>1 DEF NewInOrder, m
  <2>5. NewPart[i].id \in Int
    BY <2>2, AgentAssumption DEF Messages
  <2> QED BY <1>4, <2>1, <2>3, <2>4, <2>5
<1>6. Ids(NewPart) \cap Ids(history) = {}
  <2> SUFFICES ASSUME NEW i \in DOMAIN NewPart, NEW k \in DOMAIN history,
                      NewPart[i].id = history[k].id
               PROVE  FALSE
    BY DEF Ids
  <2> QED BY <1>5
<1>7. \A i, j \in DOMAIN NewPart : NewPart[i].id = NewPart[j].id => i = j
  <2> SUFFICES ASSUME NEW i \in DOMAIN NewPart, NEW j \in DOMAIN NewPart,
                      NewPart[i].id = NewPart[j].id, i # j
               PROVE  FALSE
    OBVIOUS
  <2>1. i < j \/ j < i
    BY <1>1, <1>4
  <2> QED BY <1>5, <2>1
<1> QED BY <1>2, <1>6, <1>7 DEF OnlyNewAppended, h

(* With a system prompt, or in a new conversation, a run extends the       *)
(* history by its own messages, each once: however it ends.                *)
THEOREM RunsAppendOnlyNew == Spec => AppendsOnlyNewWithPrompt
<1>1. ASSUME AgentInv, [Next]_vars, RunEnds, prompt # EmptyPrompt \/ history = <<>>
      PROVE  OnlyNewAppended
  <2>1. Keeps(fresh')
    BY <1>1, EndSteps, RunEndsInOrder DEF AgentInv
  <2>2. TypeOK /\ TypeOK'
    BY <1>1, TypeStep DEF AgentInv
  <2> QED BY <1>1, <2>1, <2>2, KeptAreNew
<1>2. AgentInv /\ [Next]_vars =>
        [RunEnds /\ (prompt # EmptyPrompt \/ history = <<>>) => OnlyNewAppended]_vars
  BY <1>1
<1> QED BY <1>2, AgentInvariant, PTL DEF Spec, AppendsOnlyNewWithPrompt

(* The calls left open, place by place.                                    *)
LEMMA OpenCalls ==
  ASSUME NEW h \in Seq(Messages), NEW call
  PROVE  call \in Unanswered(h) <=>
           \E i \in 1 .. Len(h) : Calls(h, i) /\ AnswersTo(h, i) = {} /\ call = h[i].call
<1>1. DOMAIN h = 1 .. Len(h)
  OBVIOUS
<1>2. ASSUME NEW i
      PROVE  (\A k \in i + 1 .. Len(h) : h[k].role = "tool" => h[k].call # h[i].call)
               <=> AnswersTo(h, i) = {}
  BY DEF AnswersTo
<1> QED BY <1>1, <1>2 DEF Unanswered, Calls

(* What is open when part of the request is added to the history was open  *)
(* before, or is still to be executed.                                     *)
LEMMA RememberLeaves ==
  ASSUME TypeOK, RunShape, RequestOfHistory, pc \in {"loop", "tools"},
         NEW msgs \in Seq(Messages), Len(messages) <= Len(msgs),
         \A i \in 1 .. Len(messages) : msgs[i] = messages[i],
         \A i \in Before(prompt, history) + 2 .. Len(msgs) :
           Calls(msgs, i) /\ AnswersTo(msgs, i) = {} => msgs[i].call \in todo,
         Remember(msgs)
  PROVE  Unanswered(history') \subseteq Unanswered(history) \cup todo
<1> DEFINE b == Before(prompt, history)
           h == Len(history)
           u == UserMsgIndex
           n == Len(messages)
           m == Len(msgs)
<1>1. /\ h \in Nat /\ n \in Nat /\ m \in Nat /\ u \in Nat /\ b \in Nat
      /\ b + 1 <= n /\ n <= m /\ u <= m /\ history \in Seq(Messages)
      /\ prompt # EmptyPrompt => u = b
      /\ prompt = EmptyPrompt => u = 0 /\ b = h
  BY IndexInRequest DEF TypeOK, RunShape, Before, UserMsgIndex
<1>2. /\ history' \in Seq(Messages) /\ Len(history') = h + m - u
      /\ \A i \in 1 .. h : history'[i] = history[i]
      /\ \A i \in 1 .. m - u : history'[h + i] = msgs[u + i]
  BY <1>1, RememberFacts
<1>3. /\ messages[b + 1].role = "user"
      /\ \A i \in 1 .. h : messages[b - h + i] = history[i]
  BY DEF RequestOfHistory
<1>4. /\ \A i \in 1 .. n : msgs[i] = messages[i]
      /\ \A i \in b + 2 .. m : Calls(msgs, i) /\ AnswersTo(msgs, i) = {} => msgs[i].call \in todo
  OBVIOUS
<1> HIDE DEF b, h, u, n, m
<1> SUFFICES ASSUME NEW call \in Unanswered(history')
             PROVE  call \in Unanswered(history) \cup todo
  OBVIOUS
<1> PICK p \in 1 .. Len(history') :
       Calls(history', p) /\ AnswersTo(history', p) = {} /\ call = history'[p].call
  <2> DEFINE new == history'
  <2>1. new \in Seq(Messages) /\ call \in Unanswered(new)
    BY <1>2
  <2> HIDE DEF new
  <2>2. \E i \in 1 .. Len(new) :
           Calls(new, i) /\ AnswersTo(new, i) = {} /\ call = new[i].call
    BY <2>1, OpenCalls
  <2> QED BY <2>2 DEF new
<1>5. CASE p <= h
  <2>1. p \in 1 .. h /\ history'[p] = history[p]
    BY <1>1, <1>2, <1>5
  <2>2. AnswersTo(history, p) = {}
    <3> SUFFICES ASSUME NEW k \in AnswersTo(history, p) PROVE FALSE
      OBVIOUS
    <3>1. /\ k \in p + 1 .. h /\ history[k].role = "tool"
          /\ history[k].call = history[p].call
      BY DEF AnswersTo, h
    <3>2. k \in 1 .. h /\ k \in p + 1 .. Len(history')
      BY <1>1, <1>2, <2>1, <3>1
    <3>3. k \in AnswersTo(history', p)
      BY <1>2, <2>1, <3>1, <3>2 DEF AnswersTo
    <3> QED BY <3>3
  <2>3. Calls(history, p)
    BY <2>1 DEF Calls
  <2> QED BY <1>1, <2>1, <2>2, <2>3, OpenCalls DEF h
<1>6. CASE p > h
  <2> DEFINE q == u + (p - h)
  <2>1. /\ q \in u + 1 .. m /\ p = h + (q - u) /\ p - h \in 1 .. m - u
        /\ h + (p - h) = p
    BY <1>1, <1>2, <1>6
  <2>2. history'[p] = msgs[q]
    <3>1. history'[h + (p - h)] = msgs[u + (p - h)]
      BY <1>2, <2>1
    <3> QED BY <2>1, <3>1
  <2> HIDE DEF q
  <2>3. AnswersTo(msgs, q) = {}
    <3> SUFFICES ASSUME NEW k \in AnswersTo(msgs, q) PROVE FALSE
      OBVIOUS
    <3>1. k \in q + 1 .. m /\ msgs[k].role = "tool" /\ msgs[k].call = msgs[q].call
      BY DEF AnswersTo, m
    <3>2. k - u \in 1 .. m - u /\ u + (k - u) = k /\ h + (k - u) \in p + 1 .. Len(history')
      BY <1>1, <1>2, <2>1, <3>1
    <3>3. history'[h + (k - u)] = msgs[k]
      BY <1>2, <3>2
    <3>4. h + (k - u) \in AnswersTo(history', p)
      BY <2>2, <3>1, <3>2, <3>3 DEF AnswersTo
    <3> QED BY <3>4
  <2>4. Calls(msgs, q)
    BY <2>2 DEF Calls
  <2>5. CASE q >= b + 2
    <3>1. q \in b + 2 .. m
      BY <1>1, <2>1, <2>5
    <3> QED BY <1>4, <2>2, <2>3, <2>4, <3>1
  <2>6. CASE q = b + 1
    <3>1. b + 1 \in 1 .. n
      BY <1>1
    <3>2. msgs[q].role = "user"
      BY <1>3, <1>4, <2>6, <3>1
    <3> QED BY <2>4, <3>2 DEF Calls
  <2>7. CASE q <= b
    <3>1. u = 0 /\ b = h /\ q \in 1 .. h
      BY <1>1, <2>1, <2>7
    <3>2. \A i \in 1 .. h : msgs[i] = history[i]
      <4>1. \A i \in 1 .. h : b - h + i = i /\ i \in 1 .. n
        BY <1>1, <3>1
      <4> QED BY <1>3, <1>4, <4>1
    <3>3. AnswersTo(history, q) = {}
      <4> SUFFICES ASSUME NEW k \in AnswersTo(history, q) PROVE FALSE
        OBVIOUS
      <4>1. /\ k \in q + 1 .. h /\ history[k].role = "tool"
            /\ history[k].call = history[q].call
        BY DEF AnswersTo, h
      <4>2. k \in 1 .. h /\ k \in q + 1 .. m
        BY <1>1, <3>1, <4>1
      <4>3. k \in AnswersTo(msgs, q)
        BY <3>1, <3>2, <4>1, <4>2 DEF AnswersTo, m
      <4> QED BY <2>3, <4>3
    <3>4. Calls(history, q) /\ call = history[q].call
      BY <2>2, <2>4, <3>1, <3>2 DEF Calls
    <3>5. q \in 1 .. Len(history)
      BY <3>1 DEF h
    <3> QED BY <1>1, <3>3, <3>4, <3>5, OpenCalls
  <2>8. q >= b + 2 \/ q = b + 1 \/ q <= b
    BY <1>1, <2>1
  <2> QED BY <2>5, <2>6, <2>7, <2>8
<1> QED BY <1>1, <1>2, <1>5, <1>6

(* An agent with tools leaves open what was open in the history it began   *)
(* with, and what a tool that threw was to execute: after any ending of a  *)
(* run, with the old history copied or not.                                *)
THEOREM RunsLeaveNoCall == Spec => NoCallLeftBehind
<1>1. ASSUME AgentInv, [Next]_vars, RunEnds, hasTools
      PROVE  Unanswered(history') \subseteq Unanswered(history) \cup todo
  <2>1. TypeOK /\ RunShape /\ CallsInHand /\ RequestOfHistory
    BY <1>1 DEF AgentInv
  <2>2. messages \in Seq(Messages) /\ Len(messages) \in Nat
    BY <2>1 DEF TypeOK
  <2>3. ASSUME pc \in {"loop", "tools"},
               NEW i \in Before(prompt, history) + 2 .. Len(messages),
               Calls(messages, i), AnswersTo(messages, i) = {}
        PROVE  messages[i].call \in todo
    BY <2>1, <2>3 DEF CallsInHand, OutstandingOrAnswered
  <2>4. CASE Throw \/ LeaveLoop
    <3>1. pc \in {"loop", "tools"} /\ Remember(messages)
      BY <2>4 DEF Throw, LeaveLoop
    <3>2. /\ Len(messages) <= Len(messages)
          /\ \A i \in Before(prompt, history) + 2 .. Len(messages) :
               Calls(messages, i) /\ AnswersTo(messages, i) = {} => messages[i].call \in todo
      BY <2>2, <2>3, <3>1
    <3> QED BY <2>1, <2>2, <3>1, <3>2, RememberLeaves
  <2>5. CASE PlainFailure \/ EmptyReply
    <3>1. history' = history
      BY <2>5 DEF PlainFailure, EmptyReply
    <3> QED BY <3>1
  <2>6. ASSUME NEW reply \in Replies, FinalReply(reply)
        PROVE  Unanswered(history') \subseteq Unanswered(history) \cup todo
    <3>1. /\ pc = "loop" /\ fresh + Len(reply) <= MaxMessages /\ CallsOf(reply) = {}
          /\ Remember(messages \o ReplyMessages(reply))
      BY <2>6 DEF FinalReply
    <3>2. /\ Len(reply) \in Nat
          /\ \A i \in 1 .. Len(reply) :
               ReplyMessages(reply)[i] = Msg("assistant", fresh + i, NoCall)
      BY <2>1, <3>1, ReplyFacts
    <3>3. PICK msgs \in Seq(Messages) :
             /\ msgs = messages \o ReplyMessages(reply)
             /\ Longer(msgs, messages, fresh, Len(reply))
             /\ \A i \in 1 .. Len(reply) : msgs[Len(messages) + i] = ReplyMessages(reply)[i]
      BY <2>1, <3>1, ResponseIsLonger
    <3>4. /\ Len(msgs) = Len(messages) + Len(reply)
          /\ \A i \in 1 .. Len(messages) : msgs[i] = messages[i]
      BY <3>3 DEF Longer
    <3>5. ASSUME NEW i \in Before(prompt, history) + 2 .. Len(msgs), Calls(msgs, i),
                 AnswersTo(msgs, i) = {}
          PROVE  msgs[i].call \in todo
      <4>1. Before(prompt, history) \in Nat
        BY <2>1 DEF Before, TypeOK
      <4>2. i <= Len(messages)
        <5>1. CASE i > Len(messages)
          <6>1. PICK j \in 1 .. Len(reply) : i = Len(messages) + j
            <7>1. i - Len(messages) \in 1 .. Len(reply)
              BY <2>2, <3>2, <3>4, <4>1, <5>1
            <7>2. i = Len(messages) + (i - Len(messages))
              BY <2>2, <4>1
            <7> QED BY <7>1, <7>2
          <6>2. msgs[i] = Msg("assistant", fresh + j, NoCall)
            BY <3>2, <3>3, <6>1
          <6>3. msgs[i].call = NoCall
            BY <6>2 DEF Msg
          <6> QED BY <3>5, <6>3 DEF Calls
        <5> QED BY <2>2, <4>1, <5>1
      <4>3. i \in Before(prompt, history) + 2 .. Len(messages) /\ msgs[i] = messages[i]
        BY <2>2, <3>4, <4>1, <4>2
      <4>4. AnswersTo(messages, i) = {}
        <5> SUFFICES ASSUME NEW k \in AnswersTo(messages, i) PROVE FALSE
          OBVIOUS
        <5>1. /\ k \in i + 1 .. Len(messages) /\ messages[k].role = "tool"
              /\ messages[k].call = messages[i].call
          BY DEF AnswersTo
        <5>2. k \in 1 .. Len(messages) /\ k \in i + 1 .. Len(msgs)
          BY <2>2, <3>2, <3>4, <4>1, <4>3, <5>1
        <5>3. k \in AnswersTo(msgs, i)
          BY <3>4, <4>3, <5>1, <5>2 DEF AnswersTo
        <5> QED BY <3>5, <5>3
      <4>5. Calls(messages, i)
        BY <3>5, <4>3 DEF Calls
      <4> QED BY <2>3, <3>1, <4>3, <4>4, <4>5
    <3>6. Remember(msgs) /\ Len(messages) <= Len(msgs) /\ pc \in {"loop", "tools"}
      BY <2>2, <3>1, <3>2, <3>3, <3>4
    <3> QED BY <2>1, <3>4, <3>5, <3>6, RememberLeaves
  <2>7. ASSUME NEW reply \in Replies, PlainReply(reply) PROVE FALSE
    BY <1>1, <2>1, <2>7 DEF PlainReply, RunShape
  <2> QED BY <1>1, <2>4, <2>5, <2>6, <2>7, EndSteps
<1>2. AgentInv /\ [Next]_vars =>
        [RunEnds /\ hasTools =>
           Unanswered(history') \subseteq Unanswered(history) \cup todo]_vars
  BY <1>1
<1> QED BY <1>2, AgentInvariant, PTL DEF Spec, NoCallLeftBehind

(* What ResultTellsTruth says of the result of one run.                    *)
TellsTruth ==
  /\ result'.steps >= 0
  /\ hasTools => result'.steps = 0 \/ result'.steps <= maxIterations
  /\ IF result'.completed
     THEN LET last == history'[Len(history')] IN
          /\ last.role = "assistant"
          /\ last.id = result'.answer
          /\ hasTools => last.call = NoCall
     ELSE result'.answer = ErrorText

(* Without tools a run completes with the response's last message, or      *)
(* fails.                                                                  *)
LEMMA PlainTellsTruth ==
  ASSUME TypeOK, RunShape,
         PlainFailure \/ \E reply \in Replies : PlainReply(reply)
  PROVE  TellsTruth
<1>1. CASE PlainFailure
  <2>1. result' = Failed(0)
    BY <1>1 DEF PlainFailure, Return
  <2> QED BY <2>1 DEF Failed, TellsTruth
<1>2. ASSUME NEW reply \in Replies, PlainReply(reply) PROVE TellsTruth
  <2> DEFINE user == messages[Len(messages)]
             last == ReplyMessages(reply)[Len(reply)]
  <2>1. /\ pc = "plain" /\ fresh + Len(reply) <= MaxMessages
        /\ result' = Completed(1, fresh + Len(reply))
        /\ history' = history \o <<user, last>>
    BY <1>2 DEF PlainReply, Return
  <2>2. /\ Len(reply) \in 1 .. Len(reply) /\ Len(reply) \in Nat
        /\ ReplyMessages(reply) \in Seq(Messages) /\ Len(ReplyMessages(reply)) = Len(reply)
    BY <2>1, ReplyFacts
  <2>3. last.role = "assistant" /\ last.id = fresh + Len(reply)
    <3>1. \A i, call : /\ Msg("assistant", i, call).role = "assistant"
                       /\ Msg("assistant", i, call).id = i
      BY DEF Msg
    <3> QED BY <2>1, <2>2, <3>1, ReplyFacts
  <2>4. ~hasTools /\ messages # <<>> /\ messages \in Seq(Messages)
    BY <2>1 DEF RunShape, TypeOK
  <2>5. user \in Messages /\ last \in Messages /\ history \in Seq(Messages)
    BY <2>2, <2>4 DEF TypeOK
  <2> HIDE DEF user, last
  <2>6. history'[Len(history')] = last
    BY <2>1, <2>5
  <2>7. result'.completed /\ result'.steps = 1 /\ result'.answer = fresh + Len(reply)
    BY <2>1 DEF Completed
  <2> QED BY <2>3, <2>4, <2>6, <2>7 DEF TellsTruth
<1> QED BY <1>1, <1>2

(* With tools a run that completes has stopped before the limit, on a      *)
(* response without calls; any other has failed.                           *)
LEMMA LoopTellsTruth ==
  ASSUME TypeOK, RunShape,
         \/ \E reply \in Replies : FinalReply(reply)
         \/ EmptyReply \/ Throw \/ LeaveLoop
  PROVE  TellsTruth
<1>1. /\ steps \in Nat /\ maxIterations \in Int /\ pc \in {"loop", "tools"}
      /\ steps = 0 \/ steps <= maxIterations
  BY AgentAssumption DEF TypeOK, RunShape, FinalReply, EmptyReply, Throw, LeaveLoop
<1>2. ASSUME NEW n \in Nat, n = 0 \/ n <= maxIterations, result' = Failed(n)
      PROVE  TellsTruth
  BY <1>2 DEF Failed, TellsTruth
<1>3. CASE EmptyReply \/ Throw
  BY <1>1, <1>2, <1>3 DEF EmptyReply, Throw, Return
<1>4. CASE LeaveLoop
  <2>1. result' = Failed(steps)
    BY <1>4 DEF LeaveLoop, Return, AfterLoop
  <2> QED BY <1>1, <1>2, <2>1
<1>5. ASSUME NEW reply \in Replies, FinalReply(reply) PROVE TellsTruth
  <2>1. /\ pc = "loop" /\ steps < maxIterations /\ fresh + Len(reply) <= MaxMessages
        /\ CallsOf(reply) = {}
        /\ result' = AfterLoop(steps + 1, Completed(steps + 1, fresh + Len(reply)))
        /\ Remember(messages \o ReplyMessages(reply))
    BY <1>5 DEF FinalReply, Return
  <2>2. steps + 1 \in Nat /\ steps + 1 <= maxIterations
    BY <1>1, <2>1
  <2>3. CASE steps + 1 >= maxIterations
    <3>1. result' = Failed(steps + 1)
      BY <2>1, <2>3 DEF AfterLoop
    <3> QED BY <1>2, <2>2, <3>1
  <2>4. CASE ~(steps + 1 >= maxIterations)
    <3>1. result' = Completed(steps + 1, fresh + Len(reply))
      BY <2>1, <2>4 DEF AfterLoop
    <3>2. /\ Len(reply) \in Nat /\ Len(reply) \in 1 .. Len(reply)
          /\ ReplyMessages(reply)[Len(reply)] = Msg("assistant", fresh + Len(reply), NoCall)
      BY <2>1, ReplyFacts
    <3>3. PICK msgs \in Seq(Messages) :
             /\ msgs = messages \o ReplyMessages(reply)
             /\ Longer(msgs, messages, fresh, Len(reply))
             /\ msgs[Len(messages) + Len(reply)] = ReplyMessages(reply)[Len(reply)]
      BY <2>1, <3>2, ResponseIsLonger
    <3>4. /\ Len(msgs) = Len(messages) + Len(reply) /\ Len(messages) \in Nat
          /\ UserMsgIndex \in Nat /\ UserMsgIndex < Len(msgs) /\ Len(history) \in Nat
      BY <1>1, <3>2, <3>3, IndexInRequest DEF Longer, TypeOK
    <3> DEFINE u == UserMsgIndex
    <3> HIDE DEF u
    <3>5. /\ Len(history') = Len(history) + Len(msgs) - u
          /\ \A i \in 1 .. Len(msgs) - u : history'[Len(history) + i] = msgs[u + i]
      <4>1. Remember(msgs) /\ UserMsgIndex <= Len(msgs)
        BY <2>1, <3>3, <3>4
      <4> QED BY <4>1, RememberFacts DEF u
    <3>6. /\ Len(msgs) - u \in 1 .. Len(msgs) - u
          /\ Len(history) + (Len(msgs) - u) = Len(history')
          /\ u + (Len(msgs) - u) = Len(msgs)
      BY <3>4, <3>5 DEF u
    <3>7. history'[Len(history')] = msgs[Len(msgs)]
      BY <3>5, <3>6
    <3>8. history'[Len(history')] = Msg("assistant", fresh + Len(reply), NoCall)
      BY <3>2, <3>3, <3>4, <3>7
    <3> QED BY <2>2, <3>1, <3>8 DEF Completed, Msg, TellsTruth
  <2> QED BY <2>3, <2>4
<1> QED BY <1>3, <1>4, <1>5

(* However a run ends, what it returns was assigned by this run and agrees *)
(* with the history it leaves, within the limit of iterations.             *)
THEOREM ResultsTellTruth == Spec => ResultTellsTruth
<1>1. AgentInv /\ [Next]_vars => [RunEnds => TellsTruth]_vars
  BY EndSteps, PlainTellsTruth, LoopTellsTruth DEF AgentInv
<1> QED BY <1>1, AgentInvariant, PTL DEF Spec, ResultTellsTruth, TellsTruth
=============================================================================
