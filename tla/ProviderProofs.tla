--------------------------- MODULE ProviderProofs ---------------------------
(***************************************************************************)
(* Theorems about Provider for any number of threads, of setter calls and  *)
(* of values of the configuration.                                         *)
(*                                                                         *)
(* ProviderInv is inductive.  Its parts besides the properties: the        *)
(* configuration in force is among those of every call's time              *)
(* (ConfInForce); a request is built from one of these (RequestsBuilt);    *)
(* the key is a header whenever the lock is free (HeaderInserted); a       *)
(* client its own call still holds has the call's url and a timeout of its *)
(* time (ClientsConfigured); and, for serial use, a future is held for     *)
(* every thread (FuturesHeld) and a call inside is alone (Serial).         *)
(***************************************************************************)
EXTENDS Provider, TLAPS

-----------------------------------------------------------------------------
(* Steps seen alike.                                                       *)

(* The setters: a new configuration, and for set_api_key its header to     *)
(* follow.                                                                 *)
Reconfigures(newConf) ==
  /\ Configure(newConf)
  /\ newConf \in Confs
  /\ UNCHANGED headers
  /\ \/ newConf.key = conf.key /\ UNCHANGED <<keying, misused>>
     \/ keying' = KeyInHeader /\ misused' = (misused \/ InUse)

(* The arguments of the setters are members of the types they belong to.   *)
LEMMA SettersReconfigure ==
  ASSUME TypeOK, Setter
  PROVE  \E newConf \in Confs : Reconfigures(newConf)
<1> USE DEF TypeOK, Confs
<1>1. ASSUME NEW k \in Keys, SetApiKey(k)
      PROVE  Reconfigures([conf EXCEPT !.key = k])
  BY <1>1 DEF SetApiKey, Reconfigures
<1>2. ASSUME NEW m \in Models, SetModel(m)
      PROVE  Reconfigures([conf EXCEPT !.model = m])
  BY <1>2 DEF SetModel, Reconfigures
<1>3. ASSUME NEW u \in Urls, SetBaseUrl(u)
      PROVE  Reconfigures([conf EXCEPT !.url = u])
  BY <1>3 DEF SetBaseUrl, Reconfigures
<1>4. ASSUME NEW t \in Timeouts, SetTimeout(t)
      PROVE  Reconfigures([conf EXCEPT !.timeout = t])
  BY <1>4 DEF SetTimeout, Reconfigures
<1> HIDE DEF TypeOK, Confs
<1>5. \A nc : Reconfigures(nc) => nc \in Confs
  BY DEF Reconfigures
<1> QED BY <1>1, <1>2, <1>3, <1>4, <1>5 DEF Setter

(* The ways a call ends.                                                   *)
Returns(c) ==
  /\ Inside(c)
  /\ \E answer \in Answers \cup {None}, value \in Values :
       /\ Return(c, answer, value)
       /\ value = "undefined" => gone \/ (pc[c] = "waiting" /\ ~sent[c].defined)

(* The two ways a call begins.                                             *)
Begins(c) == \E o \in Ops, m \in Models \cup {None} : Begin(c, o, m)

(* What the types need to know of a call under way: it has a callback only *)
(* after a reply, and from update_client on there is a client.             *)
Underway ==
  \A c \in Callers :
    /\ pc[c] = "callback" => "reply" \in Answers
    /\ pc[c] \in {"configuring", "sending", "waiting"} => client # None

(* Whatever Post did, the call ends with one of the Answers and Values.    *)
LEMMA EndingsReturn ==
  ASSUME Underway, NEW c \in Callers,
         \/ ClaudeEmbed(c) \/ CallbackReturns(c) \/ ReceiveUndefined(c)
         \/ UseAfterEnd(c) \/ \E answer \in Answers : Receive(c, answer)
  PROVE  Returns(c)
<1>1. ASSUME NEW answer \in Answers, Receive(c, answer) PROVE Returns(c)
  <2>1. Value(op[c], answer) \in Values \ {"undefined"}
    BY DEF Value, ChatValue, SafeValue, EmbedValue, Values
  <2> QED BY <1>1, <2>1 DEF Receive, Returns, Inside
<1>2. CASE CallbackReturns(c)
  <2>1. "reply" \in Answers /\ "ok" \in Values
    BY <1>2 DEF CallbackReturns, Underway, Values
  <2> QED BY <1>2, <2>1 DEF CallbackReturns, Returns, Inside
<1>3. CASE ClaudeEmbed(c)
  <2>1. "APIError" \in Values
    BY DEF Values
  <2> QED BY <1>3, <2>1 DEF ClaudeEmbed, Returns, Inside
<1>4. CASE ReceiveUndefined(c) \/ UseAfterEnd(c)
  <2>1. "undefined" \in Values
    BY DEF Values
  <2> QED BY <1>4, <2>1 DEF ReceiveUndefined, UseAfterEnd, Returns, Inside
<1> QED BY <1>1, <1>2, <1>3, <1>4

(* Every step of a provider is one of these.                               *)
LEMMA StepCases ==
  ASSUME TypeOK, Underway, [Next]_vars
  PROVE  \/ \E newConf \in Confs : Reconfigures(newConf)
         \/ InsertHeader
         \/ \E c \in Callers :
              \/ Begins(c) \/ Returns(c) \/ Snapshot(c) \/ AssignClient(c)
              \/ ConfigureClient(c) \/ Send(c) \/ Deliver(c) \/ Collect(c)
         \/ Destroy
         \/ UNCHANGED vars
<1>1. ASSUME NEW c \in Callers, NEW o \in Ops, Call(c, o) PROVE Begins(c)
  BY <1>1 DEF Call, Begins
<1>2. ASSUME NEW c \in Callers, CallNamingModel(c) PROVE Begins(c)
  <2>1. conf.model \in Models
    BY DEF TypeOK, Confs
  <2> QED BY <1>2, <2>1 DEF CallNamingModel, Begins
<1> QED
  BY <1>1, <1>2, SettersReconfigure, EndingsReturn DEF Next, CallerStep, Ended

-----------------------------------------------------------------------------
(* The types, with Underway, are inductive.                                *)

(* No step leaves the types.                                               *)
LEMMA TypeStep == TypeOK /\ Underway /\ [Next]_vars => TypeOK' /\ Underway'
<1> SUFFICES ASSUME TypeOK, Underway, [Next]_vars PROVE TypeOK' /\ Underway'
  OBVIOUS
<1> USE ProviderAssumption DEF TypeOK, Underway
<1>1. ASSUME NEW newConf \in Confs, Reconfigures(newConf) PROVE TypeOK' /\ Underway'
  <2>1. /\ UNCHANGED <<kind, headers, client, pc, op, asked, request, sent, result, gone, held>>
        /\ conf' \in Confs /\ sets' \in 0 .. MaxSets
    BY <1>1 DEF Reconfigures, Configure
  <2>2. since' \in [Callers -> SUBSET Confs]
    BY <1>1 DEF Reconfigures, Configure
  <2>3. keying' \in BOOLEAN /\ misused' \in BOOLEAN /\ (keying' => KeyInHeader)
    <3>1. keying \in BOOLEAN /\ misused \in BOOLEAN /\ (keying => KeyInHeader)
      OBVIOUS
    <3>2. KeyInHeader \in BOOLEAN /\ InUse \in BOOLEAN
      BY DEF KeyInHeader, InUse
    <3> HIDE DEF TypeOK, Underway
    <3> QED BY <1>1, <3>1, <3>2 DEF Reconfigures
  <2> QED BY <2>1, <2>2, <2>3 DEF KeyInHeader
<1>2. CASE InsertHeader
  <2>1. conf.key \in Keys
    BY DEF Confs
  <2>2. headers' \in Seq(Keys) /\ keying' = FALSE
    BY <1>2, <2>1 DEF InsertHeader
  <2> QED BY <1>2, <2>2 DEF InsertHeader, lifetime, KeyInHeader
<1>3. ASSUME NEW c \in Callers, Begins(c) PROVE TypeOK' /\ Underway'
  <2>1. PICK o \in Ops, m \in Models \cup {None} : Begin(c, o, m)
    BY <1>3 DEF Begins
  <2>2. /\ UNCHANGED <<kind, conf, keying, headers, client, sets, request, sent, gone>>
        /\ op' \in [Callers -> Ops \cup {None}]
        /\ asked' \in [Callers -> Models \cup {None}]
        /\ held' \subseteq Callers /\ misused' \in BOOLEAN
    BY <2>1 DEF Begin, shared, InUse
  <2>3. /\ result' = [result EXCEPT ![c] = NoResult]
        /\ since' = [since EXCEPT ![c] = {conf}]
        /\ pc' = [pc EXCEPT ![c] = "locking"] /\ pc[c] = "idle"
    BY <2>1 DEF Begin
  <2>4. result' \in [Callers -> [answer : Answers \cup {None}, value : Values \cup {None}]]
    BY <2>3 DEF NoResult
  <2>5. since' \in [Callers -> SUBSET Confs]
    BY <2>3
  <2> QED BY <2>2, <2>3, <2>4, <2>5 DEF KeyInHeader
<1>4. ASSUME NEW c \in Callers, Returns(c) PROVE TypeOK' /\ Underway'
  BY <1>4 DEF Returns, Return, shared, lifetime, KeyInHeader
<1>5. ASSUME NEW c \in Callers, Snapshot(c) PROVE TypeOK' /\ Underway'
  <2>1. Request(c) \in Requests
    BY DEF Request, Requests, Confs, OpenAIEmbed, OpenAIRequest, ClaudeRequest,
           GeminiEmbed, GeminiRequest, ModelOf
  <2> QED BY <1>5, <2>1 DEF Snapshot, shared, lifetime, KeyInHeader
<1>6. ASSUME NEW c \in Callers, AssignClient(c) PROVE TypeOK' /\ Underway'
  <2>1. NewClient(c) \in Clients
    BY <1>6 DEF AssignClient, NewClient, Clients, Requests
  <2>2. \A d \in Callers : /\ Orphaned(d) \in OnTheWire \cup {None}
                           /\ Orphaned(d) = None <=> sent[d] = None
    BY DEF Orphaned, OnTheWire
  <2> QED BY <1>6, <2>1, <2>2 DEF AssignClient, lifetime, KeyInHeader
<1>7. ASSUME NEW c \in Callers, ConfigureClient(c) PROVE TypeOK' /\ Underway'
  <2>1. [client EXCEPT !.timeout = conf.timeout] \in Clients
    BY <1>7 DEF ConfigureClient, Clients, Confs
  <2> QED BY <1>7, <2>1 DEF ConfigureClient, lifetime, KeyInHeader
<1>8. ASSUME NEW c \in Callers, Send(c) PROVE TypeOK' /\ Underway'
  <2>1. [by |-> client.by, url |-> client.url, timeout |-> client.timeout,
         keys |-> ToSet(headers), defined |-> ~keying] \in OnTheWire
    <3>1. client \in Clients
      BY <1>8 DEF Send
    <3>2. ToSet(headers) \subseteq Keys
      BY DEF ToSet
    <3> QED BY <3>1, <3>2 DEF Clients, OnTheWire
  <2> QED BY <1>8, <2>1 DEF Send, shared, lifetime, KeyInHeader
<1>9. ASSUME NEW c \in Callers, Deliver(c) PROVE TypeOK' /\ Underway'
  BY <1>9 DEF Deliver, shared, lifetime, KeyInHeader
<1>10. ASSUME NEW c \in Callers, Collect(c) PROVE TypeOK' /\ Underway'
  BY <1>10 DEF Collect, shared, KeyInHeader
<1>11. CASE Destroy
  BY <1>11 DEF Destroy, shared, KeyInHeader
<1>12. CASE UNCHANGED vars
  BY <1>12 DEF vars, shared, lifetime, KeyInHeader
<1> HIDE DEF TypeOK, Underway
<1> QED
  BY <1>1, <1>2, <1>3, <1>4, <1>5, <1>6, <1>7, <1>8, <1>9, <1>10, <1>11,
     <1>12, StepCases

-----------------------------------------------------------------------------
(* The configuration in force, and what requests are built from.           *)
ConfInForce == \A c \in Callers : Inside(c) => conf \in since[c]

(* A request is built from one configuration, key and all.                 *)
BuiltFrom(c, k) ==
  /\ request[c].url = k.url
  /\ asked[c] = None => request[c].model = k.model
  /\ request[c].key = IF KeyInHeader THEN None ELSE k.key

RequestsBuilt ==
  \A c \in Callers : request[c] # None => \E k \in since[c] : BuiltFrom(c, k)

(* A step leaves the request of a call as it is, and its history no        *)
(* shorter, or is the call's own.                                          *)
Undisturbed(c) ==
  /\ request'[c] = request[c] /\ asked'[c] = asked[c]
  /\ since[c] \subseteq since'[c]

(* Every call but the one that takes the step keeps its request.           *)
LEMMA CallsUndisturbed ==
  ASSUME TypeOK, Underway, [Next]_vars, NEW c \in Callers
  PROVE  \/ Undisturbed(c)
         \/ Snapshot(c)
         \/ request'[c] = None
<1> USE DEF TypeOK, Undisturbed
<1>1. ASSUME NEW newConf \in Confs, Reconfigures(newConf) PROVE Undisturbed(c)
  BY <1>1 DEF Reconfigures, Configure
<1>2. CASE InsertHeader
  BY <1>2 DEF InsertHeader
<1>3. ASSUME NEW d \in Callers, Begins(d)
      PROVE  Undisturbed(c) \/ request'[c] = None
  BY <1>3 DEF Begins, Begin
<1>4. ASSUME NEW d \in Callers, Returns(d) PROVE Undisturbed(c) \/ request'[c] = None
  BY <1>4 DEF Returns, Return
<1>5. ASSUME NEW d \in Callers, Snapshot(d) PROVE Undisturbed(c) \/ Snapshot(c)
  BY <1>5 DEF Snapshot
<1>6. ASSUME NEW d \in Callers, AssignClient(d) \/ ConfigureClient(d) \/ Send(d) \/ Collect(d)
      PROVE  Undisturbed(c)
  BY <1>6 DEF AssignClient, ConfigureClient, Send, Collect
<1>7. ASSUME NEW d \in Callers, Deliver(d) PROVE Undisturbed(c) \/ request'[c] = None
  BY <1>7 DEF Deliver
<1>8. CASE Destroy \/ UNCHANGED vars
  BY <1>8 DEF Destroy, vars
<1> HIDE DEF TypeOK, Undisturbed
<1> QED BY <1>1, <1>2, <1>3, <1>4, <1>5, <1>6, <1>7, <1>8, StepCases

(* set_* replaces the configuration under the feet of the calls, and each  *)
(* call counts the new one among those of its time.                        *)
LEMMA ConfStep ==
  TypeOK /\ Underway /\ ConfInForce /\ [Next]_vars => ConfInForce'
<1> SUFFICES ASSUME TypeOK, Underway, ConfInForce, [Next]_vars PROVE ConfInForce'
  OBVIOUS
<1> USE DEF TypeOK, ConfInForce, Inside
<1>1. ASSUME NEW newConf \in Confs, Reconfigures(newConf) PROVE ConfInForce'
  BY <1>1 DEF Reconfigures, Configure
<1>2. CASE InsertHeader
  BY <1>2 DEF InsertHeader
<1>3. ASSUME NEW c \in Callers, Begins(c) PROVE ConfInForce'
  BY <1>3 DEF Begins, Begin, shared
<1>4. ASSUME NEW c \in Callers, Returns(c) PROVE ConfInForce'
  BY <1>4 DEF Returns, Return, shared
<1>5. ASSUME NEW c \in Callers, Snapshot(c) \/ Send(c) \/ Deliver(c) PROVE ConfInForce'
  BY <1>5 DEF Snapshot, Send, Deliver, shared
<1>6. ASSUME NEW c \in Callers, AssignClient(c) \/ ConfigureClient(c) PROVE ConfInForce'
  BY <1>6 DEF AssignClient, ConfigureClient
<1>7. ASSUME NEW c \in Callers, Collect(c) PROVE ConfInForce'
  BY <1>7 DEF Collect, shared
<1>8. CASE Destroy \/ UNCHANGED vars
  BY <1>8 DEF Destroy, shared, vars
<1> HIDE DEF TypeOK, ConfInForce, Inside
<1> QED BY <1>1, <1>2, <1>3, <1>4, <1>5, <1>6, <1>7, <1>8, StepCases

(* A provider stays of its class.                                          *)
LEMMA KindFixed == TypeOK /\ Underway /\ [Next]_vars => kind' = kind
BY StepCases
DEF Reconfigures, Configure, InsertHeader, Begins, Begin, Returns, Return, Snapshot,
    AssignClient, ConfigureClient, Send, Deliver, Collect, Destroy, shared, vars

(* The locked copy is of one configuration; later setters do not reach it. *)
LEMMA RequestsStep ==
  TypeOK /\ Underway /\ ConfInForce /\ RequestsBuilt /\ [Next]_vars => RequestsBuilt'
<1> SUFFICES ASSUME TypeOK, Underway, ConfInForce, RequestsBuilt, [Next]_vars,
                    NEW c \in Callers, request'[c] # None
             PROVE  \E k \in since'[c] : BuiltFrom(c, k)'
  BY DEF RequestsBuilt
<1>1. kind' = kind
  BY KindFixed
<1>2. CASE Undisturbed(c)
  BY <1>1, <1>2 DEF Undisturbed, RequestsBuilt, BuiltFrom, KeyInHeader
<1>3. CASE Snapshot(c)
  <2>1. PICK k \in since[c] : k = conf
    BY <1>3 DEF Snapshot, ConfInForce, Inside
  <2>2. UNCHANGED <<since, asked>> /\ request'[c] = Request(c)
    BY <1>3 DEF Snapshot, TypeOK
  <2>3. kind \in {"openai", "compatible", "claude", "gemini"}
    BY ProviderAssumption DEF TypeOK
  <2>4. BuiltFrom(c, k)'
    BY <1>1, <2>1, <2>2, <2>3
    DEF BuiltFrom, Request, ModelOf, KeyInHeader, OpenAIEmbed, OpenAIRequest,
        ClaudeRequest, GeminiEmbed, GeminiRequest
  <2> QED BY <2>2, <2>4
<1> QED BY <1>2, <1>3, CallsUndisturbed

-----------------------------------------------------------------------------
(* The header of the key, and what goes over the wire.                     *)

(* Where the key is a header, it is among the headers once the setter has  *)
(* given the lock back.                                                    *)
HeaderInserted == KeyInHeader /\ ~keying => conf.key \in ToSet(headers)

(* set_api_key keeps the lock until the header is there.                   *)
LEMMA HeaderStep ==
  TypeOK /\ Underway /\ HeaderInserted /\ [Next]_vars => HeaderInserted'
<1> SUFFICES ASSUME TypeOK, Underway, HeaderInserted, [Next]_vars PROVE HeaderInserted'
  OBVIOUS
<1>1. KeyInHeader' = KeyInHeader
  BY KindFixed DEF KeyInHeader
<1>2. ASSUME UNCHANGED <<headers, keying>>, conf'.key = conf.key PROVE HeaderInserted'
  BY <1>1, <1>2 DEF HeaderInserted
<1>3. ASSUME NEW newConf \in Confs, Reconfigures(newConf) PROVE HeaderInserted'
  <2>1. conf' = newConf
    BY <1>3 DEF Reconfigures, Configure
  <2>2. CASE newConf.key = conf.key /\ UNCHANGED <<keying, misused>>
    BY <1>2, <1>3, <2>1, <2>2 DEF Reconfigures
  <2>3. CASE keying' = KeyInHeader
    BY <1>1, <2>3 DEF HeaderInserted
  <2> QED BY <1>3, <2>2, <2>3 DEF Reconfigures
<1>4. CASE InsertHeader
  <2>1. headers \in Seq(Keys) /\ conf.key \in Keys
    BY DEF TypeOK, Confs
  <2>2. headers' = Append(headers, conf.key) /\ conf' = conf
    BY <1>4 DEF InsertHeader
  <2>3. Len(headers) + 1 \in DOMAIN headers' /\ headers'[Len(headers) + 1] = conf.key
    BY <2>1, <2>2
  <2> QED BY <2>2, <2>3 DEF HeaderInserted, ToSet
<1>5. ASSUME NEW c \in Callers,
             \/ Begins(c) \/ Returns(c) \/ Snapshot(c) \/ AssignClient(c)
             \/ ConfigureClient(c) \/ Send(c) \/ Deliver(c) \/ Collect(c)
      PROVE  HeaderInserted'
  BY <1>2, <1>5 DEF Begins, Begin, Returns, Return, Snapshot, AssignClient,
                    ConfigureClient, Send, Deliver, Collect, shared
<1>6. CASE Destroy \/ UNCHANGED vars
  BY <1>2, <1>6 DEF Destroy, shared, vars
<1> QED BY <1>3, <1>4, <1>5, <1>6, StepCases

(* What a call has on the wire stays there with its request and history,   *)
(* unless another call takes the connection away.                          *)
LEMMA WireUndisturbed ==
  ASSUME TypeOK, Underway, [Next]_vars, NEW c \in Callers, sent'[c] # None
  PROVE  \/ Send(c)
         \/ /\ Undisturbed(c) /\ pc[c] = "waiting" /\ sent[c] # None
            /\ \/ sent'[c] = sent[c]
               \/ /\ \E d \in Callers : AssignClient(d)
                  /\ sent'[c] = [sent[c] EXCEPT !.defined = FALSE]
<1>1. pc'[c] = "waiting" /\ request'[c] # None
  BY TypeStep DEF TypeOK
<1>2. ASSUME NEW newConf \in Confs, Reconfigures(newConf) PROVE UNCHANGED <<sent, pc>>
  BY <1>2 DEF Reconfigures, Configure
<1>3. ASSUME InsertHeader \/ Destroy \/ UNCHANGED vars PROVE UNCHANGED <<sent, pc>>
  BY <1>3 DEF InsertHeader, Destroy, vars
<1>4. ASSUME NEW d \in Callers, Begins(d) \/ Snapshot(d) \/ ConfigureClient(d) \/ Collect(d)
      PROVE sent'[c] = sent[c] /\ pc[c] = "waiting"
  BY <1>1, <1>4 DEF Begins, Begin, Snapshot, ConfigureClient, Collect, TypeOK
<1>5. ASSUME NEW d \in Callers, Returns(d) \/ Deliver(d)
      PROVE sent'[c] = sent[c] /\ pc[c] = "waiting"
  BY <1>1, <1>5 DEF Returns, Return, Deliver, TypeOK
<1>6. ASSUME NEW d \in Callers, Send(d), ~Send(c)
      PROVE sent'[c] = sent[c] /\ pc[c] = "waiting"
  <2>1. d # c
    BY <1>6
  <2> QED BY <1>1, <1>6, <2>1 DEF Send, TypeOK
<1>7. ASSUME NEW d \in Callers, AssignClient(d)
      PROVE /\ pc[c] = "waiting"
            /\ sent'[c] = [sent[c] EXCEPT !.defined = FALSE]
  BY <1>1, <1>7 DEF AssignClient, Orphaned, TypeOK
<1>8. ASSUME pc[c] = "waiting" PROVE Undisturbed(c) /\ sent[c] # None
  <2>1. ~Snapshot(c) /\ sent[c] # None
    BY <1>8 DEF Snapshot, TypeOK
  <2> QED BY <1>1, <2>1, CallsUndisturbed
<1> QED
  BY <1>1, <1>2, <1>3, <1>4, <1>5, <1>6, <1>7, <1>8, StepCases

(* The keys a request carries, the one that counts among them.             *)
LEMMA KeySentStep ==
  TypeOK /\ Underway /\ ConfInForce /\ RequestsBuilt /\ HeaderInserted
    /\ CurrentKeySent /\ [Next]_vars => CurrentKeySent'
<1> SUFFICES ASSUME TypeOK, Underway, ConfInForce, RequestsBuilt, HeaderInserted,
                    CurrentKeySent, [Next]_vars,
                    NEW c \in Callers, sent'[c] # None, sent'[c].defined
             PROVE  \E k \in since'[c] :
                      k.key \in IF KeyInHeader' THEN sent'[c].keys
                                                ELSE {request'[c].key}
  BY DEF CurrentKeySent
<1>1. KeyInHeader' = KeyInHeader
  BY KindFixed DEF KeyInHeader
<1>2. CASE Send(c)
  <2>1. /\ pc[c] = "sending" /\ UNCHANGED <<since, request>>
        /\ sent'[c].keys = ToSet(headers) /\ sent'[c].defined = ~keying
    BY <1>2 DEF Send, TypeOK
  <2>2. CASE KeyInHeader
    <3>1. conf \in since[c]
      BY <2>1 DEF ConfInForce, Inside
    <3>2. conf.key \in sent'[c].keys
      BY <2>1, <2>2 DEF HeaderInserted
    <3> QED BY <1>1, <2>1, <2>2, <3>1, <3>2
  <2>3. CASE ~KeyInHeader
    <3>1. PICK k \in since[c] : BuiltFrom(c, k)
      BY <2>1 DEF RequestsBuilt, TypeOK
    <3> QED BY <1>1, <2>1, <2>3, <3>1 DEF BuiltFrom
  <2> QED BY <2>2, <2>3
<1>3. CASE ~Send(c)
  <2>1. /\ Undisturbed(c) /\ sent[c] # None /\ pc[c] = "waiting"
        /\ \/ sent'[c] = sent[c]
           \/ sent'[c] = [sent[c] EXCEPT !.defined = FALSE]
    BY <1>3, WireUndisturbed
  <2>2. sent[c] \in OnTheWire
    BY <2>1 DEF TypeOK
  <2>3. [sent[c] EXCEPT !.defined = FALSE].defined = FALSE
    BY <2>2 DEF OnTheWire
  <2>4. sent'[c] = sent[c]
    BY <2>1, <2>3
  <2> QED BY <1>1, <2>1, <2>4 DEF CurrentKeySent, Undisturbed
<1> QED BY <1>2, <1>3

-----------------------------------------------------------------------------
(* The connection a call has made, as long as nobody replaces it.          *)
OwnClient(c) ==
  /\ client.url = request[c].url
  /\ pc[c] = "sending" => \E k \in since[c] : client.timeout = k.timeout

ClientsConfigured ==
  \A c \in Callers :
    pc[c] \in {"configuring", "sending"} /\ client.by = c => OwnClient(c)

(* update_client makes a connection for the url of the request, and sets   *)
(* the timeouts that are configured when it does.                          *)
LEMMA ClientStep ==
  TypeOK /\ Underway /\ ConfInForce /\ ClientsConfigured /\ [Next]_vars
    => ClientsConfigured'
<1> SUFFICES ASSUME TypeOK, Underway, ConfInForce, ClientsConfigured, [Next]_vars,
                    NEW c \in Callers, pc'[c] \in {"configuring", "sending"},
                    client'.by = c
             PROVE  OwnClient(c)'
  BY DEF ClientsConfigured
<1>1. CASE AssignClient(c)
  <2>1. /\ client' = NewClient(c) /\ request' = request
        /\ pc'[c] = "configuring"
    BY <1>1 DEF AssignClient, TypeOK
  <2> QED BY <2>1 DEF NewClient, OwnClient
<1>2. ASSUME NEW d \in Callers, d # c PROVE ~AssignClient(d)
  BY <1>2 DEF AssignClient, NewClient
<1>3. ASSUME NEW d \in Callers, ConfigureClient(d) PROVE OwnClient(c)'
  <2>1. PICK k \in Confs : k = conf
    BY DEF TypeOK
  <2>2. client \in Clients
    BY <1>3 DEF ConfigureClient, TypeOK, Underway
  <2>3. client' = [client EXCEPT !.timeout = k.timeout]
    BY <1>3, <2>1 DEF ConfigureClient
  <2>4. /\ client'.by = client.by /\ client'.url = client.url
        /\ client'.timeout = k.timeout
    BY <2>2, <2>3 DEF Clients
  <2>5. UNCHANGED <<since, request>> /\ pc[c] \in {"configuring", "sending"}
    BY <1>3 DEF ConfigureClient, TypeOK
  <2>6. k \in since[c]
    BY <2>1, <2>5 DEF ConfInForce, Inside
  <2> QED BY <2>4, <2>5, <2>6 DEF ClientsConfigured, OwnClient
<1>4. ASSUME client' = client, pc'[c] = pc[c] PROVE OwnClient(c)'
  <2>1. request'[c] # None
    BY TypeStep DEF TypeOK
  <2>2. ~Snapshot(c)
    BY <1>4 DEF Snapshot
  <2>3. Undisturbed(c)
    BY <2>1, <2>2, CallsUndisturbed
  <2>4. OwnClient(c)
    BY <1>4 DEF ClientsConfigured
  <2> QED BY <1>4, <2>3, <2>4 DEF OwnClient, Undisturbed
<1>5. ASSUME NEW newConf \in Confs, Reconfigures(newConf) PROVE UNCHANGED <<client, pc>>
  BY <1>5 DEF Reconfigures, Configure
<1>6. ASSUME NEW d \in Callers, 
             Begins(d) \/ Returns(d) \/ Snapshot(d) \/ Send(d) \/ Deliver(d) \/ Collect(d)
      PROVE  client' = client /\ pc'[c] = pc[c]
  BY <1>6 DEF Begins, Begin, Returns, Return, Snapshot, Send, Deliver, Collect, shared, TypeOK
<1>7. ASSUME InsertHeader \/ Destroy \/ UNCHANGED vars PROVE UNCHANGED <<client, pc>>
  BY <1>7 DEF InsertHeader, Destroy, shared, vars
<1> QED BY <1>1, <1>2, <1>3, <1>4, <1>5, <1>6, <1>7, StepCases

(* A request on the connection of its own call is sent as it was built.    *)
LEMMA SentStep ==
  TypeOK /\ Underway /\ ClientsConfigured /\ SentAsBuilt /\ [Next]_vars => SentAsBuilt'
<1> SUFFICES ASSUME TypeOK, Underway, ClientsConfigured, SentAsBuilt, [Next]_vars,
                    NEW c \in Callers, sent'[c] # None, sent'[c].by = c
             PROVE  /\ sent'[c].url = request'[c].url
                    /\ \E k \in since'[c] : sent'[c].timeout = k.timeout
  BY DEF SentAsBuilt
<1>1. CASE Send(c)
  <2>1. /\ pc[c] = "sending" /\ UNCHANGED <<since, request>>
        /\ sent'[c].by = client.by /\ sent'[c].url = client.url
        /\ sent'[c].timeout = client.timeout
    BY <1>1 DEF Send, TypeOK
  <2> QED BY <2>1 DEF ClientsConfigured, OwnClient
<1>2. CASE ~Send(c)
  <2>1. /\ Undisturbed(c) /\ sent[c] # None
        /\ \/ sent'[c] = sent[c]
           \/ sent'[c] = [sent[c] EXCEPT !.defined = FALSE]
    BY <1>2, WireUndisturbed
  <2>2. sent[c] \in OnTheWire
    BY <2>1 DEF TypeOK
  <2>3. /\ sent'[c].by = sent[c].by /\ sent'[c].url = sent[c].url
        /\ sent'[c].timeout = sent[c].timeout
    BY <2>1, <2>2 DEF OnTheWire
  <2> QED BY <2>1, <2>3 DEF SentAsBuilt, Undisturbed
<1> QED BY <1>1, <1>2

-----------------------------------------------------------------------------
(* One call at a time.                                                     *)

(* The owner holds the future of every thread of chat_async that runs.     *)
FuturesHeld == \A c \in Callers : Inside(c) /\ op[c] = "chat_async" => c \in held

(* Collect waits for the thread before it lets the future go.              *)
LEMMA FuturesStep == TypeOK /\ Underway /\ FuturesHeld /\ [Next]_vars => FuturesHeld'
<1> SUFFICES ASSUME TypeOK, Underway, FuturesHeld, [Next]_vars PROVE FuturesHeld'
  OBVIOUS
<1> USE DEF TypeOK, FuturesHeld, Inside
<1>1. ASSUME NEW newConf \in Confs, Reconfigures(newConf) PROVE FuturesHeld'
  BY <1>1 DEF Reconfigures, Configure
<1>2. CASE InsertHeader \/ Destroy \/ UNCHANGED vars
  BY <1>2 DEF InsertHeader, Destroy, lifetime, vars
<1>3. ASSUME NEW c \in Callers, Begins(c) PROVE FuturesHeld'
  BY <1>3 DEF Begins, Begin
<1>4. ASSUME NEW c \in Callers,
             \/ Returns(c) \/ Snapshot(c) \/ AssignClient(c)
             \/ ConfigureClient(c) \/ Send(c) \/ Deliver(c)
      PROVE  FuturesHeld'
  BY <1>4 DEF Returns, Return, Snapshot, AssignClient, ConfigureClient, Send,
              Deliver, lifetime
<1>5. ASSUME NEW c \in Callers, Collect(c) PROVE FuturesHeld'
  BY <1>5 DEF Collect
<1> HIDE DEF TypeOK, FuturesHeld, Inside
<1> QED BY <1>1, <1>2, <1>3, <1>4, <1>5, StepCases

(* Used one call at a time: the call inside is alone, has the connection   *)
(* for itself, and no header is inserted from its request on.              *)
Alone ==
  /\ \A c, d \in Callers : Inside(c) /\ Inside(d) => c = d
  /\ keying => \A c \in Callers : pc[c] \in {"idle", "locking"}
  /\ \A c \in Callers : pc[c] \in {"configuring", "sending"} => client.by = c

Unharmed ==
  \A c \in Callers :
    /\ result[c].value # "undefined"
    /\ gone => ~Inside(c)
    /\ sent[c] # None => sent[c].by = c /\ sent[c].defined

Serial == ~misused => Alone /\ Unharmed

(* What a step may do to a call inside, when it is alone.                  *)
LEMMA SerialStep ==
  TypeOK /\ Underway /\ FuturesHeld /\ Serial /\ [Next]_vars => Serial'
<1> SUFFICES ASSUME TypeOK, Underway, FuturesHeld, Serial, [Next]_vars, ~misused'
             PROVE  Alone' /\ Unharmed'
  BY DEF Serial
<1> USE DEF TypeOK, Alone, Unharmed, Inside
<1>1. misused = FALSE /\ Alone /\ Unharmed
  <2>1. misused => misused'
    BY StepCases
    DEF Reconfigures, InsertHeader, Begins, Begin, Returns, Return, Snapshot, AssignClient,
        ConfigureClient, Send, Deliver, Collect, Destroy, lifetime, vars
  <2> QED BY <2>1 DEF Serial
<1>2. ASSUME NEW newConf \in Confs, Reconfigures(newConf) PROVE Alone' /\ Unharmed'
  <2>1. UNCHANGED <<client, pc, sent, result, gone>> /\ ~keying
    BY <1>2 DEF Reconfigures, Configure
  <2>2. keying' => ~InUse
    BY <1>2, <2>1 DEF Reconfigures
  <2> QED BY <1>1, <2>1, <2>2 DEF InUse
<1>3. CASE InsertHeader \/ UNCHANGED vars
  BY <1>1, <1>3 DEF InsertHeader, lifetime, shared, vars
<1>4. ASSUME NEW c \in Callers, Begins(c) PROVE Alone' /\ Unharmed'
  <2>1. ~InUse /\ ~gone
    BY <1>4 DEF Begins, Begin
  <2>2. /\ UNCHANGED <<keying, client, sent, gone>>
        /\ pc' = [pc EXCEPT ![c] = "locking"]
        /\ result' = [result EXCEPT ![c] = NoResult]
    BY <1>4 DEF Begins, Begin, shared
  <2>3. NoResult.value # "undefined"
    BY ProviderAssumption DEF NoResult, Values
  <2>4. Alone'
    BY <1>1, <2>1, <2>2 DEF InUse
  <2> QED BY <1>1, <2>1, <2>2, <2>3, <2>4 DEF InUse
<1>5. ASSUME NEW c \in Callers, Returns(c) PROVE Alone' /\ Unharmed'
  <2>1. PICK answer \in Answers \cup {None}, value \in Values :
           /\ Return(c, answer, value)
           /\ value = "undefined" => gone \/ (pc[c] = "waiting" /\ ~sent[c].defined)
    BY <1>5 DEF Returns
  <2>2. value # "undefined"
    BY <1>1, <1>5, <2>1 DEF Returns
  <2>3. /\ UNCHANGED <<keying, client, gone>>
        /\ pc' = [pc EXCEPT ![c] = "idle"] /\ sent' = [sent EXCEPT ![c] = None]
        /\ result' = [result EXCEPT ![c] = [answer |-> answer, value |-> value]]
    BY <2>1 DEF Return, shared, lifetime
  <2> QED BY <1>1, <2>2, <2>3
<1>6. ASSUME NEW c \in Callers, Snapshot(c) \/ Deliver(c) PROVE Alone' /\ Unharmed'
  <2>1. /\ UNCHANGED <<keying, client, result, gone>>
        /\ \/ sent' = sent
           \/ sent' = [sent EXCEPT ![c] = None]
    BY <1>6 DEF Snapshot, Deliver, shared, lifetime
  <2>2. /\ Inside(c)
        /\ \/ pc' = [pc EXCEPT ![c] = "connecting"] /\ ~keying
           \/ pc' = [pc EXCEPT ![c] = "callback"] /\ pc[c] = "waiting"
    BY <1>6 DEF Snapshot, Deliver
  <2>3. Alone'
    BY <1>1, <2>1, <2>2
  <2>4. Unharmed'
    BY <1>1, <2>1, <2>2
  <2> QED BY <2>3, <2>4
<1>7. ASSUME NEW c \in Callers, AssignClient(c) PROVE Alone' /\ Unharmed'
  <2>1. sent' = sent
    BY <1>1, <1>7 DEF AssignClient, Orphaned
  <2> QED BY <1>1, <1>7, <2>1 DEF AssignClient, NewClient, lifetime
<1>8. ASSUME NEW c \in Callers, ConfigureClient(c) PROVE Alone' /\ Unharmed'
  <2>1. client'.by = client.by
    BY <1>8 DEF ConfigureClient, Underway, Clients
  <2> QED BY <1>1, <1>8, <2>1 DEF ConfigureClient, lifetime
<1>9. ASSUME NEW c \in Callers, Send(c) PROVE Alone' /\ Unharmed'
  <2>1. client.by = c /\ ~keying /\ pc[c] = "sending"
    BY <1>1, <1>9 DEF Send
  <2>2. /\ UNCHANGED <<keying, client, result, gone>>
        /\ pc' = [pc EXCEPT ![c] = "waiting"]
    BY <1>9 DEF Send, shared, lifetime
  <2>3. /\ sent'[c].by = c /\ sent'[c].defined
        /\ \A d \in Callers : d # c => sent'[d] = sent[d]
    BY <1>9, <2>1 DEF Send
  <2>4. Alone'
    BY <1>1, <2>1, <2>2
  <2>5. Unharmed'
    BY <1>1, <2>1, <2>2, <2>3
  <2> QED BY <2>4, <2>5
<1>10. ASSUME NEW c \in Callers, Collect(c) PROVE Alone' /\ Unharmed'
  BY <1>1, <1>10 DEF Collect, shared
<1>11. CASE Destroy
  <2>1. held = {}
    BY <1>11 DEF Destroy
  <2>2. ~InUse
    BY <1>11, <2>1 DEF Destroy, FuturesHeld, InUse
  <2> QED BY <1>1, <1>11, <2>2 DEF Destroy, shared, InUse
<1> HIDE DEF TypeOK, Alone, Unharmed, Inside
<1> QED
  BY <1>2, <1>3, <1>4, <1>5, <1>6, <1>7, <1>8, <1>9, <1>10, <1>11, StepCases

-----------------------------------------------------------------------------
(* The invariant, and what follows from it.                                *)

(* All of the above: inductive together.                                   *)
ProviderInv ==
  /\ TypeOK /\ Underway
  /\ ConfInForce /\ RequestsBuilt
  /\ HeaderInserted /\ CurrentKeySent
  /\ ClientsConfigured /\ SentAsBuilt
  /\ FuturesHeld /\ Serial

(* A provider under construction: no call, one key, inserted as a header   *)
(* where it travels as one.                                                *)
LEMMA InitEstablishes == Init => ProviderInv
<1> SUFFICES ASSUME Init PROVE ProviderInv
  OBVIOUS
<1> USE ProviderAssumption DEF Init
<1>1. TypeOK
  <2>1. /\ result \in [Callers -> [answer : Answers \cup {None},
                                  value : Values \cup {None}]]
        /\ since \in [Callers -> SUBSET Confs]
    BY DEF NoResult
  <2>2. headers \in Seq(Keys)
    <3>1. FirstConf.key \in Keys
      BY DEF Confs
    <3> QED BY <3>1
  <2>3. /\ kind \in Kinds /\ conf \in Confs /\ keying = FALSE
        /\ client = None /\ sets \in 0 .. MaxSets
        /\ gone = FALSE /\ misused = FALSE /\ held \subseteq Callers
    <3>1. 0 \in 0 .. MaxSets
      OBVIOUS
    <3> QED BY <3>1
  <2>4. /\ pc = [c \in Callers |-> "idle"] /\ op = [c \in Callers |-> None]
        /\ asked = [c \in Callers |-> None] /\ request = [c \in Callers |-> None]
        /\ sent = [c \in Callers |-> None]
    OBVIOUS
  <2> HIDE DEF Init
  <2>5. \A c \in Callers : /\ request[c] = None /\ sent[c] = None
                           /\ pc[c] = "idle"
    BY <2>4
  <2> QED BY <2>1, <2>2, <2>3, <2>4, <2>5 DEF TypeOK
<1>2. \A c \in Callers : ~Inside(c) /\ request[c] = None /\ sent[c] = None
  BY DEF Inside
<1>3. Underway /\ ConfInForce /\ RequestsBuilt
  BY <1>2 DEF Underway, ConfInForce, RequestsBuilt
<1>4. HeaderInserted
  <2> SUFFICES ASSUME KeyInHeader PROVE conf.key \in ToSet(headers)
    BY DEF HeaderInserted
  <2>1. headers = <<FirstConf.key>>
    OBVIOUS
  <2>2. 1 \in DOMAIN headers /\ headers[1] = FirstConf.key
    BY <2>1
  <2> QED BY <2>2 DEF ToSet
<1>5. CurrentKeySent /\ SentAsBuilt
  BY <1>2 DEF CurrentKeySent, SentAsBuilt
<1>6. ClientsConfigured /\ FuturesHeld
  BY <1>2 DEF ClientsConfigured, FuturesHeld
<1>7. Serial
  <2>1. \A c \in Callers : result[c].value # "undefined"
    BY DEF NoResult, Values
  <2> QED BY <1>2, <2>1 DEF Serial, Alone, Unharmed, Inside
<1> QED BY <1>1, <1>3, <1>4, <1>5, <1>6, <1>7 DEF ProviderInv

(* The invariant holds in every state of every run.                        *)
THEOREM ProviderInvariant == Spec => []ProviderInv
<1>1. ProviderInv /\ [Next]_vars => ProviderInv'
  BY TypeStep, ConfStep, RequestsStep, HeaderStep, KeySentStep, ClientStep,
     SentStep, FuturesStep, SerialStep DEF ProviderInv
<1> QED BY <1>1, InitEstablishes, PTL DEF Spec

(* Every variable has its type in every state, for any number of threads,  *)
(* setter calls and configurations.                                        *)
THEOREM ProviderTypes == Spec => []TypeOK
<1>1. ProviderInv => TypeOK
  BY DEF ProviderInv
<1> QED BY <1>1, ProviderInvariant, PTL

(* The copy of the configuration taken under mutex_ is of one moment of    *)
(* the call: no request mixes url, model and key of different ones.        *)
THEOREM RequestsHaveOneConfiguration == Spec => []OneConfiguration
<1>1. ProviderInv => OneConfiguration
  BY DEF ProviderInv, RequestsBuilt, BuiltFrom, OneConfiguration
<1> QED BY <1>1, ProviderInvariant, PTL

(* A request carries a key in force at a moment of its call, though the    *)
(* header is read outside the lock.                                        *)
THEOREM RequestsCarryACurrentKey == Spec => []CurrentKeySent
<1>1. ProviderInv => CurrentKeySent
  BY DEF ProviderInv
<1> QED BY <1>1, ProviderInvariant, PTL

(* A request whose connection was not taken goes to its url, under a       *)
(* timeout of its time.                                                    *)
THEOREM RequestsGoAsBuilt == Spec => []SentAsBuilt
<1>1. ProviderInv => SentAsBuilt
  BY DEF ProviderInv
<1> QED BY <1>1, ProviderInvariant, PTL

(* What the owner has to do for HttpClient to be safe: one call at a time, *)
(* no set_api_key during it, the end after the futures.                    *)
THEOREM SerialUse == Spec => []SerialUseIsSafe
<1>1. ProviderInv => SerialUseIsSafe
  BY DEF ProviderInv, Serial, Unharmed, SerialUseIsSafe
<1> QED BY <1>1, ProviderInvariant, PTL
=============================================================================
