------------------------------ MODULE Provider ------------------------------
(***************************************************************************)
(* OpenAIProvider, ClaudeProvider, GeminiProvider, OpenAICompatibleProvider*)
(* (src/llm) and the HttpClient they hold (src/http_client.cpp): several   *)
(* threads call one provider while its setters are called, and its owner   *)
(* may end it while threads of chat_async are still inside.                *)
(*                                                                         *)
(* A call takes one step per point where another thread can come between:  *)
(* the locked copy of the configuration, then the four unlocked steps of   *)
(* HttpClient::post.  A request is what the server can tell apart: the url *)
(* and the model it was built from, the connection it travels on, its      *)
(* timeout and the keys it carries.                                        *)
(***************************************************************************)
EXTENDS Naturals, SequencesExt

CONSTANTS
  Callers,                        \* threads that call the provider
  Kinds,                          \* the provider classes to look at
  Keys, Models, Urls, Timeouts,   \* arguments of the setters
  FirstConf,                      \* configuration after construction
  Ops,                            \* the operations called
  Answers,                        \* how requests end, see below
  MaxSets,                        \* bound: calls of setters
  None                            \* no model named, no client, no key

Confs == [key : Keys, model : Models, url : Urls, timeout : Timeouts]
Requests == [url : Urls, model : Models, key : Keys \cup {None}]
Clients == [by : Callers, url : Urls, timeout : Timeouts \cup {None}]
OnTheWire == [by : Callers, url : Urls, timeout : Timeouts \cup {None},
              keys : SUBSET Keys, defined : BOOLEAN]
Values == {"ok", "error", "APIError", "SerializationError", "undefined"}

ASSUME ProviderAssumption ==
  /\ Kinds \subseteq {"openai", "compatible", "claude", "gemini"}
  /\ None \notin Ops \cup Keys \cup Models \cup Urls \cup Timeouts \cup Callers
  /\ None \notin Requests \cup Clients \cup OnTheWire \cup Values
  /\ FirstConf \in Confs
  /\ MaxSets \in Nat
  /\ Ops \subseteq {"chat", "chat_safe", "chat_stream", "chat_async", "embed"}
  (* A well formed 200, another status, a 200 whose body does not parse,   *)
  (* and no response, timeouts included.                                   *)
  /\ Answers \subseteq {"reply", "status", "garbage", "silence"}

VARIABLES
  kind,     \* the class of the provider
  conf,     \* api_key_, model_, base_url_, timeout_seconds_ (= timeout_sec)
  keying,   \* set_api_key holds mutex_ and has its header still to insert
  headers,  \* HttpClient's headers: the keys inserted, oldest first
  client,   \* HttpClient's client: who created it, for which url, timeout
  pc,       \* where each caller is
  op,       \* the operation it called
  asked,    \* the model its request names, None for the provider's
  request,  \* its locals: url, model, and key if that is part of the url
  sent,     \* its request on the wire; defined unless freed memory is read
  result,   \* how its last call ended, and what the network did
  since,    \* history: the configurations in force during its call
  sets,     \* how many setters were called
  gone,     \* the provider's destructor has run
  held,     \* callers that are threads of a future the owner still holds
  misused   \* history: calls have met each other, set_api_key or the end

lifetime == <<gone, held, misused>>
shared == <<kind, conf, keying, headers, client, sets>>
vars == <<shared, pc, op, asked, request, sent, result, since, lifetime>>

NoResult == [answer |-> None, value |-> None]

KeyInHeader == kind \in {"openai", "compatible", "claude"}

Init ==
  /\ kind \in Kinds
  /\ conf = FirstConf
  /\ keying = FALSE
  /\ headers = IF KeyInHeader THEN <<FirstConf.key>> ELSE <<>>
  /\ client = None
  /\ pc = [c \in Callers |-> "idle"]
  /\ op = [c \in Callers |-> None]
  /\ asked = [c \in Callers |-> None]
  /\ request = [c \in Callers |-> None]
  /\ sent = [c \in Callers |-> None]
  /\ result = [c \in Callers |-> NoResult]
  /\ since = [c \in Callers |-> {}]
  /\ sets = 0
  /\ gone = FALSE /\ held = {} /\ misused = FALSE

-----------------------------------------------------------------------------
(* The setters, each under mutex_ from beginning to end.                   *)

Inside(c) == pc[c] # "idle"
InUse == \E c \in Callers : Inside(c)

Configure(newConf) ==
  /\ ~gone /\ ~keying
  /\ sets < MaxSets
  /\ sets' = sets + 1
  /\ conf' = newConf
  /\ since' = [c \in Callers |->
                 IF Inside(c) THEN since[c] \cup {newConf} ELSE since[c]]
  /\ UNCHANGED <<kind, client, pc, op, asked, request, sent, result, gone, held>>

SetModel(m) ==
  /\ Configure([conf EXCEPT !.model = m])
  /\ UNCHANGED <<keying, headers, misused>>

SetBaseUrl(u) ==
  /\ Configure([conf EXCEPT !.url = u])
  /\ UNCHANGED <<keying, headers, misused>>

SetTimeout(t) ==
  /\ Configure([conf EXCEPT !.timeout = t])
  /\ UNCHANGED <<keying, headers, misused>>

(* Faulty: the new key is stored but never becomes a header.               *)
SetApiKeyMemberOnly(k) ==
  /\ Configure([conf EXCEPT !.key = k])
  /\ misused' = (misused \/ InUse)
  /\ UNCHANGED <<keying, headers>>

(* Faulty: Gemini inserts a header as well.                                *)
SetApiKeyAlwaysHeader(k) ==
  /\ Configure([conf EXCEPT !.key = k])
  /\ misused' = (misused \/ InUse)
  /\ keying' = TRUE
  /\ UNCHANGED headers

(* OpenAI and Claude go on to HttpClient::set_header under the lock; for   *)
(* Gemini the key is part of the url.                                      *)
SetApiKey(k) ==
  /\ Configure([conf EXCEPT !.key = k])
  /\ misused' = (misused \/ InUse)
  /\ keying' = KeyInHeader
  /\ UNCHANGED headers

(* Faulty: the lock is never given back.                                   *)
InsertHeaderKeepsLock ==
  /\ keying
  /\ headers' = IF Last(headers) = conf.key THEN headers
                 ELSE Append(headers, conf.key)
  /\ UNCHANGED <<keying, kind, conf, client, sets, pc, op, asked, request,
                 sent, result, since, lifetime>>

(* HttpClient::set_header inserts in a multimap: older keys stay.          *)
InsertHeader ==
  /\ keying
  /\ keying' = FALSE
  /\ headers' = Append(headers, conf.key)
  /\ UNCHANGED <<kind, conf, client, sets, pc, op, asked, request, sent,
                 result, since, lifetime>>

-----------------------------------------------------------------------------
(* A call, up to HttpClient::post.                                         *)

(* chat_async runs chat on a thread that captures this; the owner gets the *)
(* future.                                                                 *)
Begin(c, o, m) ==
  /\ ~gone
  /\ pc[c] = "idle" /\ c \notin held
  /\ pc' = [pc EXCEPT ![c] = "locking"]
  /\ op' = [op EXCEPT ![c] = o]
  /\ asked' = [asked EXCEPT ![c] = m]
  /\ result' = [result EXCEPT ![c] = NoResult]
  /\ since' = [since EXCEPT ![c] = {conf}]
  /\ held' = IF o = "chat_async" THEN held \cup {c} ELSE held
  /\ misused' = (misused \/ InUse)
  /\ UNCHANGED <<shared, request, sent, gone>>

(* The request names no model.                                             *)
Call(c, o) == Begin(c, o, None)

(* Agent and LLMNode name the model they got from get_model, which takes   *)
(* and releases mutex_.                                                    *)
CallNamingModel(c) ==
  /\ "chat" \in Ops
  /\ ~keying
  /\ Begin(c, "chat", conf.model)

ModelOf(c) == IF asked[c] = None THEN conf.model ELSE asked[c]

OpenAIRequest(c) == [url |-> conf.url, model |-> ModelOf(c), key |-> None]
OpenAIEmbed(c) == [url |-> conf.url, model |-> ModelOf(c), key |-> None]
ClaudeRequest(c) == [url |-> conf.url, model |-> ModelOf(c), key |-> None]
GeminiRequest(c) == [url |-> conf.url, model |-> ModelOf(c), key |-> conf.key]
GeminiEmbed(c) == [url |-> conf.url, model |-> ModelOf(c), key |-> conf.key]

Request(c) ==
  CASE kind \in {"openai", "compatible"} -> IF op[c] = "embed" THEN OpenAIEmbed(c)
                                                               ELSE OpenAIRequest(c)
    [] kind = "claude" -> ClaudeRequest(c)
    [] kind = "gemini" -> IF op[c] = "embed" THEN GeminiEmbed(c)
                                             ELSE GeminiRequest(c)

(* The copy of the configuration under mutex_, and what is built from it.  *)
Snapshot(c) ==
  /\ pc[c] = "locking"
  /\ ~(kind = "claude" /\ op[c] = "embed")
  /\ ~keying
  /\ request' = [request EXCEPT ![c] = Request(c)]
  /\ pc' = [pc EXCEPT ![c] = "connecting"]
  /\ UNCHANGED <<shared, op, asked, sent, result, since, lifetime>>

(* The end of a call: its locals are gone.                                 *)
Return(c, answer, value) ==
  /\ pc' = [pc EXCEPT ![c] = "idle"]
  /\ asked' = [asked EXCEPT ![c] = None]
  /\ request' = [request EXCEPT ![c] = None]
  /\ sent' = [sent EXCEPT ![c] = None]
  /\ result' = [result EXCEPT ![c] = [answer |-> answer, value |-> value]]
  /\ since' = [since EXCEPT ![c] = {}]
  /\ UNCHANGED <<shared, op, lifetime>>

(* ClaudeProvider::embed throws at once.                                   *)
ClaudeEmbed(c) ==
  /\ pc[c] = "locking"
  /\ kind = "claude" /\ op[c] = "embed"
  /\ Return(c, None, "APIError")

-----------------------------------------------------------------------------
(* HttpClient::post, which takes no lock.                                  *)

Orphaned(d) ==
  IF pc[d] = "waiting" THEN [sent[d] EXCEPT !.defined = FALSE] ELSE sent[d]

NewClient(c) == [by |-> c, url |-> request[c].url, timeout |-> None]

(* Faulty: the url is put together from base_url_, not from its copy.      *)
AssignClientFromMember(c) ==
  /\ pc[c] = "connecting"
  /\ pc' = [pc EXCEPT ![c] = "configuring"]
  /\ request' = [request EXCEPT ![c].url = conf.url]
  /\ client' = [NewClient(c) EXCEPT !.url = conf.url]
  /\ sent' = [d \in Callers |-> Orphaned(d)]
  /\ UNCHANGED <<kind, conf, keying, headers, sets, op, asked, result, since,
                 lifetime>>

(* Faulty: a client that exists is used again.                             *)
AssignClientOnce(c) ==
  /\ pc[c] = "connecting"
  /\ pc' = [pc EXCEPT ![c] = "configuring"]
  /\ client' = IF client = None THEN NewClient(c) ELSE client
  /\ UNCHANGED <<kind, conf, keying, headers, sets, op, asked, request, sent,
                 result, since, lifetime>>

(* update_client: the client held before dies with its last reference,     *)
(* under the feet of whoever is inside its Post.                           *)
AssignClient(c) ==
  /\ pc[c] = "connecting"
  /\ pc' = [pc EXCEPT ![c] = "configuring"]
  /\ client' = NewClient(c)
  /\ sent' = [d \in Callers |-> Orphaned(d)]
  /\ UNCHANGED <<kind, conf, keying, headers, sets, op, asked, request,
                 result, since, lifetime>>

(* update_client: the timeouts of whatever client is there by now.         *)
ConfigureClient(c) ==
  /\ pc[c] = "configuring"
  /\ pc' = [pc EXCEPT ![c] = "sending"]
  /\ client' = [client EXCEPT !.timeout = conf.timeout]
  /\ UNCHANGED <<kind, conf, keying, headers, sets, op, asked, request, sent,
                 result, since, lifetime>>

(* Post on whatever client is there by now, with a copy of the headers     *)
(* that nothing protects from an insertion under way.                      *)
Send(c) ==
  /\ pc[c] = "sending"
  /\ pc' = [pc EXCEPT ![c] = "waiting"]
  /\ sent' = [sent EXCEPT ![c] = [by |-> client.by, url |-> client.url,
                                  timeout |-> client.timeout,
                                  keys |-> ToSet(headers),
                                  defined |-> ~keying]]
  /\ UNCHANGED <<shared, op, asked, request, result, since, lifetime>>

(* chat_safe turns every failure into an error value, chat turns that into *)
(* an APIError; embed keeps only failures of the JSON library apart.       *)
SafeValue(answer) == IF answer = "reply" THEN "ok" ELSE "error"

ChatValue(answer) == IF SafeValue(answer) = "error" THEN "APIError" ELSE "ok"

EmbedValue(answer) ==
  CASE answer = "reply" -> "ok"
    [] answer = "garbage" -> "SerializationError"
    [] OTHER -> "APIError"

(* chat_stream and chat_async call chat.                                   *)
Value(o, answer) == CASE o = "chat_safe" -> SafeValue(answer)
                      [] o = "embed" -> EmbedValue(answer)
                      [] OTHER -> ChatValue(answer)

(* Post returns and the call with it, unless it has a callback to run.     *)
Receive(c, answer) ==
  /\ pc[c] = "waiting"
  /\ sent[c].defined
  /\ ~(op[c] = "chat_stream" /\ answer = "reply")
  /\ Return(c, answer, Value(op[c], answer))

(* chat_stream: the one chunk, the whole response, goes to the callback,   *)
(* which runs outside any lock.                                            *)
Deliver(c) ==
  /\ pc[c] = "waiting"
  /\ sent[c].defined
  /\ op[c] = "chat_stream" /\ "reply" \in Answers
  /\ pc' = [pc EXCEPT ![c] = "callback"]
  /\ request' = [request EXCEPT ![c] = None]
  /\ sent' = [sent EXCEPT ![c] = None]
  /\ UNCHANGED <<shared, op, asked, result, since, lifetime>>

CallbackReturns(c) ==
  /\ pc[c] = "callback"
  /\ Return(c, "reply", "ok")

(* The Post read freed or half written memory: the result stands for any   *)
(* of the others and for the end of the process.                           *)
ReceiveUndefined(c) ==
  /\ pc[c] = "waiting"
  /\ ~sent[c].defined
  /\ Return(c, None, "undefined")

-----------------------------------------------------------------------------
(* The owner's side.                                                       *)

(* Faulty: the future is let go while its thread still runs.               *)
CollectAtOnce(c) ==
  /\ c \in held
  /\ held' = held \ {c}
  /\ UNCHANGED <<shared, pc, op, asked, request, sent, result, since, gone,
                 misused>>

(* get() waits for the thread, and so does the destructor of a future that *)
(* std::async returned.                                                    *)
Collect(c) ==
  /\ c \in held
  /\ ~Inside(c)
  /\ held' = held \ {c}
  /\ UNCHANGED <<shared, pc, op, asked, request, sent, result, since, gone,
                 misused>>

(* The destructor waits for nobody; no other thread is in a call of its own*)
(* then.                                                                   *)
Destroy ==
  /\ ~gone /\ ~keying
  /\ \A c \in Callers : Inside(c) => op[c] = "chat_async"
  /\ gone' = TRUE
  /\ misused' = (misused \/ held # {})
  /\ UNCHANGED <<shared, pc, op, asked, request, sent, result, since, held>>

(* The thread goes on with a this that is no more.                         *)
UseAfterEnd(c) ==
  /\ gone
  /\ Inside(c)
  /\ Return(c, None, "undefined")

Ended == gone /\ ~InUse /\ held = {} /\ UNCHANGED vars

-----------------------------------------------------------------------------
CallerStep(c) ==
  \/ /\ ~gone
     /\ \/ Snapshot(c)
        \/ ClaudeEmbed(c)
        \/ AssignClient(c)
        \/ ConfigureClient(c)
        \/ Send(c)
        \/ \E answer \in Answers : Receive(c, answer)
        \/ Deliver(c)
        \/ CallbackReturns(c)
        \/ ReceiveUndefined(c)
  \/ UseAfterEnd(c)

Setter ==
  \/ \E k \in Keys : SetApiKey(k)
  \/ \E m \in Models : SetModel(m)
  \/ \E u \in Urls : SetBaseUrl(u)
  \/ \E t \in Timeouts : SetTimeout(t)

Next ==
  \/ \E c \in Callers, o \in Ops : Call(c, o)
  \/ \E c \in Callers : CallNamingModel(c)
  \/ \E c \in Callers : CallerStep(c) \/ Collect(c)
  \/ Setter
  \/ InsertHeader
  \/ Destroy
  \/ Ended

Spec == Init /\ [][Next]_vars

(* A thread inside a call goes on, and every Post ends, with an answer or  *)
(* at a timeout; callbacks return; a setter that holds the lock goes on.   *)
FairSpec ==
  /\ Spec
  /\ \A c \in Callers : WF_vars(CallerStep(c))
  /\ WF_vars(InsertHeader)

-----------------------------------------------------------------------------
(* Every variable has its type, and a caller has a request and something   *)
(* on the wire exactly while HttpClient::post needs them.                  *)
TypeOK ==
  /\ kind \in Kinds
  /\ conf \in Confs
  /\ keying \in BOOLEAN
  /\ headers \in Seq(Keys)
  /\ client \in Clients \cup {None}
  /\ pc \in [Callers -> {"idle", "locking", "connecting", "configuring",
                         "sending", "waiting", "callback"}]
  /\ op \in [Callers -> Ops \cup {None}]
  /\ asked \in [Callers -> Models \cup {None}]
  /\ request \in [Callers -> Requests \cup {None}]
  /\ sent \in [Callers -> OnTheWire \cup {None}]
  /\ result \in [Callers -> [answer : Answers \cup {None},
                             value : Values \cup {None}]]
  /\ since \in [Callers -> SUBSET Confs]
  /\ sets \in 0..MaxSets
  /\ \A c \in Callers :
       request[c] = None <=> pc[c] \in {"idle", "locking", "callback"}
  /\ \A c \in Callers : sent[c] = None <=> pc[c] # "waiting"
  /\ keying => KeyInHeader
  /\ gone \in BOOLEAN /\ misused \in BOOLEAN
  /\ held \subseteq Callers

(* "Capture member variables under lock": a request that names no model is *)
(* built from the url, the model and (Gemini) the key of one configuration *)
(* that was in force at a moment of the call, however the setters          *)
(* interleave; never from half of one and half of another.                 *)
OneConfiguration ==
  \A c \in Callers :
    request[c] # None /\ asked[c] = None =>
      \E k \in since[c] :
        /\ request[c].url = k.url
        /\ request[c].model = k.model
        /\ request[c].key \in {None, k.key}

(* A request carries a key that was in force at a moment of the call: once *)
(* set_api_key has returned the new key is among those a new call sends,   *)
(* though for OpenAI and Claude it travels by another way than the rest of *)
(* the configuration, read outside the lock.                               *)
CurrentKeySent ==
  \A c \in Callers :
    sent[c] # None /\ sent[c].defined =>
      \E k \in since[c] :
        k.key \in IF KeyInHeader THEN sent[c].keys ELSE {request[c].key}

(* "POST operations are thread-safe (use separate connections per thread)":*)
(* a request travels on the connection its own call made, and nobody takes *)
(* it away.                                                                *)
OwnConnection ==
  \A c \in Callers : sent[c] # None => sent[c].by = c /\ sent[c].defined

(* Unless another call has taken its connection, a request goes to the url *)
(* it was built from and waits no longer than a timeout configured at a    *)
(* moment of the call, even when set_base_url or set_timeout comes between *)
(* the snapshot and the post.                                              *)
SentAsBuilt ==
  \A c \in Callers :
    sent[c] # None /\ sent[c].by = c =>
      /\ sent[c].url = request[c].url
      /\ \E k \in since[c] : sent[c].timeout = k.timeout

(* A provider used by one call at a time, with no set_api_key meanwhile,   *)
(* that ends only after its futures were collected or dropped, reads no    *)
(* memory that is not its own: no call on another's or a dead connection,  *)
(* with headers half written, or of an object that is gone.                *)
SerialUseIsSafe ==
  ~misused =>
    \A c \in Callers :
      /\ result[c].value # "undefined"
      /\ gone => ~Inside(c)
      /\ sent[c] # None => sent[c].by = c /\ sent[c].defined

(* Every call returns: no caller waits for mutex_ or for the network for   *)
(* ever, and the lock set_api_key holds is given back.                     *)
CallsReturn == \A c \in Callers : Inside(c) ~> ~Inside(c)
=============================================================================
