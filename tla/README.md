# BoostChain: models, checks and proofs

This directory keeps a TLA+ model of BoostChain, the C++ agent framework in this
repository, next to its code. TLC checks small instances of every module; TLAPS
proves nearly all their safety properties for every value of the constants.
`PROJECT.json` names, for each definition, the source lines it stands for; paths
below are relative to the repository.

Paths such as `executor.cpp` mean `src/executor.cpp`, `agent.hpp` means
`include/boostchain/agent.hpp`, and so on.

## 1. Inventory

| Component | State | Operations | What is hard | Correct when |
|---|---|---|---|---|
| Executor (`executor.cpp/.hpp`) | `stop_`, `tasks_`, worker threads, one mutex, one condition variable | constructor, `submit`, `worker_loop`, destructor | notifications outside the lock, submits from inside tasks, destruction while tasks are queued and running, `get()` inside the pool | no accepted task is lost, run twice or left unsettled; no sleeper misses a task; the destructor returns |
| Agent (`agent.cpp/.hpp`) | system prompt, history, tools, iteration limit | `run`, `reset`, `set_*`, `save_state`, `load_state` | a loop driven by what the LLM sends, early returns and exceptions in its middle, a hand-written JSON reader | each request answers the calls before it; a run adds exactly its own messages; the result tells what happened; a state comes back whole |
| Providers (`llm/*.cpp`, `llm_provider.hpp`) | api key, model, base url, timeout, mutex, an `HttpClient` | `chat`, `chat_safe`, `chat_async`, `chat_stream`, `embed`, setters, getters | several threads on one provider, configuration read under the lock and used outside it; threads of `chat_async` that outlive the call; three JSON dialects | one request, one configuration; errors of the kind documented; what is sent is what was said, what comes back is read once and in order |
| HttpClient (`http_client.cpp`) | headers, timeout, the current `httplib::Client` | `set_header`, `set_timeout`, `get`, `post` | no lock: `post` replaces the client all threads share | a request goes out on its own connection, with its own timeout |
| Memories (`memory.cpp/.hpp`) | items, embeddings, window | `add`, `retrieve`, `clear`, `serialize`, `deserialize` | two vectors that must move together, an embedding function that may throw, text read by hand | embeddings stay beside their items; the best or latest items are found; what is saved comes back |
| Chain (`chain.cpp/.hpp`) | a list of prompt and LLM nodes | `add_*`, `run`, `serialize`, `deserialize` | two ways from node to node (`last_output` and the variables), failures in the middle, bracket counting | each LLM is asked the latest answer; the result tells how far the run went; what is loaded is what was saved, as far as the format allows |
| PromptTemplate (`prompt.cpp`) | a template | `render` | two passes that must agree on what a variable is; markers alone or nested | every variable replaced, once, and nothing else touched |
| CalculatorTool (`tool.cpp`) | none | `execute` | a recursive-descent parser | value of the expression, or an error |
| Result, Error, headers | values | accessors | - | - |
| `deps/` | vendored httplib and nlohmann json | - | - | - |

How they meet: an **Agent** or a **Chain**'s LLM node calls `get_model` and `chat`
of a **provider** it shares with others; the provider takes its mutex to copy its
configuration and then calls `post` of its **HttpClient** without it; the Agent
calls its **tools** and keeps the conversation. **Memories** are given an
embedding function by their user. The **Executor** is independent: its user
submits closures, which may hold any of the others, and that is how several
threads come to call one provider.

## 2. Modules

| Module | Stands for | Role |
|---|---|---|
| `TaskService` | what the Executor promises, without threads | abstract specification |
| `Executor` | `executor.cpp`, `executor.hpp` | implements `TaskService` |
| `ExecutorProofs` | theorems about `Executor` | TLAPS |
| `Agent` | `agent.cpp`, `agent.hpp` | every way a run can go, messages as names |
| `Provider` | `llm/*_provider.cpp`, `llm/openai_compatible.cpp` with `http_client.cpp` | composes provider, HTTP client, callers and owner |
| `Memory` | `memory.cpp` | |
| `Prompt` | `prompt.cpp` | operators |
| `Chain` | `chain.cpp` | extends `Prompt` |
| `Calculator` | `tool.cpp` | operators, and the arithmetic they are to agree with |
| `Dialect` | the JSON of the providers: request bodies, `parse_response` | operators |
| `Exchange` | `agent.cpp` over `Dialect` | composes agent and provider, messages with contents; the tool is a constant |
| `ToolUse` | an Agent whose tool is the calculator | joins `Exchange` and `Calculator`; `MCExchange` gives the tool the value `Calculated` |
| `AgentProofs`, `ProviderProofs`, `MemoryProofs`, `ChainProofs`, `ExchangeProofs`, `CalculatorProofs` | theorems about these modules | TLAPS |
| `TextLemmas` | sequences: joining, searching, induction over data | lemmas for `ChainProofs`, `ExchangeProofs` and `CalculatorProofs` |
| `MC*` | values of the constants for TLC | |

In each module some definitions are preceded by "Faulty": plausible mistakes in
the operation that follows. No specification uses them; each shows that one of
the properties would notice it (`mutants` in `PROJECT.json`).

### Executor

One critical section of `queue_mutex_` is one action; nothing blocks inside one
except `condition_.wait`, which gives the mutex back and is the action `Sleep`.
`notify_one` and `notify_all` come after the mutex is released and are actions of
their own (`ClientNotify`, `TaskNotify`, `NotifyAll`), so TLC explores what
happens between a push and its notification.

| Code | Model |
|---|---|
| `stop_`, `tasks_` | `stop`, `tasks` |
| a worker's position in `worker_loop` | `wpc[w]`: unborn, lock (about to evaluate the predicate), waiting, submit / notify / body (inside `task()`), exited |
| the local `task` | `job[w]` |
| a client inside `submit` | `cpc[c]` |
| the shared state of a `std::future` | `future[t]`: none, pending, value, exception |
| the owning thread | `owner`: construct, alive, broadcast, join, destroyed |
| `submit` | `ClientSubmit`/`ClientNotify` for clients; `TaskSubmit`, `TaskSubmitThrows`, `TaskNotify` when a task body calls it |
| `wait`'s predicate | `MayProceed`; spurious wake-ups are `WakeSpuriously` |

A task may create one child (`Child`), may call `get()` on its future
(`Blocking`) and may end in an exception (`Throwing`). Two preconditions of the
C++ object model are guards: clients call `submit` between constructor and
destructor, and the destructor starts when none is inside. Task bodies are not
so restricted, which is why the exception for stopped executors matters.

### Agent

A run is a sequence of steps, one per answer of the LLM or of a tool: a response
of 1 to `MaxReply` messages, each with or without a tool call, an empty response,
or an exception. `messages` and `steps` are the locals of `run_with_tools`. A
message is `[role, id, call]`; every message created gets a new `id`, so a
message that occurs twice in a history is a copy. `UserMsgIndex` is the index
expression of `agent.cpp:209` with the precedence C++ gives it. `result` starts
as `Unset`, the uninitialised fields of `AgentResult`; `ResultTellsTruth` shows
that no path returns them.

`SaveState` drops the tool call as the code does. `load_state` is modelled on
whole texts, texts cut anywhere and texts that are no object: what the lenient
reader does with each is one of `LoadEntries`, `LoadTorn`, `LoadWithoutHistory`
and `LoadNonsense`. Character escapes are not modelled.

### Provider

Callers, setters, an owner and one `HttpClient`, for each of the provider
classes (`kind`; "compatible" is `OpenAICompatibleProvider`, which forwards every
operation to an `OpenAIProvider` of its own and ends with it). A call is the
locked `Snapshot` and then the unlocked steps of `post`:
`AssignClient` (`client = make_shared<Client>(...)`), `ConfigureClient`
(timeouts), `Send`, `Receive`. `client` is the shared pointer of
`HttpClient::Impl`, with the caller it was created by. When it is assigned while
another thread is inside `Post`, that thread goes on with a destroyed object;
when `set_header` inserts while the header map is copied, the copy is
undefined. The model marks such a request `defined = FALSE` and lets its call
end with the result "undefined", which stands for all results and for the end of
the process. `since[c]` is a history variable: the configurations that were in
force during the call.

`chat_stream` is `chat` and then the callback, with the whole response as its only
chunk, outside any lock (`Deliver`, `CallbackReturns`). `chat_async` runs `chat` on a
thread that captures `this`; the owner holds its future (`held`) and may end the
provider at any time (`Destroy`) at which no other thread is in a call. The
future's destructor and `get()` wait for the thread (`Collect`); the provider's
destructor waits for nothing, and a thread still inside then goes on without an
object (`UseAfterEnd`). `misused` is a history variable: a call has met another one, or
`set_api_key`, or the end has met a future that was not collected.

### Prompt and Chain

A text is a sequence of tokens: `{{`, `}}`, white space, brackets, names, and other
words; the empty name is no token. `Prompt` has `render` with its two passes: `Required` is the set the first one
collects, `Render` what the second one writes; each finds its holes with `HoleFrom`.

`Chain` executes one node per step. `accumulated` and `result` are the locals of
`Chain::run`; `outputs`, `asked` and `input` are history variables. A prompt node
renders the template, or hands it on unrendered if a name is missing
(`PromptOutput`); an LLM node asks `Question`, and is answered with a text or with
nothing, or throws. An LLM node may have no provider (`NullNode`). `NodeText` is what a
node writes: one token for the structure before the template or the model's name, its
text, one token for the structure after it. A quote in a template is written escaped and is
one token; the name of a model is written as it is, so that its quotes, backslashes and
brackets are tokens too. `Reload` reads back any beginning of a saved text, so that a text cut
in the middle is among them. `Depth` counts every bracket, those inside templates and names
included, and ends the array; `Scan` reads one token of what stands before that
end: it keeps the depth of braces and whether a string is open, which is what
`deserialize` finds the end of a node by, and the type and template it would find in the
node. What a provider answers for its model is taken to be the same at every call.

### Calculator, Dialect, Exchange

`Calculator` is the recursive-descent parser over single characters, with exact
fractions in place of doubles. A `parse_` function is a function on the positions of
the text, defined over that of the level below: `ParseTerm` over factors, `ParseExpression`
over terms, and `Factors(expr)[d]`, with less than `d` parentheses open, over the expressions
of one level less; no text has more of them than characters. `Loop` is the `while` of
both loops, `Round` one turn of it; each takes a character at least, so as many
turns as there are characters are enough. Not in the code is what follows in the
module, arithmetic: `Expressions` are numbers and what `Combined` makes of two
expressions, each with its text (as few parentheses as it can have), its meaning
and how tightly it binds. `Dialect` says what
each provider makes of the same messages (`RequestBody`) and of the answers it may
get (`Refused`, `Response`). `Exchange` is the loop of `run_with_tools` once more, now
with contents: texts are sequences of pieces, so that it can be told where each
piece of a request came from. What the tool answers is its constant `ToolExecute`;
the run gives it `Calculated`, and `ToolUse` states what that computes. Its steps are coarser than `Agent`'s and its inputs
fewer; resets, limits, saved states and exceptions are left to `Agent`. `said` is
a history variable: who said what, in the order it was said.

### Memory

Each operation is one step. `kind` distinguishes the two classes; `embeddings`
is only used by the long term. Saved text is the sequence of items it holds, and
`Reread` is what each line can be read back as: the reader counts the length
before escaping and forgets one separator, so an item is kept, changed, or
skipped depending on whether its content needs escaping and on its metadata,
which is all the model keeps of either. `Restart` constructs a memory of any
kind and window beside a text saved earlier. `Undefined` is an index beyond
`embeddings_` (`memory.cpp:307`) or an erase from it when it is empty
(`memory.cpp:245`): afterwards nothing more is said of that object. `last` and
`threw` are history variables: the last call with its result, and whether
`embed_fn_` has thrown since the items were last emptied.

## 3. Runs

Passing runs:

| Run | Question | Instance | Distinct states |
|---|---|---|---|
| `executor` | is a task ever lost, doubled or stranded; are outcomes explained; when can the pool stand still; is `TaskService` implemented; are tasks settled, does the destructor return, unless the pool stands still? | 2 workers, 2 clients, 7 tasks: two parents that wait for their child (one child throws), one that does not wait, one client task that throws | 55 352 |
| `agent_runs` | what the LLM is asked, what a run leaves in the history, which calls it leaves unanswered, what it returns; does `run` return? | 2 runs, responses of 1 or 2 messages, limits -1 and 2, with and without system prompt and tools, one load | 490 242 |
| `provider_config` | does a request ever mix configurations, carry no current key, go elsewhere or wait longer than configured? | 3 classes, 2 callers, 2 setter calls with 2 values for each of the 4 fields, the provider's end | 506 595 |
| `provider_calls` | does a call return; which order of calls touches no foreign memory? | 3 classes, 2 callers, all operations, callbacks, futures, all endings, 1 setter call, the provider's end | 168 670 |
| `memory_reload` | alignment, ranking, window, and what survives saving, restarting and loading | windows 0, 2, 3; four items of different escape and metadata shapes, two of them equally similar; an embedding function that may throw | 551 125 |
| `chain_runs` | what is each LLM asked, what does the result say, is a template rendered as its pieces are, what comes back from a text? | up to 3 nodes, 9 templates, 4 model names (plain, with a bracket, a quote, a backslash), 4 inputs (one with an empty name), answers with and without text, one load of a whole or cut text | 464 492 |
| `exchange` | does each request hold the whole conversation; does a tool's answer stand where its call was, and is it right? | 3 dialects, with and without system prompt, 2 runs of up to 2 iterations, 16 to 32 shapes of answers, 6 sets of tool calls; expressions two operators deep | 112 050 |

Runs whose property is violated; each states what a comment or interface of the
repository says, and TLC's counterexample is a behaviour of the code:

| Run | The repository says | The code does |
|---|---|---|
| `agent_duplicates` | `agent.cpp:204` only the NEW messages are appended | `?:` binds weaker than `+` (209): without a system prompt and with tools, the old history is appended again in every run |
| `agent_last_iteration` | `agent.hpp:36` stops and returns whatever it has | an answer in the last iteration becomes "exceeded maximum iterations" (191) |
| `provider_cross_talk` | `openai_provider.cpp:128-130` safe: separate connections per thread | `post` replaces the one client all threads share (`http_client.cpp:44`) |
| `memory_metadata` | `memory.hpp:60` deserialize | one separator is not skipped (456); the item is dropped |
| `chain_output` | `chain.hpp:21` each node receives the output of the previous one | a prompt's output goes nowhere (`chain.cpp:71`): the next LLM is asked all variables, or the answer of an earlier LLM |

Where such a property fails, a passing run says what holds instead:
`AppendsOnlyNewWithPrompt` is `AppendsOnlyNew` for agents with a system prompt and for
first runs, `SentAsBuilt` speaks of requests that keep their connection and
`SerialUseIsSafe` of providers used by one call at a time, `SimpleItemsComeBack` of
the items the text format can hold, and `AskedWithLatestAnswer` says what an LLM
node is asked.

Other disagreements the modules contain, as behaviours of their actions, without
a run of their own:

* `agent.cpp:151`: an empty response returns past the history update, so a run
  that has executed tools is forgotten (`EmptyReply`); `agent.hpp:25` promises the
  history across calls.
* `agent.cpp:415`: a text without a history replaces the prompt although the answer is
  false (`LoadWithoutHistory`).
* `agent.cpp:198`: a tool that throws leaves its call, and those of the same response
  after it, in the history unanswered (`Throw`), and the next request carries them.
* `agent.cpp:431`: a text cut inside the array gives a partial history and
  true (`LoadTorn`, `LoadEntries`); `agent.hpp:46` promises false on a parse error.
* `agent.cpp:256-272`: tool calls are not saved (`SaveState`).
* `openai_provider.cpp:24` (and the other two): `chat` throws `APIError` whatever the
  cause (`ChatValue`); `llm_provider.hpp:122` names three kinds.
* `memory.cpp:234`: `add` stores the item before `embed_fn_` can throw
  (`AddLongThrows`, and `LoadLong` for 433 and 471); hence the premise of `Aligned`.
* `memory.cpp:219`: `deserialize` ignores `max_items_` (`LoadShort`); the next `add`
  restores the window, which `AddRestoresWindow` shows.
* `openai_provider.cpp:342`: a `content` of `null`, which OpenAI sends beside tool
  calls, makes the whole answer an error, tool calls included (`Refused`).
  A null finish reason does so in all three.
* `openai_provider.cpp:355`: of several tool calls the first is executed (`FirstCall`);
  neither calls nor their ids are sent back (`RequestBody`), so a tool's answer is
  linked to its call by its place alone. Claude and Gemini are never told of tools.
* `claude_provider.cpp:201` gives a message for each block of text, and
  `agent.cpp:174` takes the last one's content for the whole answer (`AnswerTaken`).
* `chain.cpp:228`: brackets in templates and model names are counted as if they were
  structure (`Depth`): such a chain loses nodes, or the end of a template, or is refused.
  `chain.cpp:175`: a model's name is written unescaped (`NodeText`), so one with a quote
  swallows the nodes that follow, or part of them (`StringAfter`, `Scan`).
  `chain.cpp:333`: LLM nodes do not come back (`Parsed`).
* `tool.cpp:86`: whatever stands in the place of a closing parenthesis is consumed,
  and what follows an expression is not read (`ParseFactor`, `Execute`): `(2]+3` is 5,
  `2x` is 2. `tool.cpp:147` drops the backslash of an escape: an expression with a
  line feed has the letter n there instead (`ExtractedValue`) and ends at it.
* `memory.cpp:138`: the length written is that before escaping, the length read
  that after it (`RereadContent`).

### Bounds, and why they are enough

* **Executor.** The executor's constants are its own parameters; the proofs cover
  all of them. The run has as many blocking tasks as workers, the case in which the
  pool stands still, and so many tasks that some always queue; two clients give
  two notifications in flight. The size comes from the hardware there; an explicit
  one and the fallback of 4 differ in nothing but the number, which the proofs leave
  open.
* **Agent.** `MaxReply` = 2 gives responses with calls in the first, the last,
  both or no messages. `MaxRuns` = 2 is the shortest conversation with an old
  history. The limits -1 and 2 give no iteration, a last one and one before it.
  `MaxMessages` is never reached. One load (`MaxLoads`) may come before, between or
  after the runs; a text that can no longer be loaded is not kept.
* **Provider.** Two callers are enough for every pair of steps to overlap; two
  setter calls change two different fields or one field twice. `MaxSets` bounds
  setters, not calls: callers go on until the provider ends.
* **Memory.** The window is at most 3 and is exceeded by one through `add`, by
  more through a load after `Restart`. `MaxItems` bounds only adds that throw.
* **Chain.** Three nodes have an LLM before and after a prompt node, two LLMs in a
  row, and a failure at each place. The templates have every relation of two
  markers, and brackets that match, only close, only open, and cross; the model names
  have what is not escaped in them: a bracket, a quote, a backslash. One load is
  enough because `ReloadKeepsPrompts` itself says what a second one does: nothing, if the
  names are plain and their brackets match.
* **Exchange.** Two iterations give a tool call and the request after it; in the
  second run there is a history with calls. The answers cover each branch of each
  parser. `Nesting` = 2 gives expressions of up to three operators, in all 18 500 texts,
  over numbers with a sign, with several digits and with a fraction; two operators are
  what precedence and order of application take.
* **Symmetry** is used over the callers of `provider_config`, which states no
  liveness; they are interchangeable in specification and properties.
* **Deadlock** is checked in every passing run but two: in `executor` the pool really
  stops when all workers wait, and `exchange` ends after its last run. A provider that
  has ended stutters (`Ended`).

### Fairness

* `Executor!Fairness`: weak fairness of each worker thread, of a client between
  push and notification, and of the destructor past `stop_`. The operating system
  schedules runnable threads, and `queue_mutex_` is held for a few instructions
  only. Nothing forces a submit, a destruction or a spurious wake-up.
  `notify_one` may wake any sleeper. Both liveness properties allow for one way out,
  `Stalled`: every worker sits in a `get()` for good, which the code does not prevent;
  `StallNeedsFullPool` says what that takes.
* `Agent!FairSpec`: `run` goes on: a provider's request ends at its timeouts at the
  latest (`http_client.cpp:45-47`), and tools are local functions. Nobody has to
  call the agent. Setters and loads are not interleaved with a run.
* `Provider!FairSpec`: each thread inside a call goes on, `Post` ends with an
  answer or at a timeout, callbacks of `chat_stream` return, and a setter holding the
  mutex goes on. Nobody has to collect a future or to end the provider. There is no
  assumption that the mutex is fair: `CallsReturn` runs with a bounded number of
  setter calls, so a caller cannot be starved by an endless stream of them.

## 4. Proofs

TLAPS proves the theorems below from the assumptions on the constants and no bound on
anything. Each module has an inductive invariant, named in its header, that TLC was
asked first; the invariants a run checks are parts of it or follow from it.

| Module | Theorems: `Spec =>` the property of some run |
|---|---|
| `ExecutorProofs` | `TypeCorrect`: `TypeOK`; `Conserved`: `Conservation`; `ShutdownIsSafe`: `ShutdownSafe`; `WakeupsAreNotLost`: `NoLostWakeup`; `Implementation`: `Service!Spec`; `OutcomesAreExplained`: `OutcomesExplained`; `StallsNeedFullPool`: `StallNeedsFullPool` |
| `ProviderProofs` | `ProviderTypes`: `TypeOK`; `RequestsHaveOneConfiguration`: `OneConfiguration`; `RequestsCarryACurrentKey`: `CurrentKeySent`; `RequestsGoAsBuilt`: `SentAsBuilt`; `SerialUse`: `SerialUseIsSafe` |
| `AgentProofs` | `AgentTypes`: `TypeOK`; `CallsAreAnswered`: `AskedWithAnswers`; `RunsAppendOnlyNew`: `AppendsOnlyNewWithPrompt`; `ResultsTellTruth`: `ResultTellsTruth`; `RunsLeaveNoCall`: `NoCallLeftBehind` |
| `MemoryProofs` | `MemoryTypes`: `TypeOK`; `EmbeddingsBesideItems`: `Aligned`; `RetrieveFindsBest`: `FoundIsBest`; `AddsRestoreWindow`: `AddRestoresWindow`; `SimpleItemsSurvive`: `SimpleItemsComeBack` |
| `ChainProofs` | `ChainTypes`: `TypeOK`; `LatestAnswerIsAsked`: `AskedWithLatestAnswer`; `ResultsTellRuns`: `ResultTellsRun`; `TemplatesRenderByPieces`: `RenderedByPieces`; `ReloadsKeepPrompts`: `ReloadKeepsPrompts` |
| `ExchangeProofs` | `ExchangeInvariant`: the inductive invariant; `RequestsHoldTheConversation`: `ContextIsComplete`; `AnswersFollowCalls`: `CallsAnsweredInPlace` |
| `CalculatorProofs` | `CalculatorIsRight`: `CalculatorEvaluates`; `ExpressionsEvaluate`: the same of any numbers and depth |
| `TextLemmas` | no property of its own: facts about joining and searching sequences of any length |

### Executor

From `PoolAssumption` (sizes are natural numbers, finitely many clients) and
`TaskAssumption` (a task object has one creator).

The inductive invariant is `IInv == TypeOK /\ Conservation /\ ShutdownSafe`
(theorem `Invariance`). `TypeOK` is inductive alone; it ties a worker's place to
the task it holds. `Conservation` needs it: that a worker which settles a task
is the only holder follows from the injectivity of `job`, and that a newly
submitted child is not queued yet from its last conjunct, which says that a child
is unknown until its one creator has passed its `submit`. `ShutdownSafe`
needs `Conservation` at the very end: when all workers have left, the queue is
empty and nobody runs anything, so every pending future has been settled.

`NoLostWakeup` compares the length of the queue with numbers of threads. Its
proof (`WakeupStep`) follows how many threads each step moves to or from "lock"
and "notify" (`Gain`, `OneMoves`, `TwoMove`): a push adds one task and one
notification; a notification that wakes somebody turns into a worker about to
lock; one that wakes nobody happens only when nobody sleeps, where the property
asks nothing; a worker that takes a task leaves with it; and a worker falls
asleep only when the queue is empty.

`Implementation` maps `TaskService`'s variables to `tasks`, the tasks in workers'
hands, the settled futures and the returned destructor: `TakeTask` is `Start`,
settling is `Settle`, `JoinAll` is `Close`, which needs `IInv` for its guard, and
everything else stutters.

`StallNeedsFullPool` needs that the tasks do not wait for each other in a circle.
`Ordered` says so without numbers: among any submitted tasks there is one whose child
is not among them; a new task has no submitted child, so it can be that one. With it, if
every worker sleeps, has left or is blocked and some worker is not blocked,
`NoLostWakeup` empties the queue, every pending task is in the hands of a blocked
worker, and the one among these whose child is not among them waits for nothing.
`OutcomesExplained` needs that what its clauses name does not change any more: futures
move forward only (`Forward`), `stop` stays, and the child of a task was submitted
before the task ends unless the pool refused it.

### Provider

From `ProviderAssumption`: `None` is no value of anything, the first configuration is
one, the kinds and operations are those of the code. `ProviderInv` adds to the
properties what relates the threads to the one object: the configuration in force is
among those of every call's time (`ConfInForce`), which makes any snapshot taken under
the lock one of them (`RequestsBuilt`); the key in force is a header whenever
`set_api_key` does not hold the lock (`HeaderInserted`), and since headers are only
inserted, a copy made later still has it; a client that nobody has replaced has the
url and a timeout of its own call (`ClientsConfigured`). For `SerialUse`, while nothing
was misused, at most one call is inside, its future is held, and the object is there
(`FuturesHeld`, `Serial`).

### Agent

From `AgentAssumption`, which puts no condition on the limits: zero and negative
iterations are included. `AgentInv` is `TypeOK` with the shape of `run`'s locals at
each step (`RunShape`: prompt, history, user message, then what the run adds), the
calls of the run, each of which is either among those still to execute or has
exactly one answer behind it (`CallsInHand`), the place of the history, right before
the user message (`RequestOfHistory`), and the ids (`IdsInOrder`), which rise
along the new part of the messages and are beyond those of the history:
hence nothing of the history is appended again. The action properties follow from
`AgentInv` by cases over the ways a run ends. For `NoCallLeftBehind` what a run adds to
the history is traced back (`RememberLeaves`): a call of this run is still to be executed
or answered further on, the user message is none, and where `UserMsgIndex` copies the old
history its calls are copied with their answers.

### Memory

From `MemoryAssumption`, for any items, windows (0 included) and any `Similarity`.
`MemoryInv` is the conjunction of the properties. `Aligned` is the heart: `add`, the
sliding of the window and loading must move both vectors alike. The three properties
about results speak of the last call: the step that makes it establishes them
from `TypeOK` and `Aligned`. Loading is stated by position
(`Selections`, `Readings`): which lines are kept, and as what; `SimpleItemsComeBack` is
an order-preserving bijection between the simple lines and the simple items.

### Chain

From `ChainAssumption`: templates, model names, inputs and answers are texts, names are
those of `NameOrder`, and none of the texts contains one of the tokens that stand for
where a node of a saved chain begins and ends. A template has no unescaped quote or
backslash, as `escape_json` ensures; a model's name may have both. `Types` is `TypeOK`
with what the steps rely on.

What `deserialize` finds, in whatever beginning of a saved text, takes four arguments.
First, scanning two texts one after the other is scanning the second from where the first
has led (`ScannedConcat`), and a node without a quote or backslash in its name leads
from between two nodes to between two nodes (`ScanNode`): what was written of a list of
such nodes is read as its prompts (`WrittenIsRead`). Second, any cut falls between
two nodes or inside one (`EveryCut`, by induction over the list); what stands before it is
read as it was written (`BetweenRead`), and of a prompt node that is cut the beginning
of its template (`InsideRead`). Third, after a name with a quote nothing of that kind is
left, but one thing holds of every token that is read, however the strings have shifted: a
template that is being read began where a prompt node begins, and has been drawn from
that node so far (`Fine`, `FineStep`). So what is read is a saved template or its beginning,
and each saved node is read once at most (`ReadIsSaved`). Fourth, the depth of brackets
adds up over texts (`DepthConcat`): a text is `Steady` if the array stays open all through it
and is at depth 1 at its end. The array ends where the text before is steady and a
bracket follows (`FirstEnd`), inside a node only at a bracket of its template or name
(`CutAtBracket`, `EndsAtBracket`). If the brackets of every template and name match, the
whole is steady and no shorter text ends (`MatchedComeBack`); if those of the names do,
what came back, saved again, is steady too and comes back as it is (`LoadedAgain`,
`AllLoadedAgain`). From the same lemmas a chain is still typed after `deserialize`, and no
longer than it was (`DeserializedFacts`).

`render` goes from hole to hole, both when it collects names and when it replaces them;
each pass is a function defined in leaps forward (`RenderLeaps`, `NamesLeaps`), unique and
therefore what the model computes. Where no hole is open, looking for a hole in the first
part of a template finds what looking in all of it finds (`FindInPart`, `HoleInPart`), and
after the cut all places are those of the second part, shifted (`FirstPart`, `LastPart`).
So both passes of the whole are those of the parts, joined (`RenderedApart`); with what
is rendered of a text without markers (`PlainStays`) and of one hole (`HoleIsReplaced`), also
one without a name, which only the second pass looks up, this is `RenderedByPieces`, of
any template and any variables.

`ChainInv` says of a run that the LLM nodes executed were asked once each in order
(`AskedOnce`), that the accumulated variables are the input with the last answer
(`Accumulates`), and what was returned (`Returned`). From these the last node
asked is the one whose answer is `last_output`, so the next question is that answer.

### Exchange

From `ExchangeAssumption`: prompts, questions and what the tool answers are texts,
a server's answers have the form `Dialect` gives them, and one that is understood
speaks as the assistant. The last is what a chat server does; the code would
also take `user`, `system` or `tool` from it (`KnownRole`), and hand that on in the next
request. Nothing is assumed of the tool's arithmetic, of the number of messages,
texts, calls and runs, or of the system prompt: a server may answer anything.

`ExchangeInv` has two parts beside types. `Settling` is about calls: each message of
the history and of the run that asks for a tool has the tool's answer right behind it,
except the last message of the run while its tool is executed; only OpenAI's
messages ask, and one tool at most is open, since of several calls the parser keeps
the first (`ResponseFacts`). `Telling` is about contents: the messages of the run,
as the provider writes them, say what was said, and between runs so does the
history. It is restricted like the property, to agents with a prompt or their first run.
It must know more than the property asks: what the history alone says, how much was
said before this run, and that messages begin with prompt and history, as
`Return` cuts them off by position (`ReturnKeeps`) and an empty response takes back
what the run said (`EmptyKeeps`).

Both properties then follow from the request being built from these messages. What a
provider makes of messages (`Turns`, `TextsApart`, `TurnPieces`) goes message by
message, so that it distributes over joining sequences (`ToldFacts`, `SpokenFacts`);
Claude's one message for each text says the same as one text (`TextsTold`). For OpenAI
the prompt is the first turn, for the others it is apart (`TurnsInline`,
`OpeningFacts`), and the number of turns tells the place of an answer
(`AnswersFollowCalls`).

### Calculator

From `ToolUseAssumption`: numbers are those one can write, with or without a sign and a
decimal part. `ExpressionsEvaluate` has no bound on length, depth or numbers: the answer to
an expression is its value, or an error exactly if it divides by zero somewhere.

The induction is over the depth of the expression (`ExpressionsAreRead`) and needs
more than that a text by itself is read: an expression is part of others. A text
`Stands` in a longer one, from a place to a place, if no digit or point follows it there
that a number would go on with. Of such a text one of three things is shown, by how
tightly it binds: read as one factor it gives its value and ends at its end, whatever
follows (`FactorReads`); the loop over factors, or over terms, comes to its value
after fewer turns than it has characters (`TermReads`, `SumReads`), but need not
stop there. That is why left operands combine from left to right: the loop
that has come to the left one goes one turn further (`RoundJoins`, `ProductsAreTerms`,
`SumsAreExpressions`). It has ended where no operator of its level follows
(`LoopEnds`), which is why a sum needs parentheses where a factor is read
(`BracketsAreFactors`), and why a right operand does that binds no tighter than its
operator. A factor is a term and a term is an expression (`FactorsAreTerms`,
`TermsAreSums`).

That the recursive functions of the model are what their definitions say is
proved first (`LoopRuns`, `FactorsNest`, `ExpressionsGrow`), each by itself: the
step of a recursion is an operator, which a lemma for all three would have to
take as a parameter.

### Induction over data

The library's induction theorems quantify over operators, which the installed provers
cannot instantiate. `TextLemmas` states induction with sets instead: the predicate is
the set of what satisfies it, and the least counterexample exists because `<` is well
founded on `Nat` (`LeastNatural`, `UpTo`). From these: what `FlattenSeq` returns
(`FlattenIsSum`), what it preserves (`FlattenInduction`), that what is gathered element by
element from two sequences is gathered from them joined (`GatheredConcat`), that a
function defined by leaps forward in a finite sequence exists and is
unique (`LeapsDefine`), can be cut where no leap crosses (`LeapsCut`) and moved
(`LeapsShift`), and that flattening goes piece by piece (`FlattenConcat`). No module that
is proved about has a RECURSIVE operator, which the provers do not read.

### Only model-checked

* All liveness: `ImplementsFairService`, `DestructorReturns`, `RunReturns`,
  `CallsReturn`. Fairness and ENABLED are out of the prover's reach.

Every safety property of a passing run is proved.

## 5. Not modelled

* Doubles of the calculator: rounding, overflow, the sign of zero and the ten
  decimals of the result; the fractions of the model are exact.
* What the providers send beside the conversation: sampling parameters, stop
  sequences, the parameter schemas of tools; what they read beside messages:
  usage, ids, and the vectors of `embed`.
* `HttpClient::get` and the move operations, which nothing in `src/` calls; the scheme
  that `parse_url` computes and `update_client` ignores.
* Thread creation that fails in the Executor's constructor, and an Executor
  destroyed by one of its own workers: both end in `std::terminate`.
* An Agent without a provider, which returns at once and changes nothing.
* Character-level escapes of the Agent's and the Chain's JSON, quotes in templates aside,
  a provider whose model changes between two calls of `serialize`, and the number
  formats of memory text; vendored libraries; value types.

## 6. Plan

Done: all modules of section 2, and theorems that state every safety property of the
passing runs.

What is left is what section 5 lists, first of all doubles in place of the
calculator's fractions, and, with a prover that handles fairness, the liveness properties.
