# TLA+ models of the workflow orchestrator

WorkCore runs published workflows: a graph of nodes is executed until it needs input, the run is
saved, its events are stored, streamed and posted to webhooks, and an answer continues it. Around
the runs there are projects that route chat messages to workflows, numbered versions of the
workflows, partners that hand work over, and tools that nodes call. These modules model the part of
`apps/orchestrator` that keeps this state, check it with TLC on small instances, and prove its main
invariants with TLAPS for every value of the constants.

* Code paths below are relative to `src/apps/orchestrator`, unless they begin with `docs/`.
* To check a run: `tlc -config MCEngine_overlap.cfg MCEngine.tla`. To check proofs: `tlapm
  EngineProofs.tla`.
* `PROJECT.json` maps every definition to the lines it models and lists components, runs, mutants
  (plausible bugs, each of which breaks one property), hazards and theorems.

## 1. Inventory

| Component | State it keeps | Operations | Talks to |
|---|---|---|---|
| Engine (`runtime/engine.py`) | a `Run`: status, node runs, outputs, interrupts, branch selection, loop state, skipped nodes | start_run, execute_until_blocked, resume_interrupt, rerun_node | executors and evaluator (calls); the caller owns the `Run` object |
| Executors (`executors/*`), MCP bridge (`mcp_bridge/service.py`) | none; the bridge serves one call at a time | one external call each | HTTP targets, the model, tools |
| Run requests (`api/app.py`, `runtime/multi_service.py`, `api/store.py`, `api/idempotency.py`) | stored runs, remembered replies | start, resume, cancel run, cancel interrupt, rerun | engine in a worker thread; then event hook, publisher, snapshot, final save |
| Event streaming (`streaming/*`) and run ledger (`api/ledger_store.py`) | events table, ledger, snapshot, bus queues, one generator per client | event hook, publish, replace snapshot, connect, replay, live | called by the requests; serves browsers |
| Outbound webhooks (`webhooks/service.py`, `store.py`, `dispatcher.py`) | subscriptions, deliveries | register, enqueue and first attempt, background dispatch, delete | called by the event hook; HTTP receivers |
| Handoff packages (`api/app.py`, `api/handoff_store.py`), inbound webhooks (`webhooks/service.py`) | packages with a status and a run; idempotency records | create, replay; signed start_run and resume_interrupt | start and answer runs |
| Chat (`chatkit/*`), a process of its own | threads with run id and event cursor, idempotency rows | message, action | resumes and starts runs, saves them in the run store, reads an event store in its memory |
| Session routing (`orchestrator_runtime/runtime.py`, `workflow_engine_adapter`) | session state, run stack, decisions | route a message: start, resume, switch, cancel, disambiguate | router; runs through the adapter |
| Router (`llm_adapter/responses_router.py`), offline evaluation | none | score workflows for a message; replay a conversation | the session routing's policy |
| Workflow drafts and versions (`api/workflow_store.py`), capability registry (`api/capability_store.py`) | draft, numbered versions, active version; contracts | update, validate, publish, rollback, delete; register | loaded by every start of a run |
| Project registry (`orchestrator_runtime/store.py`, `project_router`, project handlers) | projects, orchestrators, workflow index, context values | create, patch, delete, configure, index, set and unset | read by every message |
| Projections, serializers, partner self-service, integration kit, builder UI, migrations, scripts | configuration and text | | |

What makes it hard:

* **Concurrency.** Requests are coroutines of one event loop, engine calls run in worker threads,
  the webhook dispatcher is a background task. No lock is held per run, session or project. With the
  in-memory stores all of them share *objects*; with Postgres each has a *copy* and writes all of it
  back. There are hardly any transactions: a handler is a sequence of statements.
* **Failure.** A request is a sequence of independent writes (run, deliveries, ledger, events,
  snapshot, run again, reply). Any can raise; the process can stop between any two.
* **Ordering.** Events of concurrent requests get their sequence from `max + 1`, and so do versions
  and stack entries; a stream is assembled from a snapshot, a replay and a live queue.
* **Timeouts and retries.** A node's timeout is noticed after its effects; a call that timed out may
  have been received; a client repeats a request with its Idempotency-Key.

What has to hold, by component: a waiting run can be answered, a node that is executing is accounted
for, a run is never left RUNNING with nobody to continue it, what an expression reads is settled
(engine); an accepted answer ends the node, what a node shows was executed, every node ends
(executors); accepted answers are kept and interrupts are answered once (requests); sequences are
dense, events are sent once, the ledger is complete (streaming); calls are bounded, every delivery
settles (webhooks); retries execute nothing, a package tells the truth about its run (handoffs); an
action is applied once, what is completed is stored, the waiting run can be reached (chat); a
session has one active run, it is alive and on the stack (routing); the evaluation says what the
routing does (evaluation); versions never change, are numbered without a gap and valid (versions);
nothing dangles and what was accepted is kept (registry).

## 2. Modules

| Module | Models | Composed of |
|---|---|---|
| `Engine` | one run of one workflow, with the API handlers that touch it | instantiates `RunLifecycle` for the refinement |
| `RunLifecycle` | abstract: the statuses of a run that is only answered | |
| `ToolCalls` | the external calls of http, agent and mcp nodes, and the bridge | its `Start`, `Raise`, `Discard`, `Resolve` are the engine's attempts |
| `RunRequests` | API requests on one run over either store, with the engine abstracted to what `Engine` shows of it | |
| `EventStream` | the record of one run: row, ledger, events, snapshot, streams | |
| `WebhookDelivery` | deliveries to one subscription | |
| `RunIntake` | handoffs and inbound webhooks that start or answer runs | |
| `ChatThread` | messages and widget actions of one chat thread, with the same abstraction of the engine | |
| `SessionRouting` | overlapping messages of one session, the adapter, the stack | the router is any route |
| `RoutingReplay` | the heuristic router and the policies, a session and its evaluation | messages one by one |
| `WorkflowVersions` | draft and versions of one workflow, capabilities, starts of runs | instantiates `VersionLog` for the refinement |
| `VersionLog` | abstract: an append-only log of what the draft once was | |
| `ProjectRegistry` | one project over both stores, and how messages find its orchestrator | |
| `*Proofs` | theorems about the module they are named after; `EngineProofs` also about `ToolCalls`, `RunIntakeProofs` about `RunRequests`, `SessionRoutingProofs` about `RoutingReplay` | extend it and `TLAPS`, instantiate the other |
| `MC*` | graphs, publishers, messages and symmetries for TLC | extend the module |

Each of the modules is one *view* of the program at the grain where its own races happen. A pass of
the engine is many steps in `Engine`, one step with `Engine`'s outcomes in `RunRequests` and
`ChatThread`, and one step with a status in `SessionRouting`; the publishers of `EventStream` are
single steps (`hook`, `snapshot`) of `RunRequests`. They are not composed in one state space: that
would multiply the interleavings, and what they share, the stored run, is kept by each abstraction
(its status, its open interrupts, who has answered them).

### Engine

`execute_until_blocked` is `BeginPass` (the list of runnable nodes), then for each node of the list
in order of id `StartNode` and one `Handle...` action per node type, then `EndCall`. `phase` is the
program counter, `todo` the rest of the list. A handler and what `_execute_node` does afterwards
(timeout, retry, failure, RESOLVED) are one action; the model lets others in between two nodes and
while a node executes, which is where the code waits, not at every bytecode. What decides a branch,
an executor's result and the clock are nondeterministic. `Resume`, `Rerun`, `CancelRun` and
`CancelInterrupt` are the handlers' changes of the run; none of them looks at what else is at work.
The graph is a constant. `Reachable` is the least closed set, written without recursion so that the
module can be proved about.

Resume and rerun bring an engine call of their own, in a thread of its own
(`runtime/multi_service.py:131`, `:147-148`). With the in-memory store, which hands out the object
it keeps (`api/store.py:53-60`), a second one can begin while the first is at work. `phase`, `todo`,
`popped` and `alone` are those of the call whose thread runs, `parked` has the same of the calls in
the threads `Others`, and `Switch` exchanges them. `BeginCall` is what resume and rerun have in
common. A call that executes a node whose node run is popped goes on with the one it has in hand,
which is nobody's any more: `popped` keeps its attempt, and `Marked` writes no status. (Two threads
in one node whose run both have in hand when it is popped would share its count of attempts; each
has its own here.) `alone` tells that no other call was under way since this one began, `crossed`
has the nodes that a handler has left IN_PROGRESS since another call made the run wait; both are
history. `Others = {}` is one call at a time, which is also how it is with Postgres, where every
request works on a copy (`RunRequests` has what becomes of those).

### ToolCalls

Each node is of a run and in a thread of its own. `Start`, `Raise`, `Discard` and `Resolve` are
`_execute_node`: attempts, `max_retries`, the comparison of the attempt's duration with `timeout_s`
(`InTime`). `Raise` is an exception of the executor, `Discard` one that the engine raises when the
executor has returned: the duration, or a path of the state that the output is to be written to and
that leads through a value which is no object (`_set_path`, `engine.py:485`, `:492`, `:501`,
`:754-760`). `Merging` is the set of nodes that the latter may happen to. In between the executor
refuses its configuration (`Reject`), has the host of an http node looked up (`DenyEgress`), sends
(`CallTarget`, `CallModel`, `CallTool`) and waits until there is an answer, the connection breaks or
its client gives up; `TryAgain` is the inner loop of the http executor. A call is named by node,
attempt and try. Whoever is called may execute it (`Execute`) as long as it has arrived, also after
the caller has gone. The bridge calls its tool synchronously from the event loop, so `serving` is
one call and `queue` holds the others. What makes an answer acceptable depends on the node: an
allowed status (`Lenient` nodes accept any), a result object, an output that fits the schema
(`Structured` agents).

### RunRequests

One request is the sequence lookup, load, (check, resolve or rerun, engine), hook save, snapshot,
final save, reply; the cancellations publish first. `heap` holds the `Run` objects in use,
`storedAt` says which one is stored and `loc` which one a request works on: with the in-memory store
`get` returns the stored object and every `save` puts a new object there that still shares the
interrupts with the old one; with Postgres every load is a copy, read in two steps, and `save`
overwrites the row. The engine's pass is one step with the outcomes that `Engine` has: it waits for
a new interrupt, completes or fails. If it comes to a start node, `run.state` is replaced
(`StateReplaced`), and with it what was answered before: after a rerun of the start node, also by a
later request's pass, since a rerun of a waiting run only takes the node out; in a loop; or when
start nodes follow interactions. `answers` are those whose input is in `run.state`. `met`,
`answered` and `discarded` (the inputs that a pass has taken out of the state) are history.

### EventStream

A publisher is what a request does after the engine's pass: the event hook (`PersistRun`,
`WriteLedger` per event) and then `_publish_with_snapshot`: lock, read the maximum, insert (and
commit), bus, then the snapshot; a cancellation (`Cancels`) loads the run, publishes first and then
runs the hook. The in-memory store's append is the same three steps with nothing in between.
`DeleteRun` is the deletion of the workflow, which cascades to run, ledger and, over the database,
events. A client is one run of `_event_stream` per connection: snapshot, query, replayed events one
by one, subscription, live events. `base` and `window` are history: what the client already covers,
and what reached the bus while its replay was being sent.

### WebhookDelivery

`RegisterOutbound` and `DeleteSubscription` are the life of the subscription, `Subscribed` its event
types. Worker `d` is the request that emits the event of delivery `d`; worker `Dispatcher` is the
background loop. Both run `_attempt_delivery`: count, call, result, write. `Held` and `Assign` are
the difference between the stores: one delivery object, or a copy written back. `backend` is a
variable that never changes, so that one run covers both.

### RunIntake

One tenant, one key, one integration. A handoff is `LookUp` (the remembered reply), `Find` and
`Insert` (the package of the key), `Start` (the runtime), `Save` (the run), `MarkDone` (the
package's status) and `Remember`; a replay takes the package with `GetPackage`; when the runtime
raises, `MarkFailed`. An inbound webhook starts a run, or answers the interrupt with `Load`,
`Resume`, `Save`. Packages and runs are named after the call that made them. A run is a row with its
interrupt (`open`), which `Start` or `Resume` stores by the event hook and `Save` writes once more
from the call's copy (`sawOpen`), whatever was stored in between (`webhooks/service.py:178`,
`:192`). `BreaksOff` ends a call anywhere: a store raises or the process stops. `SeesKey` has the
fact that an inbound webhook's key is never found (see 3.2). `after`, `answers` and `forgotten` are
history.

### ChatThread

One request is a message (`respond`) or a click on a widget (`action`) and ends in the stream of the
run's events. `pc` names the next await:

| `pc` | Code in `chatkit/server.py` |
|---|---|
| `off` | the request comes: `Message`, `Click`; ChatKit loads the thread with it |
| `load`, `interrupts` | `_run_store_get`: two of its statements, with whatever others save in between |
| `reserve` | `idempotency.start`: `Reserve`, or `Refuse` when the unique index has the key |
| `resolve`, `start` | `_resolve_workflow` (which saves the thread), `start_run` |
| `answer` | `resume_interrupt`; `ResumeRaises` leads to `fail`, which marks the row FAILED |
| `save`, `point`, `complete` | the run is saved; a new one is put into the thread; an action's row becomes COMPLETED |
| `list`, `show` | `_emit_run_events`: the events after the cursor, each sent, then the cursor saved |

Runs (`rows`), the thread and the idempotency rows (`keys`) are in Postgres; the service keeps its
events in an `InMemoryEventStore` (`log`), which a `Crash` empties. A request works on copies and
every save writes the whole copy. A tag is the canonical action type or a key that the client sends.
A click may name any interrupt created so far, as old widgets stay on the screen. `Abandon` ends a
request at any await after it could have changed something: its client has gone, and the generator
is stopped, or a store raises. `applied`, `shown` and `overlapped` are history.

### SessionRouting

`msg[m].step` is where the handler of message `m` is. `Load` copies the session state, `Look` the
active run and the time of the newest switch among the last `RecentLimit` decisions, and one of
`Operator`, `Cancel`, `Clarify`, `NoTarget`, `StartNew`, `Continue`, `Switch` (`DecideDirect` for a
message that names its workflow) is the decision. The adapter's `AdapterCancel`,
`AdapterResume`/`Resumed` and `AdapterStart` change the runs, `ReadIndex` and `PushStack` the stack,
whose index is unique, and `SaveSession`, `SaveDecision` (for direct messages `SaveDirect`) end the
message. Each of them is one statement of the database store or one adapter call, and another
message may come between any two. `Raises` and `MessageFails` end a message early, `RunChanges` is
the API, which may answer, cancel or delete the session's runs, and `WorkflowDeleted` makes a start
raise. `Cancelled` clears `metadata.cancellable`, the flag that the next switch looks at. `met`,
`touched`, `acted` and `switches` are history.

### RoutingReplay

The same decision code at the other grain: no overlap and no failures, but the shortlist (`Ranking`,
`Shortlist`), the heuristic router's scores (`Route`), the clamped policy settings (`PolicyOf`) and
the target are modelled as they are, in thousandths. The code has the decision twice, once for the
session (`Operator` ... `Start`) and once for the evaluation (`EvalOperator` ... `EvalStart`), with
shared parts (`Route`, `Target`, `SwitchError`); the model keeps them apart in the same way.
`Submit` gives the tape of the session to the evaluation, with or without the active workflow of
each message.

### WorkflowVersions

A publish is `Validate` (the handler reads the draft), `ReadDraft` (the store reads it again),
`ReadNumber`, `Insert`, `Activate`; a rollback `ReadActive`, `ReadContent`, `Restore`; a start
`Resolve` (the active or a named version), `LoadVersion`, `SaveRun`. Drafts and versions refer to
`bodies`: over the database each has its own, over the memory store (`InMemory`) versions share
theirs with the draft they were made of, and `Fill`, the defaults that a start of a run writes into
the nodes of capability contracts, writes into that. `EditDraft`, `RegisterCapability` and
`DeleteWorkflow` are one statement each. The refinement mapping shows a version as the content of
its body, the past as all contents that bodies have.

### ProjectRegistry

`db` has the rows of one project: itself, its orchestrators, its index of workflows, the workflows,
and the context of one session. What handlers let through to the stores are the sets `CreateProject`
... `UnsetContext`. Over memory a request is one action (`Memory...`), over Postgres it is a
sequence of statements (`InsertProject`, `ReadProject`/`WriteProject`,
`ListWorkflows`/`DeleteProject`, `CheckWorkflow`/`UpsertConfig`/`WriteDefault`/`Reload`,
`ChooseConfig`/`GetConfig`, `WriteKey` for each key ...), any of which may fail. The foreign keys of
the migrations are part of the actions: deleting a project takes orchestrators and index along, but
not the context.

## 3. What TLC checks

| Run | States | Question | Properties |
|---|---|---|---|
| `overlap` | 2,974,998 | two threads with engine calls on the same run, every API call at any point | `WaitingIsAnswerable`, `InProgressIsAccounted`, `StartsAfterDependencies` |
| `flow` | 525 | a loop with an interaction, then a branch and a join, only answered | `NeverStranded`, `OutputsAreSettled`, `CallReturns`, `ImplementsLifecycle` |
| `calls` | 23,370 | nodes of all kinds with both retry loops, lost and late calls, two in front of the bridge | `AcceptedEndsNode`, `ResolvedIsExecuted`, `NodesEnd` |
| `requests` | 4,356,422 | three requests over both stores, failing anywhere, a crash, replies that expire | `StoresKeepAnswers`, `AnsweredOnce`, `StoredWaitIsAnswerable` |
| `stream` | 379,193 | two publishers, one of them a cancellation, one without events, a client that comes back, a deletion | `SequencesAreDense`, `SentOnceEach`, `RecordIsKept`, `LiveEventsAreSent` |
| `webhooks` | 697,814 | two deliveries over both stores, a deletion, store failures, a crash | `CallsBounded`, `LateCallsBounded`, `DeliveriesSettle` |
| `intake` | 7,866,167 | three handoffs and webhooks, two at a time, breaking off anywhere | `RetriesReplay`, `PackageMatchesRun`, `StatusTellsLast`, `AnsweredOnce` |
| `chat` | 1,764,714 | three messages and clicks of a thread in any order, failing or abandoned anywhere, a crash | `ActionAppliedOnce`, `CompletedIsStored`, `ShownOnce`, `WaitIsReachable` |
| `routing` | 1,288,346 | three messages of a session, two at a time, with one failure or one API call from outside | `ActiveIsStacked`, `OnlyDisturbedStray`, `ActiveIsAlive`, `SwitchesApart` |
| `replay` | 611,372 | four messages to three orchestrators, and their evaluation | `ReplayPredicts` |
| `versions` | 2,492,386 | three publishes, rollbacks and starts, two edits, statement by statement | `PublishedIsValid`, `NewestIsActive`, `PinnedToActive`, `ImplementsVersionLog` |
| `registry` | 4,710,036 | three requests of ten kinds over both stores, each statement of which may fail | `DefaultIsConfigured`, `AcceptedIsKept`, `OnlyNewWorkflowsAreOrphaned` |

All runs pass, and every property has a mutant that breaks it. The type invariants are proved for
nine of the modules (section 4) and were checked with TLC while the other models were written.

**Shape of the properties.** Much of what one would wish for is not true of the code when requests
overlap, since nothing makes them wait for each other. Such a property names what may break it
(`met`, `alone`, `crossed`, `discarded`, `touched`, `forgotten`, `Overlap`), and its claim is that
*nothing else* does: `InProgressIsAccounted` leaves only handlers whose engine call overlapped
with one that made the run wait; `StoresKeepAnswers` only requests that overlap and passes that
execute a start node; `OnlyDisturbedStray` says that messages that come one after the other and
succeed strand no run, whatever the router says; `ReplayPredicts` lists the five differences
between the two copies of the decision; `PublishedIsValid` leaves only the window between the two
readings of the draft.

### 3.1 Bounds, fairness, deadlock

* *Graphs.* `flow` has every node type, a loop left at once, repeated and driven to its limit, an
  interaction inside the loop, a branch of which one side waits, a join, retries and timeouts.
  `overlap` has a task that may be retried and an interaction in parallel, joined in the end, which
  is enough for one pass to make the run wait while another is in a handler, and for a cancellation
  to disturb what a retry brings back. It has two threads: a second call can begin, and end,
  anywhere in the first, and a third after either. `MaxInterrupts = 3` stops reruns once three
  interrupts have been created, so that interrupts can be created, answered, reset and left behind.
  The properties of `overlap` are proved for every graph and every number of threads,
  `StartsAfterDependencies` for a class of graphs (section 4).
* *Calls.* Two attempts of two tries are one retry of either loop, inside and across attempts; the
  bridge's queue needs two nodes, of which one has a timeout; nodes that do not meet in front of the
  bridge do not influence each other, so `Together` starts one group at a time. `Merging` has an
  http node without a timeout and an agent node with one.
* *Requests.* A lost update needs two requests after the start; with three there is also a retry or
  a cancellation in the middle, or a rerun of the start node between the wait and the answer.
  `Interrupts` bounds how often the run can wait; two is a wait after an answer.
* *Streaming.* A collision, a hole and an out-of-order snapshot each need two publishers; a client
  that lost its connection needs two connections. Clients do not influence each other.
* *Webhooks.* Two deliveries let the dispatcher hold a list while a request works on one of them;
  two attempts are one first attempt and one repetition; one crash can fall anywhere.
* *Intake.* A retry that meets what its predecessor left behind needs two calls, a replay or another
  payload beside them a third; `MaxInFlight = 2` lets any two overlap. A start and two answers to
  its interrupt are three as well.
* *Chat.* An interrupt can only be answered after a request that started the run, so three requests
  are the first message and any two that meet on its interrupt, or follow each other. Three passes
  let a second run begin or the first wait again; two action types, or one type with two keys, are
  two rows for an interrupt.
* *Routing.* Start, then two messages that overlap or follow each other; `RecentLimit = 1` stands
  for 5, and one tick separates before and after a cooldown of 1. What three messages do not reach
  is a switch that has left the window when the next one is decided (start, switch, something else,
  switch are four): that disjunct of `SwitchesApart` is covered by the theorem `CooldownKept` only.
* *Replay.* `MCRoutingReplay` says what each orchestrator and each message is for; limits 1 and 3
  stand for 5 and 20. Four messages start, ask or switch, and come back.
* *Versions.* Three overlapping publishes take each other's numbers; a well-formed graph, one that
  pins a capability, and a malformed one with a secret in its contract are what publishing and
  starting tell apart.
* *Registry.* A dangling default needs a deletion and a creation during an upsert: three requests.
  Two keys let patches write different ones.

**Fairness.** `Engine`: weak fairness of `execute_until_blocked`, which runs in a thread to its end
(`CallReturns` is checked of one call at a time); no API call is owed. `ToolCalls`: weak fairness of
each node's thread, as httpx raises when nothing has come for as long as its timeout and the model
answers or closes the connection, and of the bridge, whose call to the tool has a timeout; httpx
counts its timeout anew with every read, so a target that sends a byte now and then for ever is
outside this fairness, and outside `NodesEnd`; executing, answering and the clock are not fair.
`EventStream`: weak fairness of each publisher and each connected client, as the event loop resumes
every coroutine that can go on; connecting, breaking off and failing are not fair.
`WebhookDelivery`: requests and the dispatcher go on, a call is answered or times out (the client
has a timeout), a backoff ends; deletion, store failure and crash are not fair. The other modules
are checked for safety only: a client may always go away.

**Deadlock** is checked for `Engine`, where `Rest` is the only thing left for a run in peace. The
other models end when every request is done, so their configurations turn it off.

### 3.2 Met while modelling

What the code does and a reader of its documentation may not expect; it is the reason for what the
properties leave out.

*Engine.* An answer revives a CANCELLED run, whose interrupts `cancel_run` leaves OPEN
(`api/app.py:2720`, `runtime/engine.py:127`; `docs/architecture/runtime.md:46-50` has no such
transition). `rerun_node` on a run that is not RUNNING resets nodes and recomputes nothing
(`engine.py:130`, `runtime.md:218`), and on a waiting run it takes away the node run of an OPEN
interrupt. An if_else inside a while loop skips nothing, because the `loop_back` edge makes every
target reachable; a join then waits for ever and the run is left RUNNING (`engine.py:254`,
`runtime.md:69`). A node that follows a task and is also the target of an if_else which has not
decided yet starts at once, because an edge from an undecided if_else counts as inactive
(`engine.py:586`, `runtime.md:68`: "A node becomes runnable when all inbound dependencies are
resolved."). The entry of an inner while loop in `loop_state` survives an iteration of the outer
loop (`engine.py:572`, `:646`), which strands nested loops. `cancel_run` and `cancel_interrupt` also
change COMPLETED runs. An interaction that times out leaves its interrupt OPEN.

*Engine calls that overlap.* With the in-memory store nothing keeps a second resume or rerun from
starting another pass on a run that an engine thread is executing (`api/app.py:2743-2755`,
`:2771-2781`, `runtime/multi_service.py:131`, `:147-148`, `api/store.py:53-60`). Let interaction 2
and task 3 follow the start: the answer to 2 begins a pass that executes task 3, and meanwhile a
rerun of node 2 makes the run wait; task 3 then returns, is neither RESOLVED nor retried
(`engine.py:191`) and is IN_PROGRESS for good, in a run that the next answer brings to a
standstill. Such nodes are `crossed`; `InProgressIsAccounted` says that there are no others. A
rerun of a node takes its node run away (`engine.py:140-142`) although the other pass has what
follows it in its list and starts it next (hence `alone` in `StartsAfterDependencies`), and a
handler whose node run was popped finishes for nobody: the node starts once more.

*Requests.* `start_run`'s second save (`api/app.py:2043`) overwrites a run that was answered and
completed in between. The get of an expired reply deletes by key without looking at `expires_at`
again (`api/idempotency.py:113-125`), so it can delete a reply stored meanwhile; `Expire` may happen
at any time for this reason. An accepted answer can be lost with no overlap: a rerun of the start
node of a run that waits takes the node out and executes nothing, and the pass of the next answer
executes it, which replaces `run.state` (`engine.py:225`) with the answer in it.

*Streams and ledger.* An event between a stream's query and its subscription is never sent
(`streaming/sse.py:47`, `docs/architecture/streaming.md:7`). A `Last-Event-ID` that names a replaced
snapshot replays everything (`streaming/store.py:57`, `streaming.md:23` "replay starts after that
event id"). Cancellations publish before they save and write the ledger (`app.py:2731`, `:2823`).
The ledger's retry after a foreign key violation (`app.py:498-515`) is in vain: the run's row only
disappears with its workflow. Its listing returns the oldest entries. With the default memory store
for events, those of a deleted run stay.

*Webhooks.* Over Postgres request and dispatcher attempt the same delivery and the late write puts
the count back: up to twice `max_attempts` calls (`webhooks/service.py:277`,
`docs/architecture/webhooks.md:36`). A store exception ends the dispatch loop until the process
restarts (`service.py:67`); deliveries that used up their attempts stay due.

*Inbound webhooks.* The headers come as `dict(request.headers)`, with lower-case names, so
`"Idempotency-Key"` is never found over HTTP and each repetition of start_run starts a run
(`webhooks/service.py:147`, `app.py:2864`; `webhooks.md:61` "Idempotency prevents duplicate side
effects for retried inbound requests."). A second resume_interrupt is refused because the interrupt
is not OPEN any more, unless the start_run call is still in flight: it saves the row a second time
from its own copy (`service.py:178`), in which the interrupt that was answered meanwhile is OPEN,
and a later answer is accepted once more. `AnsweredOnce` has that as its only exception beside
answers in flight together.

*Handoffs.* A retry after a call that failed, or whose reply could not be remembered, finds the
package and starts a second run for it; when that fails, a STARTED package becomes FAILED without a
run. A key that is used again with another payload runs the new payload under the old package. Two
creations at the same time end in the unique index's exception. A save that fails leaves the package
RECEIVED.

*Chat.* A failed action cannot be retried, although the client is told so (`allow_retry=True`,
`chatkit/server.py:228`): its row stays FAILED, and `start` (`chatkit/idempotency.py:24`) inserts
and never looks at `status` or `expires_at`. The same holds for a row that a crash leaves
IN_PROGRESS. `last_event_id` is one cursor for all runs of a thread: an action on an older run
stores an event of that run there, and the next answer to the newer run shows all of its events
again (hence `OneByOne`). The cursor is stored at the end of the stream; a client that leaves before
has the events shown again. Approve and reject on one interrupt have different rows: when they
overlap both are applied, each to its own copy, and the last save wins.

*Routing.* A start that fails after a switch has cancelled the run leaves the session on the
cancelled run (`runtime.py:738`); a message that fails after the engine's pass leaves it on a
completed run, which a later cancel marks CANCELLED. A direct message does not cancel the run it
takes over from. The cooldown looks at the five latest decisions only.
`docs/architecture/runtime.md:122` says "Move to fallback after max disambiguation turns.", the code
starts the first candidate.

*Evaluation.* The session keeps its count of questions when the user cancels or asks for an
operator, the evaluation resets it. Without candidates the session does not ask the router, so that
intents are not honoured; the evaluation asks it. The session looks back at 5 decisions, the
evaluation at 20, between which no time passes. A run whose metadata has `cancellable: false` cannot
be left by the session, the evaluation does not know. Scores count twice, in the shortlist and in
the router.

*Versions.* A draft that changes between the handler's validation and the store's reading is
published unvalidated. Overlapping publishes may leave the older version active. A rollback
overwrites concurrent edits. Over the memory store starting a run writes capability defaults into
the published version (`runtime/multi_service.py:263`; `docs/api/reference.md:442` "publish
immutable version"): with `InMemory = TRUE` TLC finds `ImplementsVersionLog` violated, which is why
the refinement is stated and proved for the database. A contract with a secret in its defaults is
accepted at registration and refused when a run is started (`multi_service.py:378-388`).

*Registry.* Creating a workflow never checks that the project exists, nor creating a project that
its default orchestrator does. A patch of the name writes back all settings it has read. The context
of a session outlives its project over Postgres and not over memory; the index entry of a deleted
workflow outlives it over memory and not over Postgres. `fallback_workflow_id` may name a deleted
workflow.

*Calls.* `timeout_s` of an http node is both each request's timeout and the attempt's limit, which
is checked after the handler: a retry inside the attempt after a timed-out request is in vain, and
an accepted answer can be thrown away and its call repeated. Without a `timeout_s` the same happens
to an answer whose output cannot be written to its path of the state, as a value on the path is no
object (`engine.py:754-760`): each retry calls out again and meets the same state. An mcp node's
`timeout_s` is only passed on; the bridge's client and the bridge have settings of their own. Calls
that wait in front of the bridge may be executed for callers that have gone, so a tool can be
executed once per attempt.

## 4. What is proved

For every graph, number of requests, messages, deliveries and clients, and every bound, from the
ASSUMEs of the modules only (finite sets, naturals, ids that differ):

| Theorem | States |
|---|---|
| `EngineProofs!TypeCorrect`, `WaitingAnswerable`, `InProgressAccounted` | `TypeOK` and the invariants of `overlap`, for any number of threads |
| `EngineProofs!PassStops`, `AttemptsWithinBudget` | in a call that nothing overlaps no node starts once the pass has blocked or completed the run; at most `max_retries + 1` attempts |
| `EngineProofs!OutputsSettled`, `DependenciesFirst` | `OutputsAreSettled`, `StartsAfterDependencies`, each under hypotheses (below) |
| `EngineProofs!LifecycleSteps` | a run that is only answered takes only the steps of `RunLifecycle` |
| `EngineProofs!NeverLeftRunning` | `NeverStranded`, for tidy graphs (below) |
| `EngineProofs!CallsTyping`, `AcceptedEnds`, `OutputIsExecuted` | of `ToolCalls`: `TypeOK`, `AcceptedEndsNode`, `ResolvedIsExecuted` |
| `EventStreamProofs!DenseSequences`, `RecordKept`, `StreamIsWhole` | `SequencesAreDense`, `RecordIsKept`, `SentOnceEach` |
| `WebhookDeliveryProofs!TypeCorrect`, `SuccessIsReal` | `TypeOK`, SUCCESS was acknowledged |
| `WebhookDeliveryProofs!LateCalls`, `EveryAttemptIsPaid`, `MemoryAttempts` | `LateCallsBounded`, `CallsBounded`; over memory a row counts its calls |
| `ChatThreadProofs!TypeCorrect`, `AppliedOnce` | `TypeOK` (with: thread and requests name only runs that exist), `ActionAppliedOnce` |
| `ChatThreadProofs!CompletedStays`, `WaitingIsReached`, `EventsShownOnce` | `CompletedIsStored`, `WaitIsReachable`, `ShownOnce` |
| `SessionRoutingProofs!Typed`, `ActiveStacked`, `ActiveAlive` | `TypeOK`, `ActiveIsStacked`, `ActiveIsAlive` |
| `SessionRoutingProofs!StraysDisturbed`, `CooldownKept` | `OnlyDisturbedStray`, `SwitchesApart` |
| `SessionRoutingProofs!Simulates` | of `RoutingReplay`: `ReplayPredicts` |
| `WorkflowVersionsProofs!Typed`, `DenseNumbers` | `TypeOK`, versions are numbered 1, 2, ...; both for either store |
| `WorkflowVersionsProofs!ValidWhenPublished`, `ActiveIsNewest`, `PinnedWhileActive` | `PublishedIsValid`, `NewestIsActive`, `PinnedToActive` |
| `WorkflowVersionsProofs!Refinement` | over the database `Spec` implements `VersionLog` |
| `RunIntakeProofs!Typed`, `RetryReplays`, `PackageHasItsRun` | `TypeOK`, `RetriesReplay`, `PackageMatchesRun` |
| `RunIntakeProofs!InterruptAnsweredOnce`, `LastCallTells` | `AnsweredOnce`, `StatusTellsLast` |
| `RunIntakeProofs!ApiTyping`, `AnswersStay` | of `RunRequests`: `TypeOK`, `StoresKeepAnswers` |
| `RunIntakeProofs!OneAnswer`, `WaitIsAnswerable` | of `RunRequests`: `AnsweredOnce`, `StoredWaitIsAnswerable` |
| `ProjectRegistryProofs!Typed`, `NothingDangles`, `OrphansAreNew` | `TypeOK`, `IndexIsBacked`, `OnlyNewWorkflowsAreOrphaned` |
| `ProjectRegistryProofs!DefaultStays`, `NothingAcceptedIsLost` | `DefaultIsConfigured`, `AcceptedIsKept` |

The theorems about `ToolCalls`, `RunRequests` and `RoutingReplay` stand in the proof module of the
component next to them, about an instance of the module (`Tool`, `Api`, `Sim`) whose variables are
declared there. What the module assumes of its constants is a hypothesis of these theorems
(`Tool!ToolCallsAssumption`, `Api!RequestAssumption`, `Sim!ReplayAssumption`,
`Sim!NoneAssumption`); TLC confirms it in the module's own run.

Hardly any of these is inductive as it stands. What is added, and why:

* *Engine, every graph.* The conjunction of the type invariant and the properties is inductive with
  what the calls are (`CallsInv`), for any set of threads. `InProgressIsAccounted` alone is not: a
  handler that returns into a run that is WAITING leaves its node IN_PROGRESS. A call that nothing
  overlaps does not do so, as its pass goes on only in a run that is RUNNING, CANCELLED or FAILED
  (`OneCall`), and a call that is alone and one that is under way in another thread exclude each
  other (`CallsApart`); any other call marks the node as `crossed`. One lemma covers the end of a
  handler for all node types that create no interrupt; `HandleInteraction` has its own case.
* *Engine, under hypotheses.* `HandleDeed` sums up what the execution of a node does, whatever its
  kind (`Handled`); the three invariants below are proved from that.
  * `OutputsSettled` assumes one engine call at a time (`Others = {}`), that no interaction has a
    timeout and that nobody calls rerun; otherwise an old interrupt stays OPEN, and its answer gives
    an output to a node whose run was taken away. An open interrupt is then the only one, with
    nothing running (`OpenBlocks`); an interrupt belongs to a node that has started (`Asked`), and
    an output to a node that is RESOLVED or will be.
  * `LifecycleSteps` is the refinement that `flow` checks, without its fairness: one engine call at
    a time, no timed interaction, and answers as the only calls. A timed interaction could revive a
    FAILED run.
  * `DependenciesFirst` assumes a graph without loops in which the target of an if_else depends on
    nothing else (`PlainGraph`): see the if_else that has not decided yet in section 3.2. Any call
    may come at any time, in any number of threads; the property is about calls that nothing
    overlaps. Then what the rest of a pass depends on is settled, and a pass settles nothing that it
    still has to start (`StaySettled`, of every call that has been alone so far). A cancellation in
    the pass may turn a dependency, an interaction that has been answered, to ERROR, and a retried
    task may set the run to RUNNING again: the nodes after it start all the same, so `Settled` has
    an interaction with a CANCELLED interrupt among what is done.
  * `NeverLeftRunning` assumes a *tidy* graph (`TidyGraph`), one engine call at a time, answers as
    the only calls, and timeouts only at nodes that neither choose nor ask (`OnlyStepsTimeOut`).
    Tidy: every path goes on to an end and only loops go back; what the choice of an if_else can cut
    off is entered through that if_else only; the body of a loop is entered and left through its
    while node, and holds tasks and interactions only. Conditions may be nested, follow each other
    and end a run early, any number of branches may wait at once. The engine does not ask for
    tidiness, and each part excludes a graph, or a schedule, that it strands:
    * where two conditions cross (1 to 2, 3, both if_else; 2 to 4, 5; 3 to 6, 7; 4 and 7 join in 8,
      5 and 6 in 9, both lead to the end), choosing 4 skips 9 and choosing 6 skips 8, each out of
      reach of the side that was chosen: both joins are gone and the run is left RUNNING;
    * an if_else inside a loop skips nothing (section 3.2), and the `loop_state` of an inner while
      survives an iteration of the outer one (`engine.py:572`);
    * an if_else that times out after it has chosen (`engine.py:182`) may choose another branch when
      it is retried: then both are skipped (`engine.py:254-260`). A while that times out after it
      has entered its body waits for the `loop_back` node that it has just reset.

    Tidiness is sufficient, not necessary: it also refuses a nested if_else one branch of which
    ends the run while the other leads to a join outside. TLC confirms it of both graphs
    (`TidyAssumption` in `MCEngine`).

    What is invariant (`TidyInv`): a run that can go on has no node in ERROR and no end that is
    RESOLVED (`NoErrors`); an if_else is RESOLVED when it has chosen, and until then nothing behind
    it that it could cut off has started (`Branches`); `skipped` is exactly what the choices have
    cut off, none of it started (`Skips`); the body of a while that has not been entered is
    untouched, and one that is looping decides again only when its `loop_back` node is RESOLVED and
    not queued (`Loops`). When a pass then finds nothing to run, take the first node along the
    forward edges that is neither settled nor skipped. What it waits for is settled, so if it cannot
    run, the edges to it are all inactive. The last of the conditions that chose a way to it has it
    in reach (`OpenWay`), hence one of these edges is active: `SomethingToRun`.
* *ToolCalls.* Threads influence each other only in front of the bridge, so every step is a *deed*
  of one thread, or one of the world outside that leaves the threads alone. A reply belongs to a
  thread that waits for it, at the attempt and try that sent it, and what it says was executed. A
  request that has expired is of an earlier attempt, or has made this attempt late: so a thread with
  a `timeout_s` that is resolved has no expired request of its last attempt, and an accepted answer
  can only be followed by a call after the engine has thrown it away (`Discard`), which takes a
  `timeout_s` or a path to write to (`Merging`).
* *RunRequests.* The objects of the model are the copies of a run, and the in-memory store hands its
  own out. `InUse` says which are referred to; there is one more than stores and requests can hold,
  so a load always finds an unused one. `AnswersKept`: an answer whose request met no other is in
  its object, then in the stored run, and once the client was told in every object in use, with its
  interrupt closed, or a pass has discarded it from the state; and nobody is about to give it again.
  `Answerers`: who has resolved an interrupt is at work on it, has succeeded or has failed.
  `Meetings` ties what a request has met to who was in flight with it. `OneByOne`: while requests
  come one by one, every object that waits has an OPEN interrupt, since a request has the only
  object or a copy of its own.
* *RoutingReplay.* The session and the evaluation decide by one rule (`Ruling`) from the evidence,
  where the session is, how often it has asked and whether the last switch was too recent. Each
  entry of the tape is explained by the rule, with what was too recent computed from the tape; as
  long as no difference applies, what the evaluation has been told so far puts it where the session
  was. A switch that is too recent for the session is so for the evaluation, as it looks back at
  least as far and no time passes in it; the converse is one of the named differences.
* *EventStream.* The sequences form `1 .. n`, and the holder of the advisory lock knows the current
  maximum: nobody else is between its read and its insert, and if the run is deleted meanwhile the
  insert fails. For the ledger, a request that publishes its events owns them (`OwnEvents`,
  `Progress`) and, unless it cancels, has written them all before it appends the first
  (`LedgerFirst`); `AllKept` and `NothingLeft` are the property. For a client, `ReplayIsWhole`: the
  replay lists the later rows without repetition, because rows and sequences correspond one to one.
  `Delivers` says that what is pending has not been sent, and that what waits in the queue and has
  been sent is remembered in `seen`; `StartsInTime` that the replay starts no later than after what
  the snapshot covers; `Missed` that each later row is sent, pending, queued, not on the bus yet, or
  came in the window.
* *WebhookDelivery.* SUCCESS is acknowledged in the row, in each worker's copy and in the
  dispatcher's list, because a stale copy can be written back later. Over memory the count in the
  row equals the calls made, because counting and calling are one step and there are no copies. Over
  Postgres the dispatcher has one copy of a delivery (`OneCopy`), whose count is the row's or one
  more (`Tracks`). Until the request has written its row, the calls are those that the dispatcher
  knows of, one for each crash and the request's own (`Known`); after that write the dispatcher may
  be behind its own calls (`Behind`) and start again from one.
* *ChatThread.* `ActionAppliedOnce` needs `Reservation`: a request that is about to answer holds the
  row, nobody else who is about to has the same key, and the key has not been applied. It is made
  true by the unique index when the row is inserted and kept because no step ever removes a row.
  `References` (a run that a request or the thread names is stored) is needed for the types. For the
  other three every step is summed up as a *deed* (`LoadsRow`, `Decides`, `Works`, `Saves`, ...)
  that says what changes of its request, the stored runs, the thread and what was shown, and each
  part is kept by each deed. `Storing`: the answers in a copy and in the stored run differ only by
  those of requests that overlapped, and by the request's own (`CopiesCurrent`). `Reaching`: while
  requests come one by one, what the request in flight has read of thread and run is still so
  (`Alone`). `Showing`: of a request in flight, exactly the event of the last pass is yet to be
  shown (`Follows`); between requests all is shown and the cursor is at the end (`CaughtUp`).
* *SessionRouting.* `Knows` says what the copies in a message refer to: its active run and its
  source are on the stack, except that a run it has started and not yet pushed is its own. An
  entry's source is below it because the index is taken at the end and entries never go; a lost race
  for the index ends the message before it saves the session. `Care` follows the active run: until
  its message saves the session a run is known to nobody else (`Unborn`), whoever has ended the
  active run is about to save another one (`ActiveSound`), a copy names a live run unless one was
  troubled (`CopiesSound`), and every message keeps a live, untroubled active run or is about to put
  on the stack that it comes from it (`Minded`). `Spaced`: the window holds the latest decisions,
  the last switch in its place among them, and a message alone in flight has read the latest switch.
* *WorkflowVersions.* `Refers`: as long as the workflow exists, what a request is about to insert,
  activate or restore exists, and the number it has read is at most the next one. Then an insert
  takes exactly the next number, or clashes with the unique index and fails. `Validity`: what is on
  its way into a version is publishable unless the draft has changed since. `Order`: a request at
  work has inserted one version and what comes after it is by requests it has met. `Pinned`: what is
  active while a request is at work is in its `window`. For the refinement each statement maps to
  one step of the log or to none; nothing fills bodies over the database.
* *RunIntake.* `Progress` (where a call is tells what it has done), `Remembered` (a reply that was
  not forgotten is there, so later calls with the key do not get past the lookup), `Executing` (a
  run about to be named by its package executes it), `Answering` (an answer that came in after the
  call that made the run has ended closes the interrupt in the row, and no copy of a later call has
  it OPEN; `OpenStep`: only the call that made the run opens it) and `Told` (what a call has told of
  its package stands until a call that it did not find ended has told its own).
* *ProjectRegistry.* `IndexIsBacked`, `Placed` (what a request read is there when it is used) and
  `Clear`: a deletion that has seen no workflow sees at most those of requests that were not over
  when it came in. `Chosen` adds that a default which nobody has checked was stored by a request
  that the project was deleted and created under; `Settled` and `Noted` that an accepted value is
  stored, and in every copy read later, until a request that was not over before replaces it. One
  lemma (`GoesOn`) covers what every step but `Receive` does to the requests.

`NoneAssumption` says that the model value for "no run" is neither a run nor a number; TLC confirms
it, like the other ASSUMEs, in the run of its module.

Only model-checked:

* Liveness (`CallReturns`, `NodesEnd`, `LiveEventsAreSent`, `DeliveriesSettle`) and the fairness of
  the `RunLifecycle` refinement: the prover has no support for either.
* `NeverStranded` on graphs that are not tidy, where it may be false (above).
* `TypeOK` of `RoutingReplay`: the shortlist is sorted with `SortSeq`, of which the prover knows
  nothing. `ReplayPredicts` does not need it, as the order of the shortlist is the same for both.

## 5. Not modelled

* Payloads, expressions, prompts, projections, signatures, tenants: they do not decide the control
  flow beyond what the nondeterministic choices already allow.
* What a configuration, a URL or a schema is checked for: `Misconfigured` and `DenyEgress` have the
  outcome. Headers of calls, transcription.
* The language model's router: any route is taken in `SessionRouting`. The Kafka bus; other
  subscriptions, sessions, projects and runs: the models are of one each, which share no state with
  others except the dispatcher's list and the bridge.
* Two Postgres snapshot rows written at once: the newest is read, and the model replaces the
  snapshot in one step.
* Listings and paging, which only read.
* Partner self-service, integration kit and its client, documentation endpoints, serializers,
  builder UI, scripts and deployment keep no state that others change: they are configuration, text
  or calls to the API above. Files whose names end in ` 2.py` are unused copies.
* `PROJECT.json` lists every component with its status and the reason.

## 6. Plan

1. Every invariant that a run checks is proved. In reach next: `NeverLeftRunning` for conditions
   inside a loop body that the engine can bring to an end, and with cancellations.
2. API calls (cancel, answer) on the run of a `ChatThread`, and the in-memory thread store.
3. The flags of a definition and the replies that context calls remember in `ProjectRegistry`.
