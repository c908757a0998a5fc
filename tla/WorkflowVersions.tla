-------------------------- MODULE WorkflowVersions --------------------------
(***************************************************************************)
(* The draft and the versions of ONE workflow (api/workflow_store.py and   *)
(* its handlers in api/app.py): the draft is edited, validated and         *)
(* published, the draft is rolled back to the active version, runs are     *)
(* started from a version, capabilities are registered, the workflow is    *)
(* deleted.                                                                *)
(*                                                                         *)
(* Over the database every statement is a step of its own, and requests    *)
(* interleave between them.  The memory store never waits, so a request is *)
(* done at once; but it keeps references where the database copies: a      *)
(* version shares its nodes with the draft it was made of, and a run is    *)
(* started on the very nodes of its version.  Contents are therefore kept  *)
(* in bodies, and drafts and versions refer to them.                       *)
(***************************************************************************)
EXTENDS Integers, Sequences, FiniteSets

CONSTANTS
  Requests,      \* requests that publish, roll back or start a run
  Graphs,        \* what a draft may say
  FirstGraph,    \* the draft the workflow is created with
  WellFormed,    \* the graphs _validate_draft finds nothing wrong with
  Capabilities,  \* the capability versions
  Pins,          \* Pins[g]: the capability versions that graph g pins
  Inline,        \* the capability versions whose contract has a secret in its defaults
  InMemory,      \* the memory store is used
  MaxEdits       \* bound on the edits of the draft

ASSUME VersionsAssumption ==
  /\ FirstGraph \in Graphs /\ WellFormed \subseteq Graphs
  /\ Pins \in [Graphs -> SUBSET Capabilities] /\ Inline \subseteq Capabilities
  /\ InMemory \in BOOLEAN /\ MaxEdits \in Nat

VARIABLES
  exists,    \* the workflow has not been deleted
  bodies,    \* the contents of drafts and versions
  draft,     \* the body of the draft
  versions,  \* the versions in the order they were inserted
  active,    \* active_version_id: a position in versions, 0 for none
  registry,  \* the registered capability versions
  runs,      \* runs[q]: the version that the run started by q is pinned to, 0 for none
  req,       \* each request: its step and the locals of its handler
  met,       \* history: requests that were at work together with another
  late,      \* history: requests that publish, and the draft changed after they validated
  window     \* history: the versions that were active since the request came in

row     == <<exists, bodies, draft, versions, active>>
history == <<met, late, window>>
vars    == <<row, registry, runs, req, history>>

\* filled: the nodes have had the defaults of their capability contracts written in.
Bodies   == [graph : Graphs, filled : BOOLEAN]
Versions == [number : Nat \ {0}, body : Nat \ {0}, by : Requests]
Steps    == {"off", "validate", "draft", "number", "insert", "activate", "active", "content",
             "restore", "resolve", "load", "run", "done", "failed"}
Locals   == [step : Steps, body : Nat, number : Nat, version : Nat, named : BOOLEAN]
Idle     == [step |-> "off", body |-> 0, number |-> 0, version |-> 0, named |-> FALSE]

TypeOK ==
  /\ exists \in BOOLEAN
  /\ bodies \in Seq(Bodies) /\ draft \in DOMAIN bodies
  /\ versions \in Seq(Versions)
  /\ \A i \in DOMAIN versions : versions[i].body \in DOMAIN bodies
  /\ active \in 0..Len(versions)
  /\ registry \subseteq Capabilities
  /\ runs \in [Requests -> 0..Len(versions)]
  /\ req \in [Requests -> Locals]
  /\ met \subseteq Requests /\ late \subseteq Requests
  /\ window \in [Requests -> SUBSET Nat]

Init ==
  /\ exists = TRUE
  /\ bodies = <<[graph |-> FirstGraph, filled |-> FALSE]>> /\ draft = 1
  /\ versions = <<>> /\ active = 0
  /\ registry = {}
  /\ runs = [q \in Requests |-> 0]
  /\ req = [q \in Requests |-> Idle]
  /\ met = {} /\ late = {} /\ window = [q \in Requests |-> {}]

-----------------------------------------------------------------------------
InFlight(q)    == req[q].step \notin {"off", "done", "failed"}
Busy           == {q \in Requests : InFlight(q)}
At(q, step)    == req[q].step = step
Set(q, locals) == req' = [req EXCEPT ![q] = locals]
Goto(q, step)  == Set(q, [req[q] EXCEPT !.step = step])
Leave(q, step) == Set(q, [Idle EXCEPT !.step = step, !.named = req[q].named])

\* A request of the memory store does not wait for anything.
MayStep == InMemory => Busy = {}

\* A request comes in; named: it names the version of the run that it starts.
Arrive(q, step, named) ==
  /\ At(q, "off") /\ MayStep
  /\ Set(q, [Idle EXCEPT !.step = step, !.named = named])
  /\ met' = IF Busy = {} THEN met ELSE met \cup {q} \cup Busy
  /\ window' = [window EXCEPT ![q] = {active}]
  /\ UNCHANGED <<row, registry, runs, late>>

ReceivePublish(q)  == Arrive(q, "validate", FALSE)
ReceiveRollback(q) == Arrive(q, "active", FALSE)
ReceiveStart(q)    == \E named \in BOOLEAN : Arrive(q, "resolve", named)

Receive(q) == ReceivePublish(q) \/ ReceiveRollback(q) \/ ReceiveStart(q)

\* What get_workflow, get_version and the capability store's get return.
DraftGraph     == bodies[draft].graph
BodyOf(v)      == versions[v].body
Registered(cs) == cs \subseteq registry

-----------------------------------------------------------------------------
(* Publishing.                                                             *)

Publishable(g) == g \in WellFormed /\ Registered(Pins[g])

\* Variant: the pinned capabilities are not looked up.
MutValidate(q) ==
  /\ At(q, "validate") /\ exists
  /\ IF DraftGraph \in WellFormed THEN Goto(q, "draft") ELSE Leave(q, "done")
  /\ UNCHANGED <<row, registry, runs, history>>

\* publish_workflow reads the draft and refuses one that is not valid.
Validate(q) ==
  /\ At(q, "validate") /\ exists
  /\ IF Publishable(DraftGraph) THEN Goto(q, "draft") ELSE Leave(q, "done")
  /\ UNCHANGED <<row, registry, runs, history>>

\* The store reads the draft again: it publishes what it finds now.
ReadDraft(q) ==
  /\ At(q, "draft") /\ exists
  /\ Set(q, [req[q] EXCEPT !.step = "number", !.body = draft])
  /\ UNCHANGED <<row, registry, runs, history>>

MaxNumber ==
  IF versions = <<>> THEN 0
  ELSE CHOOSE n \in {versions[i].number : i \in DOMAIN versions} :
         \A i \in DOMAIN versions : versions[i].number <= n

ReadNumber(q) ==
  /\ At(q, "number")
  /\ Set(q, [req[q] EXCEPT !.step = "insert", !.number = MaxNumber + 1])
  /\ UNCHANGED <<row, registry, runs, history>>

\* The unique index of workflow_versions.
IsTaken(n) == \E i \in DOMAIN versions : versions[i].number = n

Insert(q) ==
  /\ At(q, "insert") /\ exists
  /\ ~IsTaken(req[q].number)
  /\ versions' = Append(versions, [number |-> req[q].number, body |-> req[q].body, by |-> q])
  /\ Set(q, [req[q] EXCEPT !.step = "activate", !.version = Len(versions')])
  /\ UNCHANGED <<exists, bodies, draft, active, registry, runs, history>>

\* Variant: only the first version is made active.
MutActivate(q) ==
  /\ At(q, "activate")
  /\ active' = IF exists /\ active = 0 THEN req[q].version ELSE active
  /\ window' = [p \in Requests |-> IF InFlight(p) THEN window[p] \cup {active'} ELSE window[p]]
  /\ Leave(q, "done")
  /\ UNCHANGED <<exists, bodies, draft, versions, registry, runs, met, late>>

\* The update finds no row when the workflow has been deleted.
Activate(q) ==
  /\ At(q, "activate")
  /\ active' = IF exists THEN req[q].version ELSE active
  /\ window' = [p \in Requests |-> IF InFlight(p) THEN window[p] \cup {active'} ELSE window[p]]
  /\ Leave(q, "done")
  /\ UNCHANGED <<exists, bodies, draft, versions, registry, runs, met, late>>

-----------------------------------------------------------------------------
(* Rolling the draft back.                                                 *)

\* Refused when there is no active version.
ReadActive(q) ==
  /\ At(q, "active") /\ exists
  /\ IF active = 0 THEN Leave(q, "done")
     ELSE Set(q, [req[q] EXCEPT !.step = "content", !.version = active])
  /\ UNCHANGED <<row, registry, runs, history>>

ReadContent(q) ==
  /\ At(q, "content") /\ exists
  /\ Set(q, [req[q] EXCEPT !.step = "restore", !.body = BodyOf(req[q].version)])
  /\ UNCHANGED <<row, registry, runs, history>>

\* The requests that have validated a draft and have not read it again.
Validated == {q \in Requests : At(q, "draft")}

\* Whatever the draft was meanwhile is overwritten.
Restore(q) ==
  /\ At(q, "restore")
  /\ draft' = IF exists THEN req[q].body ELSE draft
  /\ late' = late \cup Validated
  /\ Leave(q, "done")
  /\ UNCHANGED <<exists, bodies, versions, active, registry, runs, met, window>>

-----------------------------------------------------------------------------
(* Starting a run.                                                         *)

\* Variant: a request that names no version gets the newest one.
MutResolve(q) ==
  /\ At(q, "resolve") /\ exists
  /\ IF active = 0 THEN Leave(q, "done")
     ELSE Set(q, [req[q] EXCEPT !.step = "load", !.version = Len(versions)])
  /\ UNCHANGED <<row, registry, runs, history>>

\* start_run resolves the version: the one the request names, or the active one.
Resolve(q) ==
  /\ At(q, "resolve") /\ exists
  /\ \/ /\ ~req[q].named
        /\ IF active = 0 THEN Leave(q, "done")
           ELSE Set(q, [req[q] EXCEPT !.step = "load", !.version = active])
     \/ /\ req[q].named
        /\ \E v \in DOMAIN versions : Set(q, [req[q] EXCEPT !.step = "load", !.version = v])
  /\ UNCHANGED <<row, registry, runs, history>>

\* Variant: loaded nodes are shared over the database too.
MutFill(i) == bodies' = [bodies EXCEPT ![i].filled = Pins[bodies[i].graph] # {}]

\* _apply_capability_contract_defaults writes into the nodes that were loaded; those of
\* the memory store are the nodes of the version.
Fill(i) ==
  IF InMemory /\ Pins[bodies[i].graph] # {}
  THEN bodies' = [bodies EXCEPT ![i].filled = TRUE]
  ELSE UNCHANGED bodies

\* _resolve_capability_bindings: every pinned capability has to be registered, and none
\* may bring a secret.
Binds(g) == Registered(Pins[g]) /\ Pins[g] \cap Inline = {}

\* It goes through the nodes one by one, so that a version may be filled in before it is
\* refused.
Refuse(q, i) ==
  /\ Leave(q, "done")
  /\ UNCHANGED bodies \/ (Fill(i) /\ Pins[bodies[i].graph] \cap registry # {})

\* The loader reads the version.
LoadVersion(q) ==
  LET i == BodyOf(req[q].version) IN
  /\ At(q, "load") /\ exists
  /\ IF Binds(bodies[i].graph) THEN Goto(q, "run") /\ Fill(i) ELSE Refuse(q, i)
  /\ UNCHANGED <<exists, draft, versions, active, registry, runs, history>>

\* The first save of the run, which refers to the version.
SaveRun(q) ==
  /\ At(q, "run") /\ exists
  /\ runs' = [runs EXCEPT ![q] = req[q].version]
  /\ Leave(q, "done")
  /\ UNCHANGED <<row, registry, history>>

-----------------------------------------------------------------------------
(* Other requests, each of them one statement, and failures.               *)

UpdateDraft(g) ==
  /\ bodies' = Append(bodies, [graph |-> g, filled |-> FALSE])
  /\ draft' = Len(bodies')

EditDraft ==
  /\ exists /\ MayStep
  /\ Len(bodies) <= MaxEdits
  /\ \E g \in Graphs : UpdateDraft(g)
  /\ late' = late \cup Validated
  /\ UNCHANGED <<exists, versions, active, registry, runs, req, met, window>>

\* On conflict nothing is inserted: a capability version never changes.
InsertCapability(c) == c \notin registry /\ registry' = registry \cup {c}

RegisterCapability ==
  /\ MayStep
  /\ \E c \in Capabilities : InsertCapability(c)
  /\ UNCHANGED <<row, runs, req, history>>

\* The versions and the runs go with the workflow.
DeleteWorkflow ==
  /\ exists /\ MayStep
  /\ exists' = FALSE
  /\ versions' = <<>> /\ active' = 0
  /\ runs' = [q \in Requests |-> 0]
  /\ UNCHANGED <<bodies, draft, registry, req, history>>

\* The workflow is gone or the number is taken, and over the database any statement may
\* fail, or the process stop: what was done stays done.
RequestFails(q) ==
  /\ InFlight(q)
  /\ InMemory => ~exists
  /\ Leave(q, "failed")
  /\ UNCHANGED <<row, registry, runs, history>>

Handle(q) ==
  \/ Receive(q)
  \/ Validate(q) \/ ReadDraft(q) \/ ReadNumber(q) \/ Insert(q) \/ Activate(q)
  \/ ReadActive(q) \/ ReadContent(q) \/ Restore(q)
  \/ Resolve(q) \/ LoadVersion(q) \/ SaveRun(q)
  \/ RequestFails(q)

Next ==
  \/ \E q \in Requests : Handle(q)
  \/ EditDraft \/ RegisterCapability \/ DeleteWorkflow

Spec == Init /\ [][Next]_vars

-----------------------------------------------------------------------------
(* Properties.                                                             *)

\* The abstract log: what it shows of a body is its content.
Log == INSTANCE VersionLog WITH
  Contents <- Bodies,
  draft    <- bodies[draft],
  past     <- {bodies[i] : i \in DOMAIN bodies},
  log      <- [i \in DOMAIN versions |-> bodies[versions[i].body]]

\* The store implements the version log: however requests interleave and fail, published
\* versions never change and never go before the workflow does, the active pointer points
\* at one of them, and the draft changes only by edits or to a version's content.
ImplementsVersionLog == Log!LogSpec

\* Versions are numbered 1, 2, ... in the order they were inserted, with no gap, though
\* the next number is read before it is taken and publishes overlap and fail.
NumbersAreDense == \A i \in DOMAIN versions : versions[i].number = i

\* A version is valid and its capabilities are registered, unless the draft was changed
\* between the handler's validation and the store's second look at it.
PublishedIsValid ==
  \A i \in DOMAIN versions :
    Publishable(bodies[versions[i].body].graph) \/ versions[i].by \in late

\* The active version is the newest, but for those whose publish is not over, has failed
\* before it could activate it, or overlapped with another request.
NewestIsActive ==
  \A i \in active + 1 .. Len(versions) :
    LET q == versions[i].by IN InFlight(q) \/ At(q, "failed") \/ q \in met

\* A run that names no version is pinned to one that was active at some time since the
\* request came in.
PinnedToActive == \A q \in Requests : runs[q] # 0 /\ ~req[q].named => runs[q] \in window[q]
=============================================================================
