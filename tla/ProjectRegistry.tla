-------------------------- MODULE ProjectRegistry ---------------------------
(***************************************************************************)
(* ONE project and what is kept under its name: its orchestrators, the     *)
(* index of its workflow definitions, its workflows and the context values *)
(* of one session (the project handlers of api/app.py, the stores of       *)
(* orchestrator_runtime/store.py and of api/workflow_store.py), and the    *)
(* routed messages that look its orchestrator up (project_router).         *)
(*                                                                         *)
(* The memory stores never wait, so a request is done in one step.  Over   *)
(* Postgres every statement is a step of its own, any statement may fail,  *)
(* and nothing is rolled back: there are no transactions.                  *)
(***************************************************************************)
EXTENDS FiniteSets

CONSTANTS
  Requests,  \* the requests; a workflow has the name of the request that created it
  Configs,   \* orchestrator ids
  Keys,      \* keys of the project's settings, and of the session's context
  Seed,      \* who made what was there at the start
  Nothing

Workflows == Requests \cup {Seed}
Values    == Requests \cup {Nothing}    \* a value has the name of the request that wrote it

\* by is history: the request that chose the default orchestrator.
Projects  == [default : Configs \cup {Nothing}, by : Requests \cup {Seed},
              settings : [Keys -> Values]]
Databases == [project : Projects \cup {Nothing}, configs : SUBSET Configs,
              index : SUBSET Workflows, workflows : SUBSET Workflows,
              context : [Keys -> Values]]

VARIABLES
  backend,  \* the stores: "memory" or "postgres"
  db,       \* what they hold
  ask,      \* what a request asks for
  pc,       \* where a request is
  copy,     \* the project as a request has read it
  found,    \* the orchestrator that a message has been told to use
  todo,     \* context keys that a request has yet to write
  outcome,  \* what became of a request
  after     \* history: the requests that were over when a request came in

locals  == <<copy, found, todo>>
vars    == <<backend, db, ask, pc, locals, outcome, after>>

-----------------------------------------------------------------------------
(* What each handler lets through to the stores.                           *)

Asked(kind) ==
  [kind |-> kind, id |-> Nothing, workflow |-> Nothing, keys |-> {}, asDefault |-> FALSE]

\* The default orchestrator of a new project is not looked up: it may not exist yet.
\* (A new project's settings are left out: they come by patches.)
CreateProject == {[Asked("create") EXCEPT !.id = o] : o \in Configs \cup {Nothing}}
\* A patch of the name alone has no keys.
UpdateProject == {[Asked("update") EXCEPT !.keys = k] : k \in SUBSET Keys}
UpsertOrchestrator ==
  [kind : {"configure"}, id : Configs, workflow : Workflows \cup {Nothing}, keys : {{}},
   asDefault : BOOLEAN]
UpsertDefinition == {[Asked("index") EXCEPT !.workflow = w] : w \in Workflows}
Message          == {[Asked("route") EXCEPT !.id = o] : o \in Configs \cup {Nothing}}
\* The project that a workflow is created in is only a header: nobody looks it up.
CreateWorkflow   == {Asked("new")}
DeleteWorkflow   == {[Asked("drop") EXCEPT !.workflow = w] : w \in Workflows}
SetContext       == {[Asked("set") EXCEPT !.keys = k] : k \in (SUBSET Keys) \ {{}}}
UnsetContext     == {[Asked("unset") EXCEPT !.keys = k] : k \in (SUBSET Keys) \ {{}}}

Asking == UNION {CreateProject, UpdateProject, {Asked("delete")}, UpsertOrchestrator,
                 UpsertDefinition, Message, CreateWorkflow, DeleteWorkflow,
                 SetContext, UnsetContext}
ASSUME RegistryAssumption ==
  /\ Seed \notin Requests
  /\ Nothing \notin Requests \cup Configs \cup {Seed} \cup Projects \cup Asking

Steps  == {"off", "handle", "insert", "read", "write", "list", "delete", "check", "upsert",
           "default", "reload", "choose", "get", "each", "done"}
\* unrouted: ERR_ORCHESTRATOR_NOT_IN_PROJECT; error: any other, or an exception.
Outcomes == {"none", "ok", "unrouted", "error"}

TypeOK ==
  /\ backend \in {"memory", "postgres"}
  /\ db \in Databases
  /\ ask \in [Requests -> Asking \cup {Nothing}]
  /\ pc \in [Requests -> Steps]
  /\ copy \in [Requests -> Projects \cup {Nothing}]
  /\ found \in [Requests -> Configs \cup {Nothing}]
  /\ todo \in [Requests -> SUBSET Keys]
  /\ outcome \in [Requests -> Outcomes]
  /\ after \in [Requests -> SUBSET Requests]
  /\ \A q \in Requests : (pc[q] = "off") = (ask[q] = Nothing)

Blank == [k \in Keys |-> Nothing]

\* Nothing yet, or a project with a default orchestrator and an indexed workflow.
Init ==
  /\ backend \in {"memory", "postgres"}
  /\ \/ db = [project |-> Nothing, configs |-> {}, index |-> {}, workflows |-> {},
              context |-> Blank]
     \/ \E o \in Configs :
          db = [project |-> [default |-> o, by |-> Seed, settings |-> Blank],
                configs |-> {o}, index |-> {Seed}, workflows |-> {Seed}, context |-> Blank]
  /\ ask = [q \in Requests |-> Nothing]
  /\ pc = [q \in Requests |-> "off"]
  /\ copy = [q \in Requests |-> Nothing]
  /\ found = [q \in Requests |-> Nothing]
  /\ todo = [q \in Requests |-> {}]
  /\ outcome = [q \in Requests |-> "none"]
  /\ after = [q \in Requests |-> {}]

-----------------------------------------------------------------------------
Goto(q, step) == pc' = [pc EXCEPT ![q] = step]
At(q, step)   == pc[q] = step
Kind(q)       == ask[q].kind
InFlight(q)   == pc[q] \notin {"off", "done"}
Over          == {q \in Requests : At(q, "done")}

End(q, result) ==
  /\ Goto(q, "done")
  /\ outcome' = [outcome EXCEPT ![q] = result]

\* The request goes on to a step, or is over.
Proceed(q, step) == Goto(q, step) /\ UNCHANGED outcome

FirstStep(kind) ==
  CASE kind \in {"create", "new"} -> "insert"
    [] kind = "drop"              -> "delete"
    [] kind \in {"set", "unset"}  -> "each"
    [] OTHER                      -> "read"

Receive(q) ==
  /\ At(q, "off")
  /\ \E asked \in Asking :
       /\ asked.workflow \in db.workflows \cup db.index \cup {Nothing}
       /\ ask' = [ask EXCEPT ![q] = asked]
       /\ todo' = [todo EXCEPT ![q] = IF asked.kind \in {"set", "unset"} THEN asked.keys ELSE {}]
       /\ Goto(q, IF backend = "memory" THEN "handle" ELSE FirstStep(asked.kind))
  /\ after' = [after EXCEPT ![q] = Over]
  /\ UNCHANGED <<backend, db, copy, found, outcome>>

NewProject(q) == [default |-> ask[q].id, by |-> q, settings |-> Blank]

\* merge_project_settings
Merged(settings, q) == [k \in Keys |-> IF k \in ask[q].keys THEN q ELSE settings[k]]

-----------------------------------------------------------------------------
(* The memory stores.                                                      *)

Done(q, new)    == db' = new /\ End(q, "ok")
Refused(q, err) == End(q, err) /\ UNCHANGED db

MemoryCreate(q) ==
  /\ Kind(q) = "create"
  /\ IF db.project # Nothing THEN Refused(q, "error")
     ELSE Done(q, [db EXCEPT !.project = NewProject(q)])

MemoryUpdate(q) ==
  /\ Kind(q) = "update"
  /\ IF db.project = Nothing THEN Refused(q, "error")
     ELSE Done(q, [db EXCEPT !.project.settings = Merged(@, q)])

MemoryDelete(q) ==
  /\ Kind(q) = "delete"
  /\ IF db.project = Nothing \/ db.workflows # {} THEN Refused(q, "error")
     ELSE Done(q, [db EXCEPT !.project = Nothing, !.configs = {}, !.index = {},
                             !.context = Blank])

MemoryConfigure(q) ==
  /\ Kind(q) = "configure"
  /\ IF db.project = Nothing \/ ask[q].workflow \notin db.workflows \cup {Nothing}
     THEN Refused(q, "error")
     ELSE LET new == [db EXCEPT !.configs = @ \cup {ask[q].id}] IN
          Done(q, IF ask[q].asDefault
                  THEN [new EXCEPT !.project.default = ask[q].id, !.project.by = q]
                  ELSE new)

MemoryIndex(q) ==
  /\ Kind(q) = "index"
  /\ IF db.project = Nothing \/ ask[q].workflow \notin db.workflows
     THEN Refused(q, "error")
     ELSE Done(q, [db EXCEPT !.index = @ \cup {ask[q].workflow}])

MemoryRoute(q) ==
  /\ Kind(q) = "route"
  /\ IF db.project = Nothing THEN Refused(q, "error")
     ELSE LET named == IF ask[q].id # Nothing THEN ask[q].id ELSE db.project.default IN
          IF (IF named = Nothing THEN db.configs ELSE {named} \cap db.configs) = {}
          THEN Refused(q, "unrouted") ELSE Done(q, db)

MemoryNewWorkflow(q) ==
  /\ Kind(q) = "new"
  /\ Done(q, [db EXCEPT !.workflows = @ \cup {q}])

\* What the index says of the workflow stays.
MemoryDropWorkflow(q) ==
  /\ Kind(q) = "drop"
  /\ IF ask[q].workflow \notin db.workflows THEN Refused(q, "error")
     ELSE Done(q, [db EXCEPT !.workflows = @ \ {ask[q].workflow}])

MemorySet(q) ==
  /\ Kind(q) = "set"
  /\ Done(q, [db EXCEPT !.context = Merged(@, q)])

MemoryUnset(q) ==
  /\ Kind(q) = "unset"
  /\ Done(q, [db EXCEPT !.context = [k \in Keys |-> IF k \in ask[q].keys THEN Nothing ELSE @[k]]])

Handle(q) ==
  /\ At(q, "handle")
  /\ \/ MemoryCreate(q) \/ MemoryUpdate(q) \/ MemoryDelete(q)
     \/ MemoryConfigure(q) \/ MemoryIndex(q) \/ MemoryRoute(q)
     \/ MemoryNewWorkflow(q) \/ MemoryDropWorkflow(q)
     \/ MemorySet(q) \/ MemoryUnset(q)
  /\ copy' = [copy EXCEPT ![q] = IF Kind(q) = "route" THEN db.project ELSE Nothing]
  /\ todo' = [todo EXCEPT ![q] = {}]
  /\ UNCHANGED <<backend, ask, found, after>>

-----------------------------------------------------------------------------
(* Postgres: projects.                                                     *)

\* on conflict do nothing
InsertProject(q) ==
  /\ At(q, "insert") /\ Kind(q) = "create"
  /\ IF db.project # Nothing THEN Refused(q, "error")
     ELSE Done(q, [db EXCEPT !.project = NewProject(q)])
  /\ UNCHANGED <<backend, ask, locals, after>>

AfterRead(q) ==
  CASE Kind(q) = "update" -> "write"
    [] Kind(q) = "delete" -> "list"
    [] Kind(q) = "route"  -> "choose"
    [] OTHER              -> "check"

\* get_project: every request on a project begins with it, and answers 404 without one.
ReadProject(q) ==
  /\ At(q, "read")
  /\ copy' = [copy EXCEPT ![q] = IF Kind(q) \in {"update", "route"} THEN db.project ELSE Nothing]
  /\ IF db.project = Nothing THEN End(q, "error") ELSE Proceed(q, AfterRead(q))
  /\ UNCHANGED <<backend, db, ask, found, todo, after>>

\* Variant: the keys of the patch only, not merged with the others.
MutWriteProject(q) ==
  /\ At(q, "write")
  /\ IF db.project = Nothing THEN Refused(q, "error")
     ELSE Done(q, [db EXCEPT !.project.settings = Merged(Blank, q)])
  /\ copy' = [copy EXCEPT ![q] = Nothing]
  /\ UNCHANGED <<backend, ask, found, todo, after>>

\* The settings that were read, with the patch merged in, replace those of the row.
WriteProject(q) ==
  /\ At(q, "write")
  /\ IF db.project = Nothing THEN Refused(q, "error")
     ELSE Done(q, [db EXCEPT !.project.settings = Merged(copy[q].settings, q)])
  /\ copy' = [copy EXCEPT ![q] = Nothing]
  /\ UNCHANGED <<backend, ask, found, todo, after>>

\* Variant: only an indexed workflow is in the way.
MutListWorkflows(q) ==
  /\ At(q, "list")
  /\ IF db.index # {} THEN End(q, "error") ELSE Proceed(q, "delete")
  /\ UNCHANGED <<backend, db, ask, locals, after>>

\* delete_project looks for one workflow of the project.
ListWorkflows(q) ==
  /\ At(q, "list")
  /\ IF db.workflows # {} THEN End(q, "error") ELSE Proceed(q, "delete")
  /\ UNCHANGED <<backend, db, ask, locals, after>>

\* Orchestrators and definitions go with their project (on delete cascade); the context
\* values are not tied to it.
DeleteProject(q) ==
  /\ At(q, "delete") /\ Kind(q) = "delete"
  /\ IF db.project = Nothing THEN Refused(q, "error")
     ELSE Done(q, [db EXCEPT !.project = Nothing, !.configs = {}, !.index = {}])
  /\ UNCHANGED <<backend, ask, locals, after>>

-----------------------------------------------------------------------------
(* Postgres: orchestrators and definitions.                                *)

\* The fallback workflow, if one is named, or the workflow to be indexed.
CheckWorkflow(q) ==
  /\ At(q, "check")
  /\ IF ask[q].workflow \in db.workflows \cup {Nothing}
     THEN Proceed(q, "upsert") ELSE End(q, "error")
  /\ UNCHANGED <<backend, db, ask, locals, after>>

\* Variant: the default is set first.
MutUpsertConfig(q) ==
  /\ At(q, "upsert") /\ Kind(q) = "configure" /\ db.project # Nothing
  /\ IF ask[q].asDefault /\ db.project.default # ask[q].id
     THEN /\ db' = [db EXCEPT !.project.default = ask[q].id, !.project.by = q]
          /\ Goto(q, "upsert")
     ELSE /\ db' = [db EXCEPT !.configs = @ \cup {ask[q].id}]
          /\ Goto(q, "reload")
  /\ UNCHANGED <<backend, ask, locals, outcome, after>>

\* The row refers to the project: without one the statement fails (RequestFails).
UpsertConfig(q) ==
  /\ At(q, "upsert") /\ Kind(q) = "configure" /\ db.project # Nothing
  /\ db' = [db EXCEPT !.configs = @ \cup {ask[q].id}]
  /\ Goto(q, IF ask[q].asDefault THEN "default" ELSE "reload")
  /\ UNCHANGED <<backend, ask, locals, outcome, after>>

\* A statement of its own, that finds no row when the project is gone.
WriteDefault(q) ==
  /\ At(q, "default")
  /\ db' = IF db.project = Nothing THEN db
           ELSE [db EXCEPT !.project.default = ask[q].id, !.project.by = q]
  /\ Goto(q, "reload")
  /\ UNCHANGED <<backend, ask, locals, outcome, after>>

\* This row refers to the project and to the workflow.
UpsertIndex(q) ==
  /\ At(q, "upsert") /\ Kind(q) = "index"
  /\ db.project # Nothing /\ ask[q].workflow \in db.workflows
  /\ db' = [db EXCEPT !.index = @ \cup {ask[q].workflow}]
  /\ Goto(q, "reload")
  /\ UNCHANGED <<backend, ask, locals, outcome, after>>

\* The reply is what is found; that there is nothing any more is an error.
Reload(q) ==
  /\ At(q, "reload")
  /\ LET present == CASE Kind(q) = "configure" -> ask[q].id \in db.configs
                      [] Kind(q) = "index"     -> ask[q].workflow \in db.index
                      [] Kind(q) = "new"       -> q \in db.workflows
                      [] OTHER                 -> TRUE
     IN End(q, IF present THEN "ok" ELSE "error")
  /\ UNCHANGED <<backend, db, ask, locals, after>>

\* A message uses the orchestrator that it names, or the default, or the latest one.
ChooseConfig(q) ==
  /\ At(q, "choose")
  /\ LET named == IF ask[q].id # Nothing THEN ask[q].id ELSE copy[q].default IN
     IF named # Nothing
     THEN found' = [found EXCEPT ![q] = named] /\ Proceed(q, "get")
     ELSE IF db.configs = {}
     THEN UNCHANGED found /\ End(q, "unrouted")
     ELSE /\ \E o \in db.configs : found' = [found EXCEPT ![q] = o]
          /\ Proceed(q, "get")
  /\ UNCHANGED <<backend, db, ask, copy, todo, after>>

GetConfig(q) ==
  /\ At(q, "get")
  /\ End(q, IF found[q] \in db.configs THEN "ok" ELSE "unrouted")
  /\ found' = [found EXCEPT ![q] = Nothing]
  /\ UNCHANGED <<backend, db, ask, copy, todo, after>>

-----------------------------------------------------------------------------
(* Postgres: workflows and context values.                                 *)

InsertWorkflow(q) ==
  /\ At(q, "insert") /\ Kind(q) = "new"
  /\ db' = [db EXCEPT !.workflows = @ \cup {q}]
  /\ Goto(q, "reload")
  /\ UNCHANGED <<backend, ask, locals, outcome, after>>

\* The definition in the index goes with the workflow (on delete cascade).
DropWorkflow(q) ==
  /\ At(q, "delete") /\ Kind(q) = "drop"
  /\ IF ask[q].workflow \notin db.workflows THEN Refused(q, "error")
     ELSE Done(q, [db EXCEPT !.workflows = @ \ {ask[q].workflow},
                             !.index = @ \ {ask[q].workflow}])
  /\ UNCHANGED <<backend, ask, locals, after>>

\* One statement for each key, and then one that reads the context for the reply.
EachKey(q, k) ==
  /\ todo' = [todo EXCEPT ![q] = @ \ {k}]
  /\ Goto(q, IF todo'[q] = {} THEN "reload" ELSE "each")
  /\ UNCHANGED <<backend, ask, copy, found, outcome, after>>

WriteKey(q) ==
  /\ At(q, "each") /\ Kind(q) = "set"
  /\ \E k \in todo[q] : EachKey(q, k) /\ db' = [db EXCEPT !.context[k] = q]

RemoveKey(q) ==
  /\ At(q, "each") /\ Kind(q) = "unset"
  /\ \E k \in todo[q] : EachKey(q, k) /\ db' = [db EXCEPT !.context[k] = Nothing]

\* The store raises, or the process stops: what was written stays.
RequestFails(q) ==
  /\ InFlight(q) /\ backend = "postgres"
  /\ End(q, "error")
  /\ UNCHANGED <<backend, db, ask, locals, after>>

Statement(q) ==
  \/ InsertProject(q) \/ ReadProject(q) \/ WriteProject(q)
  \/ ListWorkflows(q) \/ DeleteProject(q)
  \/ CheckWorkflow(q) \/ UpsertConfig(q) \/ WriteDefault(q) \/ UpsertIndex(q) \/ Reload(q)
  \/ ChooseConfig(q) \/ GetConfig(q)
  \/ InsertWorkflow(q) \/ DropWorkflow(q)
  \/ WriteKey(q) \/ RemoveKey(q)
  \/ RequestFails(q)

Next == \E q \in Requests : Receive(q) \/ Handle(q) \/ Statement(q)

Spec == Init /\ [][Next]_vars

-----------------------------------------------------------------------------
(* Properties.                                                             *)

Overlap(q, r)  == InFlight(q) \/ InFlight(r) \/ (q \notin after[r] /\ r \notin after[q])
Of(kind)       == {q \in Requests : ask[q] # Nothing /\ Kind(q) = kind}
\* The requests that may have come to the stores after q.
NotBefore(q)   == {r \in Requests \ {q} : ask[r] # Nothing /\ r \notin after[q]}

\* docs/api/openapi.yaml:1024: "Deletes a tenant-scoped project if it has no workflows."
\* The workflows are looked for before the deletion: a deleted project leaves behind only
\* workflows that were created while it was being deleted.
OnlyNewWorkflowsAreOrphaned ==
  [][db.project # Nothing /\ db'.project = Nothing =>
       \E q \in Of("delete") :
         pc'[q] # pc[q] /\ db.workflows \cap (after[q] \cup {Seed}) = {}]_vars

\* What is registered belongs to the project, and over Postgres the index has no
\* workflow that does not exist: nothing outlives what it refers to.
IndexIsBacked ==
  /\ db.project = Nothing => db.configs = {} /\ db.index = {}
  /\ backend = "postgres" => db.index \subseteq db.workflows

\* The choice of a default that nobody has checked: that of a new project, or of an
\* upsert during which the project was deleted and created again.
Unchecked(q) ==
  \/ q \in Of("create")
  \/ q # Seed /\ \E d \in Of("delete"), c \in Of("create") : Overlap(q, d) /\ Overlap(q, c)

\* The default orchestrator exists, though it is stored in one statement and chosen in
\* another, and a project can go between the two.
DefaultIsConfigured ==
  db.project # Nothing /\ db.project.default \notin db.configs \cup {Nothing} =>
    Unchecked(db.project.by)

\* A setting that was accepted is there until a request that came later, or a new
\* project, replaces it, or else another patch overlapped: it writes back all that it read.
SettingsAreKept ==
  \A q \in Of("update") : outcome[q] = "ok" /\ db.project # Nothing =>
    \A k \in ask[q].keys :
      \/ db.project.settings[k] = q
      \/ \E r \in NotBefore(q) :
           \/ Kind(r) = "create"
           \/ Kind(r) = "update" /\ (k \in ask[r].keys \/ Overlap(q, r))

\* Each context value of an accepted call is what the call made it, or what a call made
\* it that was not over before; overlapping calls lose nothing, as each key is written on
\* its own.  Only the memory store forgets the values of a deleted project.
ContextIsKept ==
  \A q \in Of("set") \cup Of("unset") : outcome[q] = "ok" =>
    \A k \in ask[q].keys :
      \/ db.context[k] = IF Kind(q) = "set" THEN q ELSE Nothing
      \/ \E r \in NotBefore(q) :
           \/ Kind(r) \in {"set", "unset"} /\ k \in ask[r].keys
           \/ Kind(r) = "delete" /\ backend = "memory"

\* What the API has accepted is not lost: settings only to a patch at the same time,
\* context values to nothing.
AcceptedIsKept == SettingsAreKept /\ ContextIsKept
=============================================================================
