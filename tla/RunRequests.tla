---------------------------- MODULE RunRequests ----------------------------
(***************************************************************************)
(* API requests on ONE run (api/app.py, runtime/multi_service.py): each    *)
(* looks its idempotency key up, loads the run, has the engine change it,  *)
(* saves it in the event hook, replaces the snapshot, saves the run again  *)
(* and remembers its reply.  Nothing makes one request wait for another.   *)
(*                                                                         *)
(* The engine is what Engine shows of it: a pass of a RUNNING run ends     *)
(* WAITING_FOR_INPUT for a new interrupt, COMPLETED or FAILED, and gives   *)
(* the run a new state if it executes a start node.                        *)
(***************************************************************************)
EXTENDS Integers, FiniteSets, Functions

CONSTANTS
  Requests,     \* the requests
  Interrupts,   \* the interrupts that the run may create
  Nothing,      \* no interrupt, no reply, no object
  Operations,   \* what requests may ask for
  MaxCrashes    \* bound on the crashes of the process

ASSUME RequestAssumption ==
  /\ IsFiniteSet(Requests)
  /\ Nothing \notin Requests \cup Interrupts \cup Nat
  /\ Operations \subseteq {"start_run", "resume_interrupt", "cancel_run", "cancel_interrupt",
                    "rerun_node"}
  /\ MaxCrashes \in Nat

VARIABLES
  backend,     \* where runs are kept; it never changes
  heap,        \* the Run objects and, for Postgres, the row, that are in use
  storedAt,    \* which of them is the stored run
  loc,         \* the Run object of a request
  req,         \* what a request asks for
  pc,          \* where a request is: see Steps
  outcome,     \* what became of a request
  cached,      \* the request whose reply is remembered under a key
  snapshot,    \* status in the snapshot for streams
  crashes,     \* crashes of the process so far
  met,         \* history: pairs of requests that were in flight together
  answered,    \* history: requests that resolved an interrupt
  discarded    \* history: interrupts whose input a pass has taken out of run.state

runVars == <<heap, storedAt, loc>>
history == <<met, answered, discarded>>
vars    == <<backend, runVars, req, pc, outcome, cached, snapshot, crashes, history>>

Objects  == 0 .. Cardinality(Requests) + 1
Statuses == {"RUNNING", "WAITING_FOR_INPUT", "COMPLETED", "FAILED", "CANCELLED"}

\* answers: the interrupts whose input, which is not empty, is in run.state, under a key
\* that nothing in the workflow assigns.  The id of an interrupt that a late save has
\* dropped may come back; only requests that overlap can do that.
Runs == [status : Statuses, answers : SUBSET Interrupts,
         interrupts : [Interrupts -> {"NONE", "OPEN", "RESOLVED", "CANCELLED"}]]

\* Requests with equal scopes that send the header send the same key.
Scopes   == Operations \X (Interrupts \cup {Nothing})
Asked    == [scope : Scopes, keyed : BOOLEAN]
Steps    == {"off", "lookup", "load", "torn", "check", "resolve", "rerun",
             "engine",
             "hook", "snapshot", "save", "reply", "done"}
Outcomes == {"none", "ok", "replayed", "refused", "failed"}

TypeOK ==
  /\ backend \in {"memory", "postgres"}
  /\ DOMAIN heap \subseteq Objects /\ \A o \in DOMAIN heap : heap[o] \in Runs
  /\ storedAt \in DOMAIN heap \cup {Nothing}
  /\ loc \in [Requests -> DOMAIN heap \cup {Nothing}]
  /\ req \in [Requests -> Asked \cup {Nothing}]
  /\ pc \in [Requests -> Steps]
  /\ outcome \in [Requests -> Outcomes]
  /\ cached \in [Scopes -> Requests \cup {Nothing}]
  /\ snapshot \in Statuses \cup {Nothing}
  /\ crashes \in 0 .. MaxCrashes
  /\ met \subseteq Requests \X Requests
  /\ answered \subseteq Requests \X Interrupts
  /\ discarded \subseteq Interrupts

Init ==
  /\ backend \in {"memory", "postgres"}
  /\ heap = [o \in {} |-> Nothing] /\ storedAt = Nothing
  /\ loc = [r \in Requests |-> Nothing]
  /\ req = [r \in Requests |-> Nothing]
  /\ pc = [r \in Requests |-> "off"]
  /\ outcome = [r \in Requests |-> "none"]
  /\ cached = [s \in Scopes |-> Nothing]
  /\ snapshot = Nothing /\ crashes = 0
  /\ met = {} /\ answered = {} /\ discarded = {}

-----------------------------------------------------------------------------
(* The stores.                                                             *)

InFlight(r) == pc[r] \notin {"off", "done"}
Asks(r)     == req[r].scope[1]
Its(r)      == req[r].scope[2]
Object(r)   == heap[loc[r]]
Unused      == CHOOSE o \in Objects : o \notin DOMAIN heap

Goto(r, step) == pc' = [pc EXCEPT ![r] = step]

\* The objects with run for object o.
Put(o, run) == [p \in DOMAIN heap \cup {o} |-> IF p = o THEN run ELSE heap[p]]

\* The objects in use remain.
Keep(objects, at, locs) ==
  /\ heap' = Restrict(objects, ({at} \cup {locs[r] : r \in Requests}) \ {Nothing})
  /\ storedAt' = at
  /\ loc' = locs

\* Object o has become run.  The memory store's copies of a run have a status and
\* a state of their own and share the dict of the interrupts.
Spread(o, run) ==
  [p \in DOMAIN heap |->
    IF p = o THEN run
    ELSE IF backend = "memory" THEN [heap[p] EXCEPT !.interrupts = run.interrupts]
    ELSE heap[p]]

Finish(r, result) ==
  /\ Goto(r, "done")
  /\ outcome' = [outcome EXCEPT ![r] = result]
  /\ Keep(heap, storedAt, [loc EXCEPT ![r] = Nothing])
  /\ UNCHANGED <<backend, req, snapshot, crashes, met, answered, discarded>>

-----------------------------------------------------------------------------
(* A request comes in, and _idempotent looks its key up.                   *)

Others(r) == {q \in Requests \ {r} : InFlight(q)}

\* The first one starts the run; a second start, with another key or after the reply
\* expired, would start another run.
Arrive(r) ==
  /\ pc[r] = "off"
  /\ \E asked \in Asked :
       /\ (asked.scope[2] = Nothing) <=> (asked.scope[1] \in {"start_run", "cancel_run", "rerun_node"})
       /\ asked.scope[1] = "start_run" <=> \A q \in Requests : pc[q] = "off"
       /\ asked.scope[1] = "start_run" => ~asked.keyed
       /\ req' = [req EXCEPT ![r] = asked]
  /\ Goto(r, "lookup")
  /\ met' = met \cup {<<r, q>> : q \in Others(r)} \cup {<<q, r>> : q \in Others(r)}
  /\ UNCHANGED <<backend, runVars, outcome, cached, snapshot, crashes, answered, discarded>>

IsCached(r) == req[r].keyed /\ cached[req[r].scope] # Nothing

Replay(r) ==
  /\ pc[r] = "lookup" /\ IsCached(r)
  /\ Finish(r, "replayed")
  /\ UNCHANGED cached

NewRun == [status |-> "RUNNING", answers |-> {}, interrupts |-> [i \in Interrupts |-> "NONE"]]

\* engine.start_run makes a new Run object.
StartRun(r) ==
  /\ pc[r] = "lookup" /\ ~IsCached(r) /\ Asks(r) = "start_run"
  /\ Keep(Put(Unused, NewRun), storedAt, [loc EXCEPT ![r] = Unused])
  /\ Goto(r, "engine")
  /\ UNCHANGED <<backend, req, outcome, cached, snapshot, crashes, history>>

-----------------------------------------------------------------------------
(* The other requests load the run.  Between the load and the cancellation *)
(* of a run or of an interrupt nothing else happens.                       *)

\* Variant: the run keeps its status.
MutChanged(r, run) ==
  CASE Asks(r) = "cancel_run"       -> [run EXCEPT !.status = "CANCELLED"]
    [] Asks(r) = "cancel_interrupt" -> [run EXCEPT !.interrupts[Its(r)] = "CANCELLED"]
    [] OTHER                        -> run

Changed(r, run) ==
  CASE Asks(r) = "cancel_run"       -> [run EXCEPT !.status = "CANCELLED"]
    [] Asks(r) = "cancel_interrupt" -> [run EXCEPT !.interrupts[Its(r)] = "CANCELLED",
                                                   !.status = "FAILED"]
    [] OTHER                        -> run

Reruns(r) == Asks(r) = "rerun_node"

Loaded(r, o, run) ==
  IF Asks(r) = "cancel_interrupt" /\ run.interrupts[Its(r)] = "NONE"
  THEN Finish(r, "refused")
  ELSE /\ Keep(Spread(o, Changed(r, run)), storedAt, [loc EXCEPT ![r] = o])
       /\ Goto(r, CASE Asks(r) = "resume_interrupt" -> "check"
                    [] Reruns(r)                    -> "rerun"
                    [] OTHER                        -> "snapshot")
       /\ UNCHANGED <<backend, req, outcome, snapshot, crashes, met, answered, discarded>>

Miss(r) ==
  /\ pc[r] = "lookup" /\ ~IsCached(r) /\ Asks(r) # "start_run"
  /\ Goto(r, "load")
  /\ UNCHANGED <<backend, runVars, req, outcome, cached, snapshot, crashes, history>>

NotFound(r) ==
  /\ pc[r] = "load" /\ storedAt = Nothing
  /\ Finish(r, "refused")
  /\ UNCHANGED cached

LoadObject(r) ==
  /\ pc[r] = "load" /\ storedAt # Nothing /\ backend = "memory"
  /\ Loaded(r, storedAt, heap[storedAt])
  /\ UNCHANGED cached

\* Postgres: the row of the run is read first, its interrupts later.
LoadRow(r) ==
  /\ pc[r] = "load" /\ storedAt # Nothing /\ backend = "postgres"
  /\ Keep(Put(Unused, heap[storedAt]), storedAt, [loc EXCEPT ![r] = Unused])
  /\ Goto(r, "torn")
  /\ UNCHANGED <<backend, req, outcome, cached, snapshot, crashes, history>>

LoadInterrupts(r) ==
  /\ pc[r] = "torn"
  /\ Loaded(r, loc[r], [Object(r) EXCEPT !.interrupts = heap[storedAt].interrupts])
  /\ UNCHANGED cached

-----------------------------------------------------------------------------
(* The engine, in a worker thread.                                         *)

\* Variant: an interrupt can be answered unless it was cancelled.
MutMayAnswer(r) == Object(r).interrupts[Its(r)] \in {"OPEN", "RESOLVED"}

MayAnswer(r) == Object(r).interrupts[Its(r)] = "OPEN"

Check(r) ==
  /\ pc[r] = "check"
  /\ IF MayAnswer(r)
     THEN /\ Goto(r, "resolve")
          /\ UNCHANGED <<backend, runVars, req, outcome, snapshot, crashes, met, answered, discarded>>
     ELSE Finish(r, "refused")
  /\ UNCHANGED cached

\* The object of the request becomes run.
Becomes(r, run) == Keep(Spread(loc[r], run), storedAt, loc)

\* Variant: the answer is not put into run.state.
MutResolved(r) ==
  [Object(r) EXCEPT !.status = "RUNNING", !.interrupts[Its(r)] = "RESOLVED"]

Resolved(r) ==
  [Object(r) EXCEPT !.status = "RUNNING", !.interrupts[Its(r)] = "RESOLVED",
                    !.answers = @ \cup {Its(r)}]

Resolve(r) ==
  /\ pc[r] = "resolve"
  /\ Becomes(r, Resolved(r))
  /\ answered' = answered \cup {<<r, Its(r)>>}
  /\ Goto(r, "engine")
  /\ UNCHANGED <<backend, req, outcome, cached, snapshot, crashes, met, discarded>>

\* The node, and perhaps what follows it, is taken out of the run.  That has a pass only if
\* it is RUNNING; otherwise the node is executed by the next pass, of whichever request.
RerunNode(r) ==
  /\ pc[r] = "rerun"
  /\ Goto(r, IF Object(r).status = "RUNNING" THEN "engine" ELSE "hook")
  /\ UNCHANGED <<backend, runVars, req, outcome, cached, snapshot, crashes, history>>

Blocked(run) ==
  {[run EXCEPT !.status = "WAITING_FOR_INPUT", !.interrupts[i] = "OPEN"] :
     i \in {j \in Interrupts : run.interrupts[j] = "NONE"}}

\* A start node gives the run its inputs for a state.  A pass comes to one if a rerun or the
\* body of a loop has taken it out, or if it follows the interaction: a workflow may have
\* several, with edges into them.
StateReplaced(run) == [run EXCEPT !.answers = {}]

\* The pass ends.  A run that another request has given another status in the
\* meantime keeps it, or the node that was executing sets its own.
ExecuteUntilBlocked(r) ==
  /\ pc[r] = "engine"
  /\ \E before \in {Object(r), StateReplaced(Object(r))} :
       /\ \E run \in Blocked(before)
                     \cup {[before EXCEPT !.status = final] : final \in {"COMPLETED", "FAILED"}}
                     \cup (IF before.status = "RUNNING" THEN {} ELSE {before}) :
            Becomes(r, run)
       /\ discarded' = discarded \cup (Object(r).answers \ before.answers)
  /\ Goto(r, "hook")
  /\ UNCHANGED <<backend, req, outcome, cached, snapshot, crashes, met, answered>>

-----------------------------------------------------------------------------
(* The run is saved, published and saved again; the reply is remembered.   *)

Cancels(r) == Asks(r) \in {"cancel_run", "cancel_interrupt"}

\* Postgres overwrites the row, the memory store keeps a new object.
Save(r) ==
  LET place == IF backend = "postgres" /\ storedAt # Nothing THEN storedAt ELSE Unused
  IN  Keep(Put(place, Object(r)), place, loc)

\* _handle_runtime_events: webhooks and the ledger follow the save.
NotifyHooks(r) ==
  /\ pc[r] = "hook"
  /\ Save(r)
  /\ Goto(r, IF Cancels(r) THEN "save" ELSE "snapshot")
  /\ UNCHANGED <<backend, req, outcome, cached, snapshot, crashes, history>>

PublishWithSnapshot(r) ==
  /\ pc[r] = "snapshot"
  /\ snapshot' = Object(r).status
  /\ Goto(r, IF Cancels(r) THEN "hook" ELSE "save")
  /\ UNCHANGED <<backend, runVars, req, outcome, cached, crashes, history>>

FinalSave(r) ==
  /\ pc[r] = "save"
  /\ Save(r)
  /\ Goto(r, "reply")
  /\ UNCHANGED <<backend, req, outcome, cached, snapshot, crashes, history>>

\* set: the reply is the one that the key has now.
Remembered(r) == [cached EXCEPT ![req[r].scope] = r]

\* Remembering the reply may fail, and the request still succeeds.
Reply(r) ==
  /\ pc[r] = "reply"
  /\ \/ ~req[r].keyed /\ UNCHANGED cached
     \/ req[r].keyed /\ cached' = Remembered(r)
     \/ UNCHANGED cached
  /\ Finish(r, "ok")

-----------------------------------------------------------------------------
(* What goes wrong.                                                        *)

\* A store, a webhook's row, the ledger or the bus raises.  Before the request has
\* changed anything, that is as if it had not come.
RequestFails(r) ==
  /\ pc[r] \in {"engine", "hook", "snapshot", "save"}
  /\ Finish(r, "failed")
  /\ UNCHANGED cached

\* The time to live of a reply is over.
Expire(s) ==
  /\ cached[s] # Nothing
  /\ cached' = [cached EXCEPT ![s] = Nothing]
  /\ UNCHANGED <<backend, runVars, req, pc, outcome, snapshot, crashes, met, answered, discarded>>

\* The process stops and starts again over the same database.
Crash ==
  /\ backend = "postgres" /\ crashes < MaxCrashes
  /\ crashes' = crashes + 1
  /\ pc' = [r \in Requests |-> IF InFlight(r) THEN "done" ELSE pc[r]]
  /\ outcome' = [r \in Requests |-> IF InFlight(r) THEN "failed" ELSE outcome[r]]
  /\ Keep(heap, storedAt, [r \in Requests |-> Nothing])
  /\ UNCHANGED <<backend, req, cached, snapshot, history>>

-----------------------------------------------------------------------------
Handle(r) ==
  \/ Replay(r) \/ StartRun(r)
  \/ Miss(r) \/ NotFound(r) \/ LoadObject(r) \/ LoadRow(r) \/ LoadInterrupts(r)
  \/ Check(r) \/ Resolve(r) \/ RerunNode(r) \/ ExecuteUntilBlocked(r)
  \/ NotifyHooks(r) \/ PublishWithSnapshot(r) \/ FinalSave(r) \/ Reply(r)

Next ==
  \/ \E r \in Requests : Arrive(r) \/ Handle(r) \/ RequestFails(r)
  \/ \E s \in Scopes : Expire(s)
  \/ Crash

Spec == Init /\ [][Next]_vars

-----------------------------------------------------------------------------
(* Properties.                                                             *)

Stored         == heap[storedAt]
Overlapped(r)  == \E q \in Requests : <<r, q>> \in met
Succeeded(r)   == outcome[r] = "ok"

\* An interrupt that a client was told is answered stays closed in the stored run, unless
\* another request was in flight at the same time, and the answer stays in the stored state
\* unless a pass has executed a start node over it, the resume's own pass or a later one.
StoresKeepAnswers ==
  \A r \in Requests :
    Succeeded(r) /\ Asks(r) = "resume_interrupt" /\ ~Overlapped(r) =>
      /\ Stored.interrupts[Its(r)] \in {"RESOLVED", "CANCELLED"}
      /\ Its(r) \in Stored.answers \cup discarded

\* An interrupt is answered once, unless the first answer never got to its client
\* or another request was in flight at the same time.
AnsweredOnce ==
  \A a, b \in answered :
    a[2] = b[2] /\ a[1] # b[1] =>
      \E r \in {a[1], b[1]} : Overlapped(r) \/ outcome[r] = "failed"

\* As long as requests come one by one, wherever they fail, the stored run waits
\* only for an interrupt that can still be answered.
StoredWaitIsAnswerable ==
  storedAt # Nothing /\ Stored.status = "WAITING_FOR_INPUT" /\ met = {} =>
    \E i \in Interrupts : Stored.interrupts[i] = "OPEN"
=============================================================================
