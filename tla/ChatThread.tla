----------------------------- MODULE ChatThread -----------------------------
(***************************************************************************)
(* One thread of the chat service (chatkit/service.py): a message answers  *)
(* the run that the thread points at or starts another, an action of a     *)
(* widget answers an interrupt under an idempotency row, and both show the *)
(* run's events from the thread's cursor on.  Runs, threads and rows are   *)
(* in Postgres, the events in the memory of the process.                   *)
(*                                                                         *)
(* The engine is what Engine shows of it: a pass publishes events and ends *)
(* the run or has it wait for a new interrupt.  Passes are numbered; the   *)
(* events of a pass, the interrupt it creates and the run it starts have   *)
(* its number.                                                             *)
(***************************************************************************)
EXTENDS Integers, FiniteSets

CONSTANTS
  Requests,     \* the requests
  Tags,         \* action types, or keys of their own that clients send
  MaxPasses,    \* bound on the passes of the engine
  MaxCrashes    \* bound on the crashes of the process

ASSUME ChatAssumption ==
  /\ IsFiniteSet(Requests) /\ IsFiniteSet(Tags)
  /\ "message" \notin Tags
  /\ MaxPasses \in Nat /\ MaxCrashes \in Nat

VARIABLES
  rows,        \* the stored runs
  thread,      \* thread.metadata: the run and the last event shown
  keys,        \* the rows of idempotency_keys
  log,         \* the events of each run in the memory of the process
  passes,      \* passes of the engine so far
  pc,          \* where a request is: see Steps
  job,         \* what a request works on
  outcome,     \* how a request ended
  crashes,     \* crashes of the process so far
  overlapped,  \* history: requests that were in flight together with another
  applied,     \* history: what a request has answered
  shown        \* history: how often events were shown, up to twice

stored  == <<rows, thread, keys>>
history == <<overlapped, applied, shown>>
vars    == <<stored, log, passes, pc, job, outcome, crashes, history>>

None      == 0
Passes    == 1 .. MaxPasses
Optional  == Passes \cup {None}
Keys      == Passes \X Tags
NotYet    == <<None, "message">>

\* A run: its status is WAITING_FOR_INPUT, the interrupt that is OPEN, the requests
\* whose input is in its state.
Runs    == [waiting : BOOLEAN, open : Optional, answers : SUBSET Requests]
Threads == [run : Optional, cursor : Optional]

\* what: the tag of an action or "message"; on: the interrupt to answer; copy: the
\* request's Run object; mine: its ThreadMetadata object; events: what is left to show.
Jobs == [what : Tags \cup {"message"}, run : Optional, on : Optional, copy : Runs,
         mine : Threads, events : SUBSET Passes]

Steps    == {"off", "load", "interrupts", "reserve", "resolve", "start", "answer", "fail",
             "save", "point", "complete", "list", "show", "done"}
Outcomes == {"none", "ok", "stale", "refused", "failed", "abandoned", "crashed"}

TypeOK ==
  /\ DOMAIN rows \subseteq Passes /\ \A x \in DOMAIN rows : rows[x] \in Runs
  /\ thread \in Threads
  /\ keys \in [Keys -> {"none", "IN_PROGRESS", "COMPLETED", "FAILED"}]
  /\ log \in [Passes -> SUBSET Passes]
  /\ passes \in Optional
  /\ pc \in [Requests -> Steps]
  /\ job \in [Requests -> Jobs]
  /\ outcome \in [Requests -> Outcomes]
  /\ crashes \in 0 .. MaxCrashes
  /\ overlapped \subseteq Requests
  /\ applied \in [Requests -> Keys \cup (Optional \X {"message"})]
  /\ shown \in [Passes -> 0 .. 2]

NewRun == [waiting |-> FALSE, open |-> None, answers |-> {}]
Empty  == [run |-> None, cursor |-> None]
NoJob  == [what |-> "message", run |-> None, on |-> None, copy |-> NewRun,
           mine |-> Empty, events |-> {}]

Init ==
  /\ rows = [x \in {} |-> NewRun] /\ thread = Empty
  /\ keys = [k \in Keys |-> "none"]
  /\ log = [x \in Passes |-> {}] /\ passes = None
  /\ pc = [r \in Requests |-> "off"] /\ job = [r \in Requests |-> NoJob]
  /\ outcome = [r \in Requests |-> "none"] /\ crashes = 0
  /\ overlapped = {} /\ applied = [r \in Requests |-> NotYet]
  /\ shown = [e \in Passes |-> 0]

-----------------------------------------------------------------------------
InFlight(r) == pc[r] \notin {"off", "done"}
IsAction(r) == job[r].what # "message"
Key(r)      == <<job[r].on, job[r].what>>

Goto(r, step) == pc' = [pc EXCEPT ![r] = step]
Work(r, j)    == job' = [job EXCEPT ![r] = j]

\* The request keeps nothing but its outcome.
End(r, how) ==
  /\ Goto(r, "done")
  /\ outcome' = [outcome EXCEPT ![r] = how]
  /\ Work(r, NoJob)

\* The thread is loaded with the request.
Arrive(r, work) ==
  LET others == {q \in Requests \ {r} : InFlight(q)}
  IN  /\ pc[r] = "off"
      /\ Work(r, [work EXCEPT !.mine = thread])
      /\ overlapped' = IF others = {} THEN overlapped ELSE overlapped \cup others \cup {r}
      /\ UNCHANGED <<stored, log, passes, outcome, crashes, applied, shown>>

\* A message is for the run of the thread, if there is one.
Message(r) ==
  /\ Arrive(r, [NoJob EXCEPT !.run = thread.run])
  /\ Goto(r, IF thread.run = None THEN "resolve" ELSE "load")

\* A widget names its run and interrupt and stays visible after it was answered.
Click(r, tag) ==
  \E x \in DOMAIN rows, i \in Passes :
    /\ x <= i /\ i <= passes
    /\ Arrive(r, [NoJob EXCEPT !.what = tag, !.run = x, !.on = i])
    /\ Goto(r, "load")

-----------------------------------------------------------------------------
(* The run is loaded: first its row, later its interrupts.                 *)

LoadRow(r) ==
  /\ pc[r] = "load"
  /\ Work(r, [job[r] EXCEPT !.copy = rows[job[r].run]])
  /\ Goto(r, "interrupts")
  /\ UNCHANGED <<stored, log, passes, outcome, crashes, history>>

IsOpen(r, copy) == copy.open = job[r].on

Loaded(r, copy) ==
  \/ /\ IsAction(r) /\ ~IsOpen(r, copy)
     /\ End(r, "stale")
  \/ /\ IsAction(r) /\ IsOpen(r, copy)
     /\ Work(r, [job[r] EXCEPT !.copy = copy])
     /\ Goto(r, "reserve") /\ UNCHANGED outcome
  \/ /\ ~IsAction(r) /\ copy.waiting /\ copy.open # None
     /\ Work(r, [job[r] EXCEPT !.copy = copy, !.on = copy.open])
     /\ Goto(r, "answer") /\ UNCHANGED outcome
  \/ /\ ~IsAction(r) /\ ~(copy.waiting /\ copy.open # None)
     /\ Work(r, [job[r] EXCEPT !.copy = NewRun, !.run = None])
     /\ Goto(r, "resolve") /\ UNCHANGED outcome

LoadInterrupts(r) ==
  /\ pc[r] = "interrupts"
  /\ Loaded(r, [job[r].copy EXCEPT !.open = rows[job[r].run].open])
  /\ UNCHANGED <<stored, log, passes, crashes, history>>

-----------------------------------------------------------------------------
(* The idempotency row of an action.                                       *)

\* Variant: a row keeps other requests off only when it is completed.
MutIsReserved(k) == keys[k] = "COMPLETED"

\* The unique index knows nothing of expires_at: a row stays whatever its status.
IsReserved(k) == keys[k] # "none"

Reserve(r) ==
  /\ pc[r] = "reserve" /\ ~IsReserved(Key(r))
  /\ keys' = [keys EXCEPT ![Key(r)] = "IN_PROGRESS"]
  /\ Goto(r, "answer")
  /\ UNCHANGED <<rows, thread, log, passes, job, outcome, crashes, history>>

Refuse(r) ==
  /\ pc[r] = "reserve" /\ IsReserved(Key(r))
  /\ End(r, "refused")
  /\ UNCHANGED <<stored, log, passes, crashes, history>>

Fail(r) ==
  /\ pc[r] = "fail"
  /\ keys' = [keys EXCEPT ![Key(r)] = "FAILED"]
  /\ End(r, "failed")
  /\ UNCHANGED <<rows, thread, log, passes, crashes, history>>

Complete(r) ==
  /\ pc[r] = "complete"
  /\ keys' = [keys EXCEPT ![Key(r)] = "COMPLETED"]
  /\ Goto(r, "list")
  /\ UNCHANGED <<rows, thread, log, passes, job, outcome, crashes, history>>

-----------------------------------------------------------------------------
(* The engine.                                                             *)

\* A message that starts a run first writes its correlation id, and with it its
\* copy of the thread.
ResolveWorkflow(r) ==
  /\ pc[r] = "resolve"
  /\ thread' = job[r].mine
  /\ Goto(r, "start")
  /\ UNCHANGED <<rows, keys, log, passes, job, outcome, crashes, history>>

\* A pass over the run copy, which is called x or, when it is new, after the pass;
\* its events are published, then the request goes on to save the run.
Pass(r, x, copy) ==
  LET n   == passes + 1
      run == IF x = None THEN n ELSE x
  IN  /\ passes < MaxPasses
      /\ passes' = n
      /\ \E waits \in BOOLEAN :
           Work(r, [job[r] EXCEPT !.run = run,
                                  !.copy = [copy EXCEPT !.waiting = waits,
                                                        !.open = IF waits THEN n ELSE None]])
      /\ log' = [log EXCEPT ![run] = @ \cup {n}]
      /\ Goto(r, "save")

StartRun(r) ==
  /\ pc[r] = "start"
  /\ Pass(r, None, NewRun)
  /\ UNCHANGED <<stored, outcome, crashes, history>>

ResumeInterrupt(r) ==
  /\ pc[r] = "answer"
  /\ Pass(r, job[r].run, [job[r].copy EXCEPT !.answers = @ \cup {r}])
  /\ applied' = [applied EXCEPT ![r] = Key(r)]
  /\ UNCHANGED <<stored, outcome, crashes, overlapped, shown>>

\* The workflow cannot be loaded.
ResumeRaises(r) ==
  /\ pc[r] = "answer" /\ IsAction(r)
  /\ Goto(r, "fail")
  /\ UNCHANGED <<stored, log, passes, job, outcome, crashes, history>>

-----------------------------------------------------------------------------
(* What follows a pass.                                                    *)

AfterSave(r) ==
  IF IsAction(r) THEN "complete" ELSE IF job[r].on = None THEN "point" ELSE "list"

\* The store with the request's run.
Saved(r) ==
  [x \in DOMAIN rows \cup {job[r].run} |-> IF x = job[r].run THEN job[r].copy ELSE rows[x]]

\* Variant: only runs that were started are saved.
MutSaveRun(r) ==
  /\ pc[r] = "save"
  /\ rows' = IF job[r].on = None THEN Saved(r) ELSE rows
  /\ Goto(r, AfterSave(r))
  /\ UNCHANGED <<thread, keys, log, passes, job, outcome, crashes, history>>

SaveRun(r) ==
  /\ pc[r] = "save"
  /\ rows' = Saved(r)
  /\ Goto(r, AfterSave(r))
  /\ UNCHANGED <<thread, keys, log, passes, job, outcome, crashes, history>>

SaveThread(r, meta) ==
  /\ thread' = meta
  /\ Work(r, [job[r] EXCEPT !.mine = meta])

\* Variant: a thread keeps the run that it has.
MutPointAtRun(r) ==
  /\ pc[r] = "point"
  /\ SaveThread(r, [run |-> IF job[r].mine.run = None THEN job[r].run ELSE job[r].mine.run,
                    cursor |-> None])
  /\ Goto(r, "list")
  /\ UNCHANGED <<rows, keys, log, passes, outcome, crashes, history>>

PointAtRun(r) ==
  /\ pc[r] = "point"
  /\ SaveThread(r, [run |-> job[r].run, cursor |-> None])
  /\ Goto(r, "list")
  /\ UNCHANGED <<rows, keys, log, passes, outcome, crashes, history>>

\* InMemoryEventStore.list_events: everything, if the cursor is not one of the run's.
EventsAfter(x, cursor) ==
  IF cursor \in log[x] THEN {e \in log[x] : e > cursor} ELSE log[x]

ListEvents(r) ==
  /\ pc[r] = "list"
  /\ Work(r, [job[r] EXCEPT !.events = EventsAfter(job[r].run, job[r].mine.cursor)])
  /\ Goto(r, "show")
  /\ UNCHANGED <<stored, log, passes, outcome, crashes, history>>

\* Variant: the cursor stays where it was.
MutSeen(r, e) == job[r].mine.cursor

Seen(r, e) == e

Show(r) ==
  /\ pc[r] = "show"
  /\ \E e \in job[r].events :
       /\ \A d \in job[r].events : e <= d
       /\ shown' = [shown EXCEPT ![e] = IF @ = 0 THEN 1 ELSE 2]
       /\ Work(r, [job[r] EXCEPT !.events = @ \ {e}, !.mine.cursor = Seen(r, e)])
  /\ UNCHANGED <<stored, log, passes, pc, outcome, crashes, overlapped, applied>>

\* The whole of the request's thread is written back.
SaveCursor(r) ==
  /\ pc[r] = "show" /\ job[r].events = {}
  /\ thread' = job[r].mine
  /\ End(r, "ok")
  /\ UNCHANGED <<rows, keys, log, passes, crashes, history>>

-----------------------------------------------------------------------------
(* What goes wrong.                                                        *)

\* The client has gone or a store raises.  Before the request has changed
\* anything, that is as if it had not come.
Abandon(r) ==
  /\ pc[r] \in {"start", "answer", "fail", "save", "point", "complete", "list", "show"}
  /\ End(r, "abandoned")
  /\ UNCHANGED <<stored, log, passes, crashes, history>>

\* The process stops; its events are lost.
Crash ==
  /\ crashes < MaxCrashes
  /\ crashes' = crashes + 1
  /\ log' = [x \in Passes |-> {}]
  /\ pc' = [r \in Requests |-> IF InFlight(r) THEN "done" ELSE pc[r]]
  /\ outcome' = [r \in Requests |-> IF InFlight(r) THEN "crashed" ELSE outcome[r]]
  /\ job' = [r \in Requests |-> NoJob]
  /\ UNCHANGED <<stored, passes, history>>

-----------------------------------------------------------------------------
Handle(r) ==
  \/ Message(r) \/ (\E tag \in Tags : Click(r, tag))
  \/ LoadRow(r) \/ LoadInterrupts(r)
  \/ Reserve(r) \/ Refuse(r) \/ Fail(r) \/ Complete(r)
  \/ ResolveWorkflow(r) \/ StartRun(r) \/ ResumeInterrupt(r) \/ ResumeRaises(r)
  \/ SaveRun(r) \/ PointAtRun(r) \/ ListEvents(r) \/ Show(r) \/ SaveCursor(r)

Next ==
  \/ \E r \in Requests : Handle(r) \/ Abandon(r)
  \/ Crash

Spec == Init /\ [][Next]_vars

-----------------------------------------------------------------------------
(* Properties.                                                             *)

BrokeOff(r) == outcome[r] \in {"abandoned", "crashed"}

\* However clicks interleave, fail and repeat, the same action is applied once: two
\* requests with the same idempotency row never both resume the run.
ActionAppliedOnce ==
  \A q, r \in Requests :
    q # r /\ applied[q] = applied[r] => applied[q][2] = "message"

\* When a row says that its action is completed, a stored run has the answer, across
\* crashes and failures, unless a request that overlapped has overwritten the run.
CompletedIsStored ==
  \A k \in Keys : keys[k] = "COMPLETED" =>
    \E r \in Requests :
      /\ applied[r] = k
      /\ r \in overlapped \/ \E x \in DOMAIN rows : r \in rows[x].answers

\* Requests come one by one, and those that broke off had answered an interrupt: none
\* was starting a run.
OneByOne ==
  overlapped = {} /\ \A r \in Requests : BrokeOff(r) => applied[r] # NotYet

\* As long as requests come one by one and no client goes away, no event is shown
\* twice, even when answers are cut off by a crash, and without a crash each one has
\* been shown when the requests are done.
ShownOnce ==
  OneByOne /\ (\A r \in Requests : outcome[r] # "abandoned") =>
    /\ \A e \in Passes : shown[e] <= 1
    /\ crashes = 0 /\ (\A r \in Requests : ~InFlight(r)) =>
         \A e \in 1 .. passes : shown[e] = 1

\* A run that waits for input is the one that the next message answers, as long as
\* requests come one by one.
WaitIsReachable ==
  OneByOne => \A x \in DOMAIN rows : rows[x].open # None =>
    \/ thread.run = x
    \/ \E r \in Requests : pc[r] = "point" /\ job[r].run = x
=============================================================================
