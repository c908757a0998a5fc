-------------------------- MODULE ChatThreadProofs --------------------------
(***************************************************************************)
(* Theorems about ChatThread, for any number of requests, passes and       *)
(* crashes: types; an action is applied at most once; what is completed    *)
(* stays stored; the run that waits is reached; events are shown once.     *)
(***************************************************************************)
(* The steps are summarised, field by field, as deeds; each part of the    *)
(* invariant is kept by each deed.                                         *)
(***************************************************************************)
EXTENDS ChatThread, TLAPS

\* What runs a request refers to: stored ones, except that a request which has
\* made a pass over a run has still to save it.
Refers(r) ==
  /\ job[r].mine.run # None => job[r].mine.run \in DOMAIN rows
  /\ pc[r] \in {"load", "interrupts", "reserve", "answer", "point", "complete", "list"}
       => job[r].run \in DOMAIN rows
  /\ pc[r] = "save" => job[r].run \in Passes
  /\ IsAction(r) => job[r].on \in Passes
  /\ pc[r] \in {"reserve", "fail", "complete"} => IsAction(r)

References ==
  /\ thread.run # None => thread.run \in DOMAIN rows
  /\ \A r \in Requests : Refers(r)

Answers(r) == pc[r] = "answer" /\ IsAction(r)

\* An action that was applied has a row; one that is about to be has a row too, which
\* nobody else holds and whose action has not been applied.
Reservation ==
  /\ \A r \in Requests : applied[r][2] # "message" => keys[applied[r]] # "none"
  /\ \A r \in Requests : Answers(r) =>
       /\ keys[Key(r)] # "none"
       /\ \A q \in Requests : applied[q] # Key(r)
       /\ \A q \in Requests : q # r /\ Answers(q) => Key(q) # Key(r)

IInv == TypeOK /\ References /\ Reservation /\ ActionAppliedOnce

-----------------------------------------------------------------------------
(* Types and references.                                                   *)

USE DEF None, Passes, Optional, Keys, NotYet

\* In the first state nothing refers to anything, and no row exists.
LEMMA InitIInv == Init => IInv
  BY ChatAssumption DEF Init, IInv, TypeOK, References, Refers, Reservation, ActionAppliedOnce,
    NewRun,
    Empty, NoJob, Answers, IsAction, Key, Runs, Threads, Jobs, Steps, Outcomes

\* The types of everything that is not a request's own.
Shared ==
  /\ DOMAIN rows \subseteq Passes /\ \A x \in DOMAIN rows : rows[x] \in Runs
  /\ thread \in Threads
  /\ keys \in [Keys -> {"none", "IN_PROGRESS", "COMPLETED", "FAILED"}]
  /\ log \in [Passes -> SUBSET Passes]
  /\ passes \in Optional
  /\ outcome \in [Requests -> Outcomes]
  /\ crashes \in 0 .. MaxCrashes
  /\ overlapped \subseteq Requests
  /\ applied \in [Requests -> Keys \cup (Optional \X {"message"})]
  /\ shown \in [Passes -> 0 .. 2]
  /\ thread.run # None => thread.run \in DOMAIN rows

Sound == TypeOK /\ References

\* A step of request r keeps what is sound, when it does so for r and for what is shared.
LEMMA StepSound ==
  ASSUME Sound, NEW r \in Requests, Shared', DOMAIN rows \subseteq DOMAIN rows',
         job' = [job EXCEPT ![r] = job'[r]], job'[r] \in Jobs,
         pc' = [pc EXCEPT ![r] = pc'[r]], pc'[r] \in Steps, Refers(r)'
  PROVE  Sound'
<1>1. TypeOK'
  BY DEF Sound, TypeOK, Shared
<1>2. ASSUME NEW q \in Requests PROVE Refers(q)'
  BY DEF Sound, TypeOK, References, Refers, IsAction
<1>. QED BY <1>1, <1>2 DEF Sound, References, Shared

LEMMA SharedSound == Sound => Shared
  BY DEF Sound, TypeOK, References, Shared

\* The fields of a request's work.
LEMMA JobFields ==
  ASSUME Sound, NEW r \in Requests
  PROVE  /\ job[r] \in Jobs /\ job[r].copy \in Runs /\ job[r].mine \in Threads
         /\ job \in [Requests -> Jobs] /\ pc \in [Requests -> Steps] /\ pc[r] \in Steps
         /\ Refers(r)
  BY DEF Sound, TypeOK, References, Jobs

LEMMA NoJobFields == NoJob \in Jobs /\ NewRun \in Runs /\ Empty \in Threads
  BY DEF NoJob, Jobs, NewRun, Runs, Empty, Threads

\* A step that ends request r keeps it sound, if what is shared stays so.
LEMMA EndSound ==
  ASSUME Sound, NEW r \in Requests, NEW how \in Outcomes, End(r, how),
         UNCHANGED <<rows, log, passes, crashes, overlapped, applied>>,
         shown' \in [Passes -> 0 .. 2],
         thread' \in Threads, thread'.run # None => thread'.run \in DOMAIN rows,
         keys' \in [Keys -> {"none", "IN_PROGRESS", "COMPLETED", "FAILED"}]
  PROVE  Sound'
<1>1. job'[r] = NoJob /\ job' = [job EXCEPT ![r] = job'[r]] /\ pc'[r] = "done"
      /\ pc' = [pc EXCEPT ![r] = pc'[r]]
  BY JobFields DEF End, Goto, Work
<1>2. Shared'
  BY SharedSound DEF Shared, End
<1>3. Refers(r)'
  BY <1>1 DEF Refers, IsAction, NoJob, Empty
<1>. QED BY <1>1, <1>2, <1>3, StepSound, NoJobFields DEF Steps

\* The requests that come in keep it sound.
LEMMA ArriveSound ==
  ASSUME Sound, NEW r \in Requests, Message(r) \/ \E tag \in Tags : Click(r, tag)
  PROVE  Sound'
<1>1. CASE Message(r)
  <2>. DEFINE j == [NoJob EXCEPT !.run = thread.run, !.mine = thread]
  <2>1. j \in Jobs /\ j.mine = thread /\ j.run = thread.run /\ j.what = "message"
    BY NoJobFields, SharedSound DEF Shared, NoJob, Jobs, Threads
  <2>2. Work(r, j)
    BY <1>1 DEF Message, Arrive, NoJob
  <2>3. PICK step \in Steps : Goto(r, step) /\ (step = "load" => thread.run # None)
                              /\ step \in {"resolve", "load"}
    BY <1>1 DEF Message, Steps
  <2>4. Shared' /\ UNCHANGED <<rows, thread>>
    BY <1>1, SharedSound DEF Message, Arrive, Shared, stored, InFlight
  <2>5. job'[r] = j /\ job' = [job EXCEPT ![r] = job'[r]]
        /\ pc'[r] = step /\ pc' = [pc EXCEPT ![r] = pc'[r]] /\ pc'[r] \in Steps
    BY <2>2, <2>3, JobFields DEF Work, Goto
  <2>6. Refers(r)'
    BY <2>1, <2>3, <2>4, <2>5, SharedSound DEF Refers, IsAction, Shared
  <2>. QED BY <2>1, <2>4, <2>5, <2>6, StepSound
<1>2. ASSUME NEW tag \in Tags, Click(r, tag)
      PROVE  Sound'
  <2>1. PICK x \in DOMAIN rows, i \in Passes :
          /\ Arrive(r, [NoJob EXCEPT !.what = tag, !.run = x, !.on = i])
          /\ Goto(r, "load")
    BY <1>2 DEF Click
  <2>. DEFINE j == [NoJob EXCEPT !.what = tag, !.run = x, !.on = i, !.mine = thread]
  <2>2. j \in Jobs /\ j.mine = thread /\ j.run = x /\ j.on = i
    BY NoJobFields, SharedSound DEF Shared, NoJob, Jobs, Threads
  <2>3. Work(r, j)
    BY <2>1 DEF Arrive, NoJob
  <2>4. Shared' /\ UNCHANGED <<rows, thread>>
    BY <2>1, SharedSound DEF Arrive, Shared, stored, InFlight
  <2>5. job'[r] = j /\ job' = [job EXCEPT ![r] = job'[r]]
        /\ pc'[r] = "load" /\ pc' = [pc EXCEPT ![r] = pc'[r]] /\ pc'[r] \in Steps
    BY <2>1, <2>3, JobFields DEF Work, Goto, Steps
  <2>6. Refers(r)'
    BY <2>2, <2>4, <2>5, SharedSound DEF Refers, IsAction, Shared
  <2>. QED BY <2>2, <2>4, <2>5, <2>6, StepSound
<1>. QED BY <1>1, <1>2

\* Loading a run keeps it sound.
LEMMA LoadSound ==
  ASSUME Sound, NEW r \in Requests, LoadRow(r) \/ LoadInterrupts(r)
  PROVE  Sound'
<1>0. Shared' /\ UNCHANGED <<rows, thread>>
  BY SharedSound DEF LoadRow, LoadInterrupts, Loaded, End, Outcomes, Shared, stored, history
<1>1. job[r].run \in DOMAIN rows /\ rows[job[r].run] \in Runs
  BY JobFields, SharedSound DEF LoadRow, LoadInterrupts, Refers, Shared
<1>2. CASE LoadRow(r)
  <2>. DEFINE j == [job[r] EXCEPT !.copy = rows[job[r].run]]
  <2>1. j \in Jobs /\ j.mine = job[r].mine /\ j.run = job[r].run /\ j.on = job[r].on /\ j.what = job[r].what
    BY <1>1, JobFields DEF Jobs
  <2>2. job'[r] = j /\ job' = [job EXCEPT ![r] = job'[r]]
        /\ pc'[r] = "interrupts" /\ pc' = [pc EXCEPT ![r] = pc'[r]] /\ pc'[r] \in Steps
    BY <1>2, JobFields DEF LoadRow, Work, Goto, Steps
  <2>3. Refers(r)'
    BY <1>0, <1>1, <2>1, <2>2, JobFields DEF Refers, IsAction
  <2>. QED BY <1>0, <2>1, <2>2, <2>3, StepSound
<1>3. CASE LoadInterrupts(r)
  <2>. DEFINE copy == [job[r].copy EXCEPT !.open = rows[job[r].run].open]
  <2>1. copy \in Runs
    BY <1>1, JobFields DEF Runs
  <2>2. copy.open \in Optional /\ Loaded(r, copy)
    BY <1>3, <2>1 DEF Runs, LoadInterrupts
  <2>. HIDE DEF copy
  <2>3. CASE End(r, "stale")
    BY <1>0, <1>3, <2>3, EndSound, SharedSound DEF LoadInterrupts, Shared, stored, history, Outcomes
  <2>4. CASE IsAction(r) /\ Work(r, [job[r] EXCEPT !.copy = copy]) /\ Goto(r, "reserve")
    <3>. DEFINE j == [job[r] EXCEPT !.copy = copy]
    <3>1. j \in Jobs /\ j.mine = job[r].mine /\ j.run = job[r].run /\ j.on = job[r].on /\ j.what = job[r].what
      BY <2>1, JobFields DEF Jobs
    <3>2. job'[r] = j /\ job' = [job EXCEPT ![r] = job'[r]]
          /\ pc'[r] = "reserve" /\ pc' = [pc EXCEPT ![r] = pc'[r]] /\ pc'[r] \in Steps
      BY <2>4, JobFields DEF Work, Goto, Steps
    <3>3. Refers(r)'
      BY <1>0, <1>1, <2>4, <3>1, <3>2, JobFields DEF Refers, IsAction
    <3>. QED BY <1>0, <3>1, <3>2, <3>3, StepSound
  <2>5. CASE ~IsAction(r) /\ Work(r, [job[r] EXCEPT !.copy = copy, !.on = copy.open]) /\ Goto(r, "answer")
    <3>. DEFINE j == [job[r] EXCEPT !.copy = copy, !.on = copy.open]
    <3>1. j \in Jobs /\ j.mine = job[r].mine /\ j.run = job[r].run /\ j.what = job[r].what
      BY <2>1, <2>2, JobFields DEF Jobs
    <3>2. job'[r] = j /\ job' = [job EXCEPT ![r] = job'[r]]
          /\ pc'[r] = "answer" /\ pc' = [pc EXCEPT ![r] = pc'[r]] /\ pc'[r] \in Steps
      BY <2>5, JobFields DEF Work, Goto, Steps
    <3>3. Refers(r)'
      BY <1>0, <1>1, <2>5, <3>1, <3>2, JobFields DEF Refers, IsAction
    <3>. QED BY <1>0, <3>1, <3>2, <3>3, StepSound
  <2>6. CASE ~IsAction(r) /\ Work(r, [job[r] EXCEPT !.copy = NewRun, !.run = None]) /\ Goto(r, "resolve")
    <3>. DEFINE j == [job[r] EXCEPT !.copy = NewRun, !.run = None]
    <3>1. j \in Jobs /\ j.mine = job[r].mine /\ j.what = job[r].what
      BY NoJobFields, JobFields DEF Jobs
    <3>2. job'[r] = j /\ job' = [job EXCEPT ![r] = job'[r]]
          /\ pc'[r] = "resolve" /\ pc' = [pc EXCEPT ![r] = pc'[r]] /\ pc'[r] \in Steps
      BY <2>6, JobFields DEF Work, Goto, Steps
    <3>3. Refers(r)'
      BY <1>0, <2>6, <3>1, <3>2, JobFields DEF Refers, IsAction
    <3>. QED BY <1>0, <3>1, <3>2, <3>3, StepSound
  <2>. QED BY <2>2, <2>3, <2>4, <2>5, <2>6 DEF Loaded
<1>. QED BY <1>2, <1>3

\* A step that only sends the request on.
LEMMA MoveSound ==
  ASSUME Sound, NEW r \in Requests, NEW step \in Steps, Goto(r, step), UNCHANGED <<rows, job>>,
         Shared', Refers(r)'
  PROVE  Sound'
<1>1. job'[r] = job[r] /\ job' = [job EXCEPT ![r] = job'[r]] /\ job'[r] \in Jobs
  BY JobFields
<1>2. pc'[r] = step /\ pc' = [pc EXCEPT ![r] = pc'[r]]
  BY JobFields DEF Goto
<1>. QED BY <1>1, <1>2, StepSound

\* The steps at the idempotency row keep it sound.
LEMMA RowSound ==
  ASSUME Sound, NEW r \in Requests, Reserve(r) \/ Refuse(r) \/ Fail(r) \/ Complete(r)
  PROVE  Sound'
<1>1. CASE Reserve(r)
  <2>1. Shared' /\ pc'[r] = "answer"
    BY <1>1, JobFields, SharedSound DEF Reserve, Goto, Shared, history
  <2>2. Refers(r)'
    BY <1>1, <2>1, JobFields DEF Reserve, Refers, IsAction
  <2>. QED BY <1>1, <2>1, <2>2, MoveSound DEF Reserve, Steps
<1>2. CASE Refuse(r)
  BY <1>2, EndSound, SharedSound DEF Refuse, Shared, stored, history, Outcomes
<1>3. CASE Fail(r)
  BY <1>3, EndSound, SharedSound DEF Fail, Shared, history, Outcomes
<1>4. CASE Complete(r)
  <2>1. Shared' /\ pc'[r] = "list"
    BY <1>4, JobFields, SharedSound DEF Complete, Goto, Shared, history
  <2>2. Refers(r)'
    BY <1>4, <2>1, JobFields DEF Complete, Refers, IsAction
  <2>. QED BY <1>4, <2>1, <2>2, MoveSound DEF Complete, Steps
<1>. QED BY <1>1, <1>2, <1>3, <1>4

\* A pass keeps it sound: its number is new and the request knows its run.
LEMMA PassSound ==
  ASSUME Sound, NEW r \in Requests, NEW x \in Optional, NEW copy \in Runs, Pass(r, x, copy),
         UNCHANGED <<stored, outcome, crashes, overlapped, shown>>,
         applied' \in [Requests -> Keys \cup (Optional \X {"message"})]
  PROVE  Sound'
<1>. DEFINE n   == passes + 1
            run == IF x = None THEN n ELSE x
<1>1. n \in Passes /\ run \in Passes /\ passes' = n
  BY ChatAssumption, SharedSound DEF Pass, Shared
<1>2. PICK waits \in BOOLEAN :
        Work(r, [job[r] EXCEPT !.run = run,
                               !.copy = [copy EXCEPT !.waiting = waits,
                                                     !.open = IF waits THEN n ELSE None]])
  BY DEF Pass
<1>. DEFINE new == [copy EXCEPT !.waiting = waits, !.open = IF waits THEN n ELSE None]
            j   == [job[r] EXCEPT !.run = run, !.copy = new]
<1>. HIDE DEF run
<1>3. new \in Runs
  BY <1>1 DEF Runs
<1>. HIDE DEF new
<1>4. j \in Jobs /\ j.mine = job[r].mine /\ j.run = run /\ j.on = job[r].on /\ j.what = job[r].what
  BY <1>1, <1>3, JobFields DEF Jobs
<1>5. job'[r] = j /\ job' = [job EXCEPT ![r] = job'[r]]
      /\ pc'[r] = "save" /\ pc' = [pc EXCEPT ![r] = pc'[r]] /\ pc'[r] \in Steps
  BY <1>2, JobFields DEF Pass, Work, Goto, Steps, new
<1>6. log' = [log EXCEPT ![run] = @ \cup {n}]
  BY DEF Pass, run
<1>7. Shared' /\ UNCHANGED <<rows, thread>>
  BY <1>1, <1>6, SharedSound DEF Shared, stored
<1>8. Refers(r)'
  BY <1>1, <1>4, <1>5, <1>7, JobFields DEF Refers, IsAction
<1>. QED BY <1>4, <1>5, <1>7, <1>8, StepSound

LEMMA EngineSound ==
  ASSUME Sound, NEW r \in Requests,
         ResolveWorkflow(r) \/ StartRun(r) \/ ResumeInterrupt(r) \/ ResumeRaises(r)
  PROVE  Sound'
<1>1. CASE ResolveWorkflow(r)
  <2>1. Shared' /\ pc'[r] = "start"
    BY <1>1, JobFields, SharedSound DEF ResolveWorkflow, Goto, Shared, history, Refers
  <2>2. Refers(r)'
    BY <1>1, <2>1, JobFields DEF ResolveWorkflow, Refers, IsAction
  <2>. QED BY <1>1, <2>1, <2>2, MoveSound DEF ResolveWorkflow, Steps
<1>2. CASE StartRun(r)
  BY <1>2, PassSound, NoJobFields, SharedSound DEF StartRun, stored, history, Shared
<1>3. CASE ResumeInterrupt(r)
  <2>. DEFINE copy == [job[r].copy EXCEPT !.answers = @ \cup {r}]
  <2>1. copy \in Runs /\ job[r].run \in Optional /\ Key(r) \in Keys \cup (Optional \X {"message"})
    BY JobFields DEF Runs, Jobs, Key, Refers, IsAction
  <2>2. applied' \in [Requests -> Keys \cup (Optional \X {"message"})]
    BY <1>3, <2>1, SharedSound DEF ResumeInterrupt, Shared
  <2>3. Pass(r, job[r].run, copy)
    BY <1>3 DEF ResumeInterrupt
  <2>. HIDE DEF copy
  <2>. QED BY <1>3, <2>1, <2>2, <2>3, PassSound DEF ResumeInterrupt
<1>4. CASE ResumeRaises(r)
  <2>1. Shared' /\ pc'[r] = "fail"
    BY <1>4, JobFields, SharedSound DEF ResumeRaises, Goto, Shared, stored, history
  <2>2. Refers(r)'
    BY <1>4, <2>1, JobFields DEF ResumeRaises, Refers, IsAction, stored
  <2>. QED BY <1>4, <2>1, <2>2, MoveSound DEF ResumeRaises, Steps, stored
<1>. QED BY <1>1, <1>2, <1>3, <1>4

\* Saving the run and the thread, and showing events, keep it sound.
LEMMA AfterSound ==
  ASSUME Sound, NEW r \in Requests,
         SaveRun(r) \/ PointAtRun(r) \/ ListEvents(r) \/ Show(r) \/ SaveCursor(r)
  PROVE  Sound'
<1>1. CASE SaveRun(r)
  <2>1. pc[r] = "save" /\ job[r].run \in Passes /\ job[r].copy \in Runs
    BY <1>1, JobFields DEF SaveRun, Refers
  <2>2. /\ DOMAIN rows' = DOMAIN rows \cup {job[r].run}
        /\ \A x \in DOMAIN rows' : rows'[x] \in Runs
    BY <1>1, <2>1, SharedSound DEF SaveRun, Saved, Shared
  <2>3. Shared'
    BY <1>1, <2>1, <2>2, SharedSound DEF SaveRun, Shared, history
  <2>4. AfterSave(r) \in {"complete", "point", "list"} /\ (AfterSave(r) = "complete" => IsAction(r))
    BY DEF AfterSave
  <2>5. UNCHANGED job /\ job'[r] = job[r]
    BY <1>1 DEF SaveRun
  <2>6. job' = [job EXCEPT ![r] = job'[r]] /\ job'[r] \in Jobs
    BY <2>5, JobFields
  <2>7. pc' = [pc EXCEPT ![r] = pc'[r]] /\ pc'[r] = AfterSave(r)
    BY <1>1, JobFields DEF SaveRun, Goto
  <2>8. Refers(r)'
    BY <2>2, <2>4, <2>5, <2>7, JobFields DEF Refers, IsAction
  <2>. QED BY <2>2, <2>3, <2>4, <2>6, <2>7, <2>8, StepSound DEF Steps
<1>2. CASE PointAtRun(r)
  <2>. DEFINE meta == [run |-> job[r].run, cursor |-> None]
              j == [job[r] EXCEPT !.mine = meta]
  <2>1. job[r].run \in DOMAIN rows /\ meta \in Threads
    BY <1>2, JobFields DEF PointAtRun, Refers, Jobs, Threads
  <2>2. j \in Jobs /\ j.mine.run = job[r].run /\ j.run = job[r].run /\ j.on = job[r].on /\ j.what = job[r].what
    BY <2>1, JobFields DEF Jobs
  <2>3. Shared' /\ UNCHANGED rows
    BY <1>2, <2>1, SharedSound DEF PointAtRun, SaveThread, Shared, history
  <2>4. job'[r] = j /\ job' = [job EXCEPT ![r] = job'[r]]
        /\ pc'[r] = "list" /\ pc' = [pc EXCEPT ![r] = pc'[r]] /\ pc'[r] \in Steps
    BY <1>2, JobFields DEF PointAtRun, SaveThread, Work, Goto, Steps
  <2>5. Refers(r)'
    BY <2>1, <2>2, <2>3, <2>4, JobFields DEF Refers, IsAction
  <2>. QED BY <2>2, <2>3, <2>4, <2>5, StepSound
<1>3. CASE ListEvents(r)
  <2>. DEFINE list == EventsAfter(job[r].run, job[r].mine.cursor)
              j == [job[r] EXCEPT !.events = list]
  <2>1. job[r].run \in DOMAIN rows /\ job[r].run \in Passes
    BY <1>3, JobFields, SharedSound DEF ListEvents, Refers, Shared
  <2>2. list \in SUBSET Passes
    BY <2>1, SharedSound DEF EventsAfter, Shared
  <2>3. Shared' /\ UNCHANGED rows
    BY <1>3, SharedSound DEF ListEvents, Shared, stored, history
  <2>4. job'[r] = j /\ job' = [job EXCEPT ![r] = job'[r]]
        /\ pc'[r] = "show" /\ pc' = [pc EXCEPT ![r] = pc'[r]] /\ pc'[r] \in Steps
    BY <1>3, JobFields DEF ListEvents, Work, Goto, Steps
  <2>. HIDE DEF list
  <2>5. j \in Jobs /\ j.mine = job[r].mine /\ j.run = job[r].run /\ j.on = job[r].on /\ j.what = job[r].what
    BY <2>2, JobFields DEF Jobs
  <2>6. Refers(r)'
    BY <2>3, <2>4, <2>5, JobFields DEF Refers, IsAction
  <2>. QED BY <2>3, <2>4, <2>5, <2>6, StepSound
<1>4. CASE Show(r)
  <2>1. PICK e \in job[r].events :
          /\ shown' = [shown EXCEPT ![e] = IF @ = 0 THEN 1 ELSE 2]
          /\ Work(r, [job[r] EXCEPT !.events = @ \ {e}, !.mine.cursor = e])
    BY <1>4 DEF Show, Seen
  <2>. DEFINE j == [job[r] EXCEPT !.events = @ \ {e}, !.mine.cursor = e]
  <2>2. e \in Passes
    BY JobFields DEF Jobs
  <2>3. [job[r].mine EXCEPT !.cursor = e] \in Threads /\ job[r].events \ {e} \in SUBSET Passes
    BY <2>2, JobFields DEF Threads, Jobs
  <2>4. j \in Jobs /\ j.mine.run = job[r].mine.run /\ j.run = job[r].run /\ j.on = job[r].on /\ j.what = job[r].what
    BY <2>2, <2>3, JobFields DEF Jobs, Threads
  <2>5. UNCHANGED <<stored, log, passes, pc, outcome, crashes, overlapped, applied>>
    BY <1>4 DEF Show
  <2>6. shown' \in [Passes -> 0 .. 2]
    BY <2>1, <2>2, SharedSound DEF Shared
  <2>7. Shared' /\ UNCHANGED rows
    BY <2>5, <2>6, SharedSound DEF Shared, stored
  <2>8. pc'[r] = pc[r] /\ pc' = [pc EXCEPT ![r] = pc'[r]] /\ pc'[r] \in Steps
    BY <2>5, JobFields
  <2>9. Work(r, j)
    BY <2>1
  <2>. HIDE DEF j
  <2>10. job'[r] = j /\ job' = [job EXCEPT ![r] = job'[r]]
    BY <2>9, JobFields DEF Work
  <2>11. Refers(r)'
    BY <2>4, <2>7, <2>8, <2>10, JobFields DEF Refers, IsAction
  <2>. QED BY <2>4, <2>7, <2>8, <2>10, <2>11, StepSound
<1>5. CASE SaveCursor(r)
  BY <1>5, EndSound, JobFields, SharedSound DEF SaveCursor, Refers, Shared, history, Outcomes
<1>. QED BY <1>1, <1>2, <1>3, <1>4, <1>5

\* What goes wrong keeps it sound.
LEMMA FaultSound ==
  ASSUME Sound, Crash \/ \E r \in Requests : Abandon(r)
  PROVE  Sound'
<1>1. CASE Crash
  <2>1. /\ pc' \in [Requests -> Steps] /\ \A r \in Requests : pc'[r] \in {"off", "done"}
        /\ outcome' \in [Requests -> Outcomes]
    BY <1>1, SharedSound DEF Crash, InFlight, Sound, TypeOK, Shared, Steps, Outcomes
  <2>2. job' \in [Requests -> Jobs] /\ \A r \in Requests : job'[r] = NoJob
    BY <1>1, NoJobFields DEF Crash
  <2>3. Shared' /\ crashes' \in 0 .. MaxCrashes
    BY <1>1, <2>1, ChatAssumption, SharedSound DEF Crash, Shared, stored, history
  <2>4. TypeOK'
    BY <2>1, <2>2, <2>3 DEF TypeOK, Shared
  <2>5. \A r \in Requests : Refers(r)'
    BY <2>1, <2>2 DEF Refers, IsAction, NoJob, Empty
  <2>. QED BY <2>3, <2>4, <2>5 DEF Sound, References, Shared
<1>2. ASSUME NEW r \in Requests, Abandon(r)
      PROVE  Sound'
  BY <1>2, EndSound, SharedSound DEF Abandon, Shared, stored, history, Outcomes
<1>. QED BY <1>1, <1>2

\* Every step keeps it sound.
LEMMA NextSound == Sound /\ [Next]_vars => Sound'
<1>. SUFFICES ASSUME Sound, [Next]_vars PROVE Sound'
  OBVIOUS
<1>1. CASE UNCHANGED vars
  BY <1>1 DEF vars, stored, history, Sound, TypeOK, References, Refers, IsAction
<1>2. ASSUME NEW r \in Requests, Handle(r)
      PROVE  Sound'
  BY <1>2, ArriveSound, LoadSound, RowSound, EngineSound, AfterSound DEF Handle
<1>3. CASE Crash \/ \E r \in Requests : Abandon(r)
  BY <1>3, FaultSound
<1>. QED BY <1>1, <1>2, <1>3 DEF Next

-----------------------------------------------------------------------------
(* Reservations.                                                           *)

\* What the steps of others leave: answers to actions, their keys, what was applied.
LEMMA ReservationKept ==
  ASSUME Sound, Reservation, UNCHANGED applied,
         \A k \in Keys : keys[k] # "none" => keys'[k] # "none",
         \A r \in Requests : Answers(r)' => Answers(r) /\ Key(r)' = Key(r)
  PROVE  Reservation'
<1>1. \A r \in Requests : applied[r][2] # "message" => applied[r] \in Keys
  BY SharedSound DEF Shared
<1>2. \A r \in Requests : Answers(r) => Key(r) \in Keys
  BY JobFields DEF Answers, Refers, Key, Jobs, IsAction
<1>. QED BY <1>1, <1>2 DEF Reservation

\* Who reserves a row is the only one who answers under it, and the first.
LEMMA ReserveKeeps ==
  ASSUME Sound, Reservation, NEW r \in Requests, Reserve(r)
  PROVE  Reservation'
<1>1. /\ IsAction(r) /\ Key(r) \in Keys /\ keys[Key(r)] = "none"
      /\ keys' = [keys EXCEPT ![Key(r)] = "IN_PROGRESS"]
      /\ pc' = [pc EXCEPT ![r] = "answer"] /\ UNCHANGED <<job, applied>>
  BY JobFields DEF Reserve, IsReserved, Goto, history, Refers, Key, Jobs, IsAction
<1>2. \A q \in Requests : applied[q][2] # "message" => applied[q] \in Keys
  BY SharedSound DEF Shared
<1>3. \A q \in Requests : Answers(q) => Key(q) \in Keys /\ keys[Key(q)] # "none"
  BY JobFields DEF Reservation, Answers, Refers, Key, Jobs, IsAction
<1>4. \A k \in Keys : keys'[k] = IF k = Key(r) THEN "IN_PROGRESS" ELSE keys[k]
  BY <1>1, SharedSound DEF Shared
<1>5. \A q \in Requests : applied[q] # Key(r)
  BY <1>1, <1>2 DEF Reservation, Key, IsAction
<1>6. \A q \in Requests : Answers(q)' <=> q = r \/ Answers(q)
  BY <1>1, JobFields DEF Answers, IsAction
<1>7. \A q \in Requests : Key(q)' = Key(q)
  BY <1>1 DEF Key
<1>8. \A q \in Requests : Answers(q) => Key(q) # Key(r)
  BY <1>1, <1>3
<1>9. \A q \in Requests : applied'[q][2] # "message" => keys'[applied'[q]] # "none"
  BY <1>1, <1>2, <1>4 DEF Reservation
<1>10. ASSUME NEW q \in Requests, Answers(q)'
       PROVE  /\ keys'[Key(q)'] # "none"
              /\ \A p \in Requests : applied'[p] # Key(q)'
              /\ \A p \in Requests : p # q /\ Answers(p)' => Key(p)' # Key(q)'
  BY <1>1, <1>3, <1>4, <1>5, <1>6, <1>7, <1>8, <1>10 DEF Reservation
<1>. QED BY <1>9, <1>10 DEF Reservation

\* An answer uses the reservation up.
LEMMA ResumeKeeps ==
  ASSUME Sound, Reservation, ActionAppliedOnce, NEW r \in Requests, ResumeInterrupt(r)
  PROVE  Reservation' /\ ActionAppliedOnce'
<1>1. /\ pc[r] = "answer" /\ pc' = [pc EXCEPT ![r] = "save"] /\ UNCHANGED keys
      /\ applied' = [applied EXCEPT ![r] = Key(r)]
  BY DEF ResumeInterrupt, Pass, Goto, stored
<1>2. \A q \in Requests \ {r} : job'[q] = job[q] /\ pc'[q] = pc[q]
  BY <1>1, JobFields DEF ResumeInterrupt, Pass, Work
<1>3. \A q \in Requests : applied'[q] = IF q = r THEN Key(r) ELSE applied[q]
  BY <1>1, SharedSound DEF Shared
<1>4. \A q \in Requests : Answers(q)' => q # r /\ Answers(q) /\ Key(q)' = Key(q)
  BY <1>1, <1>2, JobFields DEF Answers, IsAction, Key
<1>5. Answers(r) <=> Key(r)[2] # "message"
  BY <1>1 DEF Answers, IsAction, Key
<1>6. \A q \in Requests : applied'[q][2] # "message" => keys'[applied'[q]] # "none"
  BY <1>1, <1>3, <1>5 DEF Reservation
<1>7. ASSUME NEW q \in Requests, Answers(q)'
      PROVE  /\ keys'[Key(q)'] # "none"
             /\ \A p \in Requests : applied'[p] # Key(q)'
             /\ \A p \in Requests : p # q /\ Answers(p)' => Key(p)' # Key(q)'
  <2>1. q # r /\ Answers(q) /\ Key(q)' = Key(q)
    BY <1>4, <1>7
  <2>2. Key(r) # Key(q)
    BY <1>5, <2>1 DEF Reservation, Answers, IsAction, Key
  <2>. QED BY <1>1, <1>3, <1>4, <2>1, <2>2 DEF Reservation
<1>8. ASSUME NEW p \in Requests, NEW q \in Requests, p # q, applied'[p] = applied'[q]
      PROVE  applied'[p][2] = "message"
  BY <1>3, <1>5, <1>8 DEF Reservation, ActionAppliedOnce
<1>. QED BY <1>6, <1>7, <1>8 DEF Reservation, ActionAppliedOnce

\* Every step keeps the invariant.
LEMMA NextIInv == IInv /\ [Next]_vars => IInv'
<1>. SUFFICES ASSUME IInv, [Next]_vars PROVE Reservation' /\ ActionAppliedOnce'
  BY NextSound DEF IInv, Sound
<1>0. Sound /\ Reservation /\ ActionAppliedOnce
  BY DEF IInv, Sound
<1>1. CASE UNCHANGED <<pc, job, keys, applied>>
  BY <1>0, <1>1 DEF Reservation, ActionAppliedOnce, Answers, IsAction, Key
<1>2. ASSUME NEW r \in Requests, Reserve(r) PROVE Reservation' /\ ActionAppliedOnce'
  BY <1>0, <1>2, ReserveKeeps DEF Reserve, history, ActionAppliedOnce
<1>3. ASSUME NEW r \in Requests, ResumeInterrupt(r) PROVE Reservation' /\ ActionAppliedOnce'
  BY <1>0, <1>3, ResumeKeeps
<1>4. ASSUME NEW r \in Requests, Handle(r) \/ Abandon(r), ~Reserve(r), ~ResumeInterrupt(r)
      PROVE  Reservation' /\ ActionAppliedOnce'
  <2>1. UNCHANGED applied
    BY <1>4 DEF Handle, Message, Click, Arrive, LoadRow, LoadInterrupts, Refuse, Fail, Complete,
      ResolveWorkflow, StartRun, ResumeRaises, SaveRun, PointAtRun, ListEvents, Show, SaveCursor,
      Abandon, history
  <2>2. \A k \in Keys : keys[k] # "none" => keys'[k] # "none"
    BY <1>0, <1>4, SharedSound DEF Shared, Handle, Message, Click, Arrive, LoadRow, LoadInterrupts,
      Refuse, Fail, Complete, ResolveWorkflow, StartRun, ResumeRaises, SaveRun, PointAtRun,
      ListEvents, Show, SaveCursor, Abandon, stored
  <2>3. \A q \in Requests \ {r} : job'[q] = job[q] /\ pc'[q] = pc[q]
    BY <1>0, <1>4, JobFields DEF Handle, Message, Click, Arrive, LoadRow, LoadInterrupts, Loaded,
      Refuse, Fail, Complete, ResolveWorkflow, StartRun, ResumeRaises, SaveRun, PointAtRun,
      SaveThread, ListEvents, Show, SaveCursor, Abandon, Pass, End, Work, Goto, stored
  <2>4. ~Answers(r)'
    <3>1. CASE LoadInterrupts(r)
      <4>. DEFINE copy == [job[r].copy EXCEPT !.open = rows[job[r].run].open]
      <4>1. Loaded(r, copy)
        BY <3>1 DEF LoadInterrupts
      <4>. HIDE DEF copy
      <4>2. CASE ~IsAction(r) /\ Work(r, [job[r] EXCEPT !.copy = copy, !.on = copy.open])
        BY <1>0, <4>2, JobFields DEF Answers, IsAction, Work, Jobs
      <4>3. CASE pc'[r] # "answer"
        BY <4>3 DEF Answers
      <4>. QED BY <1>0, <4>1, <4>2, <4>3, JobFields DEF Loaded, End, Goto
    <3>2. CASE ~LoadInterrupts(r)
      <4>1. pc'[r] # "answer"
        BY <1>0, <1>4, <3>2, JobFields DEF Handle, Message, Click, Arrive, LoadRow, Refuse, Fail,
          Complete, ResolveWorkflow, StartRun, ResumeRaises, SaveRun, AfterSave, PointAtRun,
          ListEvents, Show, SaveCursor, Abandon, Pass, End, Goto
      <4>. QED BY <4>1 DEF Answers
    <3>. QED BY <3>1, <3>2
  <2>5. \A q \in Requests : Answers(q)' => Answers(q) /\ Key(q)' = Key(q)
    BY <2>3, <2>4 DEF Answers, IsAction, Key
  <2>. QED BY <1>0, <2>1, <2>2, <2>5, ReservationKept DEF ActionAppliedOnce
<1>5. CASE Crash
  <2>1. \A q \in Requests : ~Answers(q)'
    BY <1>0, <1>5, SharedSound DEF Crash, Answers, InFlight
  <2>. QED BY <1>0, <1>5, <2>1, ReservationKept DEF Crash, stored, history, ActionAppliedOnce
<1>. QED BY <1>1, <1>2, <1>3, <1>4, <1>5 DEF Next, vars, stored, history

-----------------------------------------------------------------------------
(* The theorems.                                                           *)

\* The chat service keeps the types of what it stores and works on, and a thread never
\* points at a run that is not stored (chatkit/server.py, respond and action).
THEOREM TypeCorrect == Spec => [](TypeOK /\ References)
<1>1. IInv => TypeOK /\ References
  BY DEF IInv
<1>. QED BY <1>1, InitIInv, NextIInv, PTL DEF Spec

\* Whatever clicks, crashes and failures there are, no two requests resume a run under
\* the same idempotency row (chatkit/server.py, action; chatkit/idempotency.py, start).
THEOREM AppliedOnce == Spec => []ActionAppliedOnce
<1>1. IInv => ActionAppliedOnce
  BY DEF IInv
<1>. QED BY <1>1, InitIInv, NextIInv, PTL DEF Spec

-----------------------------------------------------------------------------
(* What a step does, field by field.                                       *)

\* Nothing of another request changes.
Rest(r) ==
  \A q \in Requests \ {r} :
    pc'[q] = pc[q] /\ job'[q] = job[q] /\ outcome'[q] = outcome[q] /\ applied'[q] = applied[q]

\* The request works on the same.
SameTask(r) ==
  job'[r].what = job[r].what /\ job'[r].run = job[r].run /\ job'[r].on = job[r].on

Comes(r) ==
  /\ Rest(r) /\ pc[r] = "off"
  /\ job'[r].mine = thread
  /\ \/ /\ job'[r].what = "message" /\ job'[r].run = thread.run /\ job'[r].on = None
        /\ pc'[r] = IF thread.run = None THEN "resolve" ELSE "load"
     \/ /\ job'[r].what # "message" /\ job'[r].run \in DOMAIN rows /\ job'[r].on \in Passes
        /\ pc'[r] = "load"
  /\ overlapped \subseteq overlapped'
  /\ \A q \in Requests \ {r} : InFlight(q) => {q, r} \subseteq overlapped'
  /\ UNCHANGED <<stored, log, passes, outcome, crashes, applied, shown>>

LoadsRow(r) ==
  /\ Rest(r) /\ pc[r] = "load" /\ pc'[r] = "interrupts"
  /\ SameTask(r) /\ job'[r].mine = job[r].mine
  /\ job'[r].copy = rows[job[r].run]
  /\ UNCHANGED <<stored, log, passes, outcome, crashes, history>>

Decides(r) ==
  /\ Rest(r) /\ pc[r] = "interrupts"
  /\ job'[r].what = job[r].what /\ job'[r].mine = job[r].mine
  /\ \/ /\ IsAction(r) /\ pc'[r] = "reserve" /\ SameTask(r)
        /\ rows[job[r].run].open = job[r].on
        /\ job'[r].copy = [job[r].copy EXCEPT !.open = rows[job[r].run].open]
     \/ /\ ~IsAction(r) /\ pc'[r] = "answer" /\ job'[r].run = job[r].run
        /\ job[r].copy.waiting /\ rows[job[r].run].open # None
        /\ job'[r].on = rows[job[r].run].open
        /\ job'[r].copy = [job[r].copy EXCEPT !.open = rows[job[r].run].open]
     \/ /\ ~IsAction(r) /\ pc'[r] = "resolve" /\ job'[r].run = None
        /\ job'[r].on = job[r].on
        /\ ~(job[r].copy.waiting /\ rows[job[r].run].open # None)
        /\ job'[r].copy = NewRun
  /\ UNCHANGED <<stored, log, passes, outcome, crashes, history>>

\* The request goes on; a row or the thread is written.
Moves(r) ==
  /\ Rest(r) /\ UNCHANGED <<rows, log, passes, job, outcome, crashes, history>>
  /\ \/ /\ pc[r] = "reserve" /\ pc'[r] = "answer" /\ UNCHANGED thread
        /\ keys' = [keys EXCEPT ![Key(r)] = "IN_PROGRESS"]
     \/ /\ pc[r] = "complete" /\ pc'[r] = "list" /\ UNCHANGED thread
        /\ keys' = [keys EXCEPT ![Key(r)] = "COMPLETED"]
     \/ /\ pc[r] = "resolve" /\ pc'[r] = "start" /\ thread' = job[r].mine /\ UNCHANGED keys
     \/ /\ pc[r] = "answer" /\ pc'[r] = "fail" /\ IsAction(r) /\ UNCHANGED <<thread, keys>>

\* A pass, over a new run or to answer an interrupt of a stored one.
Works(r) ==
  /\ Rest(r) /\ pc'[r] = "save"
  /\ passes' = passes + 1 /\ passes < MaxPasses
  /\ job'[r].what = job[r].what /\ job'[r].on = job[r].on /\ job'[r].mine = job[r].mine
  /\ job'[r].copy.waiting <=> job'[r].copy.open # None
  /\ job'[r].copy.open \in {None, passes'}
  /\ \/ /\ pc[r] = "start" /\ job'[r].run = passes' /\ job'[r].copy.answers = {}
        /\ UNCHANGED applied
     \/ /\ pc[r] = "answer" /\ job'[r].run = job[r].run
        /\ job'[r].copy.answers = job[r].copy.answers \cup {r}
        /\ applied'[r] = Key(r)
  /\ log' = [log EXCEPT ![job'[r].run] = @ \cup {passes'}]
  /\ UNCHANGED <<stored, outcome, crashes, overlapped, shown>>

Saves(r) ==
  /\ Rest(r) /\ pc[r] = "save" /\ pc'[r] = AfterSave(r)
  /\ rows' = Saved(r)
  /\ UNCHANGED <<thread, keys, log, passes, job, outcome, crashes, history>>

Points(r) ==
  /\ Rest(r) /\ pc[r] = "point" /\ pc'[r] = "list" /\ SameTask(r)
  /\ thread' = [run |-> job[r].run, cursor |-> None] /\ job'[r].mine = thread'
  /\ UNCHANGED <<rows, keys, log, passes, outcome, crashes, history>>

Lists(r) ==
  /\ Rest(r) /\ pc[r] = "list" /\ pc'[r] = "show" /\ SameTask(r)
  /\ job'[r].mine = job[r].mine
  /\ job'[r].events = EventsAfter(job[r].run, job[r].mine.cursor)
  /\ UNCHANGED <<stored, log, passes, outcome, crashes, history>>

Shows(r) ==
  /\ Rest(r) /\ pc[r] = "show" /\ pc'[r] = "show" /\ SameTask(r)
  /\ \E e \in job[r].events :
       /\ \A d \in job[r].events : e <= d
       /\ shown' = [shown EXCEPT ![e] = IF @ = 0 THEN 1 ELSE 2]
       /\ job'[r].events = job[r].events \ {e}
       /\ job'[r].mine.run = job[r].mine.run /\ job'[r].mine.cursor = e
  /\ UNCHANGED <<stored, log, passes, outcome, crashes, overlapped, applied>>

\* The request ends; a row or the thread may be written.
Leaves(r) ==
  /\ Rest(r) /\ InFlight(r) /\ pc'[r] = "done" /\ job'[r] = NoJob
  /\ outcome'[r] \in {"stale", "refused", "failed", "ok", "abandoned"}
  /\ outcome'[r] = "abandoned" =>
       pc[r] \in {"start", "answer", "fail", "save", "point", "complete", "list", "show"}
  /\ \/ UNCHANGED thread
     \/ pc[r] = "show" /\ job[r].events = {} /\ thread' = job[r].mine
  /\ outcome'[r] = "ok" => pc[r] = "show" /\ job[r].events = {} /\ thread' = job[r].mine
  /\ outcome'[r] = "failed" => pc[r] = "fail"
  /\ outcome'[r] = "stale" => IsAction(r) /\ pc[r] = "interrupts"
  /\ outcome'[r] = "refused" => pc[r] = "reserve"
  /\ UNCHANGED keys \/ keys' = [keys EXCEPT ![Key(r)] = "FAILED"]
  /\ UNCHANGED <<rows, log, passes, crashes, history>>

Crashes ==
  /\ \A r \in Requests :
       /\ pc'[r] = IF InFlight(r) THEN "done" ELSE pc[r]
       /\ outcome'[r] = IF InFlight(r) THEN "crashed" ELSE outcome[r]
       /\ job'[r] = NoJob
  /\ crashes' = crashes + 1
  /\ log' = [x \in Passes |-> {}]
  /\ UNCHANGED <<stored, passes, history>>

\* A step of the request.
Deed(r) ==
  \/ Comes(r) \/ LoadsRow(r) \/ Decides(r) \/ Moves(r) \/ Works(r) \/ Saves(r)
  \/ Points(r) \/ Lists(r) \/ Shows(r) \/ Leaves(r)

\* A step that changes the job of one request and sends it on leaves the others alone.
LEMMA OneRest ==
  ASSUME Sound, NEW r \in Requests, NEW j, NEW step,
         Work(r, j), Goto(r, step), UNCHANGED <<outcome, applied>>
  PROVE  Rest(r) /\ job'[r] = j /\ pc'[r] = step
  BY JobFields DEF Work, Goto, Rest

LEMMA MoveRest ==
  ASSUME Sound, NEW r \in Requests, NEW step,
         Goto(r, step), UNCHANGED <<job, outcome, applied>>
  PROVE  Rest(r) /\ pc'[r] = step
  BY JobFields DEF Goto, Rest

LEMMA EndRest ==
  ASSUME Sound, NEW r \in Requests, NEW how, End(r, how), UNCHANGED applied
  PROVE  Rest(r) /\ job'[r] = NoJob /\ pc'[r] = "done" /\ outcome'[r] = how
  BY JobFields, SharedSound DEF End, Work, Goto, Rest, Shared

LEMMA ComesDeed ==
  ASSUME Sound, NEW r \in Requests, Message(r) \/ \E tag \in Tags : Click(r, tag)
  PROVE  Comes(r)
<1>1. CASE Message(r)
  <2>. DEFINE j == [NoJob EXCEPT !.run = thread.run, !.mine = thread]
              step == IF thread.run = None THEN "resolve" ELSE "load"
  <2>1. j.mine = thread /\ j.run = thread.run /\ j.what = "message" /\ j.on = None
    BY DEF NoJob
  <2>2. Work(r, j) /\ Goto(r, step)
    BY <1>1 DEF Message, Arrive, NoJob
  <2>3. UNCHANGED <<stored, log, passes, outcome, crashes, applied, shown>> /\ pc[r] = "off"
    BY <1>1 DEF Message, Arrive
  <2>4. /\ overlapped \subseteq overlapped'
        /\ \A q \in Requests \ {r} : InFlight(q) => {q, r} \subseteq overlapped'
    BY <1>1 DEF Message, Arrive
  <2>. HIDE DEF j
  <2>5. Rest(r) /\ job'[r] = j /\ pc'[r] = step
    BY <2>2, <2>3, OneRest
  <2>. QED BY <2>1, <2>3, <2>4, <2>5 DEF Comes
<1>2. ASSUME NEW tag \in Tags, Click(r, tag)
      PROVE  Comes(r)
  <2>1. PICK x \in DOMAIN rows, i \in Passes :
          /\ Arrive(r, [NoJob EXCEPT !.what = tag, !.run = x, !.on = i])
          /\ Goto(r, "load")
    BY <1>2 DEF Click
  <2>. DEFINE j == [NoJob EXCEPT !.what = tag, !.run = x, !.on = i, !.mine = thread]
  <2>2. j.mine = thread /\ j.run = x /\ j.on = i /\ j.what = tag /\ tag # "message"
    BY ChatAssumption DEF NoJob
  <2>3. Work(r, j)
    BY <2>1 DEF Arrive, NoJob
  <2>4. UNCHANGED <<stored, log, passes, outcome, crashes, applied, shown>> /\ pc[r] = "off"
    BY <2>1 DEF Arrive
  <2>5. /\ overlapped \subseteq overlapped'
        /\ \A q \in Requests \ {r} : InFlight(q) => {q, r} \subseteq overlapped'
    BY <2>1 DEF Arrive
  <2>. HIDE DEF j
  <2>6. Rest(r) /\ job'[r] = j /\ pc'[r] = "load"
    BY <2>1, <2>3, <2>4, OneRest
  <2>. QED BY <2>2, <2>4, <2>5, <2>6 DEF Comes
<1>. QED BY <1>1, <1>2

LEMMA LoadDeed ==
  ASSUME Sound, NEW r \in Requests, LoadRow(r) \/ LoadInterrupts(r)
  PROVE  LoadsRow(r) \/ Decides(r) \/ Leaves(r)
<1>1. CASE LoadRow(r)
  <2>. DEFINE j == [job[r] EXCEPT !.copy = rows[job[r].run]]
  <2>1. /\ j.mine = job[r].mine /\ j.run = job[r].run /\ j.on = job[r].on
        /\ j.what = job[r].what /\ j.copy = rows[job[r].run]
    BY JobFields DEF Jobs
  <2>2. Work(r, j) /\ Goto(r, "interrupts") /\ pc[r] = "load"
        /\ UNCHANGED <<stored, log, passes, outcome, crashes, history>>
    BY <1>1 DEF LoadRow
  <2>. HIDE DEF j
  <2>3. Rest(r) /\ job'[r] = j /\ pc'[r] = "interrupts"
    BY <2>2, OneRest DEF history
  <2>. QED BY <2>1, <2>2, <2>3 DEF LoadsRow, SameTask
<1>2. CASE LoadInterrupts(r)
  <2>. DEFINE copy == [job[r].copy EXCEPT !.open = rows[job[r].run].open]
  <2>1. /\ Loaded(r, copy) /\ pc[r] = "interrupts"
        /\ UNCHANGED <<stored, log, passes, crashes, history>>
    BY <1>2 DEF LoadInterrupts
  <2>2. copy.open = rows[job[r].run].open /\ copy.waiting = job[r].copy.waiting
    BY JobFields DEF Runs
  <2>3. CASE IsAction(r) /\ End(r, "stale")
    <3>1. Rest(r) /\ job'[r] = NoJob /\ pc'[r] = "done" /\ outcome'[r] = "stale"
      BY <2>1, <2>3, EndRest DEF history
    <3>. QED BY <2>1, <2>3, <3>1 DEF Leaves, InFlight, stored
  <2>4. CASE /\ IsAction(r) /\ IsOpen(r, copy) /\ UNCHANGED outcome
             /\ Work(r, [job[r] EXCEPT !.copy = copy]) /\ Goto(r, "reserve")
    <3>. DEFINE j == [job[r] EXCEPT !.copy = copy]
    <3>1. /\ j.mine = job[r].mine /\ j.run = job[r].run /\ j.on = job[r].on
          /\ j.what = job[r].what /\ j.copy = copy
      BY JobFields DEF Jobs
    <3>2. Work(r, j)
      BY <2>4
    <3>. HIDE DEF j
    <3>3. Rest(r) /\ job'[r] = j /\ pc'[r] = "reserve"
      BY <2>1, <2>4, <3>2, OneRest DEF history
    <3>. QED BY <2>1, <2>2, <2>4, <3>1, <3>3 DEF Decides, SameTask, IsOpen
  <2>5. CASE /\ ~IsAction(r) /\ copy.waiting /\ copy.open # None /\ UNCHANGED outcome
             /\ Work(r, [job[r] EXCEPT !.copy = copy, !.on = copy.open]) /\ Goto(r, "answer")
    <3>. DEFINE j == [job[r] EXCEPT !.copy = copy, !.on = copy.open]
    <3>1. /\ j.mine = job[r].mine /\ j.run = job[r].run /\ j.on = copy.open
          /\ j.what = job[r].what /\ j.copy = copy
      BY JobFields DEF Jobs
    <3>2. Work(r, j)
      BY <2>5
    <3>. HIDE DEF j
    <3>3. Rest(r) /\ job'[r] = j /\ pc'[r] = "answer"
      BY <2>1, <2>5, <3>2, OneRest DEF history
    <3>. QED BY <2>1, <2>2, <2>5, <3>1, <3>3 DEF Decides
  <2>6. CASE /\ ~IsAction(r) /\ ~(copy.waiting /\ copy.open # None) /\ UNCHANGED outcome
             /\ Work(r, [job[r] EXCEPT !.copy = NewRun, !.run = None]) /\ Goto(r, "resolve")
    <3>. DEFINE j == [job[r] EXCEPT !.copy = NewRun, !.run = None]
    <3>1. /\ j.mine = job[r].mine /\ j.run = None /\ j.on = job[r].on
          /\ j.what = job[r].what /\ j.copy = NewRun
      BY JobFields DEF Jobs
    <3>2. Work(r, j)
      BY <2>6
    <3>. HIDE DEF j
    <3>3. Rest(r) /\ job'[r] = j /\ pc'[r] = "resolve"
      BY <2>1, <2>6, <3>2, OneRest DEF history
    <3>. QED BY <2>1, <2>2, <2>6, <3>1, <3>3 DEF Decides
  <2>. HIDE DEF copy
  <2>. QED BY <2>1, <2>3, <2>4, <2>5, <2>6 DEF Loaded
<1>. QED BY <1>1, <1>2

LEMMA RowDeed ==
  ASSUME Sound, NEW r \in Requests,
         Reserve(r) \/ Refuse(r) \/ Fail(r) \/ Complete(r) \/ ResolveWorkflow(r) \/ ResumeRaises(r)
  PROVE  Moves(r) \/ Leaves(r)
<1>1. CASE Reserve(r)
  BY <1>1, MoveRest DEF Reserve, Moves, history
<1>2. CASE Refuse(r)
  BY <1>2, EndRest DEF Refuse, Leaves, InFlight, history, stored
<1>3. CASE Fail(r)
  BY <1>3, EndRest DEF Fail, Leaves, InFlight, history
<1>4. CASE Complete(r)
  BY <1>4, MoveRest DEF Complete, Moves, history
<1>5. CASE ResolveWorkflow(r)
  BY <1>5, MoveRest DEF ResolveWorkflow, Moves, history
<1>6. CASE ResumeRaises(r)
  BY <1>6, MoveRest DEF ResumeRaises, Moves, history, stored
<1>. QED BY <1>1, <1>2, <1>3, <1>4, <1>5, <1>6

LEMMA WorkDeed ==
  ASSUME Sound, NEW r \in Requests, StartRun(r) \/ ResumeInterrupt(r)
  PROVE  Works(r)
<1>1. ASSUME NEW x \in Optional, NEW copy \in Runs, Pass(r, x, copy),
             applied' = applied \/ applied' = [applied EXCEPT ![r] = Key(r)]
      PROVE  /\ Rest(r) \/ outcome' # outcome
             /\ pc'[r] = "save" /\ passes' = passes + 1 /\ passes < MaxPasses
             /\ job'[r].what = job[r].what /\ job'[r].on = job[r].on /\ job'[r].mine = job[r].mine
             /\ job'[r].copy.waiting <=> job'[r].copy.open # None
             /\ job'[r].copy.open \in {None, passes'}
             /\ job'[r].copy.answers = copy.answers
             /\ job'[r].run = IF x = None THEN passes' ELSE x
             /\ log' = [log EXCEPT ![job'[r].run] = @ \cup {passes'}]
  <2>. DEFINE n == passes + 1
              run == IF x = None THEN n ELSE x
  <2>1. /\ passes' = n /\ passes < MaxPasses /\ Goto(r, "save")
        /\ log' = [log EXCEPT ![run] = @ \cup {n}]
    BY <1>1 DEF Pass
  <2>2. PICK waits \in BOOLEAN :
          Work(r, [job[r] EXCEPT !.run = run,
                                 !.copy = [copy EXCEPT !.waiting = waits,
                                                       !.open = IF waits THEN n ELSE None]])
    BY <1>1 DEF Pass
  <2>. DEFINE new == [copy EXCEPT !.waiting = waits, !.open = IF waits THEN n ELSE None]
              j   == [job[r] EXCEPT !.run = run, !.copy = new]
  <2>3. /\ new.waiting = waits /\ new.open = IF waits THEN n ELSE None
        /\ new.answers = copy.answers
    BY DEF Runs
  <2>4. n # None
    BY SharedSound, ChatAssumption DEF Shared
  <2>. HIDE DEF new, run
  <2>5. /\ j.mine = job[r].mine /\ j.run = run /\ j.on = job[r].on
        /\ j.what = job[r].what /\ j.copy = new
    BY JobFields DEF Jobs
  <2>6. Work(r, j)
    BY <2>2 DEF new
  <2>. HIDE DEF j
  <2>7. job'[r] = j /\ pc'[r] = "save"
        /\ \A q \in Requests \ {r} : job'[q] = job[q] /\ pc'[q] = pc[q]
    BY <2>1, <2>6, JobFields DEF Work, Goto
  <2>8. \A q \in Requests \ {r} : applied'[q] = applied[q]
    BY <1>1, SharedSound DEF Shared
  <2>9. run = IF x = None THEN n ELSE x
    BY DEF run
  <2>10. Rest(r) \/ outcome' # outcome
    BY <2>7, <2>8 DEF Rest
  <2>11. job'[r].run = run /\ job'[r].copy = new /\ passes' = n
    BY <2>1, <2>5, <2>7
  <2>12. log' = [log EXCEPT ![job'[r].run] = @ \cup {passes'}]
    BY <2>1, <2>11
  <2>13. job'[r].copy.waiting <=> job'[r].copy.open # None
    BY <2>3, <2>4, <2>11
  <2>14. job'[r].copy.open \in {None, passes'} /\ job'[r].copy.answers = copy.answers
    BY <2>3, <2>11
  <2>15. job'[r].what = job[r].what /\ job'[r].on = job[r].on /\ job'[r].mine = job[r].mine
    BY <2>5, <2>7
  <2>. QED BY <2>1, <2>7, <2>9, <2>10, <2>11, <2>12, <2>13, <2>14, <2>15
<1>2. CASE StartRun(r)
  <2>1. Pass(r, None, NewRun) /\ UNCHANGED <<stored, outcome, crashes, history>> /\ pc[r] = "start"
    BY <1>2 DEF StartRun
  <2>. QED BY <1>1, <2>1, NoJobFields DEF Works, history, NewRun
<1>3. CASE ResumeInterrupt(r)
  <2>. DEFINE copy == [job[r].copy EXCEPT !.answers = @ \cup {r}]
  <2>1. copy \in Runs /\ job[r].run \in Optional /\ copy.answers = job[r].copy.answers \cup {r}
    BY JobFields DEF Runs, Jobs
  <2>2. /\ Pass(r, job[r].run, copy) /\ UNCHANGED <<stored, outcome, crashes, overlapped, shown>>
        /\ pc[r] = "answer" /\ applied' = [applied EXCEPT ![r] = Key(r)]
    BY <1>3 DEF ResumeInterrupt
  <2>3. job[r].run # None
    BY <2>2, JobFields, SharedSound DEF Refers, Shared
  <2>4. applied'[r] = Key(r)
    BY <2>2, SharedSound DEF Shared
  <2>. HIDE DEF copy
  <2>. QED BY <1>1, <2>1, <2>2, <2>3, <2>4 DEF Works
<1>. QED BY <1>2, <1>3

LEMMA AfterDeed ==
  ASSUME Sound, NEW r \in Requests,
         SaveRun(r) \/ PointAtRun(r) \/ ListEvents(r) \/ Show(r) \/ SaveCursor(r) \/ Abandon(r)
  PROVE  Saves(r) \/ Points(r) \/ Lists(r) \/ Shows(r) \/ Leaves(r)
<1>1. CASE SaveRun(r)
  BY <1>1, MoveRest DEF SaveRun, Saves, history
<1>2. CASE PointAtRun(r)
  <2>. DEFINE meta == [run |-> job[r].run, cursor |-> None]
              j == [job[r] EXCEPT !.mine = meta]
  <2>1. j.mine = meta /\ j.run = job[r].run /\ j.on = job[r].on /\ j.what = job[r].what
    BY JobFields DEF Jobs
  <2>2. /\ Work(r, j) /\ Goto(r, "list") /\ pc[r] = "point" /\ thread' = meta
        /\ UNCHANGED <<rows, keys, log, passes, outcome, crashes, history>>
    BY <1>2 DEF PointAtRun, SaveThread
  <2>. HIDE DEF j
  <2>3. Rest(r) /\ job'[r] = j /\ pc'[r] = "list"
    BY <2>2, OneRest DEF history
  <2>. QED BY <2>1, <2>2, <2>3 DEF Points, SameTask
<1>3. CASE ListEvents(r)
  <2>. DEFINE list == EventsAfter(job[r].run, job[r].mine.cursor)
              j == [job[r] EXCEPT !.events = list]
  <2>1. /\ Work(r, j) /\ Goto(r, "show") /\ pc[r] = "list"
        /\ UNCHANGED <<stored, log, passes, outcome, crashes, history>>
    BY <1>3 DEF ListEvents
  <2>. HIDE DEF list
  <2>2. /\ j.mine = job[r].mine /\ j.run = job[r].run /\ j.on = job[r].on
        /\ j.what = job[r].what /\ j.events = list
    BY JobFields DEF Jobs
  <2>. HIDE DEF j
  <2>3. Rest(r) /\ job'[r] = j /\ pc'[r] = "show"
    BY <2>1, OneRest DEF history
  <2>. QED BY <2>1, <2>2, <2>3 DEF Lists, SameTask, list
<1>4. CASE Show(r)
  <2>1. PICK e \in job[r].events :
          /\ \A d \in job[r].events : e <= d
          /\ shown' = [shown EXCEPT ![e] = IF @ = 0 THEN 1 ELSE 2]
          /\ Work(r, [job[r] EXCEPT !.events = @ \ {e}, !.mine.cursor = e])
    BY <1>4 DEF Show, Seen
  <2>. DEFINE j == [job[r] EXCEPT !.events = @ \ {e}, !.mine.cursor = e]
  <2>2. /\ j.mine.run = job[r].mine.run /\ j.mine.cursor = e /\ j.events = job[r].events \ {e}
        /\ j.run = job[r].run /\ j.on = job[r].on /\ j.what = job[r].what
    BY JobFields DEF Jobs, Threads
  <2>3. /\ UNCHANGED <<stored, log, passes, pc, outcome, crashes, overlapped, applied>>
        /\ pc[r] = "show"
    BY <1>4 DEF Show
  <2>4. Work(r, j)
    BY <2>1
  <2>. HIDE DEF j
  <2>5. job'[r] = j /\ Rest(r)
    BY <2>3, <2>4, JobFields DEF Work, Rest
  <2>. QED BY <2>1, <2>2, <2>3, <2>5 DEF Shows, SameTask
<1>5. CASE SaveCursor(r)
  BY <1>5, EndRest DEF SaveCursor, Leaves, InFlight, history
<1>6. CASE Abandon(r)
  BY <1>6, EndRest DEF Abandon, Leaves, InFlight, history, stored
<1>. QED BY <1>1, <1>2, <1>3, <1>4, <1>5, <1>6

\* Every step is one of these.
LEMMA Deeds ==
  ASSUME Sound, [Next]_vars
  PROVE  UNCHANGED vars \/ Crashes \/ \E r \in Requests : Deed(r)
<1>1. CASE Crash
  <2>1. \A r \in Requests : job'[r] = NoJob
    BY <1>1 DEF Crash
  <2>. QED BY <1>1, <2>1 DEF Crash, Crashes
<1>2. ASSUME NEW r \in Requests, Handle(r) \/ Abandon(r)
      PROVE  Deed(r)
  BY <1>2, ComesDeed, LoadDeed, RowDeed, WorkDeed, AfterDeed DEF Handle, Deed
<1>. QED BY <1>1, <1>2 DEF Next

-----------------------------------------------------------------------------
(* What a completed row stands for.                                        *)

\* Two requests that are in flight together have overlapped.
Overlaps ==
  \A q \in Requests : \A r \in Requests :
    q # r /\ InFlight(q) /\ InFlight(r) => q \in overlapped /\ r \in overlapped

\* The answers that a run is stored with.
Answered(x) == IF x \in DOMAIN rows THEN rows[x].answers ELSE {}

HasCopy(r) == pc[r] \in {"interrupts", "reserve", "answer", "save"}

\* The copy of a request has the answers of the stored run, and its own; only those of
\* requests that overlapped may differ.
CopiesCurrent ==
  \A r \in Requests : HasCopy(r) =>
    /\ Answered(job[r].run) \subseteq job[r].copy.answers \cup overlapped
    /\ job[r].copy.answers \subseteq Answered(job[r].run) \cup overlapped \cup {r}

\* Runs are numbered by the passes that started them.
Numbered ==
  /\ \A x \in DOMAIN rows : x <= passes
  /\ \A r \in Requests : pc[r] = "save" => job[r].run <= passes

\* A request has applied nothing before it answers; a click that has answered is on its
\* way into the store, or there.
FirstAnswer ==
  \A r \in Requests :
    /\ pc[r] \in {"off", "load", "interrupts", "reserve", "resolve", "start", "answer", "fail"}
         => applied[r] = NotYet
    /\ pc[r] \in {"save", "complete"} /\ IsAction(r) => applied[r] = Key(r)
    /\ pc[r] = "save" /\ IsAction(r) => r \in job[r].copy.answers
    /\ pc[r] = "complete" => r \in overlapped \/ r \in Answered(job[r].run)
    /\ pc[r] \in {"resolve", "start"} => ~IsAction(r)

\* What is completed was applied, and is stored or was overtaken.
Accounted(k) ==
  \E r \in Requests :
    /\ applied[r] = k
    /\ r \in overlapped \/ \E x \in DOMAIN rows : r \in rows[x].answers

Storing == Overlaps /\ CopiesCurrent /\ Numbered /\ FirstAnswer /\ CompletedIsStored

LEMMA InitStoring == Init => Storing
  BY DEF Init, Storing, Overlaps, CopiesCurrent, Numbered, FirstAnswer, CompletedIsStored, HasCopy,
    InFlight, NoJob, IsAction

\* What a request that is at a step has.
LEMMA Facts ==
  ASSUME Sound
  PROVE  /\ \A r \in Requests : Refers(r) /\ pc[r] \in Steps /\ job[r] \in Jobs /\ job[r].copy \in Runs
         /\ \A x \in DOMAIN rows : x \in Passes /\ rows[x] \in Runs
         /\ passes \in Optional /\ passes \in Nat /\ MaxPasses \in Nat
         /\ keys \in [Keys -> {"none", "IN_PROGRESS", "COMPLETED", "FAILED"}]
         /\ thread \in Threads
  BY JobFields, SharedSound, ChatAssumption DEF Shared

LEMMA OverlapsKept ==
  ASSUME Overlaps, NEW r \in Requests, Deed(r)
  PROVE  Overlaps' /\ overlapped \subseteq overlapped'
<1>1. ASSUME InFlight(r), overlapped' = overlapped, Rest(r)
      PROVE  Overlaps'
  BY <1>1 DEF Overlaps, Rest, InFlight
<1>2. CASE Comes(r)
  BY <1>2 DEF Comes, Overlaps, Rest, InFlight
<1>3. CASE ~Comes(r)
  BY <1>1, <1>3 DEF Deed, LoadsRow, Decides, Moves, Works, Saves, Points, Lists, Shows, Leaves,
    InFlight, history
<1>. QED BY <1>2, <1>3 DEF Comes

\* What is accounted for stays so, when a store is not rewritten and nobody changes
\* what it applied.
LEMMA AccountedKept ==
  ASSUME NEW k, Accounted(k), overlapped \subseteq overlapped', UNCHANGED rows,
         \A q \in Requests : applied[q] = k => applied'[q] = k
  PROVE  Accounted(k)'
  BY DEF Accounted

LEMMA ComesStoring ==
  ASSUME Sound, Storing, NEW r \in Requests, Comes(r)
  PROVE  Storing'
<1>0. Comes(r) /\ CopiesCurrent /\ Numbered /\ FirstAnswer /\ CompletedIsStored
      /\ overlapped \subseteq overlapped' /\ Overlaps'
  BY OverlapsKept DEF Storing, Deed
<1>1. CopiesCurrent'
  BY <1>0, Facts DEF Comes, Rest, stored, CopiesCurrent, HasCopy, Answered
<1>2. Numbered'
  BY <1>0, Facts DEF Comes, Rest, stored, Numbered
<1>3. FirstAnswer'
  BY <1>0, Facts DEF Comes, Rest, stored, FirstAnswer, IsAction, Key, Answered
<1>4. CompletedIsStored'
  BY <1>0, Facts DEF Comes, Rest, stored, CompletedIsStored, Accounted
<1>. QED BY <1>0, <1>1, <1>2, <1>3, <1>4 DEF Storing

LEMMA LoadsRowStoring ==
  ASSUME Sound, Storing, NEW r \in Requests, LoadsRow(r)
  PROVE  Storing'
<1>0. LoadsRow(r) /\ CopiesCurrent /\ Numbered /\ FirstAnswer /\ CompletedIsStored
      /\ overlapped \subseteq overlapped' /\ Overlaps'
  BY OverlapsKept DEF Storing, Deed
<1>1. CopiesCurrent'
  <2>1. ASSUME NEW q \in Requests, HasCopy(q)', q # r
        PROVE  /\ Answered(job[q].run)' \subseteq (job[q].copy.answers \cup overlapped)'
               /\ (job[q].copy.answers)' \subseteq (Answered(job[q].run) \cup overlapped \cup {q})'
    BY <1>0, <2>1 DEF LoadsRow, Rest, stored, history, CopiesCurrent, HasCopy, Answered
  <2>2. job[r].run \in DOMAIN rows /\ job'[r].copy = rows[job[r].run] /\ job'[r].run = job[r].run
    BY <1>0, Facts DEF LoadsRow, Refers, SameTask
  <2>3. Answered(job[r].run)' = job'[r].copy.answers
    BY <1>0, <2>2 DEF LoadsRow, stored, Answered
  <2>. QED BY <2>1, <2>3 DEF CopiesCurrent
<1>2. Numbered'
  BY <1>0, Facts DEF LoadsRow, Rest, SameTask, stored, history, Numbered
<1>3. FirstAnswer'
  BY <1>0, Facts DEF LoadsRow, Rest, SameTask, stored, history, FirstAnswer, IsAction, Key, Answered
<1>4. CompletedIsStored'
  BY <1>0, Facts DEF LoadsRow, Rest, SameTask, stored, history, CompletedIsStored, Accounted
<1>. QED BY <1>0, <1>1, <1>2, <1>3, <1>4 DEF Storing

LEMMA DecidesStoring ==
  ASSUME Sound, Storing, NEW r \in Requests, Decides(r)
  PROVE  Storing'
<1>0. Decides(r) /\ CopiesCurrent /\ Numbered /\ FirstAnswer /\ CompletedIsStored
      /\ overlapped \subseteq overlapped' /\ Overlaps'
  BY OverlapsKept DEF Storing, Deed
<1>1. CopiesCurrent'
  BY <1>0, Facts DEF Decides, Rest, SameTask, stored, history, Runs, NewRun, CopiesCurrent,
      HasCopy, Answered
<1>2. Numbered'
  BY <1>0, Facts DEF Decides, Rest, SameTask, stored, history, Runs, NewRun, Numbered
<1>3. FirstAnswer'
  BY <1>0, Facts DEF Decides, Rest, SameTask, stored, history, Runs, NewRun, FirstAnswer,
      IsAction, Key, Answered
<1>4. CompletedIsStored'
  BY <1>0, Facts DEF Decides, Rest, SameTask, stored, history, Runs, NewRun, CompletedIsStored,
      Accounted
<1>. QED BY <1>0, <1>1, <1>2, <1>3, <1>4 DEF Storing

LEMMA MovesStoring ==
  ASSUME Sound, Storing, NEW r \in Requests, Moves(r)
  PROVE  Storing'
<1>0. Moves(r) /\ CopiesCurrent /\ Numbered /\ FirstAnswer /\ CompletedIsStored
      /\ overlapped \subseteq overlapped' /\ Overlaps'
  BY OverlapsKept DEF Storing, Deed
<1>1. CopiesCurrent'
  BY <1>0, Facts DEF Moves, Rest, history, CopiesCurrent, HasCopy, Answered
<1>2. Numbered'
  BY <1>0, Facts DEF Moves, Rest, history, Numbered
<1>3. FirstAnswer'
  BY <1>0, Facts DEF Moves, Rest, history, FirstAnswer, IsAction, Key, Answered
<1>4. CompletedIsStored'
  <2>1. ASSUME NEW k \in Keys, keys'[k] = "COMPLETED" PROVE Accounted(k)
    <3>1. CASE keys[k] = "COMPLETED"
      BY <1>0, <3>1 DEF CompletedIsStored, Accounted
    <3>2. CASE keys[k] # "COMPLETED"
      <4>1. pc[r] = "complete" /\ k = Key(r)
        BY <1>0, <2>1, <3>2, Facts DEF Moves
      <4>2. applied[r] = k /\ (r \in overlapped \/ r \in Answered(job[r].run))
        BY <1>0, <4>1, Facts DEF FirstAnswer, Refers
      <4>. QED BY <4>2 DEF Accounted, Answered
    <3>. QED BY <3>1, <3>2
  <2>2. \A k \in Keys : keys'[k] = "COMPLETED" => Accounted(k)'
    BY <1>0, <2>1, AccountedKept DEF Moves, history
  <2>. QED BY <2>2 DEF CompletedIsStored, Accounted
<1>. QED BY <1>0, <1>1, <1>2, <1>3, <1>4 DEF Storing

LEMMA WorksStoring ==
  ASSUME Sound, Storing, NEW r \in Requests, Works(r)
  PROVE  Storing'
<1>0. Works(r) /\ CopiesCurrent /\ Numbered /\ FirstAnswer /\ CompletedIsStored
      /\ overlapped \subseteq overlapped' /\ Overlaps'
  BY OverlapsKept DEF Storing, Deed
<1>1. CopiesCurrent'
  <2>1. ASSUME NEW q \in Requests, HasCopy(q)', q # r
        PROVE  /\ Answered(job[q].run)' \subseteq (job[q].copy.answers \cup overlapped)'
               /\ (job[q].copy.answers)' \subseteq (Answered(job[q].run) \cup overlapped \cup {q})'
    BY <1>0, <2>1 DEF Works, Rest, stored, CopiesCurrent, HasCopy, Answered
  <2>2. CASE pc[r] = "start"
    <3>1. job'[r].run \notin DOMAIN rows /\ job'[r].copy.answers = {}
      BY <1>0, <2>2, Facts DEF Works, Numbered
    <3>. QED BY <1>0, <2>1, <3>1 DEF Works, stored, CopiesCurrent, Answered
  <2>3. CASE pc[r] = "answer"
    <3>1. /\ Answered(job[r].run) \subseteq job[r].copy.answers \cup overlapped
          /\ job[r].copy.answers \subseteq Answered(job[r].run) \cup overlapped \cup {r}
      BY <1>0, <2>3 DEF CopiesCurrent, HasCopy
    <3>2. job'[r].run = job[r].run /\ job'[r].copy.answers = job[r].copy.answers \cup {r}
      BY <1>0, <2>3 DEF Works
    <3>. QED BY <1>0, <2>1, <3>1, <3>2 DEF Works, stored, CopiesCurrent, Answered
  <2>. QED BY <1>0, <2>2, <2>3 DEF Works
<1>2. Numbered'
  <2>1. job'[r].run <= passes'
    BY <1>0, Facts DEF Works, Numbered, Refers
  <2>. QED BY <1>0, <2>1, Facts DEF Works, Rest, stored, Numbered, Refers
<1>3. FirstAnswer'
  BY <1>0, Facts DEF Works, Rest, stored, FirstAnswer, IsAction, Key, Answered
<1>4. CompletedIsStored'
  <2>1. \A q \in Requests : \A k \in Keys : applied[q] = k => applied'[q] = k
    BY <1>0 DEF Works, Rest, FirstAnswer
  <2>2. \A k \in Keys : keys'[k] = "COMPLETED" => Accounted(k)'
    BY <1>0, <2>1, AccountedKept DEF Works, stored, CompletedIsStored, Accounted
  <2>. QED BY <2>2 DEF CompletedIsStored, Accounted
<1>. QED BY <1>0, <1>1, <1>2, <1>3, <1>4 DEF Storing

LEMMA SavesStoring ==
  ASSUME Sound, Storing, NEW r \in Requests, Saves(r)
  PROVE  Storing'
<1>0. Saves(r) /\ CopiesCurrent /\ Numbered /\ FirstAnswer /\ CompletedIsStored
      /\ overlapped \subseteq overlapped' /\ Overlaps'
  BY OverlapsKept DEF Storing, Deed
<1>. DEFINE x == job[r].run
<1>1. /\ UNCHANGED <<overlapped, applied, job, keys>> /\ pc[r] = "save"
      /\ \A q \in Requests \ {r} : pc'[q] = pc[q]
      /\ pc'[r] \in {"complete", "point", "list"} /\ (pc'[r] = "complete" => IsAction(r))
  BY <1>0 DEF Saves, Rest, history, AfterSave
<1>2. \A y : Answered(y)' = IF y = x THEN job[r].copy.answers ELSE Answered(y)
  BY <1>0 DEF Saves, Saved, Answered
<1>3. /\ Answered(x) \subseteq job[r].copy.answers \cup overlapped
      /\ job[r].copy.answers \subseteq Answered(x) \cup overlapped \cup {r}
  BY <1>0, <1>1 DEF CopiesCurrent, HasCopy
\* Whoever else has a copy has overlapped with r.
<1>4. \A q \in Requests \ {r} : HasCopy(q) => r \in overlapped
  BY <1>1 DEF Storing, Overlaps, HasCopy, InFlight
<1>5. CopiesCurrent'
  <2>. SUFFICES ASSUME NEW q \in Requests, HasCopy(q)'
                PROVE  /\ Answered(job[q].run)' \subseteq job[q].copy.answers \cup overlapped
                       /\ job[q].copy.answers \subseteq Answered(job[q].run)' \cup overlapped \cup {q}
    BY <1>1 DEF CopiesCurrent
  <2>1. q # r /\ HasCopy(q) /\ r \in overlapped
    BY <1>1, <1>4 DEF HasCopy
  <2>2. /\ Answered(job[q].run) \subseteq job[q].copy.answers \cup overlapped
        /\ job[q].copy.answers \subseteq Answered(job[q].run) \cup overlapped \cup {q}
    BY <1>0, <2>1 DEF CopiesCurrent
  <2>3. CASE job[q].run = x
    <3>1. Answered(job[q].run)' = job[r].copy.answers
      BY <1>1, <1>2, <2>3 DEF Answered
    <3>2. Answered(job[q].run) = Answered(x)
      BY <2>3
    <3>. HIDE DEF x
    <3>. QED BY <1>3, <2>1, <2>2, <3>1, <3>2
  <2>4. CASE job[q].run # x
    BY <1>1, <1>2, <2>2, <2>4 DEF Answered
  <2>. QED BY <2>3, <2>4
<1>6. Numbered'
  BY <1>0, Facts DEF Saves, Saved, Rest, Numbered, AfterSave
<1>7. FirstAnswer'
  <2>1. r \in overlapped \/ r \in Answered(x)' \/ ~IsAction(r)
    BY <1>0, <1>1, <1>2 DEF FirstAnswer
  <2>2. \A q \in Requests \ {r} : pc[q] = "complete" => q \in overlapped
    BY <1>1 DEF Storing, Overlaps, InFlight
  <2>3. \A q \in Requests : IsAction(q)' = IsAction(q) /\ Key(q)' = Key(q)
    BY <1>1 DEF IsAction, Key
  <2>. HIDE DEF x
  <2>4. ASSUME NEW q \in Requests \ {r}
        PROVE  /\ pc'[q] \in {"off", "load", "interrupts", "reserve", "resolve", "start", "answer", "fail"}
                    => applied'[q] = NotYet
               /\ pc'[q] \in {"save", "complete"} /\ IsAction(q)' => applied'[q] = Key(q)'
               /\ pc'[q] = "save" /\ IsAction(q)' => q \in job'[q].copy.answers
               /\ pc'[q] = "complete" => q \in overlapped' \/ q \in Answered(job[q].run)'
               /\ pc'[q] \in {"resolve", "start"} => ~IsAction(q)'
    BY <1>0, <1>1, <2>2, <2>3 DEF FirstAnswer
  <2>5. /\ pc'[r] \in {"save", "complete"} /\ IsAction(r)' => applied'[r] = Key(r)'
        /\ pc'[r] = "complete" => r \in overlapped' \/ r \in Answered(job[r].run)'
    BY <1>0, <1>1, <2>1, <2>3 DEF FirstAnswer, x
  <2>. QED BY <1>1, <2>4, <2>5 DEF FirstAnswer
<1>8. CompletedIsStored'
  <2>1. ASSUME NEW k \in Keys, Accounted(k) PROVE Accounted(k)'
    <3>1. PICK q \in Requests : applied[q] = k /\ (q \in overlapped \/ \E y \in DOMAIN rows : q \in rows[y].answers)
      BY <2>1 DEF Accounted
    <3>2. q \in overlapped \/ \E y \in DOMAIN rows' : q \in rows'[y].answers
      <4>1. CASE q \notin overlapped
        <5>1. PICK y \in DOMAIN rows : q \in rows[y].answers
          BY <3>1, <4>1
        <5>2. q \in Answered(y)'
          BY <1>2, <1>3, <4>1, <5>1 DEF Answered
        <5>. QED BY <5>2 DEF Answered
      <4>. QED BY <4>1
    <3>. QED BY <1>1, <3>1, <3>2 DEF Accounted
  <2>2. \A k \in Keys : keys'[k] = "COMPLETED" => Accounted(k)'
    BY <1>0, <1>1, <2>1 DEF CompletedIsStored, Accounted
  <2>. QED BY <2>2 DEF CompletedIsStored, Accounted
<1>. QED BY <1>0, <1>5, <1>6, <1>7, <1>8 DEF Storing

LEMMA PointsStoring ==
  ASSUME Sound, Storing, NEW r \in Requests, Points(r)
  PROVE  Storing'
<1>0. Points(r) /\ CopiesCurrent /\ Numbered /\ FirstAnswer /\ CompletedIsStored
      /\ overlapped \subseteq overlapped' /\ Overlaps'
  BY OverlapsKept DEF Storing, Deed
<1>1. CopiesCurrent'
  BY <1>0, Facts DEF Points, Rest, SameTask, history, CopiesCurrent, HasCopy, Answered
<1>2. Numbered'
  BY <1>0, Facts DEF Points, Rest, SameTask, history, Numbered
<1>3. FirstAnswer'
  BY <1>0, Facts DEF Points, Rest, SameTask, history, FirstAnswer, IsAction, Key, Answered
<1>4. CompletedIsStored'
  BY <1>0, Facts DEF Points, Rest, SameTask, history, CompletedIsStored, Accounted
<1>. QED BY <1>0, <1>1, <1>2, <1>3, <1>4 DEF Storing

LEMMA ListsStoring ==
  ASSUME Sound, Storing, NEW r \in Requests, Lists(r)
  PROVE  Storing'
<1>0. Lists(r) /\ CopiesCurrent /\ Numbered /\ FirstAnswer /\ CompletedIsStored
      /\ overlapped \subseteq overlapped' /\ Overlaps'
  BY OverlapsKept DEF Storing, Deed
<1>1. CopiesCurrent'
  BY <1>0, Facts DEF Lists, Rest, SameTask, stored, history, CopiesCurrent, HasCopy, Answered
<1>2. Numbered'
  BY <1>0, Facts DEF Lists, Rest, SameTask, stored, history, Numbered
<1>3. FirstAnswer'
  BY <1>0, Facts DEF Lists, Rest, SameTask, stored, history, FirstAnswer, IsAction, Key, Answered
<1>4. CompletedIsStored'
  BY <1>0, Facts DEF Lists, Rest, SameTask, stored, history, CompletedIsStored, Accounted
<1>. QED BY <1>0, <1>1, <1>2, <1>3, <1>4 DEF Storing

LEMMA ShowsStoring ==
  ASSUME Sound, Storing, NEW r \in Requests, Shows(r)
  PROVE  Storing'
<1>0. Shows(r) /\ CopiesCurrent /\ Numbered /\ FirstAnswer /\ CompletedIsStored
      /\ overlapped \subseteq overlapped' /\ Overlaps'
  BY OverlapsKept DEF Storing, Deed
<1>1. CopiesCurrent'
  BY <1>0, Facts DEF Shows, Rest, SameTask, stored, history, CopiesCurrent, HasCopy, Answered
<1>2. Numbered'
  BY <1>0, Facts DEF Shows, Rest, SameTask, stored, history, Numbered
<1>3. FirstAnswer'
  BY <1>0, Facts DEF Shows, Rest, SameTask, stored, history, FirstAnswer, IsAction, Key, Answered
<1>4. CompletedIsStored'
  BY <1>0, Facts DEF Shows, Rest, SameTask, stored, history, CompletedIsStored, Accounted
<1>. QED BY <1>0, <1>1, <1>2, <1>3, <1>4 DEF Storing

LEMMA LeavesStoring ==
  ASSUME Sound, Storing, NEW r \in Requests, Leaves(r)
  PROVE  Storing'
<1>0. Leaves(r) /\ CopiesCurrent /\ Numbered /\ FirstAnswer /\ CompletedIsStored
      /\ overlapped \subseteq overlapped' /\ Overlaps'
  BY OverlapsKept DEF Storing, Deed
<1>1. CopiesCurrent'
  BY <1>0, Facts DEF Leaves, Rest, InFlight, history, CopiesCurrent, HasCopy, Answered
<1>2. Numbered'
  BY <1>0, Facts DEF Leaves, Rest, InFlight, history, Numbered
<1>3. FirstAnswer'
  BY <1>0, Facts DEF Leaves, Rest, InFlight, history, FirstAnswer, IsAction, Key, Answered
<1>4. CompletedIsStored'
  BY <1>0, Facts DEF Leaves, Rest, InFlight, history, CompletedIsStored, Accounted
<1>. QED BY <1>0, <1>1, <1>2, <1>3, <1>4 DEF Storing

LEMMA CrashesStoring ==
  ASSUME Sound, Storing, Crashes
  PROVE  Storing'
<1>0. /\ \A r \in Requests : pc'[r] \in {"off", "done"} /\ (pc'[r] = "off" => pc[r] = "off")
      /\ UNCHANGED <<rows, keys, passes, overlapped, applied>>
  BY DEF Crashes, InFlight, stored, history
<1>1. Overlaps' /\ CopiesCurrent' /\ Numbered' /\ FirstAnswer'
  BY <1>0 DEF Storing, Overlaps, InFlight, CopiesCurrent, HasCopy, Numbered, FirstAnswer
<1>2. CompletedIsStored'
  BY <1>0 DEF Storing, CompletedIsStored
<1>. QED BY <1>1, <1>2 DEF Storing

\* Every step keeps it.
LEMMA NextStoring == Sound /\ Storing /\ [Next]_vars => Storing'
<1>. SUFFICES ASSUME Sound, Storing, [Next]_vars PROVE Storing'
  OBVIOUS
<1>1. CASE UNCHANGED vars
  <2>1. UNCHANGED <<rows, keys, passes, pc, job, overlapped, applied>>
    BY <1>1 DEF vars, stored, history
  <2>. QED BY <2>1 DEF Storing, Overlaps, InFlight, CopiesCurrent, HasCopy, Answered, Numbered,
      FirstAnswer,
         IsAction, Key, CompletedIsStored
<1>2. ASSUME NEW r \in Requests, Deed(r) PROVE Storing'
  BY <1>2, ComesStoring, LoadsRowStoring, DecidesStoring, MovesStoring, WorksStoring, SavesStoring,
    PointsStoring, ListsStoring, ShowsStoring, LeavesStoring DEF Deed
<1>. QED BY <1>1, <1>2, CrashesStoring, Deeds

-----------------------------------------------------------------------------
(* Which run is answered next.                                             *)

\* A request that has an outcome is done.
Ended == \A r \in Requests : outcome[r] # "none" => pc[r] = "done"

\* A request that answers has an interrupt; one that starts a run has applied nothing.
Fresh ==
  \A r \in Requests :
    /\ pc[r] = "answer" => job[r].on # None
    /\ pc[r] = "point" \/ (pc[r] = "save" /\ job[r].on = None) => applied[r] = NotYet

\* A run waits when it has an open interrupt.
WaitsOpen ==
  /\ \A x \in DOMAIN rows : rows[x].waiting <=> rows[x].open # None
  /\ \A r \in Requests : pc[r] = "save" => (job[r].copy.waiting <=> job[r].copy.open # None)

Opens(x) == x \in DOMAIN rows /\ rows[x].open # None

NoneOpen == \A x \in Passes : ~Opens(x)

\* What a request that is alone in flight has read of the thread and of its run is still so.
Alone(r) ==
  InFlight(r) =>
    /\ pc[r] # "show" => job[r].mine = thread
    /\ job[r].mine.run = thread.run
    /\ pc[r] \in {"load", "interrupts"} /\ ~IsAction(r) =>
         job[r].run = thread.run /\ job[r].on = None
    /\ pc[r] = "interrupts" => job[r].copy = rows[job[r].run]
    /\ pc[r] \in {"reserve", "answer", "complete", "list", "show"} => job[r].run = thread.run
    /\ pc[r] = "save" /\ job[r].on # None => job[r].run = thread.run
    /\ pc[r] \in {"resolve", "start"} => NoneOpen /\ job[r].on = None
    /\ pc[r] = "save" /\ job[r].on = None => NoneOpen
    /\ pc[r] = "point" => \A x \in Passes : Opens(x) => x = job[r].run

Reached ==
  \A x \in Passes : Opens(x) =>
    \/ thread.run = x
    \/ \E r \in Requests : pc[r] = "point" /\ job[r].run = x

Single == OneByOne => Reached /\ \A r \in Requests : Alone(r)

Reaching == Ended /\ Fresh /\ WaitsOpen /\ Single

LEMMA InitReaching == Init => Reaching
  BY DEF Init, Reaching, Ended, Fresh, WaitsOpen, Single, Reached, Alone, Opens, InFlight

\* Requests that come one by one have come one by one.
LEMMA OneByOneBefore ==
  ASSUME Sound, Storing, Ended, NEW r \in Requests, Deed(r), OneByOne'
  PROVE  /\ OneByOne
         /\ overlapped = {} /\ \A q \in Requests \ {r} : ~InFlight(q)
<1>1. overlapped \subseteq overlapped' /\ overlapped' = {} /\ overlapped = {}
  BY OverlapsKept DEF Storing, OneByOne
<1>2. \A q \in Requests \ {r} : ~InFlight(q)
  <2>1. CASE Comes(r)
    BY <1>1, <2>1 DEF Comes
  <2>2. CASE ~Comes(r)
    BY <1>1, <2>2 DEF Storing, Overlaps, Deed, LoadsRow, Decides, Moves, Works, Saves, Points,
        Lists,
      Shows, Leaves, InFlight
  <2>. QED BY <2>1, <2>2
<1>3. Rest(r)
  BY DEF Deed, Comes, LoadsRow, Decides, Moves, Works, Saves, Points, Lists, Shows, Leaves
<1>4. BrokeOff(r) => outcome'[r] = outcome[r] /\ applied'[r] = applied[r]
  BY DEF BrokeOff, Ended, Deed, Comes, LoadsRow, Decides, Moves, Works, Saves, Points, Lists, Shows,
    Leaves, InFlight, history
<1>5. \A q \in Requests : BrokeOff(q) => BrokeOff(q)' /\ applied'[q] = applied[q]
  BY <1>3, <1>4 DEF Rest, BrokeOff
<1>. QED BY <1>1, <1>2, <1>5 DEF OneByOne

LEMMA ComesReaching ==
  ASSUME Sound, Storing, Reaching, NEW r \in Requests, Comes(r)
  PROVE  Reaching'
<1>0. Deed(r) /\ Ended /\ Fresh /\ WaitsOpen /\ FirstAnswer
  BY DEF Deed, Reaching, Storing
<1>1. Ended'
  BY <1>0, Facts DEF Comes, Rest, stored, Ended
<1>2. Fresh'
  BY <1>0, Facts DEF Comes, Rest, stored, Fresh, FirstAnswer, Refers, IsAction
<1>3. WaitsOpen'
  BY <1>0, Facts DEF Comes, Rest, stored, WaitsOpen
<1>4. ASSUME OneByOne' PROVE Reached' /\ \A q \in Requests : Alone(q)'
  <2>1. /\ OneByOne /\ Reached /\ Alone(r) /\ \A q \in Requests \ {r} : ~InFlight(q)
        /\ \A q \in Requests \ {r} : ~InFlight(q)'
    BY <1>0, <1>4, OneByOneBefore DEF Reaching, Single, InFlight, Comes, Rest, stored
  <2>2. Alone(r)'
    BY <1>0, <2>1, Facts DEF Comes, Rest, stored, Alone, Reached, NoneOpen, Opens, InFlight,
        IsAction, Refers, WaitsOpen, Fresh
  <2>3. Reached'
    BY <1>0, <1>4, <2>1, Facts DEF Comes, Rest, stored, Alone, Reached, NoneOpen, Opens, InFlight,
        IsAction, Refers, Fresh, OneByOne, BrokeOff
  <2>. QED BY <2>1, <2>2, <2>3 DEF Alone
<1>. QED BY <1>1, <1>2, <1>3, <1>4 DEF Reaching, Single

LEMMA LoadsRowReaching ==
  ASSUME Sound, Storing, Reaching, NEW r \in Requests, LoadsRow(r)
  PROVE  Reaching'
<1>0. Deed(r) /\ Ended /\ Fresh /\ WaitsOpen /\ FirstAnswer
  BY DEF Deed, Reaching, Storing
<1>1. Ended'
  BY <1>0, Facts DEF LoadsRow, Rest, SameTask, stored, history, Ended
<1>2. Fresh'
  BY <1>0, Facts DEF LoadsRow, Rest, SameTask, stored, history, Fresh, FirstAnswer, Refers, IsAction
<1>3. WaitsOpen'
  BY <1>0, Facts DEF LoadsRow, Rest, SameTask, stored, history, WaitsOpen
<1>4. ASSUME OneByOne' PROVE Reached' /\ \A q \in Requests : Alone(q)'
  <2>1. /\ OneByOne /\ Reached /\ Alone(r) /\ \A q \in Requests \ {r} : ~InFlight(q)
        /\ \A q \in Requests \ {r} : ~InFlight(q)'
    BY <1>0, <1>4, OneByOneBefore DEF Reaching, Single, InFlight, LoadsRow, Rest, SameTask,
        stored, history
  <2>2. Alone(r)'
    BY <1>0, <2>1, Facts DEF LoadsRow, Rest, SameTask, stored, history, Alone, Reached, NoneOpen,
        Opens, InFlight, IsAction, Refers, WaitsOpen, Fresh
  <2>3. Reached'
    BY <1>0, <1>4, <2>1, Facts DEF LoadsRow, Rest, SameTask, stored, history, Alone, Reached,
        NoneOpen, Opens, InFlight, IsAction, Refers, Fresh, OneByOne, BrokeOff
  <2>. QED BY <2>1, <2>2, <2>3 DEF Alone
<1>. QED BY <1>1, <1>2, <1>3, <1>4 DEF Reaching, Single

LEMMA DecidesReaching ==
  ASSUME Sound, Storing, Reaching, NEW r \in Requests, Decides(r)
  PROVE  Reaching'
<1>0. Deed(r) /\ Ended /\ Fresh /\ WaitsOpen /\ FirstAnswer
  BY DEF Deed, Reaching, Storing
<1>1. Ended'
  BY <1>0, Facts DEF Decides, Rest, SameTask, stored, history, Runs, NewRun, Ended
<1>2. Fresh'
  BY <1>0, Facts DEF Decides, Rest, SameTask, stored, history, Runs, NewRun, Fresh, FirstAnswer,
      Refers, IsAction
<1>3. WaitsOpen'
  BY <1>0, Facts DEF Decides, Rest, SameTask, stored, history, Runs, NewRun, WaitsOpen
<1>4. ASSUME OneByOne' PROVE Reached' /\ \A q \in Requests : Alone(q)'
  <2>1. /\ OneByOne /\ Reached /\ Alone(r) /\ \A q \in Requests \ {r} : ~InFlight(q)
        /\ \A q \in Requests \ {r} : ~InFlight(q)'
    BY <1>0, <1>4, OneByOneBefore DEF Reaching, Single, InFlight, Decides, Rest, SameTask, stored,
        history, Runs, NewRun
  <2>2. Alone(r)'
    BY <1>0, <2>1, Facts DEF Decides, Rest, SameTask, stored, history, Runs, NewRun, Alone,
        Reached, NoneOpen, Opens, InFlight, IsAction, Refers, WaitsOpen, Fresh
  <2>3. Reached'
    BY <1>0, <1>4, <2>1, Facts DEF Decides, Rest, SameTask, stored, history, Runs, NewRun, Alone,
        Reached, NoneOpen, Opens, InFlight, IsAction, Refers, Fresh, OneByOne, BrokeOff
  <2>. QED BY <2>1, <2>2, <2>3 DEF Alone
<1>. QED BY <1>1, <1>2, <1>3, <1>4 DEF Reaching, Single

LEMMA MovesReaching ==
  ASSUME Sound, Storing, Reaching, NEW r \in Requests, Moves(r)
  PROVE  Reaching'
<1>0. Deed(r) /\ Ended /\ Fresh /\ WaitsOpen /\ FirstAnswer
  BY DEF Deed, Reaching, Storing
<1>1. Ended'
  BY <1>0, Facts DEF Moves, Rest, history, Ended
<1>2. Fresh'
  BY <1>0, Facts DEF Moves, Rest, history, Fresh, FirstAnswer, Refers, IsAction
<1>3. WaitsOpen'
  BY <1>0, Facts DEF Moves, Rest, history, WaitsOpen
<1>4. ASSUME OneByOne' PROVE Reached' /\ \A q \in Requests : Alone(q)'
  <2>1. /\ OneByOne /\ Reached /\ Alone(r) /\ \A q \in Requests \ {r} : ~InFlight(q)
        /\ \A q \in Requests \ {r} : ~InFlight(q)'
    BY <1>0, <1>4, OneByOneBefore DEF Reaching, Single, InFlight, Moves, Rest, history
  <2>2. Alone(r)'
    BY <1>0, <2>1, Facts DEF Moves, Rest, history, Alone, Reached, NoneOpen, Opens, InFlight,
        IsAction, Refers, WaitsOpen, Fresh
  <2>3. Reached'
    BY <1>0, <1>4, <2>1, Facts DEF Moves, Rest, history, Alone, Reached, NoneOpen, Opens,
        InFlight, IsAction, Refers, Fresh, OneByOne, BrokeOff
  <2>. QED BY <2>1, <2>2, <2>3 DEF Alone
<1>. QED BY <1>1, <1>2, <1>3, <1>4 DEF Reaching, Single

LEMMA WorksReaching ==
  ASSUME Sound, Storing, Reaching, NEW r \in Requests, Works(r)
  PROVE  Reaching'
<1>0. Deed(r) /\ Ended /\ Fresh /\ WaitsOpen /\ FirstAnswer
  BY DEF Deed, Reaching, Storing
<1>1. Ended'
  BY <1>0, Facts DEF Works, Rest, stored, Ended
<1>2. Fresh'
  BY <1>0, Facts DEF Works, Rest, stored, Fresh, FirstAnswer, Refers, IsAction
<1>3. WaitsOpen'
  BY <1>0, Facts DEF Works, Rest, stored, WaitsOpen
<1>4. ASSUME OneByOne' PROVE Reached' /\ \A q \in Requests : Alone(q)'
  <2>1. /\ OneByOne /\ Reached /\ Alone(r) /\ \A q \in Requests \ {r} : ~InFlight(q)
        /\ \A q \in Requests \ {r} : ~InFlight(q)'
    BY <1>0, <1>4, OneByOneBefore DEF Reaching, Single, InFlight, Works, Rest, stored
  <2>2. Alone(r)'
    BY <1>0, <2>1, Facts DEF Works, Rest, stored, Alone, Reached, NoneOpen, Opens, InFlight,
        IsAction, Refers, WaitsOpen, Fresh
  <2>3. Reached'
    BY <1>0, <1>4, <2>1, Facts DEF Works, Rest, stored, Alone, Reached, NoneOpen, Opens, InFlight,
        IsAction, Refers, Fresh, OneByOne, BrokeOff
  <2>. QED BY <2>1, <2>2, <2>3 DEF Alone
<1>. QED BY <1>1, <1>2, <1>3, <1>4 DEF Reaching, Single

LEMMA SavesReaching ==
  ASSUME Sound, Storing, Reaching, NEW r \in Requests, Saves(r)
  PROVE  Reaching'
<1>0. Deed(r) /\ Ended /\ Fresh /\ WaitsOpen /\ FirstAnswer
  BY DEF Deed, Reaching, Storing
<1>1. Ended'
  BY <1>0, Facts DEF Saves, Saved, AfterSave, Rest, history, Ended
<1>2. Fresh'
  BY <1>0, Facts DEF Saves, Saved, AfterSave, Rest, history, Fresh, FirstAnswer, Refers, IsAction
<1>3. WaitsOpen'
  BY <1>0, Facts DEF Saves, Saved, AfterSave, Rest, history, WaitsOpen
<1>4. ASSUME OneByOne' PROVE Reached' /\ \A q \in Requests : Alone(q)'
  <2>1. /\ OneByOne /\ Reached /\ Alone(r) /\ \A q \in Requests \ {r} : ~InFlight(q)
        /\ \A q \in Requests \ {r} : ~InFlight(q)'
    BY <1>0, <1>4, OneByOneBefore DEF Reaching, Single, InFlight, Saves, Saved, AfterSave, Rest,
        history
  <2>2. Alone(r)'
    BY <1>0, <2>1, Facts DEF Saves, Saved, AfterSave, Rest, history, Alone, Reached, NoneOpen,
        Opens, InFlight, IsAction, Refers, WaitsOpen, Fresh
  <2>3. Reached'
    BY <1>0, <1>4, <2>1, Facts DEF Saves, Saved, AfterSave, Rest, history, Alone, Reached,
        NoneOpen, Opens, InFlight, IsAction, Refers, Fresh, OneByOne, BrokeOff
  <2>. QED BY <2>1, <2>2, <2>3 DEF Alone
<1>. QED BY <1>1, <1>2, <1>3, <1>4 DEF Reaching, Single

LEMMA PointsReaching ==
  ASSUME Sound, Storing, Reaching, NEW r \in Requests, Points(r)
  PROVE  Reaching'
<1>0. Deed(r) /\ Ended /\ Fresh /\ WaitsOpen /\ FirstAnswer
  BY DEF Deed, Reaching, Storing
<1>1. Ended'
  BY <1>0, Facts DEF Points, Rest, SameTask, history, Ended
<1>2. Fresh'
  BY <1>0, Facts DEF Points, Rest, SameTask, history, Fresh, FirstAnswer, Refers, IsAction
<1>3. WaitsOpen'
  BY <1>0, Facts DEF Points, Rest, SameTask, history, WaitsOpen
<1>4. ASSUME OneByOne' PROVE Reached' /\ \A q \in Requests : Alone(q)'
  <2>1. /\ OneByOne /\ Reached /\ Alone(r) /\ \A q \in Requests \ {r} : ~InFlight(q)
        /\ \A q \in Requests \ {r} : ~InFlight(q)'
    BY <1>0, <1>4, OneByOneBefore DEF Reaching, Single, InFlight, Points, Rest, SameTask, history
  <2>2. Alone(r)'
    BY <1>0, <2>1, Facts DEF Points, Rest, SameTask, history, Alone, Reached, NoneOpen, Opens,
        InFlight, IsAction, Refers, WaitsOpen, Fresh
  <2>3. Reached'
    BY <1>0, <1>4, <2>1, Facts DEF Points, Rest, SameTask, history, Alone, Reached, NoneOpen,
        Opens, InFlight, IsAction, Refers, Fresh, OneByOne, BrokeOff
  <2>. QED BY <2>1, <2>2, <2>3 DEF Alone
<1>. QED BY <1>1, <1>2, <1>3, <1>4 DEF Reaching, Single

LEMMA ListsReaching ==
  ASSUME Sound, Storing, Reaching, NEW r \in Requests, Lists(r)
  PROVE  Reaching'
<1>0. Deed(r) /\ Ended /\ Fresh /\ WaitsOpen /\ FirstAnswer
  BY DEF Deed, Reaching, Storing
<1>1. Ended'
  BY <1>0, Facts DEF Lists, Rest, SameTask, stored, history, Ended
<1>2. Fresh'
  BY <1>0, Facts DEF Lists, Rest, SameTask, stored, history, Fresh, FirstAnswer, Refers, IsAction
<1>3. WaitsOpen'
  BY <1>0, Facts DEF Lists, Rest, SameTask, stored, history, WaitsOpen
<1>4. ASSUME OneByOne' PROVE Reached' /\ \A q \in Requests : Alone(q)'
  <2>1. /\ OneByOne /\ Reached /\ Alone(r) /\ \A q \in Requests \ {r} : ~InFlight(q)
        /\ \A q \in Requests \ {r} : ~InFlight(q)'
    BY <1>0, <1>4, OneByOneBefore DEF Reaching, Single, InFlight, Lists, Rest, SameTask, stored,
        history
  <2>2. Alone(r)'
    BY <1>0, <2>1, Facts DEF Lists, Rest, SameTask, stored, history, Alone, Reached, NoneOpen,
        Opens, InFlight, IsAction, Refers, WaitsOpen, Fresh
  <2>3. Reached'
    BY <1>0, <1>4, <2>1, Facts DEF Lists, Rest, SameTask, stored, history, Alone, Reached,
        NoneOpen, Opens, InFlight, IsAction, Refers, Fresh, OneByOne, BrokeOff
  <2>. QED BY <2>1, <2>2, <2>3 DEF Alone
<1>. QED BY <1>1, <1>2, <1>3, <1>4 DEF Reaching, Single

LEMMA ShowsReaching ==
  ASSUME Sound, Storing, Reaching, NEW r \in Requests, Shows(r)
  PROVE  Reaching'
<1>0. Deed(r) /\ Ended /\ Fresh /\ WaitsOpen /\ FirstAnswer
  BY DEF Deed, Reaching, Storing
<1>1. Ended'
  BY <1>0, Facts DEF Shows, Rest, SameTask, stored, history, Ended
<1>2. Fresh'
  BY <1>0, Facts DEF Shows, Rest, SameTask, stored, history, Fresh, FirstAnswer, Refers, IsAction
<1>3. WaitsOpen'
  BY <1>0, Facts DEF Shows, Rest, SameTask, stored, history, WaitsOpen
<1>4. ASSUME OneByOne' PROVE Reached' /\ \A q \in Requests : Alone(q)'
  <2>1. /\ OneByOne /\ Reached /\ Alone(r) /\ \A q \in Requests \ {r} : ~InFlight(q)
        /\ \A q \in Requests \ {r} : ~InFlight(q)'
    BY <1>0, <1>4, OneByOneBefore DEF Reaching, Single, InFlight, Shows, Rest, SameTask, stored,
        history
  <2>2. Alone(r)'
    BY <1>0, <2>1, Facts DEF Shows, Rest, SameTask, stored, history, Alone, Reached, NoneOpen,
        Opens, InFlight, IsAction, Refers, WaitsOpen, Fresh
  <2>3. Reached'
    BY <1>0, <1>4, <2>1, Facts DEF Shows, Rest, SameTask, stored, history, Alone, Reached,
        NoneOpen, Opens, InFlight, IsAction, Refers, Fresh, OneByOne, BrokeOff
  <2>. QED BY <2>1, <2>2, <2>3 DEF Alone
<1>. QED BY <1>1, <1>2, <1>3, <1>4 DEF Reaching, Single

LEMMA LeavesReaching ==
  ASSUME Sound, Storing, Reaching, NEW r \in Requests, Leaves(r)
  PROVE  Reaching'
<1>0. Deed(r) /\ Ended /\ Fresh /\ WaitsOpen /\ FirstAnswer
  BY DEF Deed, Reaching, Storing
<1>1. Ended'
  BY <1>0, Facts DEF Leaves, Rest, InFlight, history, Ended
<1>2. Fresh'
  BY <1>0, Facts DEF Leaves, Rest, InFlight, history, Fresh, FirstAnswer, Refers, IsAction
<1>3. WaitsOpen'
  BY <1>0, Facts DEF Leaves, Rest, InFlight, history, WaitsOpen
<1>4. ASSUME OneByOne' PROVE Reached' /\ \A q \in Requests : Alone(q)'
  <2>1. /\ OneByOne /\ Reached /\ Alone(r) /\ \A q \in Requests \ {r} : ~InFlight(q)
        /\ \A q \in Requests \ {r} : ~InFlight(q)'
    BY <1>0, <1>4, OneByOneBefore DEF Reaching, Single, InFlight, Leaves, Rest, InFlight, history
  <2>2. Alone(r)'
    BY <1>0, <2>1, Facts DEF Leaves, Rest, InFlight, history, Alone, Reached, NoneOpen, Opens,
        InFlight, IsAction, Refers, WaitsOpen, Fresh
  <2>3. Reached'
    BY <1>0, <1>4, <2>1, Facts DEF Leaves, Rest, InFlight, history, Alone, Reached, NoneOpen,
        Opens, InFlight, IsAction, Refers, Fresh, OneByOne, BrokeOff
  <2>. QED BY <2>1, <2>2, <2>3 DEF Alone
<1>. QED BY <1>1, <1>2, <1>3, <1>4 DEF Reaching, Single

LEMMA CrashesReaching ==
  ASSUME Sound, Storing, Reaching, Crashes
  PROVE  Reaching'
<1>0. /\ Ended /\ Fresh /\ WaitsOpen /\ UNCHANGED <<rows, thread, overlapped, applied>>
      /\ \A r \in Requests : pc'[r] \in {"off", "done"} /\ (pc'[r] = "off" => pc[r] = "off")
      /\ \A r \in Requests : InFlight(r) => outcome'[r] = "crashed"
      /\ \A r \in Requests : ~InFlight(r) => outcome'[r] = outcome[r] /\ pc'[r] = pc[r]
  BY DEF Reaching, Crashes, InFlight, stored, history
<1>1. Ended'
  BY <1>0 DEF Ended, InFlight
<1>2. Fresh' /\ WaitsOpen'
  BY <1>0 DEF Fresh, WaitsOpen
<1>3. ASSUME OneByOne' PROVE Reached' /\ \A q \in Requests : Alone(q)'
  <2>1. \A q \in Requests : BrokeOff(q) => BrokeOff(q)'
    BY <1>0 DEF BrokeOff, Ended, InFlight
  <2>2. OneByOne
    BY <1>0, <1>3, <2>1 DEF OneByOne
  <2>3. \A q \in Requests : pc[q] # "point"
    BY <1>0, <1>3 DEF OneByOne, BrokeOff, Fresh, InFlight
  <2>. QED BY <1>0, <2>2, <2>3 DEF Reaching, Single, Reached, Opens, Alone, InFlight
<1>. QED BY <1>1, <1>2, <1>3 DEF Reaching, Single

\* Every step keeps it.
LEMMA NextReaching == Sound /\ Storing /\ Reaching /\ [Next]_vars => Reaching'
<1>. SUFFICES ASSUME Sound, Storing, Reaching, [Next]_vars PROVE Reaching'
  OBVIOUS
<1>1. CASE UNCHANGED vars
  <2>1. UNCHANGED <<rows, thread, pc, job, outcome, overlapped, applied>>
    BY <1>1 DEF vars, stored, history
  <2>. QED BY <2>1 DEF Reaching, Ended, Fresh, WaitsOpen, Single, OneByOne, BrokeOff, Reached,
      Opens, Alone,
         InFlight, IsAction, NoneOpen
<1>2. ASSUME NEW r \in Requests, Deed(r) PROVE Reaching'
  BY <1>2, ComesReaching, LoadsRowReaching, DecidesReaching, MovesReaching, WorksReaching,
      SavesReaching,
    PointsReaching, ListsReaching, ShowsReaching, LeavesReaching DEF Deed
<1>. QED BY <1>1, <1>2, CrashesReaching, Deeds


-----------------------------------------------------------------------------
(* What has been shown.                                                    *)

\* Requests come one by one and no client goes away.
Calm == OneByOne /\ \A r \in Requests : outcome[r] # "abandoned"

\* A request whose pass has not been shown to the end.
Pending(r) == pc[r] \in {"save", "point", "complete", "list", "show"}

\* All events up to the n-th have been shown.
ShownUpTo(n) == crashes = 0 => \A e \in Passes : e <= n => shown[e] = 1

\* The cursor is at the last event of the list.
Caught(list, cursor) == list = {} \/ (cursor \in list /\ \A e \in list : e <= cursor)

StartsRun(r) == pc[r] = "point" \/ (pc[r] = "save" /\ job[r].on = None)

\* The event of the last pass is the next one to show, then the last one shown.
Follows(r) ==
  /\ pc[r] \in {"save", "point", "complete", "list"} =>
       /\ passes \in log[job[r].run] /\ shown[passes] = 0 /\ ShownUpTo(passes - 1)
       /\ job[r].mine.cursor < passes
       /\ StartsRun(r) => log[job[r].run] = {passes}
       /\ ~StartsRun(r) => Caught(log[job[r].run] \ {passes}, job[r].mine.cursor)
  /\ pc[r] = "show" =>
       /\ passes \in log[job[r].run] /\ ShownUpTo(passes - 1)
       /\ \/ job[r].events = {passes} /\ shown[passes] = 0
          \/ job[r].events = {} /\ shown[passes] = 1 /\ job[r].mine.cursor = passes

\* Nothing is shown twice or before it is there, and a run without events has no log.
Once ==
  /\ \A e \in Passes : shown[e] <= 1 /\ (e > passes => shown[e] = 0)
  /\ \A x \in Passes : (\A e \in log[x] : e <= passes) /\ (x > passes => log[x] = {})
  /\ thread.cursor <= passes

\* When no pass is pending, all is shown and the thread's cursor is at the end.
CaughtUp ==
  (\A r \in Requests : ~Pending(r)) =>
    /\ ShownUpTo(passes)
    /\ thread.run # None => Caught(log[thread.run], thread.cursor)

Showing == Calm => Once /\ CaughtUp /\ \A r \in Requests : Follows(r)

LEMMA InitShowing == Init => Showing
  BY DEF Init, Showing, Once, CaughtUp, Follows, ShownUpTo, Empty

LEMMA ShownFacts ==
  ASSUME Sound
  PROVE  /\ log \in [Passes -> SUBSET Passes] /\ shown \in [Passes -> 0 .. 2]
         /\ crashes \in Nat
         /\ thread.cursor \in Nat /\ thread.run \in Optional
         /\ \A r \in Requests : job[r].mine.cursor \in Nat /\ job[r].events \subseteq Passes
                                /\ job[r].run \in Optional /\ job[r].mine \in Threads
  BY JobFields, SharedSound, ChatAssumption DEF Shared, Threads, Jobs

\* In a calm step only its request is in flight, and it was calm before.
LEMMA CalmBefore ==
  ASSUME Sound, Storing, Reaching, NEW r \in Requests, Deed(r), Calm'
  PROVE  /\ Calm /\ Reached /\ Alone(r) /\ outcome'[r] # "abandoned"
         /\ \A q \in Requests \ {r} : ~InFlight(q) /\ ~InFlight(q)' /\ ~Pending(q) /\ ~Pending(q)'
<1>1. OneByOne' /\ \A q \in Requests : outcome'[q] # "abandoned"
  BY DEF Calm
<1>2. OneByOne /\ \A q \in Requests \ {r} : ~InFlight(q)
  BY <1>1, OneByOneBefore DEF Reaching
<1>3. Rest(r)
  BY DEF Deed, Comes, LoadsRow, Decides, Moves, Works, Saves, Points, Lists, Shows, Leaves
<1>4. outcome[r] = "abandoned" => outcome'[r] = outcome[r]
  BY DEF Reaching, Ended, Deed, Comes, LoadsRow, Decides, Moves, Works, Saves, Points, Lists, Shows,
    Leaves, InFlight
<1>5. \A q \in Requests : outcome[q] # "abandoned"
  BY <1>1, <1>3, <1>4 DEF Rest
<1>6. Reached /\ Alone(r)
  BY <1>2 DEF Reaching, Single
<1>. QED BY <1>1, <1>2, <1>3, <1>5, <1>6 DEF Calm, Rest, InFlight, Pending

LEMMA ComesShowing ==
  ASSUME Sound, Storing, Reaching, Showing, NEW r \in Requests, Comes(r)
  PROVE  Showing'
<1>. SUFFICES ASSUME Calm' PROVE Once' /\ CaughtUp' /\ \A q \in Requests : Follows(q)'
  BY DEF Showing
<1>0. /\ Calm /\ Once /\ CaughtUp /\ Follows(r) /\ Reached /\ Alone(r) /\ FirstAnswer /\ Fresh
      /\ outcome'[r] # "abandoned"
      /\ \A q \in Requests \ {r} : ~InFlight(q) /\ ~InFlight(q)' /\ ~Pending(q) /\ ~Pending(q)'
  BY CalmBefore DEF Deed, Showing, Reaching, Storing
<1>1. Once'
  BY <1>0, Facts, ShownFacts DEF Comes, Rest, stored, Once, Follows, Alone, InFlight
<1>2. CaughtUp'
  BY <1>0, Facts, ShownFacts DEF Comes, Rest, stored, CaughtUp, Once, Follows, Alone, InFlight,
      Pending, ShownUpTo, Caught
<1>3. Follows(r)'
  BY <1>0, Facts, ShownFacts DEF Comes, Rest, stored, CaughtUp, Once, Follows, Alone, InFlight,
      Pending, ShownUpTo, Caught, StartsRun, Refers, IsAction, Fresh
<1>. QED BY <1>0, <1>1, <1>2, <1>3 DEF Follows, Pending

LEMMA LoadsRowShowing ==
  ASSUME Sound, Storing, Reaching, Showing, NEW r \in Requests, LoadsRow(r)
  PROVE  Showing'
<1>. SUFFICES ASSUME Calm' PROVE Once' /\ CaughtUp' /\ \A q \in Requests : Follows(q)'
  BY DEF Showing
<1>0. /\ Calm /\ Once /\ CaughtUp /\ Follows(r) /\ Reached /\ Alone(r) /\ FirstAnswer /\ Fresh
      /\ outcome'[r] # "abandoned"
      /\ \A q \in Requests \ {r} : ~InFlight(q) /\ ~InFlight(q)' /\ ~Pending(q) /\ ~Pending(q)'
  BY CalmBefore DEF Deed, Showing, Reaching, Storing
<1>1. Once'
  BY <1>0, Facts, ShownFacts DEF LoadsRow, Rest, SameTask, stored, history, Once, Follows, Alone,
      InFlight
<1>2. CaughtUp'
  BY <1>0, Facts, ShownFacts DEF LoadsRow, Rest, SameTask, stored, history, CaughtUp, Once,
      Follows, Alone, InFlight, Pending, ShownUpTo, Caught
<1>3. Follows(r)'
  BY <1>0, Facts, ShownFacts DEF LoadsRow, Rest, SameTask, stored, history, CaughtUp, Once,
      Follows, Alone, InFlight, Pending, ShownUpTo, Caught, StartsRun, Refers, IsAction, Fresh
<1>. QED BY <1>0, <1>1, <1>2, <1>3 DEF Follows, Pending

LEMMA DecidesShowing ==
  ASSUME Sound, Storing, Reaching, Showing, NEW r \in Requests, Decides(r)
  PROVE  Showing'
<1>. SUFFICES ASSUME Calm' PROVE Once' /\ CaughtUp' /\ \A q \in Requests : Follows(q)'
  BY DEF Showing
<1>0. /\ Calm /\ Once /\ CaughtUp /\ Follows(r) /\ Reached /\ Alone(r) /\ FirstAnswer /\ Fresh
      /\ outcome'[r] # "abandoned"
      /\ \A q \in Requests \ {r} : ~InFlight(q) /\ ~InFlight(q)' /\ ~Pending(q) /\ ~Pending(q)'
  BY CalmBefore DEF Deed, Showing, Reaching, Storing
<1>1. Once'
  BY <1>0, Facts, ShownFacts DEF Decides, Rest, SameTask, stored, history, Runs, NewRun, Once,
      Follows, Alone, InFlight
<1>2. CaughtUp'
  BY <1>0, Facts, ShownFacts DEF Decides, Rest, SameTask, stored, history, Runs, NewRun, CaughtUp,
      Once, Follows, Alone, InFlight, Pending, ShownUpTo, Caught
<1>3. Follows(r)'
  BY <1>0, Facts, ShownFacts DEF Decides, Rest, SameTask, stored, history, Runs, NewRun, CaughtUp,
      Once, Follows, Alone, InFlight, Pending, ShownUpTo, Caught, StartsRun, Refers, IsAction, Fresh
<1>. QED BY <1>0, <1>1, <1>2, <1>3 DEF Follows, Pending

LEMMA MovesShowing ==
  ASSUME Sound, Storing, Reaching, Showing, NEW r \in Requests, Moves(r)
  PROVE  Showing'
<1>. SUFFICES ASSUME Calm' PROVE Once' /\ CaughtUp' /\ \A q \in Requests : Follows(q)'
  BY DEF Showing
<1>0. /\ Calm /\ Once /\ CaughtUp /\ Follows(r) /\ Reached /\ Alone(r) /\ FirstAnswer /\ Fresh
      /\ outcome'[r] # "abandoned"
      /\ \A q \in Requests \ {r} : ~InFlight(q) /\ ~InFlight(q)' /\ ~Pending(q) /\ ~Pending(q)'
  BY CalmBefore DEF Deed, Showing, Reaching, Storing
<1>1. Once'
  BY <1>0, Facts, ShownFacts DEF Moves, Rest, history, Once, Follows, Alone, InFlight
<1>2. CaughtUp'
  BY <1>0, Facts, ShownFacts DEF Moves, Rest, history, CaughtUp, Once, Follows, Alone, InFlight,
      Pending, ShownUpTo, Caught
<1>3. Follows(r)'
  BY <1>0, Facts, ShownFacts DEF Moves, Rest, history, CaughtUp, Once, Follows, Alone, InFlight,
      Pending, ShownUpTo, Caught, StartsRun, Refers, IsAction, Fresh
<1>. QED BY <1>0, <1>1, <1>2, <1>3 DEF Follows, Pending

LEMMA WorksShowing ==
  ASSUME Sound, Storing, Reaching, Showing, NEW r \in Requests, Works(r)
  PROVE  Showing'
<1>. SUFFICES ASSUME Calm' PROVE Once' /\ CaughtUp' /\ \A q \in Requests : Follows(q)'
  BY DEF Showing
<1>0. /\ Calm /\ Once /\ CaughtUp /\ Follows(r) /\ Reached /\ Alone(r) /\ FirstAnswer /\ Fresh
      /\ outcome'[r] # "abandoned"
      /\ \A q \in Requests \ {r} : ~InFlight(q) /\ ~InFlight(q)' /\ ~Pending(q) /\ ~Pending(q)'
  BY CalmBefore DEF Deed, Showing, Reaching, Storing
<1>1. Once'
  <2>1. job'[r].run \in Passes /\ job'[r].run <= passes'
    BY <1>0, Facts, ShownFacts DEF Works, Refers, Storing, Numbered
  <2>2. \A x \in Passes : log'[x] = IF x = job'[r].run THEN log[x] \cup {passes'} ELSE log[x]
    BY <2>1, ShownFacts DEF Works
  <2>3. passes' = passes + 1 /\ UNCHANGED <<thread, shown>>
    BY DEF Works, stored
  <2>4. \A x \in Passes : (\A e \in log'[x] : e <= passes') /\ (x > passes' => log'[x] = {})
    <3>1. ASSUME NEW x \in Passes
          PROVE  /\ log[x] \subseteq Passes /\ \A e \in log[x] : e <= passes'
                 /\ x > passes' => log[x] = {} /\ x # job'[r].run
      BY <1>0, <2>1, <2>3, Facts, ShownFacts DEF Once
    <3>2. passes' \in Nat
      BY <2>3, Facts
    <3>3. ASSUME NEW x \in Passes, NEW e \in log'[x] PROVE e <= passes'
      <4>1. e \in log[x] \/ e = passes'
        BY <2>2, <3>3
      <4>. QED BY <3>1, <3>2, <4>1
    <3>4. ASSUME NEW x \in Passes, x > passes' PROVE log'[x] = {}
      BY <2>2, <3>1, <3>4
    <3>. QED BY <3>3, <3>4
  <2>. QED BY <1>0, <2>3, <2>4, Facts, ShownFacts DEF Once
<1>2. CaughtUp'
  BY <1>0, Facts, ShownFacts DEF Works, Rest, stored, CaughtUp, Once, Follows, Alone, InFlight,
      Pending, ShownUpTo, Caught
<1>3. Follows(r)'
  BY <1>0, Facts, ShownFacts DEF Works, Rest, stored, CaughtUp, Once, Follows, Alone, InFlight,
      Pending, ShownUpTo, Caught, StartsRun, Refers, IsAction, Fresh
<1>. QED BY <1>0, <1>1, <1>2, <1>3 DEF Follows, Pending

LEMMA SavesShowing ==
  ASSUME Sound, Storing, Reaching, Showing, NEW r \in Requests, Saves(r)
  PROVE  Showing'
<1>. SUFFICES ASSUME Calm' PROVE Once' /\ CaughtUp' /\ \A q \in Requests : Follows(q)'
  BY DEF Showing
<1>0. /\ Calm /\ Once /\ CaughtUp /\ Follows(r) /\ Reached /\ Alone(r) /\ FirstAnswer /\ Fresh
      /\ outcome'[r] # "abandoned"
      /\ \A q \in Requests \ {r} : ~InFlight(q) /\ ~InFlight(q)' /\ ~Pending(q) /\ ~Pending(q)'
  BY CalmBefore DEF Deed, Showing, Reaching, Storing
<1>1. Once'
  BY <1>0, Facts, ShownFacts DEF Saves, Saved, AfterSave, Rest, history, Once, Follows, Alone,
      InFlight
<1>2. CaughtUp'
  BY <1>0, Facts, ShownFacts DEF Saves, Saved, AfterSave, Rest, history, CaughtUp, Once, Follows,
      Alone, InFlight, Pending, ShownUpTo, Caught
<1>3. Follows(r)'
  BY <1>0, Facts, ShownFacts DEF Saves, Saved, AfterSave, Rest, history, CaughtUp, Once, Follows,
      Alone, InFlight, Pending, ShownUpTo, Caught, StartsRun, Refers, IsAction, Fresh
<1>. QED BY <1>0, <1>1, <1>2, <1>3 DEF Follows, Pending

LEMMA PointsShowing ==
  ASSUME Sound, Storing, Reaching, Showing, NEW r \in Requests, Points(r)
  PROVE  Showing'
<1>. SUFFICES ASSUME Calm' PROVE Once' /\ CaughtUp' /\ \A q \in Requests : Follows(q)'
  BY DEF Showing
<1>0. /\ Calm /\ Once /\ CaughtUp /\ Follows(r) /\ Reached /\ Alone(r) /\ FirstAnswer /\ Fresh
      /\ outcome'[r] # "abandoned"
      /\ \A q \in Requests \ {r} : ~InFlight(q) /\ ~InFlight(q)' /\ ~Pending(q) /\ ~Pending(q)'
  BY CalmBefore DEF Deed, Showing, Reaching, Storing
<1>1. Once'
  <2>1. thread'.cursor = 0 /\ UNCHANGED <<passes, shown, log>>
    BY DEF Points, history
  <2>. QED BY <1>0, <2>1, Facts DEF Once
<1>2. CaughtUp'
  BY <1>0, Facts, ShownFacts DEF Points, Rest, SameTask, history, CaughtUp, Once, Follows, Alone,
      InFlight, Pending, ShownUpTo, Caught
<1>3. Follows(r)'
  BY <1>0, Facts, ShownFacts DEF Points, Rest, SameTask, history, CaughtUp, Once, Follows, Alone,
      InFlight, Pending, ShownUpTo, Caught, StartsRun, Refers, IsAction, Fresh
<1>. QED BY <1>0, <1>1, <1>2, <1>3 DEF Follows, Pending

LEMMA ListsShowing ==
  ASSUME Sound, Storing, Reaching, Showing, NEW r \in Requests, Lists(r)
  PROVE  Showing'
<1>. SUFFICES ASSUME Calm' PROVE Once' /\ CaughtUp' /\ \A q \in Requests : Follows(q)'
  BY DEF Showing
<1>0. /\ Calm /\ Once /\ CaughtUp /\ Follows(r) /\ Reached /\ Alone(r) /\ FirstAnswer /\ Fresh
      /\ outcome'[r] # "abandoned"
      /\ \A q \in Requests \ {r} : ~InFlight(q) /\ ~InFlight(q)' /\ ~Pending(q) /\ ~Pending(q)'
  BY CalmBefore DEF Deed, Showing, Reaching, Storing
<1>1. Once'
  BY <1>0, Facts, ShownFacts DEF Lists, Rest, SameTask, stored, history, Once, Follows, Alone,
      InFlight
<1>2. CaughtUp'
  BY <1>0, Facts, ShownFacts DEF Lists, Rest, SameTask, stored, history, CaughtUp, Once, Follows,
      Alone, InFlight, Pending, ShownUpTo, Caught
<1>3. Follows(r)'
  <2>. DEFINE L == log[job[r].run]
              c == job[r].mine.cursor
  <2>1. /\ passes \in L /\ shown[passes] = 0 /\ ShownUpTo(passes - 1) /\ c < passes
        /\ Caught(L \ {passes}, c)
    BY <1>0 DEF Lists, Follows, StartsRun
  <2>2. L \subseteq Passes /\ c \in Nat /\ passes \in Nat
    BY <2>1, Facts, ShownFacts DEF Lists, Refers
  <2>3. pc'[r] = "show" /\ job'[r].run = job[r].run /\ job'[r].events = EventsAfter(job[r].run, c)
        /\ UNCHANGED <<log, passes, shown, crashes>>
    BY DEF Lists, SameTask, history
  <2>4. EventsAfter(job[r].run, c) = IF c \in L THEN {e \in L : e > c} ELSE L
    BY DEF EventsAfter
  <2>. HIDE DEF L, c
  <2>5. EventsAfter(job[r].run, c) = {passes}
    <3>1. \A e \in L : e # passes => c \in L /\ e <= c
      BY <2>1 DEF Caught
    <3>2. CASE c \in L
      <4>1. \A e \in L : e \in Nat
        BY <2>2, Facts
      <4>2. \A e \in L : e > c <=> e = passes
        BY <2>1, <2>2, <3>1, <4>1
      <4>. QED BY <2>1, <2>4, <3>2, <4>2
    <3>3. CASE c \notin L
      BY <2>1, <2>4, <3>1, <3>3
    <3>. QED BY <3>2, <3>3
  <2>. QED BY <2>1, <2>3, <2>5 DEF Follows, ShownUpTo, L
<1>. QED BY <1>0, <1>1, <1>2, <1>3 DEF Follows, Pending

LEMMA ShowsShowing ==
  ASSUME Sound, Storing, Reaching, Showing, NEW r \in Requests, Shows(r)
  PROVE  Showing'
<1>. SUFFICES ASSUME Calm' PROVE Once' /\ CaughtUp' /\ \A q \in Requests : Follows(q)'
  BY DEF Showing
<1>0. /\ Calm /\ Once /\ CaughtUp /\ Follows(r) /\ Reached /\ Alone(r) /\ FirstAnswer /\ Fresh
      /\ outcome'[r] # "abandoned"
      /\ \A q \in Requests \ {r} : ~InFlight(q) /\ ~InFlight(q)' /\ ~Pending(q) /\ ~Pending(q)'
  BY CalmBefore DEF Deed, Showing, Reaching, Storing
<1>1. Once'
  BY <1>0, Facts, ShownFacts DEF Shows, Rest, SameTask, stored, history, Once, Follows, Alone,
      InFlight
<1>2. CaughtUp'
  BY <1>0, Facts, ShownFacts DEF Shows, Rest, SameTask, stored, history, CaughtUp, Once, Follows,
      Alone, InFlight, Pending, ShownUpTo, Caught
<1>3. Follows(r)'
  BY <1>0, Facts, ShownFacts DEF Shows, Rest, SameTask, stored, history, CaughtUp, Once, Follows,
      Alone, InFlight, Pending, ShownUpTo, Caught, StartsRun, Refers, IsAction, Fresh
<1>. QED BY <1>0, <1>1, <1>2, <1>3 DEF Follows, Pending

LEMMA LeavesShowing ==
  ASSUME Sound, Storing, Reaching, Showing, NEW r \in Requests, Leaves(r)
  PROVE  Showing'
<1>. SUFFICES ASSUME Calm' PROVE Once' /\ CaughtUp' /\ \A q \in Requests : Follows(q)'
  BY DEF Showing
<1>0. /\ Calm /\ Once /\ CaughtUp /\ Follows(r) /\ Reached /\ Alone(r) /\ FirstAnswer /\ Fresh
      /\ outcome'[r] # "abandoned"
      /\ \A q \in Requests \ {r} : ~InFlight(q) /\ ~InFlight(q)' /\ ~Pending(q) /\ ~Pending(q)'
  BY CalmBefore DEF Deed, Showing, Reaching, Storing
<1>1. Once'
  <2>1. thread'.cursor <= passes
    <3>1. CASE pc[r] = "show" /\ job[r].events = {} /\ thread' = job[r].mine
      BY <1>0, <3>1, Facts DEF Follows
    <3>2. CASE thread' = thread
      BY <1>0, <3>2 DEF Once
    <3>. QED BY <3>1, <3>2 DEF Leaves
  <2>. QED BY <1>0, <2>1 DEF Leaves, history, Once
<1>2. CaughtUp'
  <2>1. UNCHANGED <<passes, log, shown, crashes>>
    BY DEF Leaves, history
  <2>2. CASE pc[r] = "show" /\ job[r].events = {} /\ thread' = job[r].mine
    <3>1. /\ passes \in log[job[r].run] /\ ShownUpTo(passes - 1)
          /\ shown[passes] = 1 /\ job[r].mine.cursor = passes
      BY <1>0, <2>2 DEF Follows
    <3>2. thread'.run = job[r].run /\ thread'.cursor = passes
      BY <1>0, <2>2, <3>1 DEF Alone, InFlight
    <3>3. ShownUpTo(passes)'
      BY <2>1, <3>1, Facts DEF ShownUpTo
    <3>4. thread'.run # None => Caught(log[thread'.run], thread'.cursor)
      BY <1>0, <3>1, <3>2, ShownFacts DEF Caught, Once
    <3>. QED BY <2>1, <3>3, <3>4 DEF CaughtUp
  <2>3. CASE ~Pending(r) /\ thread' = thread
    BY <1>0, <2>1, <2>3 DEF CaughtUp, ShownUpTo
  <2>4. CASE Pending(r) /\ ~(pc[r] = "show" /\ job[r].events = {} /\ thread' = job[r].mine)
    BY <1>0, <2>4 DEF Leaves, Pending
  <2>5. thread' = thread \/ (pc[r] = "show" /\ job[r].events = {} /\ thread' = job[r].mine)
    BY DEF Leaves
  <2>. QED BY <2>2, <2>3, <2>4, <2>5
<1>3. Follows(r)'
  BY <1>0, Facts, ShownFacts DEF Leaves, Rest, InFlight, history, CaughtUp, Once, Follows, Alone,
      InFlight, Pending, ShownUpTo, Caught, StartsRun, Refers, IsAction, Fresh
<1>. QED BY <1>0, <1>1, <1>2, <1>3 DEF Follows, Pending

LEMMA CrashesShowing ==
  ASSUME Sound, Storing, Reaching, Showing, Crashes
  PROVE  Showing'
<1>. SUFFICES ASSUME Calm' PROVE Once' /\ CaughtUp' /\ \A q \in Requests : Follows(q)'
  BY DEF Showing
<1>0. /\ UNCHANGED <<rows, thread, passes, overlapped, applied, shown>>
      /\ crashes' = crashes + 1 /\ log' = [x \in Passes |-> {}]
      /\ \A r \in Requests : pc'[r] \in {"off", "done"}
      /\ \A r \in Requests : InFlight(r) => outcome'[r] = "crashed"
      /\ \A r \in Requests : ~InFlight(r) => outcome'[r] = outcome[r]
  BY DEF Crashes, InFlight, stored, history
<1>1. \A q \in Requests : outcome[q] # "none" => outcome'[q] = outcome[q]
  BY <1>0 DEF Reaching, Ended, InFlight
<1>2. Calm
  BY <1>0, <1>1 DEF Calm, OneByOne, BrokeOff
<1>3. Once
  BY <1>2 DEF Showing
<1>4. Once'
  BY <1>0, <1>3 DEF Once
<1>5. crashes' # 0
  BY <1>0, ShownFacts
<1>6. CaughtUp'
  <2>1. ShownUpTo(passes)'
    BY <1>5 DEF ShownUpTo
  <2>2. thread'.run # None => Caught(log'[thread'.run], thread'.cursor)
    BY <1>0, ShownFacts DEF Caught
  <2>. QED BY <2>1, <2>2 DEF CaughtUp
<1>. QED BY <1>0, <1>4, <1>6 DEF Follows

\* Every step keeps it.
LEMMA NextShowing == Sound /\ Storing /\ Reaching /\ Showing /\ [Next]_vars => Showing'
<1>. SUFFICES ASSUME Sound, Storing, Reaching, Showing, [Next]_vars PROVE Showing'
  OBVIOUS
<1>1. CASE UNCHANGED vars
  <2>1. UNCHANGED <<rows, thread, log, passes, pc, job, outcome, crashes, overlapped, applied, shown>>
    BY <1>1 DEF vars, stored, history
  <2>. QED BY <2>1 DEF Showing, Calm, OneByOne, BrokeOff, Once, CaughtUp, Follows, StartsRun,
      ShownUpTo,
         Pending, Caught
<1>2. ASSUME NEW r \in Requests, Deed(r) PROVE Showing'
  BY <1>2, ComesShowing, LoadsRowShowing, DecidesShowing, MovesShowing, WorksShowing, SavesShowing,
    PointsShowing, ListsShowing, ShowsShowing, LeavesShowing DEF Deed
<1>. QED BY <1>1, <1>2, CrashesShowing, Deeds


-----------------------------------------------------------------------------
(* The theorems about what is stored, answered and shown.                  *)

\* The invariant with what is stored, who is answered and what is shown.
FullInv == IInv /\ Storing /\ Reaching /\ Showing

LEMMA InitFullInv == Init => FullInv
  BY InitIInv, InitStoring, InitReaching, InitShowing DEF FullInv

LEMMA NextFullInv == FullInv /\ [Next]_vars => FullInv'
<1>1. FullInv => Sound
  BY DEF FullInv, IInv, Sound
<1>. QED BY <1>1, NextIInv, NextStoring, NextReaching, NextShowing DEF FullInv

\* Once an idempotency row says that its action is completed, the answer is in a stored
\* run for good, whatever crashes and failures follow: only a request that overlapped can
\* have lost it (chatkit/server.py, action; chatkit/service.py, the saves of a whole run).
THEOREM CompletedStays == Spec => []CompletedIsStored
<1>1. FullInv => CompletedIsStored
  BY DEF FullInv, Storing
<1>. QED BY <1>1, InitFullInv, NextFullInv, PTL DEF Spec

\* The run that waits for input is the one the thread points at, or will, as long as
\* requests come one by one and none broke off while it started a run (chatkit/server.py,
\* respond; chatkit/service.py, the metadata of the thread).
THEOREM WaitingIsReached == Spec => []WaitIsReachable
<1>1. FullInv => WaitIsReachable
  <2>. SUFFICES ASSUME FullInv, OneByOne, NEW x \in DOMAIN rows, rows[x].open # None
                PROVE  thread.run = x \/ \E r \in Requests : pc[r] = "point" /\ job[r].run = x
    BY DEF WaitIsReachable
  <2>1. x \in Passes /\ Reached
    BY DEF FullInv, IInv, TypeOK, Reaching, Single
  <2>. QED BY <2>1 DEF Reached, Opens
<1>. QED BY <1>1, InitFullInv, NextFullInv, PTL DEF Spec

\* No event is shown twice, and without a crash none is left out, when requests come one
\* by one and no client goes away (chatkit/server.py, the cursor of the thread).
THEOREM EventsShownOnce == Spec => []ShownOnce
<1>1. FullInv => ShownOnce
  <2>. SUFFICES ASSUME FullInv, Calm
                PROVE  /\ \A e \in Passes : shown[e] <= 1
                       /\ crashes = 0 /\ (\A r \in Requests : ~InFlight(r)) =>
                            \A e \in 1 .. passes : shown[e] = 1
    BY DEF ShownOnce, Calm
  <2>1. Once /\ CaughtUp /\ passes \in Optional /\ MaxPasses \in Nat
    BY ChatAssumption DEF FullInv, Showing, IInv, TypeOK
  <2>2. (\A r \in Requests : ~InFlight(r)) => ShownUpTo(passes)
    BY <2>1 DEF CaughtUp, Pending, InFlight
  <2>3. \A e \in 1 .. passes : e \in Passes /\ e <= passes
    BY <2>1
  <2>. QED BY <2>1, <2>2, <2>3 DEF Once, ShownUpTo
<1>. QED BY <1>1, InitFullInv, NextFullInv, PTL DEF Spec
=============================================================================
