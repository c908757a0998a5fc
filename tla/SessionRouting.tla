--------------------------- MODULE SessionRouting ---------------------------
(***************************************************************************)
(* The messages of ONE session (orchestrator_runtime/runtime.py) over the  *)
(* database store: a message loads the session state, looks at the active  *)
(* run and at the recent decisions, is routed, has the workflow adapter    *)
(* cancel, resume or start runs, pushes a started run on the session's     *)
(* stack, saves the session state and records its decision.  Between any   *)
(* two of these steps another message of the session may take its own.     *)
(*                                                                         *)
(* The router (a language model) is external: any route may come out.  A   *)
(* pass of the engine is what Engine shows of it: it ends in a status.     *)
(* A message starts at most one run, which is named after the message.     *)
(***************************************************************************)
EXTENDS Integers, Sequences, FiniteSets

CONSTANTS
  Messages,      \* the messages, and the names of the runs they start
  Workflows,     \* the workflows that are registered in the project
  Fallback,      \* the fallback workflow, or None
  None,          \* no run, no workflow, no time
  AllowSwitch,   \* the routing policy: allow_switch,
  OnlyExplicit,  \*   explicit_switch_only or sticky,
  Cooldown,      \*   cooldown_seconds,
  MaxTurns,      \*   max_disambiguation_turns
  RecentLimit,   \* how many decisions the policy looks back at; 5 in the code
  MaxTime,       \* bound on the clock
  MaxTrouble,    \* bound on the failures, and on what others do to the runs
  MaxInFlight    \* bound on the messages at work at the same time

ASSUME RoutingAssumption ==
  /\ IsFiniteSet(Messages) /\ None \notin Messages \cup Workflows
  /\ Fallback \in Workflows \cup {None}
  /\ AllowSwitch \in BOOLEAN /\ OnlyExplicit \in BOOLEAN
  /\ Cooldown \in Nat /\ MaxTurns \in Nat /\ RecentLimit \in Nat \ {0}
  /\ MaxTime \in Nat /\ MaxTrouble \in Nat /\ MaxInFlight \in Nat \ {0}

VARIABLES
  session,     \* the stored state: active run and disambiguation turns
  runs,        \* the stored runs
  stack,       \* the session's stack of started runs
  decisions,   \* the latest RecentLimit decisions: the time of a switch, None for others
  registered,  \* the workflows that have not been deleted
  now,         \* the clock
  trouble,     \* number of failures and of things others did
  msg,         \* each message: its step, and the locals of its handler
  met,         \* history: messages that were at work together with another
  touched,     \* history: runs that others changed
  acted,       \* history: which message cancelled or resumed which run
  switches     \* history: the switches that were recorded

stored  == <<session, runs, stack, decisions>>
world   == <<registered, now, trouble>>
history == <<met, touched, acted, switches>>
vars    == <<stored, world, msg, history>>

\* ENDED stands for COMPLETED and FAILED, which are not told apart here; a run is not
\* RUNNING between two passes of the engine.
Statuses == {"WAITING_FOR_INPUT", "ENDED", "CANCELLED"}
Live     == {"WAITING_FOR_INPUT"}

\* cancellable is metadata.cancellable: set when the run is started, and cleared only
\* when the adapter cancels the run.
Runs     == [workflow : Workflows, status : Statuses, cancellable : BOOLEAN]
Sessions == [active : Messages \cup {None}, turns : Nat]

ASSUME NoneAssumption == None \notin Runs /\ None \notin Nat

Steps    == {"off", "load", "look", "route", "cancel", "switch", "resume", "engine",
             "start", "stack", "push", "save", "record", "done", "failed"}

\* step; wanted: the workflow that the message names, if it is a direct one; active and
\* turns: its copy of the session state; run: its latest copy of the active run; last:
\* when the newest switch among the decisions it read was recorded; act, target, from:
\* the action that is decided, the workflow to start and the run it comes from; at: when
\* that was decided; index: the stack index it is about to take.
Locals ==
  [step   : Steps,
   wanted : Workflows \cup {None},
   active : Messages \cup {None},
   turns  : Nat,
   run    : Runs \cup {None},
   last   : Nat \cup {None},
   act    : {"none", "cancel", "switch", "other"},
   target : Workflows \cup {None},
   from   : Messages \cup {None},
   at     : Nat,
   index  : Nat]

Idle == [step |-> "off", wanted |-> None, active |-> None, turns |-> 0, run |-> None,
         last |-> None, act |-> "none", target |-> None, from |-> None, at |-> 0,
         index |-> 0]

Entries  == [run : Messages, from : Messages \cup {None}, direct : BOOLEAN]
Switches == [by : Messages, decided : Nat, at : Nat, place : Nat]

TypeOK ==
  /\ session \in Sessions
  /\ runs \in [Messages -> Runs \cup {None}]
  /\ stack \in Seq(Entries)
  /\ decisions \in Seq(Nat \cup {None})
  /\ registered \subseteq Workflows
  /\ now \in Nat /\ trouble \in Nat
  /\ msg \in [Messages -> Locals]
  /\ met \subseteq Messages /\ touched \subseteq Messages
  /\ acted \subseteq Messages \X Messages
  /\ switches \in Seq(Switches)

Init ==
  /\ session = [active |-> None, turns |-> 0]
  /\ runs = [r \in Messages |-> None]
  /\ stack = <<>> /\ decisions = <<>>
  /\ registered = Workflows
  /\ now = 0 /\ trouble = 0
  /\ msg = [m \in Messages |-> Idle]
  /\ met = {} /\ touched = {} /\ acted = {}
  /\ switches = <<>>

-----------------------------------------------------------------------------
(* A message comes in and reads.                                           *)

InFlight(m)    == msg[m].step \notin {"off", "done", "failed"}
Others(m)      == {q \in Messages \ {m} : InFlight(q)}
At(m, step)    == msg[m].step = step
Set(m, locals) == msg' = [msg EXCEPT ![m] = locals]
Goto(m, step)  == Set(m, [msg[m] EXCEPT !.step = step])

\* ProjectRouter.resolve: a message that names a registered workflow is direct, the
\* others go to the orchestrator.
Receive(m) ==
  /\ At(m, "off")
  /\ Cardinality(Others(m)) < MaxInFlight
  /\ \E w \in registered \cup {None} : Set(m, [Idle EXCEPT !.step = "load", !.wanted = w])
  /\ met' = IF Others(m) = {} THEN met ELSE met \cup {m} \cup Others(m)
  /\ UNCHANGED <<stored, world, touched, acted, switches>>

Load(m) ==
  /\ At(m, "load")
  /\ Set(m, [msg[m] EXCEPT !.step = "look", !.active = session.active,
                           !.turns = session.turns])
  /\ UNCHANGED <<stored, world, history>>

Direct(m)   == msg[m].wanted # None
Snapshot(r) == IF r = None THEN None ELSE runs[r]

\* When the newest switch among the latest decisions was recorded.
LatestSwitch ==
  LET places == {i \in DOMAIN decisions : decisions[i] # None}
  IN  IF places = {} THEN None
      ELSE decisions[CHOOSE i \in places : \A j \in places : j <= i]

\* Only an orchestrated message forgets an active run that is gone, and reads decisions.
Look(m) ==
  /\ At(m, "look")
  /\ LET run == Snapshot(msg[m].active) IN
     Set(m, [msg[m] EXCEPT
               !.step = "route",
               !.run = run,
               !.active = IF run = None /\ ~Direct(m) THEN None ELSE @,
               !.last = IF Direct(m) THEN None ELSE LatestSwitch])
  /\ UNCHANGED <<stored, world, history>>

-----------------------------------------------------------------------------
(* The decision.                                                           *)

\* m has decided what to do and goes on at a step; what it read is not used any more.
Decide(m, act, target, from, turns, step) ==
  Set(m, [msg[m] EXCEPT !.step = step, !.act = act, !.target = target, !.from = from,
                        !.turns = turns, !.run = None, !.last = None,
                        !.at = IF act = "switch" THEN now ELSE 0])

ResumesDirect(m) ==
  /\ msg[m].run # None
  /\ msg[m].run.workflow = msg[m].wanted
  /\ msg[m].run.status = "WAITING_FOR_INPUT"

\* The run that is left behind is not cancelled.
DecideDirect(m) ==
  /\ At(m, "route") /\ Direct(m)
  /\ IF ResumesDirect(m)
     THEN Decide(m, "other", None, None, 0, "resume")
     ELSE Decide(m, "other", msg[m].wanted, msg[m].active, 0, "start")
  /\ UNCHANGED <<stored, world, history>>

Routed(m) == At(m, "route") /\ ~Direct(m)

\* The router hands the message to an operator.  Here, and in Cancel, turns are kept.
Operator(m) ==
  /\ Routed(m) /\ registered # {}
  /\ Decide(m, "other", None, None, msg[m].turns, "save")
  /\ UNCHANGED <<stored, world, history>>

Cancellable(m) == msg[m].run # None /\ msg[m].run.cancellable

Cancel(m) ==
  /\ Routed(m) /\ registered # {}
  /\ Decide(m, "cancel", None, None, msg[m].turns, IF Cancellable(m) THEN "cancel" ELSE "save")
  /\ UNCHANGED <<stored, world, history>>

SaveSessionState(active, turns) == session' = [active |-> active, turns |-> turns]

\* The session state is saved here, and once more at the end.
Clarify(m) ==
  /\ Routed(m)
  /\ msg[m].turns < MaxTurns
  /\ SaveSessionState(msg[m].active, msg[m].turns + 1)
  /\ Decide(m, "other", None, None, msg[m].turns + 1, "save")
  /\ UNCHANGED <<runs, stack, decisions, world, history>>

\* The confidence has to reach its threshold while questions may still be asked.
Settled(m, sure) == Routed(m) /\ (sure \/ msg[m].turns >= MaxTurns)

\* _resolve_target_workflow: what the router names, or the best candidate; the fallback
\* when the router says so, and also when there are no candidates.
Targets == registered \cup (IF Fallback \in registered THEN {} ELSE {None})

NoTarget(m) ==
  /\ \E sure \in BOOLEAN : Settled(m, sure)
  /\ None \in Targets
  /\ Decide(m, "other", None, None, 0, "save")
  /\ UNCHANGED <<stored, world, history>>

StartNew(m) ==
  /\ \E sure \in BOOLEAN : Settled(m, sure)
  /\ msg[m].run = None
  /\ \E w \in Targets \ {None} : Decide(m, "other", w, None, 0, "start")
  /\ UNCHANGED <<stored, world, history>>

\* Variant: the cooldown is not looked at.
MutPolicyAllows(m, explicit) == AllowSwitch /\ (OnlyExplicit => explicit)

\* _switch_policy_error_code finds nothing; explicit: the text asks for a switch.
PolicyAllows(m, explicit) ==
  /\ AllowSwitch
  /\ ~(Cooldown > 0 /\ msg[m].last # None /\ now - msg[m].last < Cooldown)
  /\ OnlyExplicit => explicit

\* The target is another workflow than that of the active run, and the policy and the
\* router's confidence and margin (wide) are for a switch.
Switches_(m, w, sure, wide, explicit) ==
  w # msg[m].run.workflow /\ sure /\ wide /\ PolicyAllows(m, explicit)

Continue(m) ==
  /\ msg[m].run # None
  /\ \E sure, wide, explicit \in BOOLEAN, w \in Targets \ {None} :
       Settled(m, sure) /\ ~Switches_(m, w, sure, wide, explicit)
  /\ Decide(m, "other", None, None, 0, "resume")
  /\ UNCHANGED <<stored, world, history>>

\* A run that cannot be cancelled stays the active one.
Switch(m) ==
  /\ msg[m].run # None
  /\ \E sure, wide, explicit \in BOOLEAN, w \in Targets \ {None} :
       /\ Settled(m, sure) /\ Switches_(m, w, sure, wide, explicit)
       /\ IF Cancellable(m)
          THEN Decide(m, "switch", w, msg[m].active, 0, "switch")
          ELSE Decide(m, "other", None, None, 0, "save")
  /\ UNCHANGED <<stored, world, history>>

-----------------------------------------------------------------------------
(* The workflow adapter.                                                   *)

\* Variant: the cancelled run is not saved.
MutCancelled(run) == run

\* adapter.cancel of a run, by its own copy of it.
Cancelled(run) ==
  IF run.cancellable THEN [run EXCEPT !.status = "CANCELLED", !.cancellable = FALSE] ELSE run

\* What adapter.cancel says is not looked at.
AdapterCancel(m) ==
  LET r == msg[m].active IN
  /\ At(m, "cancel") \/ At(m, "switch")
  /\ r # None /\ runs[r] # None
  /\ runs' = [runs EXCEPT ![r] = Cancelled(@)]
  /\ acted' = acted \cup {<<m, r>>}
  /\ IF At(m, "cancel")
     THEN Set(m, [msg[m] EXCEPT !.step = "save", !.active = None])
     ELSE Goto(m, "start")
  /\ UNCHANGED <<session, stack, decisions, world, met, touched, switches>>

\* Variant: a run that has ended stays the active one.
MutActiveAfter(r, status) == r

\* The session's active run after the adapter returned run r in this status.
ActiveAfter(r, status) == IF status \in Live THEN r ELSE None

\* adapter.resume reads the run once more: the engine goes on with that copy of a run
\* that waits, and a run that does not wait is saved as it is.
AdapterResume(m) ==
  LET r == msg[m].active IN
  /\ At(m, "resume")
  /\ r # None /\ runs[r] # None
  /\ IF runs[r].status = "WAITING_FOR_INPUT"
     THEN Set(m, [msg[m] EXCEPT !.step = "engine", !.run = runs[r]])
     ELSE Set(m, [msg[m] EXCEPT !.step = "save", !.active = ActiveAfter(r, runs[r].status)])
  /\ acted' = acted \cup {<<m, r>>}
  /\ UNCHANGED <<stored, world, met, touched, switches>>

\* The engine's pass is over and the copy is saved.
Resumed(m) ==
  LET r == msg[m].active IN
  /\ At(m, "engine")
  /\ runs[r] # None
  /\ \E status \in Statuses \ {"CANCELLED"} :
       /\ runs' = [runs EXCEPT ![r] = [msg[m].run EXCEPT !.status = status]]
       /\ Set(m, [msg[m] EXCEPT !.step = "save", !.active = ActiveAfter(r, status),
                                !.run = None])
  /\ UNCHANGED <<session, stack, decisions, world, history>>

\* Variant: the session state is saved before the run is put on the stack.
MutAdapterStart(m) ==
  /\ At(m, "start")
  /\ msg[m].target \in registered
  /\ \E status \in Statuses \ {"CANCELLED"} :
       /\ runs' = [runs EXCEPT ![m] = [workflow |-> msg[m].target, status |-> status,
                                       cancellable |-> status \in Live]]
       /\ Set(m, [msg[m] EXCEPT !.step = "stack", !.active = ActiveAfter(m, status),
                                !.target = None])
       /\ session' = [active |-> ActiveAfter(m, status), turns |-> 0]
  /\ UNCHANGED <<stack, decisions, world, history>>

\* adapter.start
AdapterStart(m) ==
  /\ At(m, "start")
  /\ msg[m].target \in registered
  /\ \E status \in Statuses \ {"CANCELLED"} :
       /\ runs' = [runs EXCEPT ![m] = [workflow |-> msg[m].target, status |-> status,
                                       cancellable |-> status \in Live]]
       /\ Set(m, [msg[m] EXCEPT !.step = "stack", !.active = ActiveAfter(m, status),
                                !.target = None])
  /\ UNCHANGED <<session, stack, decisions, world, history>>

-----------------------------------------------------------------------------
(* The stack, the session state and the decision are written.              *)

ReadIndex(m) ==
  /\ At(m, "stack")
  /\ Set(m, [msg[m] EXCEPT !.step = "push", !.index = Len(stack)])
  /\ UNCHANGED <<stored, world, history>>

\* Stack indexes are unique: the insert fails when another message has taken the index.
PushStack(m) ==
  /\ At(m, "push")
  /\ msg[m].index = Len(stack)
  /\ stack' = Append(stack, [run |-> m, from |-> msg[m].from, direct |-> Direct(m)])
  /\ Set(m, [msg[m] EXCEPT !.step = "save", !.from = None, !.index = 0])
  /\ UNCHANGED <<session, runs, decisions, world, history>>

SaveSession(m) ==
  /\ At(m, "save")
  /\ SaveSessionState(msg[m].active, msg[m].turns)
  /\ Goto(m, "record")
  /\ UNCHANGED <<runs, stack, decisions, world, history>>

\* The decisions that list_recent_decisions returns, the newest last.
Latest(s) ==
  IF Len(s) > RecentLimit THEN SubSeq(s, Len(s) - RecentLimit + 1, Len(s)) ELSE s

\* save_decision; when: the time of a switch.
Log(when) == decisions' = Latest(Append(decisions, when))

Recorded == Cardinality({m \in Messages : At(m, "done")})

SaveDecision(m) ==
  /\ At(m, "record") /\ ~Direct(m)
  /\ IF msg[m].act = "switch"
     THEN /\ Log(now)
          /\ switches' = Append(switches, [by |-> m, decided |-> msg[m].at, at |-> now,
                                           place |-> Recorded + 1])
     ELSE Log(None) /\ UNCHANGED switches
  /\ Set(m, [Idle EXCEPT !.step = "done"])
  /\ UNCHANGED <<session, runs, stack, world, met, touched, acted>>

\* A direct message is never a switch, also when it takes over from a run.
SaveDirect(m) ==
  /\ At(m, "record") /\ Direct(m)
  /\ Log(None)
  /\ Set(m, [Idle EXCEPT !.step = "done"])
  /\ UNCHANGED <<session, runs, stack, world, history>>

-----------------------------------------------------------------------------
(* What goes wrong, and what others do.                                    *)

Trouble == trouble < MaxTrouble /\ trouble' = trouble + 1

\* The run that m is to cancel or to resume is gone, or the workflow it is to start, or
\* another message has taken its stack index.
Raises(m) ==
  \/ msg[m].step \in {"cancel", "switch", "resume", "engine"} /\ Snapshot(msg[m].active) = None
  \/ At(m, "start") /\ msg[m].target \notin registered
  \/ At(m, "push") /\ msg[m].index # Len(stack)

\* That, or the router, the engine, a store or the process fails.  What the message has
\* done so far stays done; the engine and the ledger may also raise when the run they
\* worked on has just been stored.
MessageFails(m) ==
  /\ InFlight(m)
  /\ IF Raises(m) THEN UNCHANGED trouble ELSE Trouble
  /\ Set(m, [Idle EXCEPT !.step = "failed"])
  /\ UNCHANGED <<stored, registered, now, history>>

\* The API answers the interrupt of a run, or cancels a run in any status.
RunChanges(r) ==
  /\ Trouble
  /\ runs[r] # None
  /\ \E s \in {"ENDED", "CANCELLED"} :
       /\ runs[r].status \in Live \/ s = "CANCELLED"
       /\ runs' = [runs EXCEPT ![r].status = s]
  /\ touched' = touched \cup {r}
  /\ UNCHANGED <<session, stack, decisions, registered, now, msg, met, acted, switches>>

\* The API deletes a workflow; its definition and its runs go with it.
WorkflowDeleted(w) ==
  /\ Trouble
  /\ registered' = registered \ {w}
  /\ LET gone == {r \in Messages : runs[r] # None /\ runs[r].workflow = w} IN
     /\ runs' = [r \in Messages |-> IF r \in gone THEN None ELSE runs[r]]
     /\ touched' = touched \cup gone
  /\ UNCHANGED <<session, stack, decisions, now, msg, met, acted, switches>>

Tick ==
  /\ now < MaxTime
  /\ now' = now + 1
  /\ UNCHANGED <<stored, registered, trouble, msg, history>>

Handle(m) ==
  \/ Receive(m) \/ Load(m) \/ Look(m)
  \/ DecideDirect(m) \/ Operator(m) \/ Cancel(m) \/ Clarify(m)
  \/ NoTarget(m) \/ StartNew(m) \/ Continue(m) \/ Switch(m)
  \/ AdapterCancel(m) \/ AdapterResume(m) \/ Resumed(m) \/ AdapterStart(m)
  \/ ReadIndex(m) \/ PushStack(m) \/ SaveSession(m) \/ SaveDecision(m)
  \/ SaveDirect(m)

Next ==
  \/ \E m \in Messages : Handle(m) \/ MessageFails(m)
  \/ \E r \in Messages : RunChanges(r)
  \/ \E w \in registered : WorkflowDeleted(w)
  \/ Tick

Spec == Init /\ [][Next]_vars

-----------------------------------------------------------------------------
(* Properties.                                                             *)

AtRest  == \A m \in Messages : ~InFlight(m)
IsLive(r) == runs[r] # None /\ runs[r].status \in Live
Failed  == {m \in Messages : msg[m].step = "failed"}

\* Somebody else changed run r, or one of the messages ms started, cancelled or resumed it.
Disturbed(r, ms) == r \in touched \cup ms \/ \E m \in ms : <<m, r>> \in acted

\* The active run of the session is on its stack, and so is, below it, every run that an
\* entry says it comes from: what the stack endpoint shows explains the active run, also
\* when messages overlap, fail, or find their index taken.
ActiveIsStacked ==
  LET Below(k) == {stack[i].run : i \in 1..k} IN
  /\ session.active # None => session.active \in Below(Len(stack))
  /\ \A k \in DOMAIN stack : stack[k].from # None => stack[k].from \in Below(k - 1)

\* A run that waits while the session has another active run, or none, was left behind by
\* a direct message, which does not cancel the run it takes over from, or was disturbed
\* by a message that failed or overlapped with another: messages that come one after the
\* other and succeed strand no run.
OnlyDisturbedStray ==
  AtRest => \A r \in Messages :
    IsLive(r) /\ session.active # r =>
      \/ Disturbed(r, met \cup Failed)
      \/ \E k \in DOMAIN stack : stack[k].direct /\ stack[k].from = r

\* The session never keeps as active a run that has ended or is gone, unless it was
\* disturbed (a switch whose start fails has already cancelled the run).
ActiveIsAlive ==
  AtRest /\ session.active # None =>
    IsLive(session.active) \/ Disturbed(session.active, met \cup Failed)

\* When messages do not overlap, a switch is decided at least Cooldown after the one
\* before was recorded, or more than the RecentLimit decisions the policy looks at lie
\* between the two.
SwitchesApart ==
  \A k \in 2..Len(switches) :
    LET a == switches[k - 1]
        b == switches[k] IN
    \/ b.decided - a.at >= Cooldown
    \/ b.place - a.place > RecentLimit
    \/ a.by \in met \/ b.by \in met
=============================================================================
