------------------------ MODULE SessionRoutingProofs ------------------------
(***************************************************************************)
(* Theorems about SessionRouting, for any messages, workflows, failures    *)
(* and ticks: type correctness, that the active run is on the session's    *)
(* stack and alive, that no run is stranded, and that switches keep their  *)
(* distance.  Then, for a session and its offline evaluation               *)
(* (RoutingReplay): that the evaluation says what was done with every      *)
(* message up to one that it is excused for.                               *)
(***************************************************************************)
EXTENDS SessionRouting, FiniteSetTheorems, WellFoundedInduction, TLAPS

Stacked == {stack[i].run : i \in DOMAIN stack}

\* What the locals l of message m refer to: runs on the stack, except for the run that m
\* has started and not pushed yet.
Knows(m, l) ==
  /\ l.from # None => l.from \in Stacked
  /\ l.step \in {"stack", "push"} => l.active \in {m, None}
  /\ l.step \notin {"stack", "push"} /\ l.active # None => l.active \in Stacked
  /\ l.step = "engine" => l.run # None

Sources ==
  \A k \in DOMAIN stack : stack[k].from # None => \E i \in 1 .. k - 1 : stack[i].run = stack[k].from

IInv ==
  /\ TypeOK
  /\ session.active # None => session.active \in Stacked
  /\ Sources
  /\ \A m \in Messages : Knows(m, msg[m])

-----------------------------------------------------------------------------
LEMMA InitIInv == Init => IInv
<1> SUFFICES ASSUME Init PROVE IInv
  OBVIOUS
<1>1. DOMAIN stack = {} /\ stack \in Seq(Entries) /\ decisions \in Seq(Nat \cup {None})
      /\ switches \in Seq(Switches)
  BY DEF Init
<1>2. Idle \in Locals
  BY DEF Idle, Locals, Steps
<1>3. TypeOK
  BY <1>1, <1>2 DEF Init, TypeOK, Sessions
<1> QED BY <1>1, <1>3 DEF Init, IInv, Sources, Knows, Idle

\* A set of naturals that are at most n has a greatest element: n - i is least for it.
LEMMA HasGreatest ==
  ASSUME NEW n \in Nat, NEW S \in SUBSET (1 .. n), S # {}
  PROVE  \E i \in S : \A j \in S : j <= i
<1> DEFINE T == {n - i : i \in S}
<1>1. T \subseteq Nat /\ T # {}
  <2>1. \A i \in S : n - i \in Nat
    OBVIOUS
  <2>2. PICK i \in S : TRUE
    OBVIOUS
  <2>3. n - i \in T
    BY <2>2
  <2> QED BY <2>1, <2>3
<1>2. PICK x \in T : \A y \in T : ~(<<y, x>> \in OpToRel(<, Nat))
  <2> HIDE DEF T
  <2> QED BY <1>1, WFMin, NatLessThanWellFounded
<1>3. \A y \in T : ~(y < x)
  BY <1>1, <1>2 DEF OpToRel
<1>4. PICK i \in S : x = n - i
  OBVIOUS
<1>5. \A j \in S : ~(n - j < n - i)
  BY <1>3, <1>4
<1> QED BY <1>5

LEMMA LatestType == TypeOK => LatestSwitch \in Nat \cup {None}
<1> SUFFICES ASSUME TypeOK PROVE LatestSwitch \in Nat \cup {None}
  OBVIOUS
<1> DEFINE places == {i \in DOMAIN decisions : decisions[i] # None}
<1>1. decisions \in Seq(Nat \cup {None})
  BY DEF TypeOK
<1>2. CASE places = {}
  BY <1>2 DEF LatestSwitch
<1>3. CASE places # {}
  <2>1. places \subseteq 1 .. Len(decisions) /\ Len(decisions) \in Nat
    BY <1>1
  <2>2. \E i \in places : \A j \in places : j <= i
    <3> HIDE DEF places
    <3> QED BY <1>3, <2>1, HasGreatest
  <2>3. (CHOOSE i \in places : \A j \in places : j <= i) \in places
    <3> HIDE DEF places
    <3> QED BY <2>2
  <2>4. \A i \in places : decisions[i] \in Nat \cup {None}
    BY <1>1
  <2>5. LatestSwitch = decisions[CHOOSE i \in places : \A j \in places : j <= i]
    BY <1>3 DEF LatestSwitch
  <2> HIDE DEF places
  <2> QED BY <2>3, <2>4, <2>5
<1> QED BY <1>2, <1>3

\* The part of TypeOK that is not the messages' own, and not the stack.
Shared ==
  /\ session \in Sessions
  /\ runs \in [Messages -> Runs \cup {None}]
  /\ decisions \in Seq(Nat \cup {None})
  /\ registered \subseteq Workflows
  /\ now \in Nat /\ trouble \in Nat
  /\ met \subseteq Messages /\ touched \subseteq Messages
  /\ acted \subseteq Messages \X Messages
  /\ switches \in Seq(Switches)

\* A message that keeps the stack and knows what it refers to keeps the invariant.
LEMMA OwnStep ==
  ASSUME IInv, NEW m \in Messages, NEW l \in Locals, Set(m, l), Knows(m, l),
         UNCHANGED stack, Shared', session'.active # None => session'.active \in Stacked
  PROVE  IInv'
<1>1. msg' \in [Messages -> Locals] /\ \A q \in Messages : msg'[q] = IF q = m THEN l ELSE msg[q]
  BY DEF Set, IInv, TypeOK
<1>2. TypeOK'
  BY <1>1 DEF IInv, TypeOK, Shared
<1>3. Stacked' = Stacked /\ Sources'
  BY DEF IInv, Stacked, Sources
<1>4. \A q \in Messages : Knows(q, msg'[q])
  BY <1>1 DEF IInv
<1>5. \A q \in Messages : Knows(q, msg[q])'
  BY <1>3, <1>4 DEF Knows
<1> QED BY <1>2, <1>3, <1>5 DEF IInv

LEMMA SharedNow == IInv => Shared
  BY DEF IInv, TypeOK, Shared

-----------------------------------------------------------------------------
(* What the updates of a message's locals give.                            *)

LEMMA IdleType ==
  /\ Idle \in Locals /\ Idle.from = None /\ Idle.active = None
  /\ \A s \in Steps : [Idle EXCEPT !.step = s] \in Locals
                      /\ [Idle EXCEPT !.step = s].step = s
                      /\ [Idle EXCEPT !.step = s].from = None
                      /\ [Idle EXCEPT !.step = s].active = None
  BY DEF Idle, Locals, Steps

LEMMA ReceivedLocals ==
  ASSUME NEW w \in Workflows \cup {None}
  PROVE  LET k == [Idle EXCEPT !.step = "load", !.wanted = w]
         IN  k \in Locals /\ k.step = "load" /\ k.from = None /\ k.active = None
  BY DEF Idle, Locals, Steps

LEMMA StepLocals ==
  ASSUME NEW l \in Locals, NEW s \in Steps
  PROVE  LET k == [l EXCEPT !.step = s]
         IN  k \in Locals /\ k.step = s /\ k.from = l.from /\ k.active = l.active /\ k.run = l.run
  BY DEF Locals

LEMMA ActiveLocals ==
  ASSUME NEW l \in Locals, NEW a \in Messages \cup {None}
  PROVE  LET k == [l EXCEPT !.step = "save", !.active = a]
         IN  k \in Locals /\ k.step = "save" /\ k.from = l.from /\ k.active = a
  BY DEF Locals, Steps

LEMMA EngineLocals ==
  ASSUME NEW l \in Locals, NEW run \in Runs
  PROVE  LET k == [l EXCEPT !.step = "engine", !.run = run]
         IN  k \in Locals /\ k.step = "engine" /\ k.from = l.from /\ k.active = l.active
             /\ k.run = run
  BY DEF Locals, Steps

LEMMA ResumedLocals ==
  ASSUME NEW l \in Locals, NEW a \in Messages \cup {None}
  PROVE  LET k == [l EXCEPT !.step = "save", !.active = a, !.run = None]
         IN  k \in Locals /\ k.step = "save" /\ k.from = l.from /\ k.active = a
  BY DEF Locals, Steps

LEMMA StartedLocals ==
  ASSUME NEW l \in Locals, NEW a \in Messages \cup {None}
  PROVE  LET k == [l EXCEPT !.step = "stack", !.active = a, !.target = None]
         IN  k \in Locals /\ k.step = "stack" /\ k.from = l.from /\ k.active = a
  BY DEF Locals, Steps

LEMMA IndexLocals ==
  ASSUME NEW l \in Locals, NEW i \in Nat
  PROVE  LET k == [l EXCEPT !.step = "push", !.index = i]
         IN  k \in Locals /\ k.step = "push" /\ k.from = l.from /\ k.active = l.active
  BY DEF Locals, Steps

LEMMA PushedLocals ==
  ASSUME NEW l \in Locals
  PROVE  LET k == [l EXCEPT !.step = "save", !.from = None, !.index = 0]
         IN  k \in Locals /\ k.step = "save" /\ k.from = None /\ k.active = l.active
  BY DEF Locals, Steps

-----------------------------------------------------------------------------
(* The steps of a message.                                                 *)

\* A decision drops what was read, and keeps the active run.
LEMMA Decided ==
  ASSUME IInv, NEW m \in Messages, At(m, "route"),
         NEW act \in {"none", "cancel", "switch", "other"}, NEW target \in Workflows \cup {None},
         NEW from \in Messages \cup {None}, from # None => from \in Stacked,
         NEW turns \in Nat, NEW step \in Steps \ {"stack", "push", "engine"},
         Decide(m, act, target, from, turns, step),
         UNCHANGED stack, Shared', session'.active # None => session'.active \in Stacked
  PROVE  IInv'
<1> DEFINE l == [msg[m] EXCEPT !.step = step, !.act = act, !.target = target, !.from = from,
                               !.turns = turns, !.run = None, !.last = None,
                               !.at = IF act = "switch" THEN now ELSE 0]
<1>1. msg[m] \in Locals /\ now \in Nat
  BY DEF IInv, TypeOK
<1>2. step \in Steps /\ \E at \in Nat : at = IF act = "switch" THEN now ELSE 0
  BY <1>1
<1>3. l \in Locals /\ l.step = step /\ l.from = from /\ l.active = msg[m].active
  <2>1. PICK at \in Nat : at = IF act = "switch" THEN now ELSE 0
    BY <1>2
  <2>2. l = [msg[m] EXCEPT !.step = step, !.act = act, !.target = target, !.from = from,
                           !.turns = turns, !.run = None, !.last = None, !.at = at]
    BY <2>1
  <2>3. msg[m] \in Locals /\ step \in Steps
    BY <1>1, <1>2
  <2> HIDE DEF l
  <2> QED BY <2>2, <2>3 DEF Locals
<1>4. Knows(m, l)
  BY <1>3 DEF IInv, At, Knows
<1>5. Set(m, l)
  BY DEF Decide
<1> HIDE DEF l
<1> QED BY <1>3, <1>4, <1>5, OwnStep

LEMMA ReadingSteps ==
  ASSUME IInv, NEW m \in Messages, Receive(m) \/ Load(m) \/ Look(m) \/ ReadIndex(m)
  PROVE  IInv'
<1> USE DEF stored, world, history
<1>0. /\ msg[m] \in Locals /\ Shared /\ Knows(m, msg[m]) /\ stack \in Seq(Entries)
      /\ session.active # None => session.active \in Stacked
  BY DEF IInv, TypeOK, Shared
<1>9. UNCHANGED <<session, stack>> /\ Shared'
  <2>1. met' \subseteq Messages
    BY <1>0 DEF Receive, Load, Look, ReadIndex, Others, Shared
  <2> QED BY <1>0, <2>1 DEF Receive, Load, Look, ReadIndex, Shared
<1>1. CASE Receive(m)
  <2>1. PICK w \in registered \cup {None} : Set(m, [Idle EXCEPT !.step = "load", !.wanted = w])
    BY <1>1 DEF Receive
  <2> DEFINE l == [Idle EXCEPT !.step = "load", !.wanted = w]
  <2>2. l \in Locals /\ l.step = "load" /\ l.from = None /\ l.active = None
    BY <1>0, ReceivedLocals DEF Shared
  <2> HIDE DEF l
  <2>3. Knows(m, l)
    BY <2>2 DEF Knows
  <2>4. Set(m, l)
    BY <2>1 DEF l
  <2> QED BY <1>0, <1>9, <2>2, <2>3, <2>4, OwnStep
<1>2. CASE Load(m)
  <2> DEFINE l == [msg[m] EXCEPT !.step = "look", !.active = session.active,
                                 !.turns = session.turns]
  <2>1. l \in Locals /\ l.step = "look" /\ l.from = msg[m].from /\ l.active = session.active
    <3>1. session.active \in Messages \cup {None} /\ session.turns \in Nat
      BY <1>0 DEF Shared, Sessions
    <3>2. PICK a \in Messages \cup {None}, n \in Nat : a = session.active /\ n = session.turns
      BY <3>1
    <3>3. l = [msg[m] EXCEPT !.step = "look", !.active = a, !.turns = n]
      BY <3>2
    <3>4. msg[m] \in Locals
      BY <1>0
    <3> HIDE DEF l
    <3> QED BY <3>2, <3>3, <3>4 DEF Locals, Steps
  <2>2. Set(m, l)
    BY <1>2 DEF Load
  <2> HIDE DEF l
  <2>3. Knows(m, l)
    BY <1>0, <2>1 DEF Knows
  <2> QED BY <1>0, <1>9, <2>1, <2>2, <2>3, OwnStep
<1>3. CASE Look(m)
  <2> DEFINE run    == Snapshot(msg[m].active)
             active == IF run = None /\ ~Direct(m) THEN None ELSE msg[m].active
             last   == IF Direct(m) THEN None ELSE LatestSwitch
             l == [msg[m] EXCEPT !.step = "route", !.run = run, !.active = active, !.last = last]
  <2>1. run \in Runs \cup {None} /\ active \in Messages \cup {None} /\ last \in Nat \cup {None}
    <3>1. msg[m].active \in Messages \cup {None}
      BY <1>0 DEF Locals
    <3>2. LatestSwitch \in Nat \cup {None}
      BY LatestType DEF IInv
    <3> QED BY <1>0, <3>1, <3>2 DEF Snapshot, Shared
  <2>2. Set(m, l)
    BY <1>3 DEF Look
  <2>3. active # None => active = msg[m].active
    OBVIOUS
  <2> HIDE DEF run, active, last
  <2>4. l \in Locals /\ l.step = "route" /\ l.from = msg[m].from /\ l.active = active
    <3>1. msg[m] \in Locals
      BY <1>0
    <3>2. l = [msg[m] EXCEPT !.step = "route", !.run = run, !.active = active, !.last = last]
      OBVIOUS
    <3> HIDE DEF l
    <3> QED BY <2>1, <3>1, <3>2 DEF Locals, Steps
  <2> HIDE DEF l
  <2>5. Knows(m, l)
    BY <1>0, <1>3, <2>3, <2>4 DEF Knows, Look, At
  <2> QED BY <1>0, <1>9, <2>2, <2>4, <2>5, OwnStep
<1>4. CASE ReadIndex(m)
  <2> DEFINE l == [msg[m] EXCEPT !.step = "push", !.index = Len(stack)]
  <2>1. Len(stack) \in Nat
    BY <1>0
  <2>2. l \in Locals /\ l.step = "push" /\ l.from = msg[m].from /\ l.active = msg[m].active
    BY <1>0, <2>1, IndexLocals
  <2>3. Set(m, l)
    BY <1>4 DEF ReadIndex
  <2> HIDE DEF l
  <2>4. Knows(m, l)
    BY <1>0, <1>4, <2>2 DEF Knows, ReadIndex, At
  <2> QED BY <1>0, <1>9, <2>2, <2>3, <2>4, OwnStep
<1> QED BY <1>1, <1>2, <1>3, <1>4

\* Deciding keeps everything but the turns.
LEMMA DecidingSteps ==
  ASSUME IInv, NEW m \in Messages,
         \/ DecideDirect(m) \/ Operator(m) \/ Cancel(m) \/ Clarify(m)
         \/ NoTarget(m) \/ StartNew(m) \/ Continue(m) \/ Switch(m)
  PROVE  IInv'
<1> USE DEF stored, world, history, Routed, Settled
<1>0. /\ At(m, "route") /\ msg[m] \in Locals
      /\ msg[m].active # None => msg[m].active \in Stacked
      /\ msg[m].active \in Messages \cup {None} /\ msg[m].turns \in Nat
      /\ msg[m].wanted \in Workflows \cup {None}
      /\ Targets \subseteq Workflows \cup {None}
      /\ {"resume", "start", "save", "cancel", "switch"} \subseteq Steps \ {"stack", "push", "engine"}
  <2>1. At(m, "route")
    BY DEF DecideDirect, Operator, Cancel, Clarify, NoTarget, StartNew, Continue, Switch
  <2>2. msg[m] \in Locals /\ registered \subseteq Workflows /\ Knows(m, msg[m])
    BY DEF IInv, TypeOK
  <2>3. Targets \subseteq Workflows \cup {None}
    BY <2>2, RoutingAssumption DEF Targets
  <2> QED BY <2>1, <2>2, <2>3 DEF Knows, At, Locals, Steps
<1>1. /\ UNCHANGED stack /\ Shared'
      /\ session'.active # None => session'.active \in Stacked
  <2>1. CASE Clarify(m)
    <3>1. session' = [active |-> msg[m].active, turns |-> msg[m].turns + 1]
      BY <2>1 DEF Clarify, SaveSessionState
    <3>2. session' \in Sessions /\ session'.active = msg[m].active
      BY <1>0, <3>1 DEF Sessions
    <3> QED BY <1>0, <2>1, <3>2, SharedNow DEF Clarify, Shared
  <2>2. CASE ~Clarify(m)
    <3>1. UNCHANGED <<stored, world, history>>
      BY <2>2 DEF DecideDirect, Operator, Cancel, NoTarget, StartNew, Continue, Switch
    <3>2. Shared
      BY SharedNow
    <3> QED BY <3>1, <3>2 DEF Shared, IInv
  <2> QED BY <2>1, <2>2
<1>2. PICK act \in {"cancel", "switch", "other"}, target \in Workflows \cup {None},
           from \in {None, msg[m].active}, turns \in Nat,
           step \in {"resume", "start", "save", "cancel", "switch"} :
        Decide(m, act, target, from, turns, step)
  <2>1. CASE DecideDirect(m)
    BY <1>0, <2>1 DEF DecideDirect
  <2>2. CASE Operator(m)
    BY <1>0, <2>2 DEF Operator
  <2>3. CASE Cancel(m)
    BY <1>0, <2>3 DEF Cancel
  <2>4. CASE Clarify(m)
    <3>1. msg[m].turns + 1 \in Nat
      BY <1>0
    <3> QED BY <2>4, <3>1 DEF Clarify
  <2>5. CASE NoTarget(m)
    BY <2>5 DEF NoTarget
  <2>6. CASE StartNew(m)
    BY <1>0, <2>6 DEF StartNew
  <2>7. CASE Continue(m)
    BY <2>7 DEF Continue
  <2>8. CASE Switch(m)
    BY <1>0, <2>8 DEF Switch
  <2> QED BY <2>1, <2>2, <2>3, <2>4, <2>5, <2>6, <2>7, <2>8
<1>3. /\ step \in Steps \ {"stack", "push", "engine"}
      /\ from \in Messages \cup {None} /\ (from # None => from \in Stacked)
      /\ act \in {"none", "cancel", "switch", "other"}
  BY <1>0
<1> QED BY <1>0, <1>1, <1>2, <1>3, Decided

-----------------------------------------------------------------------------
(* The adapter's steps.                                                    *)

LEMMA AdapterSteps ==
  ASSUME IInv, NEW m \in Messages,
         AdapterCancel(m) \/ AdapterResume(m) \/ Resumed(m) \/ AdapterStart(m)
  PROVE  IInv'
<1> USE DEF stored, world, history
<1> DEFINE r == msg[m].active
<1>0. /\ msg[m] \in Locals /\ Shared /\ Knows(m, msg[m])
      /\ session.active # None => session.active \in Stacked
      /\ r \in Messages \cup {None} /\ None \notin Messages /\ None \notin Workflows
  BY RoutingAssumption DEF IInv, TypeOK, Shared, Locals
<1>1. CASE AdapterCancel(m)
  <2>1. r \in Messages /\ runs[r] \in Runs
    BY <1>0, <1>1 DEF AdapterCancel, Shared
  <2>2. Cancelled(runs[r]) \in Runs
    BY <2>1 DEF Cancelled, Runs, Statuses
  <2>3. /\ runs' = [runs EXCEPT ![r] = Cancelled(@)] /\ acted' = acted \cup {<<m, r>>}
        /\ UNCHANGED <<session, stack, decisions, world, met, touched, switches>>
    BY <1>1 DEF AdapterCancel
  <2>4. Shared'
    BY <1>0, <2>1, <2>2, <2>3 DEF Shared
  <2> DEFINE l == IF At(m, "cancel") THEN [msg[m] EXCEPT !.step = "save", !.active = None]
                  ELSE [msg[m] EXCEPT !.step = "start"]
  <2>5. Set(m, l) /\ (At(m, "cancel") \/ At(m, "switch"))
    BY <1>1 DEF AdapterCancel, Goto
  <2>6. /\ l \in Locals /\ l.step \in {"save", "start"} /\ l.from = msg[m].from
        /\ l.active \in {None, r}
    <3>1. "start" \in Steps /\ None \in Messages \cup {None}
      BY DEF Steps
    <3>2. CASE At(m, "cancel")
      BY <1>0, <3>1, <3>2, ActiveLocals
    <3>3. CASE ~At(m, "cancel")
      BY <1>0, <3>1, <3>3, StepLocals
    <3> QED BY <3>2, <3>3
  <2> HIDE DEF l
  <2>7. Knows(m, l)
    BY <1>0, <2>5, <2>6 DEF Knows, At
  <2> QED BY <1>0, <2>3, <2>4, <2>5, <2>6, <2>7, OwnStep
<1>2. CASE AdapterResume(m)
  <2>1. r \in Messages /\ runs[r] \in Runs /\ At(m, "resume")
    BY <1>0, <1>2 DEF AdapterResume, Shared
  <2>2. /\ acted' = acted \cup {<<m, r>>}
        /\ UNCHANGED <<session, runs, stack, decisions, world, met, touched, switches>>
    BY <1>2 DEF AdapterResume
  <2>3. Shared'
    BY <1>0, <2>1, <2>2 DEF Shared
  <2>4. CASE runs[r].status = "WAITING_FOR_INPUT"
    <3> DEFINE l == [msg[m] EXCEPT !.step = "engine", !.run = runs[r]]
    <3>1. /\ l \in Locals /\ l.step = "engine" /\ l.from = msg[m].from /\ l.active = r
          /\ l.run = runs[r]
      BY <1>0, <2>1, EngineLocals
    <3>2. Set(m, l)
      BY <1>2, <2>4 DEF AdapterResume
    <3>3. runs[r] # None
      BY <1>2 DEF AdapterResume
    <3> HIDE DEF l
    <3>4. Knows(m, l)
      BY <1>0, <2>1, <3>1, <3>3 DEF Knows, At
    <3> QED BY <1>0, <2>2, <2>3, <3>1, <3>2, <3>4, OwnStep
  <2>5. CASE runs[r].status # "WAITING_FOR_INPUT"
    <3> DEFINE a == ActiveAfter(r, runs[r].status)
               l == [msg[m] EXCEPT !.step = "save", !.active = a]
    <3>1. a \in {None, r}
      BY DEF ActiveAfter
    <3>2. Set(m, l)
      BY <1>2, <2>5 DEF AdapterResume
    <3> HIDE DEF a
    <3>3. l \in Locals /\ l.step = "save" /\ l.from = msg[m].from /\ l.active = a
      <4>1. a \in Messages \cup {None}
        BY <1>0, <3>1
      <4> QED BY <1>0, <4>1, ActiveLocals
    <3> HIDE DEF l
    <3>4. Knows(m, l)
      BY <1>0, <2>1, <3>1, <3>3 DEF Knows, At
    <3> QED BY <1>0, <2>2, <2>3, <3>2, <3>3, <3>4, OwnStep
  <2> QED BY <2>4, <2>5
<1>3. CASE Resumed(m)
  <2>1. PICK status \in Statuses \ {"CANCELLED"} :
          /\ runs' = [runs EXCEPT ![r] = [msg[m].run EXCEPT !.status = status]]
          /\ Set(m, [msg[m] EXCEPT !.step = "save", !.active = ActiveAfter(r, status),
                                   !.run = None])
    BY <1>3 DEF Resumed
  <2>2. At(m, "engine") /\ UNCHANGED <<session, stack, decisions, world, history>>
    BY <1>3 DEF Resumed
  <2>3. msg[m].run \in Runs
    BY <1>0, <2>2 DEF Knows, At, Locals
  <2>4. [msg[m].run EXCEPT !.status = status] \in Runs
    BY <2>3 DEF Runs
  <2>5. runs' \in [Messages -> Runs \cup {None}]
    BY <1>0, <2>1, <2>4 DEF Shared
  <2>6. Shared'
    BY <1>0, <2>2, <2>5 DEF Shared
  <2> DEFINE a == ActiveAfter(r, status)
             l == [msg[m] EXCEPT !.step = "save", !.active = a, !.run = None]
  <2>7. a \in {None, r} /\ Set(m, l)
    BY <2>1 DEF ActiveAfter
  <2> HIDE DEF a
  <2>8. l \in Locals /\ l.step = "save" /\ l.from = msg[m].from /\ l.active = a
    <3>1. a \in Messages \cup {None}
      BY <1>0, <2>7
    <3> QED BY <1>0, <3>1, ResumedLocals
  <2> HIDE DEF l
  <2>9. Knows(m, l)
    BY <1>0, <2>2, <2>7, <2>8 DEF Knows, At
  <2> QED BY <1>0, <2>2, <2>6, <2>7, <2>8, <2>9, OwnStep
<1>4. CASE AdapterStart(m)
  <2>1. PICK status \in Statuses \ {"CANCELLED"} :
          /\ runs' = [runs EXCEPT ![m] = [workflow |-> msg[m].target, status |-> status,
                                          cancellable |-> status \in Live]]
          /\ Set(m, [msg[m] EXCEPT !.step = "stack", !.active = ActiveAfter(m, status),
                                   !.target = None])
    BY <1>4 DEF AdapterStart
  <2>2. /\ At(m, "start") /\ msg[m].target \in registered
        /\ UNCHANGED <<session, stack, decisions, world, history>>
    BY <1>4 DEF AdapterStart
  <2>3. [workflow |-> msg[m].target, status |-> status, cancellable |-> status \in Live] \in Runs
    BY <1>0, <2>2 DEF Runs, Shared
  <2>4. runs' \in [Messages -> Runs \cup {None}]
    BY <1>0, <2>1, <2>3 DEF Shared
  <2>5. Shared'
    BY <1>0, <2>2, <2>4 DEF Shared
  <2> DEFINE a == ActiveAfter(m, status)
             l == [msg[m] EXCEPT !.step = "stack", !.active = a, !.target = None]
  <2>6. a \in {None, m} /\ Set(m, l)
    BY <2>1 DEF ActiveAfter
  <2> HIDE DEF a
  <2>7. l \in Locals /\ l.step = "stack" /\ l.from = msg[m].from /\ l.active = a
    <3>1. a \in Messages \cup {None}
      BY <1>0, <2>6
    <3> QED BY <1>0, <3>1, StartedLocals
  <2> HIDE DEF l
  <2>8. Knows(m, l)
    BY <1>0, <2>2, <2>6, <2>7 DEF Knows, At
  <2> QED BY <1>0, <2>2, <2>5, <2>6, <2>7, <2>8, OwnStep
<1> QED BY <1>1, <1>2, <1>3, <1>4

-----------------------------------------------------------------------------
(* What is written at the end.                                             *)

\* A pushed run is on the stack, above the run it comes from.
LEMMA PushStep == ASSUME IInv, NEW m \in Messages, PushStack(m) PROVE IInv'
<1> USE DEF world, history
<1> DEFINE e == [run |-> m, from |-> msg[m].from, direct |-> Direct(m)]
           l == [msg[m] EXCEPT !.step = "save", !.from = None, !.index = 0]
<1>0. /\ msg[m] \in Locals /\ stack \in Seq(Entries) /\ Len(stack) \in Nat
      /\ DOMAIN stack = 1 .. Len(stack) /\ At(m, "push") /\ Knows(m, msg[m])
  BY DEF IInv, TypeOK, PushStack
<1>1. /\ stack' = Append(stack, e) /\ Set(m, l)
      /\ UNCHANGED <<session, runs, decisions, registered, now, trouble, met, touched, acted,
                     switches>>
  BY DEF PushStack
<1>2. e \in Entries /\ e.run = m /\ e.from = msg[m].from
  BY <1>0 DEF Entries, Locals, Direct
<1>3. l \in Locals /\ l.step = "save" /\ l.from = None /\ l.active = msg[m].active
  BY <1>0, PushedLocals
<1> HIDE DEF e, l
<1>4. /\ stack' \in Seq(Entries) /\ DOMAIN stack' = 1 .. Len(stack) + 1
      /\ \A i \in 1 .. Len(stack) : stack'[i] = stack[i]
      /\ stack'[Len(stack) + 1] = e
  BY <1>0, <1>1, <1>2
<1>5. Stacked' = Stacked \cup {m}
  BY <1>0, <1>2, <1>4 DEF Stacked
<1>6. msg' \in [Messages -> Locals] /\ \A q \in Messages : msg'[q] = IF q = m THEN l ELSE msg[q]
  BY <1>1, <1>3 DEF Set, IInv, TypeOK
<1>7. TypeOK'
  BY <1>1, <1>4, <1>6 DEF IInv, TypeOK
<1>8. Sources'
  <2>1. ASSUME NEW k \in 1 .. Len(stack), stack'[k].from # None
        PROVE  \E i \in 1 .. k - 1 : stack'[i].run = stack'[k].from
    <3>1. PICK i \in 1 .. k - 1 : stack[i].run = stack[k].from
      BY <1>0, <1>4, <2>1 DEF IInv, Sources
    <3>2. i \in 1 .. Len(stack)
      BY <1>0, <3>1
    <3> QED BY <1>4, <3>1, <3>2
  <2>2. ASSUME e.from # None
        PROVE  \E i \in 1 .. Len(stack) : stack'[i].run = e.from
    BY <1>0, <1>2, <1>4, <2>2 DEF Knows, Stacked
  <2>3. (Len(stack) + 1) - 1 = Len(stack)
    BY <1>0
  <2> QED BY <1>0, <1>4, <2>1, <2>2, <2>3 DEF Sources
<1>9. ASSUME NEW q \in Messages PROVE Knows(q, msg[q])'
  <2>1. CASE q = m
    BY <1>0, <1>3, <1>5, <1>6, <2>1 DEF Knows, At
  <2>2. CASE q # m
    BY <1>5, <1>6, <2>2 DEF Knows, IInv
  <2> QED BY <2>1, <2>2
<1>10. session'.active # None => session'.active \in Stacked'
  BY <1>1, <1>5 DEF IInv
<1> QED BY <1>7, <1>8, <1>9, <1>10 DEF IInv

LEMMA SavingSteps ==
  ASSUME IInv, NEW m \in Messages, SaveSession(m) \/ SaveDecision(m) \/ SaveDirect(m)
                             \/ MessageFails(m)
  PROVE  IInv'
<1> USE DEF stored, world, history
<1>0. /\ msg[m] \in Locals /\ Shared /\ Knows(m, msg[m])
      /\ session.active # None => session.active \in Stacked
  BY DEF IInv, TypeOK, Shared
<1>1. CASE SaveSession(m)
  <2>1. /\ At(m, "save") /\ session' = [active |-> msg[m].active, turns |-> msg[m].turns]
        /\ UNCHANGED <<runs, stack, decisions, world, history>>
    BY <1>1 DEF SaveSession, SaveSessionState
  <2>2. session' \in Sessions /\ session'.active = msg[m].active
    BY <1>0, <2>1 DEF Sessions, Locals
  <2>3. Shared'
    BY <1>0, <2>1, <2>2 DEF Shared
  <2> DEFINE l == [msg[m] EXCEPT !.step = "record"]
  <2>4. Set(m, l)
    BY <1>1 DEF SaveSession, Goto
  <2>5. "record" \in Steps
    BY DEF Steps
  <2>6. l \in Locals /\ l.step = "record" /\ l.from = msg[m].from /\ l.active = msg[m].active
    BY <1>0, <2>5, StepLocals
  <2> HIDE DEF l
  <2>7. Knows(m, l)
    BY <1>0, <2>1, <2>6 DEF Knows, At
  <2>8. session'.active # None => session'.active \in Stacked
    BY <1>0, <2>1, <2>2 DEF Knows, At
  <2> QED BY <2>1, <2>3, <2>4, <2>6, <2>7, <2>8, OwnStep
<1>2. CASE SaveDecision(m) \/ SaveDirect(m)
  <2>1. UNCHANGED <<session, runs, stack, world, met, touched, acted>>
    BY <1>2 DEF SaveDecision, SaveDirect
  <2>2. decisions' \in Seq(Nat \cup {None})
    <3>1. PICK s \in Seq(Nat \cup {None}) : decisions' = Latest(s)
      <4>1. decisions \in Seq(Nat \cup {None}) /\ now \in Nat
        BY <1>0 DEF Shared
      <4>2. Append(decisions, now) \in Seq(Nat \cup {None})
            /\ Append(decisions, None) \in Seq(Nat \cup {None})
        BY <4>1
      <4> QED BY <1>2, <4>2 DEF SaveDecision, SaveDirect, Log
    <3>2. Len(s) \in Nat /\ RecentLimit \in Nat
      BY RoutingAssumption
    <3>3. CASE Len(s) > RecentLimit
      <4>1. Len(s) - RecentLimit + 1 \in 1 .. Len(s) + 1
        BY <3>2, <3>3
      <4>2. SubSeq(s, Len(s) - RecentLimit + 1, Len(s)) \in Seq(Nat \cup {None})
        BY <3>1, <3>2, <4>1
      <4> QED BY <3>1, <3>3, <4>2 DEF Latest
    <3>4. CASE ~(Len(s) > RecentLimit)
      BY <3>1, <3>4 DEF Latest
    <3> QED BY <3>3, <3>4
  <2>3. switches' \in Seq(Switches)
    <3>1. IsFiniteSet({q \in Messages : At(q, "done")})
      BY RoutingAssumption, FS_Subset
    <3>2. Recorded + 1 \in Nat
      BY <3>1, FS_CardinalityType DEF Recorded
    <3>3. [by |-> m, decided |-> msg[m].at, at |-> now, place |-> Recorded + 1] \in Switches
      BY <1>0, <3>2 DEF Switches, Locals, Shared
    <3>4. switches \in Seq(Switches)
      BY <1>0 DEF Shared
    <3> DEFINE w == [by |-> m, decided |-> msg[m].at, at |-> now, place |-> Recorded + 1]
    <3>5. switches' \in {switches, Append(switches, w)}
      BY <1>2 DEF SaveDecision, SaveDirect
    <3> HIDE DEF w
    <3>6. w \in Switches
      BY <3>3 DEF w
    <3> QED BY <3>4, <3>5, <3>6
  <2>4. Shared'
    BY <1>0, <2>1, <2>2, <2>3 DEF Shared
  <2> DEFINE l == [Idle EXCEPT !.step = "done"]
  <2>5. Set(m, l)
    BY <1>2 DEF SaveDecision, SaveDirect
  <2>6. "done" \in Steps
    BY DEF Steps
  <2>7. l \in Locals /\ l.step = "done" /\ l.from = None /\ l.active = None
    BY <2>6, IdleType
  <2> HIDE DEF l
  <2>8. Knows(m, l)
    BY <2>7 DEF Knows
  <2> QED BY <1>0, <2>1, <2>4, <2>5, <2>7, <2>8, OwnStep
<1>3. CASE MessageFails(m)
  <2>1. UNCHANGED <<session, runs, stack, decisions, registered, now, history>>
    BY <1>3 DEF MessageFails
  <2>2. trouble' \in Nat
    BY <1>0, <1>3 DEF MessageFails, Trouble, Shared
  <2>3. Shared'
    BY <1>0, <2>1, <2>2 DEF Shared
  <2> DEFINE l == [Idle EXCEPT !.step = "failed"]
  <2>4. Set(m, l)
    BY <1>3 DEF MessageFails
  <2>5. "failed" \in Steps
    BY DEF Steps
  <2>6. l \in Locals /\ l.step = "failed" /\ l.from = None /\ l.active = None
    BY <2>5, IdleType
  <2> HIDE DEF l
  <2>7. Knows(m, l)
    BY <2>6 DEF Knows
  <2> QED BY <1>0, <2>1, <2>3, <2>4, <2>6, <2>7, OwnStep
<1> QED BY <1>1, <1>2, <1>3

-----------------------------------------------------------------------------
(* The others, and all of them.                                            *)

\* Steps that leave the messages, the stack and the session alone.
LEMMA OtherSteps ==
  ASSUME IInv, UNCHANGED <<session, stack, msg>>, Shared'
  PROVE  IInv'
  BY DEF IInv, TypeOK, Shared, Sources, Stacked, Knows

LEMMA NextIInv == IInv /\ [Next]_vars => IInv'
<1> SUFFICES ASSUME IInv, [Next]_vars PROVE IInv'
  OBVIOUS
<1> USE DEF stored, world, history
<1>0. Shared
  BY SharedNow
<1>1. CASE UNCHANGED vars
  BY <1>0, <1>1, OtherSteps DEF vars, Shared
<1>2. ASSUME NEW m \in Messages, Handle(m) \/ MessageFails(m) PROVE IInv'
  BY <1>2, ReadingSteps, DecidingSteps, AdapterSteps, PushStep, SavingSteps DEF Handle
<1>3. ASSUME NEW r \in Messages, RunChanges(r) PROVE IInv'
  <2>1. /\ UNCHANGED <<session, stack, decisions, registered, now, msg, met, acted, switches>>
        /\ touched' = touched \cup {r} /\ trouble' = trouble + 1 /\ runs[r] # None
    BY <1>3 DEF RunChanges, Trouble
  <2>2. PICK s \in {"ENDED", "CANCELLED"} : runs' = [runs EXCEPT ![r].status = s]
    BY <1>3 DEF RunChanges
  <2>3. runs[r] \in Runs
    BY <1>0, <2>1 DEF Shared
  <2>4. [runs[r] EXCEPT !.status = s] \in Runs
    BY <2>3 DEF Runs, Statuses
  <2>5. runs' \in [Messages -> Runs \cup {None}]
    BY <1>0, <2>2, <2>4 DEF Shared
  <2>6. Shared'
    BY <1>0, <2>1, <2>5 DEF Shared
  <2> QED BY <2>1, <2>6, OtherSteps
<1>4. ASSUME NEW w \in registered, WorkflowDeleted(w) PROVE IInv'
  <2> DEFINE gone == {r \in Messages : runs[r] # None /\ runs[r].workflow = w}
  <2>1. /\ UNCHANGED <<session, stack, decisions, now, msg, met, acted, switches>>
        /\ registered' = registered \ {w} /\ trouble' = trouble + 1
        /\ runs' = [r \in Messages |-> IF r \in gone THEN None ELSE runs[r]]
        /\ touched' = touched \cup gone
    BY <1>4 DEF WorkflowDeleted, Trouble
  <2>2. gone \subseteq Messages
    OBVIOUS
  <2> HIDE DEF gone
  <2>3. Shared'
    BY <1>0, <2>1, <2>2 DEF Shared
  <2> QED BY <2>1, <2>3, OtherSteps
<1>5. CASE Tick
  <2>1. /\ UNCHANGED <<session, runs, stack, decisions, registered, trouble, msg, history>>
        /\ now' = now + 1
    BY <1>5 DEF Tick
  <2>2. Shared'
    BY <1>0, <2>1 DEF Shared
  <2> QED BY <2>1, <2>2, OtherSteps
<1> QED BY <1>1, <1>2, <1>3, <1>4, <1>5 DEF Next

THEOREM Invariance == Spec => []IInv
  BY InitIInv, NextIInv, PTL DEF Spec

\* The handlers keep the types of the session, its runs, its stack and its decisions.
THEOREM Typed == Spec => []TypeOK
<1>1. IInv => TypeOK
  BY DEF IInv
<1> QED BY <1>1, Invariance, PTL

\* However the messages of a session interleave, fail or lose the race for a stack index,
\* the active run is on the stack and every entry's source is below it: the session state
\* is written only after the run was pushed.
THEOREM ActiveStacked == Spec => []ActiveIsStacked
<1>1. ASSUME IInv PROVE ActiveIsStacked
  <2>1. stack \in Seq(Entries) /\ DOMAIN stack = 1 .. Len(stack)
    BY <1>1 DEF IInv, TypeOK
  <2>2. session.active # None => session.active \in {stack[i].run : i \in 1 .. Len(stack)}
    BY <1>1, <2>1 DEF IInv, Stacked
  <2>3. ASSUME NEW k \in DOMAIN stack, stack[k].from # None
        PROVE  stack[k].from \in {stack[i].run : i \in 1 .. k - 1}
    BY <1>1, <2>3 DEF IInv, Sources
  <2> QED BY <2>2, <2>3 DEF ActiveIsStacked
<1> QED BY <1>1, Invariance, PTL

-----------------------------------------------------------------------------
(* Active runs and runs that are left: a message that is at work alone     *)
(* answers for the run that was active when it came in.                    *)

Troubled(r)   == Disturbed(r, met \cup Failed)
LeftBehind(r) == \E k \in DOMAIN stack : stack[k].direct /\ stack[k].from = r
Excused(r)    == Troubled(r) \/ LeftBehind(r)
Sound(r)      == IsLive(r) \/ Troubled(r)

Together == \A m, q \in Messages : m # q /\ InFlight(m) /\ InFlight(q) => m \in met

\* A run that waits can be cancelled, and so can the engine's copy of it.
CanBeCancelled ==
  /\ \A r \in Messages : IsLive(r) => runs[r].cancellable
  /\ \A m \in Messages : At(m, "engine") => msg[m].run.cancellable

\* Before the message saves the session nobody else knows its run, and before it starts
\* the run there is none.
Unborn(m) ==
  /\ msg[m].step \notin {"stack", "push", "save", "record", "done", "failed"} => runs[m] = None
  /\ msg[m].step \notin {"record", "done", "failed"} =>
       /\ session.active # m
       /\ \A q \in Messages : msg[q].active = m =>
            q = m /\ msg[m].step \in {"stack", "push", "save"}

EngineActs == \A m \in Messages : At(m, "engine") => <<m, msg[m].active>> \in acted

\* Whoever has ended the active run is about to save another one.
ActiveSound ==
  \A r \in Messages : session.active = r =>
    \/ Sound(r)
    \/ \E m \in Messages : /\ <<m, r>> \in acted
                           /\ msg[m].step \in {"start", "engine", "stack", "push", "save"}

CopiesSound ==
  \A m, r \in Messages :
    InFlight(m) /\ msg[m].active = r => Sound(r) \/ (At(m, "start") /\ <<m, r>> \in acted)

Forgets ==
  \A m \in Messages : At(m, "route") /\ ~Direct(m) /\ msg[m].run = None => msg[m].active = None

\* A run that waits is the active one, or will be when its message saves the session.
Kept ==
  \A r \in Messages : IsLive(r) =>
    \/ session.active = r
    \/ Excused(r)
    \/ msg[r].step \in {"stack", "push", "save"} /\ msg[r].active = r

\* A message keeps the active run s, or is about to put on the stack that it comes from s.
Minds(m, s) ==
  /\ msg[m].step \in {"look", "route", "cancel", "switch", "resume", "engine", "save"}
       => msg[m].active = s
  /\ msg[m].step \in {"start", "stack", "push"} => Direct(m) /\ msg[m].from = s

Minded ==
  \A s \in Messages : session.active = s /\ IsLive(s) /\ ~Excused(s) =>
    \A m \in Messages : Minds(m, s)

Care ==
  /\ Together /\ CanBeCancelled /\ (\A m \in Messages : Unborn(m)) /\ EngineActs
  /\ ActiveSound /\ CopiesSound /\ Forgets /\ Kept /\ Minded

-----------------------------------------------------------------------------
(* What a step of message m does, as far as Care is concerned.             *)

Frame(m) == \A q \in Messages : q # m => msg'[q] = msg[q]

Becomes(m, step, active) ==
  Frame(m) /\ msg'[m].step = step /\ msg'[m].active = active

Retains(m) == msg'[m].wanted = msg[m].wanted /\ msg'[m].from = msg[m].from

Comes(m) ==
  /\ At(m, "off") /\ Becomes(m, "load", None)
  /\ met' = IF Others(m) = {} THEN met ELSE met \cup {m} \cup Others(m)
  /\ UNCHANGED <<session, runs, stack, touched, acted>>

Loads(m) ==
  /\ At(m, "load") /\ Becomes(m, "look", session.active) /\ Retains(m)
  /\ UNCHANGED <<session, runs, stack, met, touched, acted>>

Looks(m) ==
  /\ At(m, "look") /\ Retains(m) /\ msg'[m].run = Snapshot(msg[m].active)
  /\ Becomes(m, "route", IF msg'[m].run = None /\ ~Direct(m) THEN None ELSE msg[m].active)
  /\ UNCHANGED <<session, runs, stack, met, touched, acted>>

Decides(m, step) ==
  /\ At(m, "route") /\ Becomes(m, step, msg[m].active) /\ msg'[m].wanted = msg[m].wanted
  /\ session'.active = session.active \/ (session'.active = msg[m].active /\ step = "save")
  /\ step = "start" => \/ Direct(m) /\ msg'[m].from = msg[m].active
                       \/ ~Direct(m) /\ msg[m].run = None
  /\ UNCHANGED <<runs, stack, met, touched, acted>>

Cancels(m, r) ==
  /\ At(m, "cancel") \/ At(m, "switch")
  /\ msg[m].active = r /\ runs[r] # None /\ Retains(m)
  /\ At(m, "cancel") => Becomes(m, "save", None)
  /\ At(m, "switch") => Becomes(m, "start", r)
  /\ runs' = [runs EXCEPT ![r] = Cancelled(@)] /\ acted' = acted \cup {<<m, r>>}
  /\ UNCHANGED <<session, stack, met, touched>>

Resumes(m, r) ==
  /\ At(m, "resume") /\ msg[m].active = r /\ runs[r] # None /\ Retains(m)
  /\ IsLive(r) => Becomes(m, "engine", r) /\ msg'[m].run = runs[r]
  /\ ~IsLive(r) => Becomes(m, "save", None)
  /\ acted' = acted \cup {<<m, r>>}
  /\ UNCHANGED <<session, runs, stack, met, touched>>

Ends(m, r, status) ==
  /\ At(m, "engine") /\ msg[m].active = r /\ Retains(m)
  /\ Becomes(m, "save", IF status \in Live THEN r ELSE None)
  /\ runs' = [runs EXCEPT ![r] = [msg[m].run EXCEPT !.status = status]]
  /\ UNCHANGED <<session, stack, met, touched, acted>>

Starts(m, status) ==
  /\ At(m, "start") /\ Retains(m)
  /\ Becomes(m, "stack", IF status \in Live THEN m ELSE None)
  /\ \A r \in Messages : r # m => runs'[r] = runs[r]
  /\ runs'[m] # None /\ runs'[m].status = status /\ runs'[m].cancellable = (status \in Live)
  /\ UNCHANGED <<session, stack, met, touched, acted>>

Pushes(m) ==
  /\ \/ At(m, "stack") /\ Becomes(m, "push", msg[m].active) /\ Retains(m) /\ UNCHANGED stack
     \/ /\ At(m, "push") /\ Becomes(m, "save", msg[m].active)
        /\ stack' = Append(stack, [run |-> m, from |-> msg[m].from, direct |-> Direct(m)])
  /\ UNCHANGED <<session, runs, met, touched, acted>>

Saves(m) ==
  /\ At(m, "save") /\ Becomes(m, "record", msg[m].active)
  /\ session'.active = msg[m].active
  /\ UNCHANGED <<runs, stack, met, touched, acted>>

Leaves(m) ==
  /\ \/ At(m, "record") /\ Becomes(m, "done", None)
     \/ InFlight(m) /\ Becomes(m, "failed", None)
  /\ UNCHANGED <<session, runs, stack, met, touched, acted>>

\* Others make no run wait, and touch what they change.
Meddles ==
  /\ UNCHANGED <<session, stack, msg, met, acted>>
  /\ touched \subseteq touched'
  /\ \A r \in Messages :
       \/ runs'[r] = runs[r]
       \/ r \in touched' /\ ~IsLive(r)' /\ runs[r] # None

\* Every step is one of these.
Deed(m) ==
  \/ Comes(m) \/ Loads(m) \/ Looks(m)
  \/ \E step \in {"resume", "save", "cancel", "switch", "start"} : Decides(m, step)
  \/ \E r \in Messages : Cancels(m, r) \/ Resumes(m, r)
  \/ \E r \in Messages, status \in Statuses : Ends(m, r, status)
  \/ \E status \in Statuses : Starts(m, status)
  \/ Pushes(m) \/ Saves(m) \/ Leaves(m)

LEMMA Changed ==
  ASSUME IInv, NEW m \in Messages, NEW l, Set(m, l)
  PROVE  msg'[m] = l /\ Frame(m)
  BY DEF IInv, TypeOK, Set, Frame

LEMMA ReadingDeeds ==
  ASSUME IInv, NEW m \in Messages
  PROVE  /\ Receive(m) => Comes(m)
         /\ Load(m) => Loads(m)
         /\ Look(m) => Looks(m)
<1> USE DEF stored, world, history
<1>0. msg[m] \in Locals
  BY DEF IInv, TypeOK
<1>1. ASSUME Receive(m) PROVE Comes(m)
  <2>1. PICK w : Set(m, [Idle EXCEPT !.step = "load", !.wanted = w])
    BY <1>1 DEF Receive
  <2>2. msg'[m] = [Idle EXCEPT !.step = "load", !.wanted = w] /\ Frame(m)
    BY <2>1, Changed
  <2> QED BY <1>1, <2>2 DEF Receive, Comes, Becomes, Idle
<1>2. ASSUME Load(m) PROVE Loads(m)
  <2>1. /\ msg'[m] = [msg[m] EXCEPT !.step = "look", !.active = session.active,
                                    !.turns = session.turns]
        /\ Frame(m)
    BY <1>2, Changed DEF Load
  <2> QED BY <1>0, <1>2, <2>1 DEF Load, Loads, Becomes, Retains, Locals
<1>3. ASSUME Look(m) PROVE Looks(m)
  <2>1. /\ msg'[m] = [msg[m] EXCEPT !.step = "route", !.run = Snapshot(msg[m].active),
                            !.active = IF Snapshot(msg[m].active) = None /\ ~Direct(m)
                                       THEN None ELSE msg[m].active,
                            !.last = IF Direct(m) THEN None ELSE LatestSwitch]
        /\ Frame(m)
    BY <1>0, <1>3, Changed DEF Look, Locals
  <2> HIDE DEF Snapshot
  <2> QED BY <1>0, <1>3, <2>1 DEF Look, Looks, Becomes, Retains, Locals
<1> QED BY <1>1, <1>2, <1>3

LEMMA Decision ==
  ASSUME IInv, NEW m \in Messages, NEW act, NEW target, NEW from, NEW turns, NEW step,
         Decide(m, act, target, from, turns, step)
  PROVE  /\ Becomes(m, step, msg[m].active) /\ msg'[m].wanted = msg[m].wanted
         /\ msg'[m].from = from
<1>1. /\ msg'[m] = [msg[m] EXCEPT !.step = step, !.act = act, !.target = target, !.from = from,
                                  !.turns = turns, !.run = None, !.last = None,
                                  !.at = IF act = "switch" THEN now ELSE 0]
      /\ Frame(m)
  BY Changed DEF Decide
<1>2. msg[m] \in Locals
  BY DEF IInv, TypeOK
<1> QED BY <1>1, <1>2 DEF Becomes, Locals

LEMMA DecidingDeeds ==
  ASSUME IInv, NEW m \in Messages,
         \/ DecideDirect(m) \/ Operator(m) \/ Cancel(m) \/ Clarify(m)
         \/ NoTarget(m) \/ StartNew(m) \/ Continue(m) \/ Switch(m)
  PROVE  \E step \in {"resume", "save", "cancel", "switch", "start"} : Decides(m, step)
<1> USE DEF stored, world, history, Routed, Settled
<1>1. CASE DecideDirect(m)
  <2>1. \/ Decide(m, "other", None, None, 0, "resume")
        \/ Decide(m, "other", msg[m].wanted, msg[m].active, 0, "start")
    BY <1>1 DEF DecideDirect
  <2>2. Decides(m, "resume") \/ Decides(m, "start")
    BY <1>1, <2>1, Decision DEF DecideDirect, Decides
  <2> QED BY <2>2
<1>2. CASE Operator(m)
  <2>1. Decides(m, "save")
    BY <1>2, Decision DEF Operator, Decides
  <2> QED BY <2>1
<1>3. CASE Cancel(m)
  <2>1. \/ Decide(m, "cancel", None, None, msg[m].turns, "cancel")
        \/ Decide(m, "cancel", None, None, msg[m].turns, "save")
    BY <1>3 DEF Cancel
  <2>2. Decides(m, "cancel") \/ Decides(m, "save")
    BY <1>3, <2>1, Decision DEF Cancel, Decides
  <2> QED BY <2>2
<1>4. CASE Clarify(m)
  <2>1. session'.active = msg[m].active
    BY <1>4 DEF Clarify, SaveSessionState
  <2>2. Decides(m, "save")
    BY <1>4, <2>1, Decision DEF Clarify, Decides
  <2> QED BY <2>2
<1>5. CASE NoTarget(m)
  <2>1. Decides(m, "save")
    BY <1>5, Decision DEF NoTarget, Decides
  <2> QED BY <2>1
<1>6. CASE StartNew(m)
  <2>1. PICK w : Decide(m, "other", w, None, 0, "start")
    BY <1>6 DEF StartNew
  <2>2. Decides(m, "start")
    BY <1>6, <2>1, Decision DEF StartNew, Decides
  <2> QED BY <2>2
<1>7. CASE Continue(m)
  <2>1. Decides(m, "resume")
    BY <1>7, Decision DEF Continue, Decides
  <2> QED BY <2>1
<1>8. CASE Switch(m)
  <2>1. PICK w : \/ Decide(m, "switch", w, msg[m].active, 0, "switch")
                 \/ Decide(m, "other", None, None, 0, "save")
    BY <1>8 DEF Switch
  <2>2. Decides(m, "switch") \/ Decides(m, "save")
    BY <1>8, <2>1, Decision DEF Switch, Decides
  <2> QED BY <2>2
<1> QED BY <1>1, <1>2, <1>3, <1>4, <1>5, <1>6, <1>7, <1>8

LEMMA AdapterDeeds ==
  ASSUME IInv, EngineActs, NEW m \in Messages
  PROVE  /\ AdapterCancel(m) => \E r \in Messages : Cancels(m, r)
         /\ AdapterResume(m) => \E r \in Messages : Resumes(m, r)
         /\ Resumed(m) => \E r \in Messages, status \in Statuses : Ends(m, r, status)
         /\ AdapterStart(m) => \E status \in Statuses : Starts(m, status)
<1> USE DEF stored, world, history
<1> DEFINE r == msg[m].active
<1>0. /\ msg[m] \in Locals /\ r \in Messages \cup {None}
      /\ runs \in [Messages -> Runs \cup {None}] /\ acted \subseteq Messages \X Messages
  BY DEF IInv, TypeOK, Locals
<1>1. ASSUME AdapterCancel(m) PROVE Cancels(m, r) /\ r \in Messages
  <2>1. CASE At(m, "cancel")
    <3>1. msg'[m] = [msg[m] EXCEPT !.step = "save", !.active = None] /\ Frame(m)
      BY <1>1, <2>1, Changed DEF AdapterCancel
    <3> QED BY <1>0, <1>1, <2>1, <3>1 DEF AdapterCancel, Cancels, Becomes, Retains, Locals, At
  <2>2. CASE ~At(m, "cancel")
    <3>1. At(m, "switch") /\ msg'[m] = [msg[m] EXCEPT !.step = "start"] /\ Frame(m)
      BY <1>1, <2>2, Changed DEF AdapterCancel, Goto
    <3> QED BY <1>0, <1>1, <2>2, <3>1 DEF AdapterCancel, Cancels, Becomes, Retains, Locals
  <2> QED BY <2>1, <2>2
<1>2. ASSUME AdapterResume(m) PROVE Resumes(m, r) /\ r \in Messages
  <2>1. CASE runs[r].status = "WAITING_FOR_INPUT"
    <3>1. msg'[m] = [msg[m] EXCEPT !.step = "engine", !.run = runs[r]] /\ Frame(m)
      BY <1>2, <2>1, Changed DEF AdapterResume
    <3> QED BY <1>0, <1>2, <2>1, <3>1
            DEF AdapterResume, Resumes, Becomes, Retains, Locals, IsLive, Live
  <2>2. CASE runs[r].status # "WAITING_FOR_INPUT"
    <3>1. msg'[m] = [msg[m] EXCEPT !.step = "save", !.active = None] /\ Frame(m)
      BY <1>2, <2>2, Changed DEF AdapterResume, ActiveAfter, Live
    <3> QED BY <1>0, <1>2, <2>2, <3>1
            DEF AdapterResume, Resumes, Becomes, Retains, Locals, IsLive, Live
  <2> QED BY <2>1, <2>2
<1>3. ASSUME Resumed(m)
      PROVE  \E status \in Statuses : Ends(m, r, status) /\ r \in Messages
  <2>1. PICK status \in Statuses \ {"CANCELLED"} :
          /\ runs' = [runs EXCEPT ![r] = [msg[m].run EXCEPT !.status = status]]
          /\ Set(m, [msg[m] EXCEPT !.step = "save", !.active = ActiveAfter(r, status),
                                   !.run = None])
    BY <1>3 DEF Resumed
  <2>2. /\ msg'[m] = [msg[m] EXCEPT !.step = "save", !.active = ActiveAfter(r, status),
                                    !.run = None]
        /\ Frame(m)
    BY <2>1, Changed
  <2>3. r \in Messages
    BY <1>0, <1>3 DEF Resumed, EngineActs
  <2> QED BY <1>0, <1>3, <2>1, <2>2, <2>3
          DEF Resumed, Ends, Becomes, Retains, Locals, ActiveAfter
<1>4. ASSUME AdapterStart(m) PROVE \E status \in Statuses : Starts(m, status)
  <2>1. PICK status \in Statuses \ {"CANCELLED"} :
          /\ runs' = [runs EXCEPT ![m] = [workflow |-> msg[m].target, status |-> status,
                                          cancellable |-> status \in Live]]
          /\ Set(m, [msg[m] EXCEPT !.step = "stack", !.active = ActiveAfter(m, status),
                                   !.target = None])
    BY <1>4 DEF AdapterStart
  <2>2. /\ msg'[m] = [msg[m] EXCEPT !.step = "stack", !.active = ActiveAfter(m, status),
                                    !.target = None]
        /\ Frame(m)
    BY <2>1, Changed
  <2>3. [workflow |-> msg[m].target, status |-> status, cancellable |-> status \in Live] \in Runs
    BY <1>4 DEF AdapterStart, IInv, TypeOK, Runs
  <2> QED BY <1>0, <1>4, <2>1, <2>2, <2>3, NoneAssumption
          DEF AdapterStart, Starts, Becomes, Retains, Locals, ActiveAfter
<1> QED BY <1>1, <1>2, <1>3, <1>4

LEMMA ClosingDeeds ==
  ASSUME IInv, NEW m \in Messages
  PROVE  /\ ReadIndex(m) \/ PushStack(m) => Pushes(m)
         /\ SaveSession(m) => Saves(m)
         /\ SaveDecision(m) \/ SaveDirect(m) \/ MessageFails(m) => Leaves(m)
<1> USE DEF stored, world, history
<1>0. msg[m] \in Locals
  BY DEF IInv, TypeOK
<1>1. ASSUME ReadIndex(m) PROVE Pushes(m)
  <2>1. msg'[m] = [msg[m] EXCEPT !.step = "push", !.index = Len(stack)] /\ Frame(m)
    BY <1>1, Changed DEF ReadIndex
  <2> QED BY <1>0, <1>1, <2>1 DEF ReadIndex, Pushes, Becomes, Retains, Locals
<1>2. ASSUME PushStack(m) PROVE Pushes(m)
  <2>1. msg'[m] = [msg[m] EXCEPT !.step = "save", !.from = None, !.index = 0] /\ Frame(m)
    BY <1>2, Changed DEF PushStack
  <2> QED BY <1>0, <1>2, <2>1 DEF PushStack, Pushes, Becomes, Locals
<1>3. ASSUME SaveSession(m) PROVE Saves(m)
  <2>1. msg'[m] = [msg[m] EXCEPT !.step = "record"] /\ Frame(m)
    BY <1>3, Changed DEF SaveSession, Goto
  <2>2. session'.active = msg[m].active
    BY <1>3 DEF SaveSession, SaveSessionState
  <2> QED BY <1>0, <1>3, <2>1, <2>2 DEF SaveSession, Saves, Becomes, Locals
<1>4. ASSUME SaveDecision(m) \/ SaveDirect(m) PROVE Leaves(m)
  <2>1. msg'[m] = [Idle EXCEPT !.step = "done"] /\ Frame(m)
    BY <1>4, Changed DEF SaveDecision, SaveDirect
  <2> QED BY <1>4, <2>1 DEF SaveDecision, SaveDirect, Leaves, Becomes, Idle
<1>5. ASSUME MessageFails(m) PROVE Leaves(m)
  <2>1. msg'[m] = [Idle EXCEPT !.step = "failed"] /\ Frame(m)
    BY <1>5, Changed DEF MessageFails
  <2> QED BY <1>5, <2>1 DEF MessageFails, Leaves, Becomes, Idle
<1> QED BY <1>1, <1>2, <1>3, <1>4, <1>5

LEMMA Deeds ==
  ASSUME IInv, EngineActs, NEW m \in Messages, Handle(m) \/ MessageFails(m)
  PROVE  Deed(m)
  BY ReadingDeeds, DecidingDeeds, AdapterDeeds, ClosingDeeds DEF Handle, Deed

-----------------------------------------------------------------------------
(* The steps keep Care.                                                    *)

\* What is excused stays so.
Grown ==
  \A r \in Messages : (Troubled(r) => Troubled(r)') /\ (Excused(r) => Excused(r)')

LEMMA Grows ==
  ASSUME IInv, Together, NEW m \in Messages, Deed(m)
  PROVE  Frame(m) /\ Grown /\ Together'
<1> USE DEF Becomes
<1>1. Frame(m) /\ msg[m].step # "failed"
  BY DEF Deed, Comes, Loads, Looks, Decides, Cancels, Resumes, Ends, Starts, Pushes, Saves,
         Leaves, At, InFlight
<1>2. met \subseteq met' /\ touched \subseteq touched' /\ acted \subseteq acted'
  BY DEF Deed, Comes, Loads, Looks, Decides, Cancels, Resumes, Ends, Starts, Pushes, Saves,
         Leaves
<1>3. Failed \subseteq Failed'
  BY <1>1 DEF Failed, Frame
<1>4. \A k \in DOMAIN stack : k \in DOMAIN stack' /\ stack'[k] = stack[k]
  <2>1. stack \in Seq(Entries)
    BY DEF IInv, TypeOK
  <2>2. stack' = stack \/ \E e : stack' = Append(stack, e)
    BY DEF Deed, Comes, Loads, Looks, Decides, Cancels, Resumes, Ends, Starts, Pushes, Saves,
           Leaves
  <2>3. ASSUME NEW e PROVE \A k \in DOMAIN stack : /\ k \in DOMAIN Append(stack, e)
                                                   /\ Append(stack, e)[k] = stack[k]
    BY <2>1
  <2> QED BY <2>2, <2>3
<1>5. \A r \in Messages : Troubled(r) => Troubled(r)'
  BY <1>2, <1>3 DEF Troubled, Disturbed
<1>6. \A r \in Messages : LeftBehind(r) => LeftBehind(r)'
  BY <1>4 DEF LeftBehind
<1>7. Grown
  BY <1>5, <1>6 DEF Grown, Excused
<1>8. Together'
  <2>1. CASE Comes(m)
    BY <1>1, <2>1 DEF Comes, Together, InFlight, Frame, Others
  <2>2. CASE ~Comes(m)
    <3>1. InFlight(m)
      BY <2>2 DEF Deed, Loads, Looks, Decides, Cancels, Resumes, Ends, Starts, Pushes, Saves,
                  Leaves, At, InFlight
    <3> QED BY <1>1, <1>2, <3>1 DEF Together, InFlight, Frame
  <2> QED BY <2>1, <2>2
<1> QED BY <1>1, <1>7, <1>8

\* Among several messages at work, what one of them has done is excused.
LEMMA Company ==
  ASSUME Together, NEW m \in Messages, NEW q \in Messages, m # q, InFlight(m), InFlight(q)
  PROVE  /\ Troubled(m) /\ Troubled(q) /\ Excused(m) /\ Excused(q)
         /\ \A r \in Messages : <<m, r>> \in acted => Troubled(r) /\ Excused(r)
  BY DEF Together, Troubled, Disturbed, Excused

LEMMA ComesStep ==
  ASSUME IInv, Care, NEW m \in Messages, Comes(m)
  PROVE  Care'
<1>0. Frame(m) /\ Grown /\ Together' /\ None \notin Messages
  BY Grows, RoutingAssumption DEF Deed, Care
<1>1. CanBeCancelled'
  BY <1>0
  DEF Care, Grown, Frame, Comes, Becomes, Retains, At, InFlight, CanBeCancelled, IsLive
<1>2. \A r \in Messages : Unborn(r)'
  BY <1>0
  DEF Care, Grown, Frame, Comes, Becomes, Retains, At, InFlight, Unborn
<1>3. EngineActs'
  BY <1>0
  DEF Care, Grown, Frame, Comes, Becomes, Retains, At, InFlight, EngineActs
<1>4. ActiveSound'
  BY <1>0
  DEF Care, Grown, Frame, Comes, Becomes, Retains, At, InFlight, ActiveSound, Sound, IsLive
<1>5. CopiesSound'
  BY <1>0
  DEF Care, Grown, Frame, Comes, Becomes, Retains, At, InFlight, CopiesSound, Sound, IsLive
<1>6. Forgets'
  BY <1>0
  DEF Care, Grown, Frame, Comes, Becomes, Retains, At, InFlight, Forgets, Direct
<1>7. Kept'
  BY <1>0
  DEF Care, Grown, Frame, Comes, Becomes, Retains, At, InFlight, Kept, IsLive
<1>8. Minded'
  BY <1>0
  DEF Care, Grown, Frame, Comes, Becomes, Retains, At, InFlight, Minded, Minds, IsLive, Direct
<1> QED BY <1>0, <1>1, <1>2, <1>3, <1>4, <1>5, <1>6, <1>7, <1>8 DEF Care

LEMMA LoadsStep ==
  ASSUME IInv, Care, NEW m \in Messages, Loads(m)
  PROVE  Care'
<1>0. Frame(m) /\ Grown /\ Together' /\ None \notin Messages
  BY Grows, RoutingAssumption DEF Deed, Care
<1>1. CanBeCancelled'
  BY <1>0
  DEF Care, Grown, Frame, Loads, Becomes, Retains, At, InFlight, CanBeCancelled, IsLive
<1>2. \A r \in Messages : Unborn(r)'
  BY <1>0
  DEF Care, Grown, Frame, Loads, Becomes, Retains, At, InFlight, Unborn
<1>3. EngineActs'
  BY <1>0
  DEF Care, Grown, Frame, Loads, Becomes, Retains, At, InFlight, EngineActs
<1>4. ActiveSound'
  BY <1>0
  DEF Care, Grown, Frame, Loads, Becomes, Retains, At, InFlight, ActiveSound, Sound, IsLive
<1>5. CopiesSound'
  <2>1. ASSUME NEW r \in Messages, session.active = r PROVE Sound(r)
    <3>1. CASE Sound(r)
      BY <3>1
    <3>2. CASE ~Sound(r)
      <4>1. PICK q \in Messages : /\ <<q, r>> \in acted
                                 /\ msg[q].step \in {"start", "engine", "stack", "push", "save"}
        BY <2>1, <3>2 DEF Care, ActiveSound
      <4>2. q # m /\ InFlight(q) /\ InFlight(m)
        BY <4>1 DEF Loads, At, InFlight
      <4> QED BY <4>1, <4>2, Company DEF Care, Sound
    <3> QED BY <3>1, <3>2
  <2> QED BY <1>0, <2>1 DEF Care, Grown, Frame, Loads, Becomes, At, InFlight, CopiesSound, Sound,
      IsLive
<1>6. Forgets'
  BY <1>0
  DEF Care, Grown, Frame, Loads, Becomes, Retains, At, InFlight, Forgets, Direct
<1>7. Kept'
  BY <1>0
  DEF Care, Grown, Frame, Loads, Becomes, Retains, At, InFlight, Kept, IsLive
<1>8. Minded'
  BY <1>0
  DEF Care, Grown, Frame, Loads, Becomes, Retains, At, InFlight, Minded, Minds, IsLive, Direct
<1> QED BY <1>0, <1>1, <1>2, <1>3, <1>4, <1>5, <1>6, <1>7, <1>8 DEF Care

LEMMA LooksStep ==
  ASSUME IInv, Care, NEW m \in Messages, Looks(m)
  PROVE  Care'
<1>0. Frame(m) /\ Grown /\ Together' /\ None \notin Messages
  BY Grows, RoutingAssumption DEF Deed, Care
<1>1. CanBeCancelled'
  BY <1>0
  DEF Care, Grown, Frame, Looks, Snapshot, Becomes, Retains, At, InFlight, CanBeCancelled, IsLive
<1>2. \A r \in Messages : Unborn(r)'
  BY <1>0
  DEF Care, Grown, Frame, Looks, Snapshot, Becomes, Retains, At, InFlight, Unborn
<1>3. EngineActs'
  BY <1>0
  DEF Care, Grown, Frame, Looks, Snapshot, Becomes, Retains, At, InFlight, EngineActs
<1>4. ActiveSound'
  BY <1>0
  DEF Care, Grown, Frame, Looks, Snapshot, Becomes, Retains, At, InFlight, ActiveSound, Sound,
    IsLive
<1>5. CopiesSound'
  BY <1>0
  DEF Care, Grown, Frame, Looks, Snapshot, Becomes, Retains, At, InFlight, CopiesSound, Sound,
    IsLive
<1>6. Forgets'
  BY <1>0
  DEF Care, Grown, Frame, Looks, Snapshot, Becomes, Retains, At, InFlight, Forgets, Direct
<1>7. Kept'
  BY <1>0
  DEF Care, Grown, Frame, Looks, Snapshot, Becomes, Retains, At, InFlight, Kept, IsLive
<1>8. Minded'
  BY <1>0
  DEF Care, Grown, Frame, Looks, Snapshot, Becomes, Retains, At, InFlight, Minded, Minds, IsLive,
    Direct
<1> QED BY <1>0, <1>1, <1>2, <1>3, <1>4, <1>5, <1>6, <1>7, <1>8 DEF Care

LEMMA DecidesStep ==
  ASSUME IInv, Care, NEW m \in Messages, NEW step \in {"resume", "save", "cancel", "switch", "start"},
         Decides(m, step)
  PROVE  Care'
<1>0. Frame(m) /\ Grown /\ Together' /\ None \notin Messages
  BY Grows, RoutingAssumption DEF Deed, Care
<1>1. CanBeCancelled'
  BY <1>0
  DEF Care, Grown, Frame, Decides, Becomes, Retains, At, InFlight, CanBeCancelled, IsLive
<1>2. \A r \in Messages : Unborn(r)'
  BY <1>0
  DEF Care, Grown, Frame, Decides, Becomes, Retains, At, InFlight, Unborn
<1>3. EngineActs'
  BY <1>0
  DEF Care, Grown, Frame, Decides, Becomes, Retains, At, InFlight, EngineActs
<1>4. ActiveSound'
  <2>1. ASSUME NEW r \in Messages, session'.active = r
        PROVE  \/ Sound(r)
               \/ \E q \in Messages :
                    /\ q # m /\ <<q, r>> \in acted
                    /\ msg[q].step \in {"start", "engine", "stack", "push", "save"}
    BY <2>1 DEF Care, ActiveSound, CopiesSound, Decides, At, InFlight
  <2> QED BY <1>0, <2>1 DEF Grown, Frame, Decides, ActiveSound, Sound, IsLive
<1>5. CopiesSound'
  BY <1>0
  DEF Care, Grown, Frame, Decides, Becomes, Retains, At, InFlight, CopiesSound, Sound, IsLive
<1>6. Forgets'
  BY <1>0
  DEF Care, Grown, Frame, Decides, Becomes, Retains, At, InFlight, Forgets, Direct
<1>7. Kept'
  <2>1. ASSUME NEW r \in Messages, IsLive(r), ~Excused(r), session.active = r
        PROVE  session'.active = r
    BY <2>1 DEF Care, Minded, Minds, Decides, At
  <2>2. ASSUME NEW r \in Messages, msg[r].step \in {"stack", "push", "save"}, msg[r].active = r
        PROVE  msg'[r] = msg[r]
    BY <1>0, <2>2 DEF Frame, Decides, At
  <2> QED BY <1>0, <2>1, <2>2 DEF Care, Grown, Decides, Kept, IsLive
<1>8. Minded'
  <2> SUFFICES ASSUME NEW s \in Messages, session'.active = s, IsLive(s)', ~Excused(s)',
                      NEW q \in Messages
               PROVE  Minds(q, s)'
    BY DEF Minded
  <2>1. IsLive(s) /\ ~Excused(s)
    BY <1>0 DEF Grown, Decides, IsLive
  <2>2. session.active = s
    <3>1. CASE msg[m].active = s
      <4>1. CASE msg[s].step \in {"stack", "push", "save"}
        <5>1. s # m /\ InFlight(s) /\ InFlight(m)
          BY <4>1 DEF Decides, At, InFlight
        <5> QED BY <2>1, <5>1, Company DEF Care
      <4>2. CASE msg[s].step \notin {"stack", "push", "save"}
        BY <2>1, <4>2 DEF Care, Kept
      <4> QED BY <4>1, <4>2
    <3>2. CASE msg[m].active # s
      BY <3>2 DEF Decides
    <3> QED BY <3>1, <3>2
  <2>3. Minds(q, s)
    BY <2>1, <2>2 DEF Care, Minded
  <2>4. CASE q # m
    BY <1>0, <2>3, <2>4 DEF Frame, Minds, Direct
  <2>5. CASE q = m
    BY <1>0, <2>3, <2>5 DEF Care, Forgets, Decides, Becomes, At, Minds, Direct
  <2> QED BY <2>4, <2>5
<1> QED BY <1>0, <1>1, <1>2, <1>3, <1>4, <1>5, <1>6, <1>7, <1>8 DEF Care

LEMMA CancelsStep ==
  ASSUME IInv, Care, NEW m \in Messages, NEW r \in Messages, Cancels(m, r)
  PROVE  Care'
<1>0. Frame(m) /\ Grown /\ Together' /\ None \notin Messages
  BY Grows, RoutingAssumption DEF Deed, Care
<1>1. ~IsLive(r)' /\ <<m, r>> \in acted' /\ \A x \in Messages : x # r => runs'[x] = runs[x]
  <2>1. runs[r] \in Runs /\ runs \in [Messages -> Runs \cup {None}]
    BY DEF Cancels, IInv, TypeOK
  <2>2. runs[r].status \in Live => runs[r].cancellable
    BY DEF Cancels, Care, CanBeCancelled, IsLive
  <2>3. runs'[r] = Cancelled(runs[r]) /\ \A x \in Messages : x # r => runs'[x] = runs[x]
    BY <2>1 DEF Cancels
  <2>4. Cancelled(runs[r]).status \notin Live
    BY <2>1, <2>2 DEF Cancelled, Runs, Live
  <2> QED BY <2>3, <2>4 DEF IsLive, Cancels
<1>2. CanBeCancelled'
  BY <1>0, <1>1
  DEF Care, Grown, Frame, Cancels, Becomes, Retains, At, InFlight, CanBeCancelled, IsLive
<1>3. \A q \in Messages : Unborn(q)'
  BY <1>0
  DEF Care, Grown, Frame, Cancels, Becomes, Retains, At, InFlight, Unborn
<1>4. EngineActs'
  BY <1>0
  DEF Care, Grown, Frame, Cancels, Becomes, Retains, At, InFlight, EngineActs
<1>5. ActiveSound'
  BY <1>0
  DEF Care, Grown, Frame, Cancels, Becomes, Retains, At, InFlight, ActiveSound, Sound, IsLive
<1>6. CopiesSound'
  <2>1. ASSUME NEW q \in Messages, q # m, InFlight(q) PROVE Troubled(r)'
    <3>1. m \in met
      BY <2>1 DEF Care, Together, Cancels, At, InFlight
    <3> QED BY <1>1, <3>1 DEF Troubled, Disturbed, Cancels
  <2>2. ASSUME NEW q \in Messages, q # m, InFlight(q), NEW x \in Messages, msg[q].active = x
        PROVE  Sound(x)' \/ (At(q, "start") /\ <<q, x>> \in acted)
    BY <1>0, <1>1, <2>1, <2>2 DEF Care, CopiesSound, Sound, IsLive, Grown
  <2>3. acted \subseteq acted'
    BY DEF Cancels
  <2> QED BY <1>0, <1>1, <2>2, <2>3 DEF CopiesSound, Cancels, Becomes, Frame, At, InFlight
<1>7. Forgets'
  BY <1>0
  DEF Care, Grown, Frame, Cancels, Becomes, Retains, At, InFlight, Forgets, Direct
<1>8. Kept'
  BY <1>0, <1>1
  DEF Care, Grown, Frame, Cancels, Becomes, Retains, At, InFlight, Kept, IsLive
<1>9. Minded'
  BY <1>0, <1>1
  DEF Care, Grown, Frame, Cancels, Becomes, Retains, At, InFlight, Minded, Minds, IsLive, Direct
<1> QED BY <1>0, <1>2, <1>3, <1>4, <1>5, <1>6, <1>7, <1>8, <1>9 DEF Care

LEMMA ResumesStep ==
  ASSUME IInv, Care, NEW m \in Messages, NEW r \in Messages, Resumes(m, r)
  PROVE  Care'
<1>0. Frame(m) /\ Grown /\ Together' /\ None \notin Messages
  BY Grows, RoutingAssumption DEF Deed, Care
<1>1. CanBeCancelled'
  BY <1>0
  DEF Care, Grown, Frame, Resumes, Becomes, Retains, At, InFlight, CanBeCancelled, IsLive
<1>2. \A q \in Messages : Unborn(q)'
  BY <1>0
  DEF Care, Grown, Frame, Resumes, Becomes, Retains, At, InFlight, Unborn
<1>3. EngineActs'
  BY <1>0
  DEF Care, Grown, Frame, Resumes, Becomes, Retains, At, InFlight, EngineActs
<1>4. ActiveSound'
  BY <1>0
  DEF Care, Grown, Frame, Resumes, Becomes, Retains, At, InFlight, ActiveSound, Sound, IsLive
<1>5. CopiesSound'
  BY <1>0
  DEF Care, Grown, Frame, Resumes, Becomes, Retains, At, InFlight, CopiesSound, Sound, IsLive
<1>6. Forgets'
  BY <1>0
  DEF Care, Grown, Frame, Resumes, Becomes, Retains, At, InFlight, Forgets, Direct
<1>7. Kept'
  BY <1>0
  DEF Care, Grown, Frame, Resumes, Becomes, Retains, At, InFlight, Kept, IsLive
<1>8. Minded'
  BY <1>0
  DEF Care, Grown, Frame, Resumes, Becomes, Retains, At, InFlight, Minded, Minds, IsLive, Direct
<1> QED BY <1>0, <1>1, <1>2, <1>3, <1>4, <1>5, <1>6, <1>7, <1>8 DEF Care

LEMMA EndsStep ==
  ASSUME IInv, Care, NEW m \in Messages, NEW r \in Messages, NEW status \in Statuses, Ends(m, r, status)
  PROVE  Care'
<1>0. Frame(m) /\ Grown /\ Together' /\ None \notin Messages
  BY Grows, RoutingAssumption DEF Deed, Care
<1>1. /\ IsLive(r)' <=> status \in Live
      /\ <<m, r>> \in acted /\ \A x \in Messages : x # r => runs'[x] = runs[x]
  <2>1. msg[m].run \in Runs /\ runs \in [Messages -> Runs \cup {None}]
    BY DEF Ends, IInv, TypeOK, Knows, At, Locals
  <2>2. runs'[r] = [msg[m].run EXCEPT !.status = status] /\ None \notin Runs
        /\ \A x \in Messages : x # r => runs'[x] = runs[x]
    BY <2>1, NoneAssumption DEF Ends
  <2>3. [msg[m].run EXCEPT !.status = status] \in Runs
    BY <2>1 DEF Runs
  <2>4. [msg[m].run EXCEPT !.status = status].status = status
    BY <2>1 DEF Runs
  <2>5. <<m, r>> \in acted
    BY DEF Care, EngineActs, Ends
  <2> QED BY <2>2, <2>3, <2>4, <2>5 DEF IsLive
<1>2. IsLive(r) \/ Troubled(r)
  BY DEF Care, CopiesSound, Ends, At, InFlight, Sound
<1>3. CanBeCancelled'
  BY <1>0
  DEF Care, Grown, Frame, Ends, Becomes, Retains, At, InFlight, CanBeCancelled, IsLive
<1>4. \A q \in Messages : Unborn(q)'
  BY <1>0
  DEF Care, Grown, Frame, Ends, Becomes, Retains, At, InFlight, Unborn
<1>5. EngineActs'
  BY <1>0
  DEF Care, Grown, Frame, Ends, Becomes, Retains, At, InFlight, EngineActs
<1>6. ActiveSound'
  BY <1>0, <1>1, <1>2
  DEF Care, Grown, Frame, Ends, Becomes, Retains, At, InFlight, ActiveSound, Sound, IsLive
<1>7. CopiesSound'
  <2>1. ASSUME NEW q \in Messages, q # m, InFlight(q) PROVE Troubled(r)
    <3>1. InFlight(m)
      BY DEF Ends, At, InFlight
    <3> QED BY <1>1, <2>1, <3>1, Company DEF Care
  <2>2. ASSUME NEW q \in Messages, q # m, InFlight(q), NEW x \in Messages, msg[q].active = x
        PROVE  Sound(x)' \/ (At(q, "start") /\ <<q, x>> \in acted)
    BY <1>0, <1>1, <2>1, <2>2 DEF Care, CopiesSound, Sound, IsLive, Grown
  <2> QED BY <1>0, <1>1, <2>2 DEF CopiesSound, Ends, Becomes, Frame, At, InFlight, Sound
<1>8. Forgets'
  BY <1>0
  DEF Care, Grown, Frame, Ends, Becomes, Retains, At, InFlight, Forgets, Direct
<1>9. Kept'
  <2> SUFFICES ASSUME NEW x \in Messages, IsLive(x)', ~Excused(x)'
               PROVE  \/ session'.active = x
                      \/ msg'[x].step \in {"stack", "push", "save"} /\ msg'[x].active = x
    BY DEF Kept
  <2>1. IsLive(x) /\ ~Excused(x)
    BY <1>0, <1>1, <1>2 DEF Grown, Excused, IsLive
  <2> QED BY <1>0, <2>1 DEF Care, Kept, Frame, Ends, At
<1>10. Minded'
  <2> SUFFICES ASSUME NEW s \in Messages, session'.active = s, IsLive(s)', ~Excused(s)',
                      NEW q \in Messages
               PROVE  Minds(q, s)'
    BY DEF Minded
  <2>1. IsLive(s) /\ ~Excused(s) /\ session.active = s
    BY <1>0, <1>1, <1>2 DEF Grown, Excused, IsLive, Ends
  <2>2. Minds(q, s)
    BY <2>1 DEF Care, Minded
  <2>3. CASE q # m
    BY <1>0, <2>2, <2>3 DEF Frame, Minds, Direct
  <2>4. CASE q = m
    <3>1. r = s /\ status \in Live
      BY <1>1, <2>2, <2>4 DEF Minds, Ends, At
    <3> QED BY <2>4, <3>1 DEF Ends, Becomes, Minds
  <2> QED BY <2>3, <2>4
<1> QED BY <1>0, <1>3, <1>4, <1>5, <1>6, <1>7, <1>8, <1>9, <1>10 DEF Care

LEMMA StartsStep ==
  ASSUME IInv, Care, NEW m \in Messages, NEW status \in Statuses, Starts(m, status)
  PROVE  Care'
<1>0. Frame(m) /\ Grown /\ Together' /\ None \notin Messages
  BY Grows, RoutingAssumption DEF Deed, Care
<1>1. /\ IsLive(m)' <=> status \in Live
      /\ session.active # m /\ \A q \in Messages : msg[q].active # m
  BY DEF Care, Unborn, Starts, At, IsLive
<1>2. CanBeCancelled'
  BY <1>0
  DEF Care, Grown, Frame, Starts, Becomes, Retains, At, InFlight, CanBeCancelled, IsLive
<1>3. \A r \in Messages : Unborn(r)'
  BY <1>0
  DEF Care, Grown, Frame, Starts, Becomes, Retains, At, InFlight, Unborn
<1>4. EngineActs'
  BY <1>0
  DEF Care, Grown, Frame, Starts, Becomes, Retains, At, InFlight, EngineActs
<1>5. ActiveSound'
  BY <1>0, <1>1
  DEF Care, Grown, Frame, Starts, Becomes, Retains, At, InFlight, ActiveSound, Sound, IsLive
<1>6. CopiesSound'
  BY <1>0, <1>1
  DEF Care, Grown, Frame, Starts, Becomes, Retains, At, InFlight, CopiesSound, Sound, IsLive
<1>7. Forgets'
  BY <1>0
  DEF Care, Grown, Frame, Starts, Becomes, Retains, At, InFlight, Forgets, Direct
<1>8. Kept'
  BY <1>0
  DEF Care, Grown, Frame, Starts, Becomes, Retains, At, InFlight, Kept, IsLive
<1>9. Minded'
  <2> SUFFICES ASSUME NEW s \in Messages, session'.active = s, IsLive(s)', ~Excused(s)',
                      NEW q \in Messages
               PROVE  Minds(q, s)'
    BY DEF Minded
  <2>1. IsLive(s) /\ ~Excused(s) /\ session.active = s
    BY <1>0, <1>1 DEF Grown, IsLive, Starts
  <2>2. Minds(q, s)
    BY <2>1 DEF Care, Minded
  <2>3. CASE q # m
    BY <1>0, <2>2, <2>3 DEF Frame, Minds, Direct
  <2>4. CASE q = m
    BY <2>2, <2>4 DEF Starts, Becomes, Retains, At, Minds, Direct
  <2> QED BY <2>3, <2>4
<1> QED BY <1>0, <1>2, <1>3, <1>4, <1>5, <1>6, <1>7, <1>8, <1>9 DEF Care

LEMMA PushesStep ==
  ASSUME IInv, Care, NEW m \in Messages, Pushes(m)
  PROVE  Care'
<1>0. Frame(m) /\ Grown /\ Together' /\ None \notin Messages
  BY Grows, RoutingAssumption DEF Deed, Care
<1>1. CanBeCancelled'
  BY <1>0
  DEF Care, Grown, Frame, Pushes, Becomes, Retains, At, InFlight, CanBeCancelled, IsLive
<1>2. \A r \in Messages : Unborn(r)'
  BY <1>0
  DEF Care, Grown, Frame, Pushes, Becomes, Retains, At, InFlight, Unborn
<1>3. EngineActs'
  BY <1>0
  DEF Care, Grown, Frame, Pushes, Becomes, Retains, At, InFlight, EngineActs
<1>4. ActiveSound'
  BY <1>0
  DEF Care, Grown, Frame, Pushes, Becomes, Retains, At, InFlight, ActiveSound, Sound, IsLive
<1>5. CopiesSound'
  BY <1>0
  DEF Care, Grown, Frame, Pushes, Becomes, Retains, At, InFlight, CopiesSound, Sound, IsLive
<1>6. Forgets'
  BY <1>0
  DEF Care, Grown, Frame, Pushes, Becomes, Retains, At, InFlight, Forgets, Direct
<1>7. Kept'
  BY <1>0
  DEF Care, Grown, Frame, Pushes, Becomes, Retains, At, InFlight, Kept, IsLive
<1>8. Minded'
  <2> SUFFICES ASSUME NEW s \in Messages, session'.active = s, IsLive(s)', ~Excused(s)',
                      NEW q \in Messages
               PROVE  Minds(q, s)'
    BY DEF Minded
  <2>1. IsLive(s) /\ ~Excused(s) /\ session.active = s
    BY <1>0 DEF Grown, IsLive, Pushes
  <2>2. Minds(q, s)
    BY <2>1 DEF Care, Minded
  <2>3. CASE q # m
    BY <1>0, <2>2, <2>3 DEF Frame, Minds, Direct
  <2>4. CASE q = m /\ At(m, "stack")
    BY <2>2, <2>4 DEF Pushes, Becomes, Retains, At, Minds, Direct
  <2>5. CASE q = m /\ ~At(m, "stack")
    <3> DEFINE e == [run |-> m, from |-> msg[m].from, direct |-> Direct(m)]
    <3>1. At(m, "push") /\ stack' = Append(stack, e)
      BY <2>5 DEF Pushes
    <3>2. e.direct /\ e.from = s
      BY <2>2, <2>5, <3>1 DEF Minds, At
    <3> HIDE DEF e
    <3>3. stack \in Seq(Entries)
      BY DEF IInv, TypeOK
    <3>4. Len(stack) + 1 \in DOMAIN stack' /\ stack'[Len(stack) + 1] = e
      BY <3>1, <3>3
    <3>5. LeftBehind(s)'
      BY <3>2, <3>4 DEF LeftBehind
    <3> QED BY <3>5 DEF Excused
  <2> QED BY <2>3, <2>4, <2>5
<1> QED BY <1>0, <1>1, <1>2, <1>3, <1>4, <1>5, <1>6, <1>7, <1>8 DEF Care

LEMMA SavesStep ==
  ASSUME IInv, Care, NEW m \in Messages, Saves(m)
  PROVE  Care'
<1>0. Frame(m) /\ Grown /\ Together' /\ None \notin Messages
  BY Grows, RoutingAssumption DEF Deed, Care
<1>1. CanBeCancelled'
  BY <1>0
  DEF Care, Grown, Frame, Saves, Becomes, Retains, At, InFlight, CanBeCancelled, IsLive
<1>2. \A r \in Messages : Unborn(r)'
  BY <1>0
  DEF Care, Grown, Frame, Saves, Becomes, Retains, At, InFlight, Unborn
<1>3. EngineActs'
  BY <1>0
  DEF Care, Grown, Frame, Saves, Becomes, Retains, At, InFlight, EngineActs
<1>4. ActiveSound'
  <2>1. ASSUME NEW r \in Messages, session'.active = r PROVE Sound(r)
    BY <2>1 DEF Care, CopiesSound, Saves, At, InFlight
  <2> QED BY <1>0, <2>1 DEF Grown, Saves, ActiveSound, Sound, IsLive
<1>5. CopiesSound'
  BY <1>0
  DEF Care, Grown, Frame, Saves, Becomes, Retains, At, InFlight, CopiesSound, Sound, IsLive
<1>6. Forgets'
  BY <1>0
  DEF Care, Grown, Frame, Saves, Becomes, Retains, At, InFlight, Forgets, Direct
<1>7. Kept'
  <2>1. ASSUME NEW r \in Messages, IsLive(r), ~Excused(r), session.active = r
        PROVE  session'.active = r
    BY <2>1 DEF Care, Minded, Minds, Saves, At
  <2>2. ASSUME NEW r \in Messages, msg[r].step \in {"stack", "push", "save"}, msg[r].active = r
        PROVE  msg'[r] = msg[r] \/ session'.active = r
    BY <1>0, <2>2 DEF Frame, Saves, At
  <2> QED BY <1>0, <2>1, <2>2 DEF Care, Grown, Saves, Kept, IsLive
<1>8. Minded'
  <2> SUFFICES ASSUME NEW s \in Messages, session'.active = s, IsLive(s)', ~Excused(s)',
                      NEW q \in Messages
               PROVE  Minds(q, s)'
    BY DEF Minded
  <2>1. IsLive(s) /\ ~Excused(s) /\ msg[m].active = s /\ InFlight(m)
    BY <1>0 DEF Grown, Saves, IsLive, InFlight, At
  <2>2. CASE q = m
    BY <2>2 DEF Saves, Becomes, Minds
  <2>3. CASE q # m /\ ~InFlight(q)
    BY <1>0, <2>3 DEF Frame, InFlight, Minds
  <2>4. CASE q # m /\ InFlight(q)
    <3>1. session.active = s
      <4>1. CASE msg[s].step \in {"stack", "push", "save"}
        <5>1. InFlight(s) /\ (s # m \/ s # q)
          BY <2>4, <4>1 DEF InFlight
        <5>2. Excused(s)
          BY <2>1, <2>4, <5>1, Company DEF Care
        <5> QED BY <2>1, <5>2
      <4>2. CASE msg[s].step \notin {"stack", "push", "save"}
        BY <2>1, <4>2 DEF Care, Kept
      <4> QED BY <4>1, <4>2
    <3>2. Minds(q, s)
      BY <2>1, <3>1 DEF Care, Minded
    <3> QED BY <1>0, <2>4, <3>2 DEF Frame, Minds, Direct
  <2> QED BY <2>2, <2>3, <2>4
<1> QED BY <1>0, <1>1, <1>2, <1>3, <1>4, <1>5, <1>6, <1>7, <1>8 DEF Care

LEMMA LeavesStep ==
  ASSUME IInv, Care, NEW m \in Messages, Leaves(m)
  PROVE  Care'
<1>0. Frame(m) /\ Grown /\ Together' /\ None \notin Messages
  BY Grows, RoutingAssumption DEF Deed, Care
<1>1. At(m, "record") \/ m \in Failed'
  BY DEF Leaves, Becomes, Failed
<1>2. m \in Failed' => Troubled(m)' /\ Excused(m)' /\ \A r \in Messages : <<m, r>> \in acted' => Troubled(r)'
  BY DEF Troubled, Disturbed, Excused
<1>3. CanBeCancelled'
  BY <1>0
  DEF Care, Grown, Frame, Leaves, Becomes, Retains, At, InFlight, CanBeCancelled, IsLive
<1>4. \A r \in Messages : Unborn(r)'
  BY <1>0
  DEF Care, Grown, Frame, Leaves, Becomes, Retains, At, InFlight, Unborn
<1>5. EngineActs'
  BY <1>0
  DEF Care, Grown, Frame, Leaves, Becomes, Retains, At, InFlight, EngineActs
<1>6. ActiveSound'
  BY <1>0, <1>1, <1>2
  DEF Care, Grown, Frame, Leaves, Becomes, Retains, At, InFlight, ActiveSound, Sound, IsLive
<1>7. CopiesSound'
  BY <1>0
  DEF Care, Grown, Frame, Leaves, Becomes, Retains, At, InFlight, CopiesSound, Sound, IsLive
<1>8. Forgets'
  BY <1>0
  DEF Care, Grown, Frame, Leaves, Becomes, Retains, At, InFlight, Forgets, Direct
<1>9. Kept'
  BY <1>0, <1>1, <1>2
  DEF Care, Grown, Frame, Leaves, Becomes, Retains, At, InFlight, Kept, IsLive
<1>10. Minded'
  BY <1>0
  DEF Care, Grown, Frame, Leaves, Becomes, Retains, At, InFlight, Minded, Minds, IsLive, Direct
<1> QED BY <1>0, <1>3, <1>4, <1>5, <1>6, <1>7, <1>8, <1>9, <1>10 DEF Care

LEMMA MeddlesStep ==
  ASSUME IInv, Care, Meddles
  PROVE  Care'
<1>1. \A r \in Messages : (Troubled(r) => Troubled(r)') /\ (Excused(r) => Excused(r)')
  BY DEF Meddles, Troubled, Disturbed, Excused, LeftBehind, Failed
<1>2. \A r \in Messages : /\ IsLive(r)' => IsLive(r)
                          /\ IsLive(r) => IsLive(r)' \/ Troubled(r)'
                          /\ runs[r] = None => runs'[r] = None
  BY DEF Meddles, IsLive, Troubled, Disturbed
<1>3. Together' /\ CanBeCancelled' /\ EngineActs' /\ Forgets'
  BY DEF Care, Meddles, Together, CanBeCancelled, EngineActs, Forgets, At, InFlight, Direct, IsLive
<1>4. \A m \in Messages : Unborn(m)'
  BY <1>2 DEF Care, Meddles, Unborn
<1>5. ActiveSound' /\ CopiesSound'
  BY <1>1, <1>2 DEF Care, Meddles, ActiveSound, CopiesSound, Sound, At, InFlight
<1>6. Kept' /\ Minded'
  BY <1>1, <1>2 DEF Care, Meddles, Kept, Minded, Minds, Direct
<1> QED BY <1>3, <1>4, <1>5, <1>6 DEF Care

LEMMA InitCare == Init => Care
<1> SUFFICES ASSUME Init PROVE Care
  OBVIOUS
<1>1. /\ \A m \in Messages : msg[m].step = "off" /\ msg[m].active = None /\ runs[m] = None
      /\ session.active = None /\ None \notin Messages
  BY RoutingAssumption DEF Init, Idle
<1> QED BY <1>1 DEF Care, Together, CanBeCancelled, Unborn, EngineActs, ActiveSound, CopiesSound,
                    Forgets, Kept, Minded, At, InFlight, IsLive

LEMMA NextCare == IInv /\ Care /\ [Next]_vars => Care'
<1> SUFFICES ASSUME IInv, Care, [Next]_vars PROVE Care'
  OBVIOUS
<1> USE DEF stored, world, history
<1>1. ASSUME NEW m \in Messages, Handle(m) \/ MessageFails(m) PROVE Care'
  <2>1. Deed(m)
    BY <1>1, Deeds DEF Care
  <2> QED BY <2>1, ComesStep, LoadsStep, LooksStep, DecidesStep, CancelsStep, ResumesStep,
             EndsStep, StartsStep, PushesStep, SavesStep, LeavesStep DEF Deed
<1>2. ASSUME NEW r \in Messages, RunChanges(r) PROVE Meddles
  <2>1. PICK s \in {"ENDED", "CANCELLED"} : runs' = [runs EXCEPT ![r].status = s]
    BY <1>2 DEF RunChanges
  <2>2. /\ runs \in [Messages -> Runs \cup {None}] /\ runs[r] # None
        /\ touched' = touched \cup {r}
        /\ UNCHANGED <<session, stack, msg, met, acted>>
    BY <1>2 DEF RunChanges, IInv, TypeOK
  <2>3. runs'[r].status = s
    <3>1. runs'[r] = [runs[r] EXCEPT !.status = s] /\ runs[r] \in Runs
      BY <2>1, <2>2
    <3> QED BY <3>1 DEF Runs
  <2> QED BY <2>1, <2>2, <2>3 DEF Meddles, IsLive, Live
<1>3. ASSUME NEW w \in registered, WorkflowDeleted(w) PROVE Meddles
  BY <1>3 DEF WorkflowDeleted, Meddles, IsLive
<1>4. ASSUME UNCHANGED vars \/ Tick PROVE Meddles
  BY <1>4 DEF vars, Tick, Meddles
<1> QED BY <1>1, <1>2, <1>3, <1>4, MeddlesStep DEF Next

LEMMA CareInvariance == Spec => []Care
  BY InitCare, NextCare, Invariance, PTL DEF Spec

\* The session never keeps as active a run that has ended or is gone, unless others changed
\* the run, or one of the messages that started, cancelled or resumed it (the workflow
\* adapter) failed or overlapped with another.
THEOREM ActiveAlive == Spec => []ActiveIsAlive
<1>1. Care /\ IInv => ActiveIsAlive
  BY DEF Care, ActiveSound, Sound, Troubled, ActiveIsAlive, AtRest, InFlight, IInv, TypeOK, Sessions
<1> QED BY <1>1, CareInvariance, Invariance, PTL

\* Messages that come one after the other and succeed strand no run: one that waits is the
\* active one, was left by a direct message, or was disturbed as above.
THEOREM StraysDisturbed == Spec => []OnlyDisturbedStray
<1>1. Care => OnlyDisturbedStray
  BY DEF Care, Kept, Excused, Troubled, LeftBehind, OnlyDisturbedStray, AtRest, InFlight
<1> QED BY <1>1, CareInvariance, PTL

-----------------------------------------------------------------------------
(* Switches: the decisions that the policy looks at, and the switch that   *)
(* was recorded last.                                                      *)

LastSwitch == switches[Len(switches)]

\* How many decisions came after the last switch.
Age == Recorded - LastSwitch.place

\* decisions are the latest ones, and the last switch is in its place among them, or too
\* old to be there.
Window ==
  /\ Len(decisions) = IF Recorded > RecentLimit THEN RecentLimit ELSE Recorded
  /\ switches = <<>> => \A i \in DOMAIN decisions : decisions[i] = None
  /\ switches # <<>> =>
       /\ LastSwitch.at <= now /\ LastSwitch.place \in 1 .. Recorded
       /\ \A i \in DOMAIN decisions : i > Len(decisions) - Age => decisions[i] = None
       /\ Age < Len(decisions) => decisions[Len(decisions) - Age] = LastSwitch.at

ReadsLatest(m) ==
  At(m, "route") /\ ~Direct(m) /\ m \notin met => msg[m].last = LatestSwitch

Planned(m) ==
  msg[m].step \in {"cancel", "switch", "resume", "engine", "start", "stack", "push", "save", "record"}

\* What a message that is alone has decided to switch is apart from the last switch.
Apart(m) ==
  Planned(m) /\ msg[m].act = "switch" /\ m \notin met /\ switches # <<>> =>
    \/ msg[m].at - LastSwitch.at >= Cooldown
    \/ Age + 1 > RecentLimit

AllApart ==
  \A k \in 2 .. Len(switches) :
    \/ switches[k].decided - switches[k - 1].at >= Cooldown
    \/ switches[k].place - switches[k - 1].place > RecentLimit
    \/ switches[k].by \in met

Spaced == Window /\ (\A m \in Messages : ReadsLatest(m) /\ Apart(m)) /\ AllApart

LEMMA RecordedType == Recorded \in Nat
<1>1. IsFiniteSet({q \in Messages : At(q, "done")})
  BY RoutingAssumption, FS_Subset
<1> QED BY <1>1, FS_CardinalityType DEF Recorded

LEMMA LastType ==
  ASSUME IInv, switches # <<>>
  PROVE  /\ LastSwitch \in Switches /\ Len(switches) \in Nat \ {0}
         /\ LastSwitch.at \in Nat /\ LastSwitch.place \in Nat
<1>1. switches \in Seq(Switches) /\ Len(switches) \in Nat \ {0}
  BY DEF IInv, TypeOK
<1>2. switches[Len(switches)] \in Switches
  BY <1>1
<1> QED BY <1>1, <1>2 DEF LastSwitch, Switches

\* The policy sees the last switch, or none when RecentLimit decisions came after it.
LEMMA PolicySees ==
  ASSUME IInv, Window
  PROVE  LatestSwitch = IF switches # <<>> /\ Age < Len(decisions) THEN LastSwitch.at ELSE None
<1> DEFINE places == {i \in DOMAIN decisions : decisions[i] # None}
<1>1. decisions \in Seq(Nat \cup {None}) /\ Len(decisions) \in Nat
      /\ DOMAIN decisions = 1 .. Len(decisions) /\ Recorded \in Nat
  BY RecordedType DEF IInv, TypeOK
<1>2. CASE switches # <<>> /\ Age < Len(decisions)
  <2> DEFINE k == Len(decisions) - Age
  <2>1. Age \in Nat /\ LastSwitch.at \in Nat
    BY <1>1, <1>2, LastType DEF Window, Age
  <2>2. k \in 1 .. Len(decisions)
    BY <1>1, <1>2, <2>1
  <2>3. decisions[k] = LastSwitch.at /\ \A i \in DOMAIN decisions : i > k => decisions[i] = None
    BY <1>2 DEF Window
  <2> HIDE DEF k
  <2>4. k \in places /\ \A j \in places : j <= k
    BY <1>1, <2>1, <2>2, <2>3, NoneAssumption
  <2>5. \A i \in places : (\A j \in places : j <= i) => i = k
    BY <1>1, <2>2, <2>4
  <2>6. LatestSwitch = decisions[CHOOSE i \in places : \A j \in places : j <= i]
    BY <2>4 DEF LatestSwitch
  <2> HIDE DEF places
  <2>7. (CHOOSE i \in places : \A j \in places : j <= i) = k
    BY <2>4, <2>5
  <2> QED BY <1>2, <2>3, <2>6, <2>7
<1>3. CASE ~(switches # <<>> /\ Age < Len(decisions))
  <2>1. \A i \in DOMAIN decisions : decisions[i] = None
    <3>1. CASE switches = <<>>
      BY <3>1 DEF Window
    <3>2. CASE switches # <<>>
      <4>1. Age \in Nat /\ Age >= Len(decisions)
        BY <1>1, <1>3, <3>2, LastType DEF Window, Age
      <4>2. \A i \in DOMAIN decisions : i > Len(decisions) - Age
        BY <1>1, <4>1
      <4> QED BY <3>2, <4>2 DEF Window
    <3> QED BY <3>1, <3>2
  <2>2. places = {}
    BY <2>1
  <2> QED BY <1>3, <2>2 DEF LatestSwitch
<1> QED BY <1>2, <1>3

\* A step of a message that records nothing.
LEMMA PlainStep ==
  ASSUME IInv, Spaced, NEW m \in Messages, Frame(m), met \subseteq met',
         UNCHANGED <<decisions, switches, now>>, msg[m].step # "done", msg'[m].step # "done",
         ReadsLatest(m)', Apart(m)'
  PROVE  Spaced'
<1>1. {q \in Messages : At(q, "done")}' = {q \in Messages : At(q, "done")}
  BY DEF Frame, At
<1>2. Recorded' = Recorded /\ LastSwitch' = LastSwitch /\ LatestSwitch' = LatestSwitch
  BY <1>1 DEF Recorded, LastSwitch, LatestSwitch
<1>3. Age' = Age
  BY <1>2 DEF Age
<1>4. Window'
  BY <1>2, <1>3 DEF Spaced, Window
<1>5. AllApart'
  BY DEF Spaced, AllApart
<1>6. ASSUME NEW q \in Messages, q # m PROVE ReadsLatest(q)' /\ Apart(q)'
  BY <1>2, <1>3, <1>6 DEF Spaced, ReadsLatest, Apart, Frame, At, Direct, Planned
<1> QED BY <1>4, <1>5, <1>6 DEF Spaced

\* Comings, readings, failures, and decisions that are no switch leave nothing to show.
LEMMA PacedReadings ==
  ASSUME IInv, Spaced, NEW m \in Messages, Receive(m) \/ Load(m) \/ Look(m) \/ MessageFails(m)
  PROVE  Spaced'
<1> USE DEF stored, world, history
<1>0. /\ UNCHANGED <<decisions, switches, now>> /\ met \subseteq met'
      /\ msg[m].step # "done" /\ msg[m] \in Locals
  BY DEF Receive, Load, Look, MessageFails, At, InFlight, IInv, TypeOK
<1>1. CASE Receive(m) \/ Load(m) \/ MessageFails(m)
  <2>1. Comes(m) \/ Loads(m) \/ Leaves(m)
    BY <1>1, ReadingDeeds, ClosingDeeds
  <2>2. Frame(m) /\ msg'[m].step \in {"load", "look", "failed"}
    <3>1. CASE MessageFails(m)
      <4>1. msg'[m] = [Idle EXCEPT !.step = "failed"] /\ Frame(m)
        BY <3>1, Changed DEF MessageFails
      <4> QED BY <4>1 DEF Idle
    <3>2. CASE Receive(m) \/ Load(m)
      BY <3>2, ReadingDeeds DEF Comes, Loads, Becomes
    <3> QED BY <1>1, <3>1, <3>2
  <2>3. ReadsLatest(m)' /\ Apart(m)'
    BY <2>2 DEF ReadsLatest, Apart, Planned, At
  <2> QED BY <1>0, <2>2, <2>3, PlainStep
<1>2. CASE Look(m)
  <2>1. /\ msg'[m] = [msg[m] EXCEPT !.step = "route", !.run = Snapshot(msg[m].active),
                            !.active = IF Snapshot(msg[m].active) = None /\ ~Direct(m)
                                       THEN None ELSE msg[m].active,
                            !.last = IF Direct(m) THEN None ELSE LatestSwitch]
        /\ Frame(m)
    BY <1>0, <1>2, Changed DEF Look, Locals
  <2>2. /\ msg'[m].step = "route" /\ msg'[m].wanted = msg[m].wanted
        /\ ~Direct(m) => msg'[m].last = LatestSwitch
    <3> HIDE DEF Snapshot, LatestSwitch
    <3> QED BY <1>0, <2>1 DEF Locals
  <2>3. ReadsLatest(m)' /\ Apart(m)'
    BY <1>0, <2>2 DEF ReadsLatest, Apart, Planned, At, Direct, LatestSwitch
  <2> QED BY <1>0, <2>1, <2>2, <2>3, PlainStep
<1> QED BY <1>1, <1>2

LEMMA Plan ==
  ASSUME IInv, NEW m \in Messages, NEW act, NEW target, NEW from, NEW turns, NEW step,
         Decide(m, act, target, from, turns, step)
  PROVE  /\ msg'[m].step = step /\ msg'[m].act = act /\ Frame(m)
         /\ act = "switch" => msg'[m].at = now
<1>1. /\ msg'[m] = [msg[m] EXCEPT !.step = step, !.act = act, !.target = target, !.from = from,
                                  !.turns = turns, !.run = None, !.last = None,
                                  !.at = IF act = "switch" THEN now ELSE 0]
      /\ Frame(m)
  BY Changed DEF Decide
<1>2. msg[m] \in Locals
  BY DEF IInv, TypeOK
<1> QED BY <1>1, <1>2 DEF Locals

\* The policy has looked at the last switch when it lets a message that is alone switch.
LEMMA PacedDecisions ==
  ASSUME IInv, Spaced, NEW m \in Messages,
         \/ DecideDirect(m) \/ Operator(m) \/ Cancel(m) \/ Clarify(m)
         \/ NoTarget(m) \/ StartNew(m) \/ Continue(m) \/ Switch(m)
  PROVE  Spaced'
<1> USE DEF stored, world, history, Routed, Settled
<1>0. /\ UNCHANGED <<decisions, switches, now, met>> /\ At(m, "route")
  BY DEF DecideDirect, Operator, Cancel, Clarify, NoTarget, StartNew, Continue, Switch
<1>1. PICK act, target, from, turns, step :
        /\ Decide(m, act, target, from, turns, step)
        /\ step \in {"resume", "save", "cancel", "switch", "start"}
        /\ act = "switch" => ~Direct(m) /\ \E explicit \in BOOLEAN : PolicyAllows(m, explicit)
  <2>1. CASE DecideDirect(m)
    BY <2>1 DEF DecideDirect
  <2>2. CASE Operator(m) \/ NoTarget(m) \/ Continue(m) \/ Clarify(m)
    BY <2>2 DEF Operator, NoTarget, Continue, Clarify
  <2>3. CASE Cancel(m)
    BY <2>3 DEF Cancel
  <2>4. CASE StartNew(m)
    BY <2>4 DEF StartNew
  <2>5. CASE Switch(m)
    <3>1. PICK explicit \in BOOLEAN, w \in Targets \ {None} :
            /\ ~Direct(m) /\ PolicyAllows(m, explicit)
            /\ \/ Decide(m, "switch", w, msg[m].active, 0, "switch")
               \/ Decide(m, "other", None, None, 0, "save")
      BY <2>5 DEF Switch, Switches_
    <3> QED BY <3>1
  <2> QED BY <2>1, <2>2, <2>3, <2>4, <2>5
<1>2. /\ msg'[m].step = step /\ msg'[m].act = act /\ Frame(m)
      /\ act = "switch" => msg'[m].at = now
  BY <1>1, Plan
<1>3. ReadsLatest(m)'
  BY <1>1, <1>2 DEF ReadsLatest, At
<1>4. ASSUME act = "switch", m \notin met, switches # <<>>
      PROVE  now - LastSwitch.at >= Cooldown \/ Age + 1 > RecentLimit
  <2>1. msg[m].last = LatestSwitch /\ Window
    BY <1>0, <1>1, <1>4 DEF Spaced, ReadsLatest
  <2>2. /\ now \in Nat /\ LastSwitch.at \in Nat /\ LastSwitch.place \in 1 .. Recorded
        /\ LastSwitch.at <= now /\ Recorded \in Nat /\ Cooldown \in Nat /\ RecentLimit \in Nat
    BY <1>4, <2>1, LastType, RecordedType, RoutingAssumption DEF IInv, TypeOK, Window
  <2>3. CASE Age < Len(decisions)
    <3>1. msg[m].last = LastSwitch.at /\ msg[m].last # None
      BY <1>4, <2>1, <2>2, <2>3, PolicySees, NoneAssumption
    <3>2. ~(Cooldown > 0 /\ now - msg[m].last < Cooldown)
      BY <1>1, <1>4, <3>1 DEF PolicyAllows
    <3> QED BY <2>2, <3>1, <3>2
  <2>4. CASE ~(Age < Len(decisions))
    <3>1. Len(decisions) = IF Recorded > RecentLimit THEN RecentLimit ELSE Recorded
      BY <2>1 DEF Window
    <3> QED BY <2>2, <2>4, <3>1 DEF Age
  <2> QED BY <2>3, <2>4
<1>5. Apart(m)'
  <2>1. {q \in Messages : At(q, "done")}' = {q \in Messages : At(q, "done")}
    BY <1>0, <1>1, <1>2 DEF Frame, At
  <2>2. Recorded' = Recorded /\ LastSwitch' = LastSwitch
    BY <1>0, <2>1 DEF Recorded, LastSwitch
  <2> QED BY <1>0, <1>2, <1>4, <2>2 DEF Apart, Age
<1> QED BY <1>0, <1>1, <1>2, <1>3, <1>5, PlainStep DEF At

\* The adapter's and the saving steps keep what was decided.
LEMMA PacedWork ==
  ASSUME IInv, Spaced, NEW m \in Messages,
         \/ AdapterCancel(m) \/ AdapterResume(m) \/ Resumed(m) \/ AdapterStart(m)
         \/ ReadIndex(m) \/ PushStack(m) \/ SaveSession(m)
  PROVE  Spaced'
<1> USE DEF stored, world, history, Goto
<1>0. /\ UNCHANGED <<decisions, switches, now, met>> /\ Planned(m) /\ msg[m] \in Locals
  BY DEF AdapterCancel, AdapterResume, Resumed, AdapterStart, ReadIndex, PushStack, SaveSession,
         At, Planned, IInv, TypeOK
<1>1. /\ Frame(m) /\ Planned(m)' /\ ~At(m, "route")'
      /\ msg'[m].act = msg[m].act /\ msg'[m].at = msg[m].at
  <2> DEFINE Onward(l) == /\ l.act = msg[m].act /\ l.at = msg[m].at
                         /\ l.step \in {"save", "start", "engine", "stack", "push", "record"}
             r == msg[m].active
  <2>1. ASSUME NEW l, Set(m, l), Onward(l)
        PROVE  /\ Frame(m) /\ Planned(m)' /\ ~At(m, "route")'
               /\ msg'[m].act = msg[m].act /\ msg'[m].at = msg[m].at
    <3>1. msg'[m] = l /\ Frame(m)
      BY <2>1, Changed
    <3> QED BY <2>1, <3>1 DEF Planned, At
  <2>2. CASE AdapterCancel(m)
    <3>1. /\ Onward([msg[m] EXCEPT !.step = "save", !.active = None])
          /\ Onward([msg[m] EXCEPT !.step = "start"])
      BY <1>0 DEF Locals
    <3> HIDE DEF Onward
    <3> QED BY <2>1, <2>2, <3>1 DEF AdapterCancel
  <2>3. CASE AdapterResume(m)
    <3>1. /\ Onward([msg[m] EXCEPT !.step = "engine", !.run = runs[r]])
          /\ Onward([msg[m] EXCEPT !.step = "save", !.active = ActiveAfter(r, runs[r].status)])
      BY <1>0 DEF Locals
    <3> HIDE DEF Onward
    <3> QED BY <2>1, <2>3, <3>1 DEF AdapterResume
  <2>4. CASE Resumed(m)
    <3>1. \A a : Onward([msg[m] EXCEPT !.step = "save", !.active = a, !.run = None])
      BY <1>0 DEF Locals
    <3> HIDE DEF Onward
    <3> QED BY <2>1, <2>4, <3>1 DEF Resumed
  <2>5. CASE AdapterStart(m)
    <3>1. \A a : Onward([msg[m] EXCEPT !.step = "stack", !.active = a, !.target = None])
      BY <1>0 DEF Locals
    <3> HIDE DEF Onward
    <3> QED BY <2>1, <2>5, <3>1 DEF AdapterStart
  <2>6. CASE ReadIndex(m)
    <3>1. Onward([msg[m] EXCEPT !.step = "push", !.index = Len(stack)])
      BY <1>0 DEF Locals
    <3> HIDE DEF Onward
    <3> QED BY <2>1, <2>6, <3>1 DEF ReadIndex
  <2>7. CASE PushStack(m)
    <3>1. Onward([msg[m] EXCEPT !.step = "save", !.from = None, !.index = 0])
      BY <1>0 DEF Locals
    <3> HIDE DEF Onward
    <3> QED BY <2>1, <2>7, <3>1 DEF PushStack
  <2>8. CASE SaveSession(m)
    <3>1. Onward([msg[m] EXCEPT !.step = "record"])
      BY <1>0 DEF Locals
    <3> HIDE DEF Onward
    <3> QED BY <2>1, <2>8, <3>1 DEF SaveSession
  <2> QED BY <2>2, <2>3, <2>4, <2>5, <2>6, <2>7, <2>8
<1>2. {q \in Messages : At(q, "done")}' = {q \in Messages : At(q, "done")}
  BY <1>0, <1>1 DEF Frame, At, Planned
<1>3. Recorded' = Recorded /\ LastSwitch' = LastSwitch
  BY <1>0, <1>2 DEF Recorded, LastSwitch
<1>4. ReadsLatest(m)' /\ Apart(m)'
  BY <1>0, <1>1, <1>3 DEF Spaced, ReadsLatest, Apart, Age
<1> QED BY <1>0, <1>1, <1>4, PlainStep DEF Planned

\* What is logged comes last, and the oldest decision goes when there were RecentLimit.
LEMMA Logged ==
  ASSUME IInv, Window, NEW x \in Nat \cup {None}, Log(x)
  PROVE  LET gone == IF Len(decisions) = RecentLimit THEN 1 ELSE 0
         IN  /\ Len(decisions') = Len(decisions) + 1 - gone
             /\ DOMAIN decisions' = 1 .. Len(decisions')
             /\ \A i \in DOMAIN decisions' :
                  decisions'[i] = IF i + gone = Len(decisions) + 1 THEN x ELSE decisions[i + gone]
<1> DEFINE n == Len(decisions)
           s == Append(decisions, x)
           gone == IF n = RecentLimit THEN 1 ELSE 0
<1>1. /\ decisions \in Seq(Nat \cup {None}) /\ n \in Nat /\ RecentLimit \in Nat \ {0}
      /\ Recorded \in Nat /\ n <= RecentLimit
  BY RoutingAssumption, RecordedType DEF IInv, TypeOK, Window
<1>2. /\ s \in Seq(Nat \cup {None}) /\ Len(s) = n + 1
      /\ \A i \in 1 .. n + 1 : s[i] = IF i = n + 1 THEN x ELSE decisions[i]
  BY <1>1
<1>3. decisions' = Latest(s)
  BY DEF Log
<1> HIDE DEF s
<1>4. CASE n = RecentLimit
  <2>1. decisions' = SubSeq(s, 2, n + 1)
    <3>1. Len(s) > RecentLimit /\ Len(s) - RecentLimit + 1 = 2
      BY <1>1, <1>2, <1>4
    <3> QED BY <1>2, <1>3, <3>1 DEF Latest
  <2>2. /\ Len(SubSeq(s, 2, n + 1)) = n /\ DOMAIN SubSeq(s, 2, n + 1) = 1 .. n
        /\ \A i \in 1 .. n : SubSeq(s, 2, n + 1)[i] = s[i + 1]
    BY <1>1, <1>2
  <2>3. \A i \in 1 .. n : i + 1 \in 1 .. n + 1
    BY <1>1
  <2> QED BY <1>1, <1>2, <1>4, <2>1, <2>2, <2>3
<1>5. CASE n # RecentLimit
  <2>1. decisions' = s
    BY <1>1, <1>2, <1>3, <1>5 DEF Latest
  <2> QED BY <1>1, <1>2, <1>5, <2>1
<1> QED BY <1>4, <1>5

\* m has taken its decision to the store: it is counted, and a switch becomes the last one.
LEMMA PacedRecord ==
  ASSUME IInv, Together, Spaced, NEW m \in Messages, SaveDecision(m) \/ SaveDirect(m)
  PROVE  Spaced'
<1> USE DEF stored, world, history
<1> DEFINE D == {q \in Messages : At(q, "done")}
           b == [by |-> m, decided |-> msg[m].at, at |-> now, place |-> Recorded + 1]
<1>0. /\ At(m, "record") /\ UNCHANGED <<now, met>> /\ msg[m] \in Locals /\ now \in Nat
      /\ switches \in Seq(Switches) /\ Len(switches) \in Nat /\ Window
  BY DEF SaveDecision, SaveDirect, IInv, TypeOK, Spaced
<1>1. msg'[m].step = "done" /\ Frame(m)
  <2>1. msg'[m] = [Idle EXCEPT !.step = "done"] /\ Frame(m)
    BY Changed DEF SaveDecision, SaveDirect
  <2> QED BY <2>1 DEF Idle
<1>2. Recorded' = Recorded + 1 /\ Recorded \in Nat
  <2>1. D' = D \cup {m} /\ m \notin D /\ IsFiniteSet(D)
    <3>1. IsFiniteSet(D)
      BY RoutingAssumption, FS_Subset
    <3>2. D' = D \cup {m} /\ m \notin D
      BY <1>0, <1>1 DEF Frame, At
    <3> QED BY <3>1, <3>2
  <2>2. Cardinality(D \cup {m}) = Cardinality(D) + 1
    BY <2>1, FS_AddElement
  <2>3. Recorded = Cardinality(D) /\ Recorded' = Cardinality(D')
    BY DEF Recorded
  <2> QED BY <2>1, <2>2, <2>3, RecordedType
<1>3. ASSUME NEW q \in Messages PROVE ReadsLatest(q)' /\ Apart(q)'
  <2>1. CASE q = m
    BY <1>1, <2>1 DEF ReadsLatest, Apart, Planned, At
  <2>2. CASE q # m /\ InFlight(q)
    <3>1. q \in met'
      BY <1>0, <2>2 DEF Together, InFlight, At
    <3> QED BY <3>1 DEF ReadsLatest, Apart
  <2>3. CASE q # m /\ ~InFlight(q)
    BY <1>1, <2>3 DEF ReadsLatest, Apart, Planned, At, InFlight, Frame
  <2> QED BY <2>1, <2>2, <2>3
<1>4. CASE SaveDecision(m) /\ msg[m].act = "switch"
  <2>1. Log(now) /\ switches' = Append(switches, b)
    BY <1>4 DEF SaveDecision
  <2>2. b \in Switches /\ b.at = now /\ b.decided = msg[m].at /\ b.place = Recorded + 1 /\ b.by = m
    BY <1>0, <1>2 DEF Switches, Locals
  <2> HIDE DEF b
  <2>3. /\ switches' # <<>> /\ Len(switches') = Len(switches) + 1
        /\ switches'[Len(switches) + 1] = b
        /\ \A k \in 1 .. Len(switches) : switches'[k] = switches[k]
    BY <1>0, <2>1, <2>2
  <2>4. LastSwitch' = b
    BY <2>3 DEF LastSwitch
  <2>5. Window'
    <3>1. Age' = 0
      BY <1>2, <2>2, <2>4 DEF Age
    <3>2. /\ Len(decisions') \in Nat \ {0} /\ DOMAIN decisions' = 1 .. Len(decisions')
          /\ decisions'[Len(decisions')] = now
          /\ Len(decisions') = IF Recorded + 1 > RecentLimit THEN RecentLimit ELSE Recorded + 1
      <4>1. Len(decisions) = IF Recorded > RecentLimit THEN RecentLimit ELSE Recorded
        BY <1>0 DEF Window
      <4>2. RecentLimit \in Nat \ {0}
        BY RoutingAssumption
      <4> QED BY <1>0, <1>2, <2>1, <4>1, <4>2, Logged
    <3> QED BY <1>0, <1>2, <2>2, <2>3, <2>4, <3>1, <3>2 DEF Window
  <2>6. AllApart'
    <3> SUFFICES ASSUME NEW k \in 2 .. Len(switches')
                 PROVE  \/ switches'[k].decided - switches'[k - 1].at >= Cooldown
                        \/ switches'[k].place - switches'[k - 1].place > RecentLimit
                        \/ switches'[k].by \in met'
      BY DEF AllApart
    <3>1. CASE k \in 2 .. Len(switches)
      <4>1. k - 1 \in 1 .. Len(switches) /\ k \in 1 .. Len(switches)
        BY <1>0, <3>1
      <4> QED BY <1>0, <2>3, <3>1, <4>1 DEF Spaced, AllApart
    <3>2. CASE k \notin 2 .. Len(switches)
      <4>1. k = Len(switches) + 1 /\ k - 1 = Len(switches) /\ Len(switches) >= 1
        BY <1>0, <2>3, <3>2
      <4>2. switches'[k] = b /\ switches'[k - 1] = LastSwitch /\ switches # <<>>
        BY <1>0, <2>3, <4>1 DEF LastSwitch
      <4>3. \/ msg[m].at - LastSwitch.at >= Cooldown
            \/ Age + 1 > RecentLimit
            \/ m \in met
        BY <1>0, <1>4, <4>2 DEF Spaced, Apart, Planned, At
      <4>4. Age + 1 = (Recorded + 1) - LastSwitch.place
        BY <1>2, <4>2, LastType DEF Age
      <4>5. \/ b.decided - LastSwitch.at >= Cooldown
            \/ b.place - LastSwitch.place > RecentLimit
            \/ b.by \in met
        <5>1. Age + 1 = b.place - LastSwitch.place
          BY <2>2, <4>4
        <5> QED BY <2>2, <4>3, <5>1
      <4> QED BY <1>0, <4>2, <4>5
    <3> QED BY <3>1, <3>2
  <2> QED BY <1>3, <2>5, <2>6 DEF Spaced
<1>5. CASE ~(SaveDecision(m) /\ msg[m].act = "switch")
  <2>1. Log(None) /\ UNCHANGED switches
    BY <1>5 DEF SaveDecision, SaveDirect
  <2>2. LastSwitch' = LastSwitch
    BY <2>1 DEF LastSwitch
  <2>3. AllApart'
    BY <1>0, <2>1 DEF Spaced, AllApart
  <2>4. Window'
    <3>1. /\ Len(decisions) \in Nat /\ RecentLimit \in Nat \ {0}
          /\ DOMAIN decisions = 1 .. Len(decisions)
          /\ Len(decisions) = IF Recorded > RecentLimit THEN RecentLimit ELSE Recorded
      BY <1>0, RoutingAssumption DEF Window, IInv, TypeOK
    <3>2. PICK n \in Nat, gone \in {0, 1} :
            /\ n = Len(decisions) /\ (gone = 1 <=> n = RecentLimit)
            /\ Len(decisions') = n + 1 - gone /\ DOMAIN decisions' = 1 .. n + 1 - gone
            /\ \A i \in 1 .. n + 1 - gone :
                 decisions'[i] = IF i + gone = n + 1 THEN None ELSE decisions[i + gone]
      <4>1. PICK gone \in {0, 1} : gone = IF Len(decisions) = RecentLimit THEN 1 ELSE 0
        OBVIOUS
      <4>2. /\ Len(decisions') = Len(decisions) + 1 - gone
            /\ DOMAIN decisions' = 1 .. Len(decisions')
            /\ \A i \in DOMAIN decisions' :
                 decisions'[i] = IF i + gone = Len(decisions) + 1 THEN None ELSE decisions[i + gone]
        BY <1>0, <2>1, <4>1, Logged
      <4>3. PICK n \in Nat : n = Len(decisions)
        BY <3>1
      <4>4. gone = 1 <=> n = RecentLimit
        BY <4>1, <4>3
      <4>5. /\ Len(decisions') = n + 1 - gone /\ DOMAIN decisions' = 1 .. n + 1 - gone
            /\ \A i \in 1 .. n + 1 - gone :
                 decisions'[i] = IF i + gone = n + 1 THEN None ELSE decisions[i + gone]
        BY <4>2, <4>3
      <4> QED BY <4>3, <4>4, <4>5
    <3>3. gone \in Nat /\ gone <= 1
      OBVIOUS
    <3>4. Len(decisions') = IF Recorded + 1 > RecentLimit THEN RecentLimit ELSE Recorded + 1
      BY <1>2, <3>1, <3>2, <3>3
    <3>5. \A i \in 1 .. n + 1 - gone : i + gone \in 1 .. n \/ i + gone = n + 1
      BY <3>1, <3>3
    <3>6. CASE switches = <<>>
      <4>1. \A i \in DOMAIN decisions : decisions[i] = None
        BY <1>0, <3>6 DEF Window
      <4> QED BY <1>2, <2>1, <3>1, <3>2, <3>4, <3>5, <3>6, <4>1 DEF Window
    <3>7. CASE switches # <<>>
      <4>1. /\ LastSwitch.at <= now /\ LastSwitch.place \in 1 .. Recorded
            /\ \A i \in 1 .. n : i > n - Age => decisions[i] = None
            /\ Age < n => decisions[n - Age] = LastSwitch.at
        BY <1>0, <3>1, <3>2, <3>7 DEF Window
      <4>2. Age' = Age + 1 /\ Age \in Nat
        BY <1>2, <2>2, <4>1 DEF Age
      <4>3. ASSUME NEW i \in 1 .. n + 1 - gone, i > (n + 1 - gone) - (Age + 1)
            PROVE  decisions'[i] = None
        <5>1. i + gone > n - Age
          BY <3>1, <3>3, <4>2, <4>3
        <5> QED BY <3>2, <3>5, <4>1, <5>1
      <4>4. ASSUME Age + 1 < n + 1 - gone
            PROVE  decisions'[(n + 1 - gone) - (Age + 1)] = LastSwitch.at
        <5> DEFINE i == (n + 1 - gone) - (Age + 1)
        <5>1. i \in 1 .. n + 1 - gone /\ i + gone = n - Age /\ Age < n /\ i + gone # n + 1
          BY <3>1, <3>3, <4>2, <4>4
        <5> HIDE DEF i
        <5>2. decisions'[i] = decisions[n - Age]
          BY <3>2, <5>1
        <5> QED BY <4>1, <5>1, <5>2 DEF i
      <4>5. LastSwitch.place \in 1 .. Recorded + 1
        BY <1>2, <4>1
      <4> QED BY <1>0, <1>2, <2>1, <2>2, <3>2, <3>4, <3>7, <4>1, <4>2, <4>3, <4>4, <4>5
              DEF Window
    <3> QED BY <3>6, <3>7
  <2> QED BY <1>3, <2>3, <2>4 DEF Spaced
<1> QED BY <1>4, <1>5

LEMMA InitSpaced == Init => Spaced
<1> SUFFICES ASSUME Init PROVE Spaced
  OBVIOUS
<1>1. /\ decisions = <<>> /\ switches = <<>> /\ \A m \in Messages : msg[m].step = "off"
  BY DEF Init, Idle
<1>2. {q \in Messages : At(q, "done")} = {}
  BY <1>1 DEF At
<1>3. Recorded = 0
  BY <1>2, FS_EmptySet DEF Recorded
<1> QED BY <1>1, <1>3, RoutingAssumption DEF Spaced, Window, ReadsLatest, Apart, AllApart,
    Planned, At

\* Time goes on and others change runs: no message decides, and none is recorded.
LEMMA PacedOthers ==
  ASSUME IInv, Spaced, UNCHANGED <<msg, decisions, switches, met>>, now' \in Nat, now <= now'
  PROVE  Spaced'
<1>1. /\ Recorded' = Recorded /\ LastSwitch' = LastSwitch /\ LatestSwitch' = LatestSwitch
  BY DEF Recorded, LastSwitch, LatestSwitch, At
<1>2. switches # <<>> /\ LastSwitch.at <= now => LastSwitch.at <= now'
  BY LastType DEF IInv, TypeOK
<1>3. Window'
  BY <1>1, <1>2 DEF Spaced, Window, Age
<1>4. \A m \in Messages : ReadsLatest(m)' /\ Apart(m)'
  BY <1>1 DEF Spaced, ReadsLatest, Apart, Age, At, Direct, Planned
<1>5. AllApart'
  BY DEF Spaced, AllApart
<1> QED BY <1>3, <1>4, <1>5 DEF Spaced

LEMMA NextSpaced == IInv /\ Care /\ Spaced /\ [Next]_vars => Spaced'
<1> SUFFICES ASSUME IInv, Care, Spaced, [Next]_vars PROVE Spaced'
  OBVIOUS
<1> USE DEF stored, world, history
<1>1. ASSUME NEW m \in Messages, Handle(m) \/ MessageFails(m) PROVE Spaced'
  BY <1>1, PacedReadings, PacedDecisions, PacedWork, PacedRecord DEF Handle, Care
<1>2. CASE \/ (\E r \in Messages : RunChanges(r)) \/ (\E w \in registered : WorkflowDeleted(w))
           \/ Tick \/ UNCHANGED vars
  <2>1. /\ UNCHANGED <<msg, decisions, switches, met>> /\ now' \in {now, now + 1} /\ now \in Nat
    BY <1>2 DEF RunChanges, WorkflowDeleted, Tick, vars, IInv, TypeOK
  <2> QED BY <2>1, PacedOthers
<1> QED BY <1>1, <1>2 DEF Next

LEMMA SpacedInvariance == Spec => []Spaced
  BY InitSpaced, NextSpaced, Invariance, CareInvariance, PTL DEF Spec

\* A switch of a message that overlapped with no other is decided at least the cooldown
\* after the switch before it was recorded (_switch_policy_error_code), or so many
\* decisions lie between that the policy does not see that one any more.
THEOREM CooldownKept == Spec => []SwitchesApart
<1>1. IInv /\ Spaced => SwitchesApart
  <2> SUFFICES ASSUME IInv, Spaced, NEW k \in 2 .. Len(switches)
               PROVE  \/ switches[k].decided - switches[k - 1].at >= Cooldown
                      \/ switches[k].place - switches[k - 1].place > RecentLimit
                      \/ switches[k - 1].by \in met \/ switches[k].by \in met
    BY DEF SwitchesApart
  <2> QED BY DEF Spaced, AllApart
<1> QED BY <1>1, Invariance, SpacedInvariance, PTL

-----------------------------------------------------------------------------
(***************************************************************************)
(* The offline evaluation of a session's messages, as RoutingReplay has    *)
(* it, for any project, messages, times and limits.                        *)
(***************************************************************************)
CONSTANTS Definitions, IsFallback, ActiveSets, Configs, Settings, FallbackOf, Default, Asks,
          Texts, ReplayLimit, MaxMessages

VARIABLES active, asks, run, turns, recent, clock, tape, eval, chosen, asked, past, items

Sim == INSTANCE RoutingReplay WITH Messages <- Texts, now <- clock

\* What a decision says, apart from when a switch may be tried again.
Verdict(action, w, error) == [action |-> action, workflow |-> w, error |-> error]

Is(o, verdict) ==
  o.action = verdict.action /\ o.workflow = verdict.workflow /\ o.error = verdict.error

\* The decision of a message m when the router says d, workflow w is active, q questions
\* have been asked and the policy has error e against a switch.
Ruling(m, d, w, q, e) ==
  LET target == Sim!TargetOf(m, d) IN
  IF d.type = "OPERATOR" THEN Verdict("OPERATOR", None, None)
  ELSE IF d.type = "CANCEL"
  THEN Verdict("CANCEL", w, IF w = None THEN "ERR_NO_ACTIVE_WORKFLOW" ELSE None)
  ELSE IF Sim!Unsure(d) /\ q < Sim!Policy.turns THEN Verdict("DISAMBIGUATE", None, None)
  ELSE IF target = None THEN Verdict("FALLBACK", None, "ERR_FALLBACK_NOT_AVAILABLE")
  ELSE IF w = target THEN Verdict("RESUME_CURRENT", w, None)
  ELSE IF w = None
  THEN Verdict(IF d.type = "FALLBACK" THEN "FALLBACK" ELSE "START_WORKFLOW", target, None)
  ELSE IF /\ e = None /\ d.confidence >= Sim!Policy.threshold
          /\ d.margin >= Sim!Between(0, Sim!Policy.margin + Sim!Policy.hysteresis, 1000)
  THEN Verdict("SWITCH_WORKFLOW", target, None)
  ELSE Verdict("RESUME_CURRENT", w, e)

\* What the policy has against a switch, if one is too recent (hot) or not.
ErrorOf(m, hot) ==
  IF ~Sim!Policy.allow THEN "ERR_SWITCH_DISABLED"
  ELSE IF hot THEN "ERR_SWITCH_COOLDOWN_ACTIVE"
  ELSE IF Sim!Policy.explicit /\ ~Sim!Explicit(m) THEN "ERR_SWITCH_EXPLICIT_REQUIRED"
  ELSE IF ~Sim!Policy.explicit /\ Sim!Policy.sticky /\ ~Sim!Explicit(m)
  THEN "ERR_STICKY_POLICY_ACTIVE"
  ELSE None

\* The router's answer in the session when workflow w is active.
SaidWith(m, w) ==
  IF Sim!Candidates(m) = <<>> THEN Sim!NoCandidates
  ELSE Sim!Route(m, Sim!Candidates(m), w, Sim!Policy)

\* The questions that count after an action: in the session, and for the evaluation.
Questions(action, q) ==
  IF action \in {"OPERATOR", "CANCEL"} THEN q ELSE IF action = "DISAMBIGUATE" THEN q + 1 ELSE 0

EvalQuestions(action, q) == IF action = "DISAMBIGUATE" THEN q + 1 ELSE 0

\* What the evaluation has as active after an item, w being what it had before.
NextActive(o, w) ==
  IF o.action = "CANCEL" THEN None ELSE IF o.workflow # None THEN o.workflow ELSE w

TurnsAfter(k) == Questions(tape[k].outcome.action, tape[k].turns)
AgreedOn(n)   == \A i \in 1 .. n : Sim!Agree(i)
Shorter(n, limit) == IF n < limit THEN n ELSE limit

\* s is a sequence, of whatever values.
Values(s) == {s[i] : i \in DOMAIN s}
IsLog(s) == s \in Seq(Values(s))

-----------------------------------------------------------------------------
(* The inductive invariant.                                                *)

Logs == IsLog(tape) /\ IsLog(items) /\ IsLog(recent) /\ IsLog(past) /\ Len(items) <= Len(tape)

\* r is no run, or the run of a workflow.
OfWorkflow(r) ==
  r # None => r = [workflow |-> r.workflow, cancellable |-> r.cancellable] /\ r.workflow # None

Plain ==
  /\ asks \in Asks
  /\ OfWorkflow(run)
  /\ turns \in Nat /\ clock \in Nat
  /\ \A k \in DOMAIN tape : tape[k].turns \in Nat /\ tape[k].at \in Nat /\ tape[k].at <= clock
  /\ eval \in BOOLEAN \cup {None} /\ asked \in Nat
  /\ eval = None => items = <<>> /\ past = <<>> /\ chosen = None /\ asked = 0

\* The messages came one after the other; their questions follow from each other; the
\* decisions that are looked back at are the latest ones of the tape and of the items.
InOrder == \A i, j \in DOMAIN tape : i <= j => tape[i].at <= tape[j].at

Chained ==
  /\ \A k \in 1 .. Len(tape) - 1 : tape[k + 1].turns = TurnsAfter(k)
  /\ tape # <<>> => turns = TurnsAfter(Len(tape))

LooksBack ==
  /\ Len(recent) = Shorter(Len(tape), RecentLimit)
  /\ \A j \in DOMAIN recent :
       /\ recent[j].action = tape[Len(tape) + 1 - j].outcome.action
       /\ recent[j].at = tape[Len(tape) + 1 - j].at

EvalLooksBack ==
  /\ Len(past) = Shorter(Len(items), ReplayLimit)
  /\ \A j \in DOMAIN past : past[j].action = items[Len(items) + 1 - j].action /\ past[j].at = clock

\* What was done with message k follows from what the tape says of the time: the rule has
\* no other input, and a switch is too recent if the latest RecentLimit entries say so.
Explained(k) ==
  LET t == tape[k] IN
  \/ t.outcome.error = "ERR_CANCEL_NOT_ALLOWED"
  \/ Is(t.outcome, Ruling(t.said, SaidWith(t.said, t.before), t.before, t.turns,
                          ErrorOf(t.said, ~Sim!CooledDown(k))))

\* As long as its items are what was done, the evaluation is where the session was, unless
\* it was not told of a run's end or has forgotten questions.
Follows ==
  AgreedOn(Len(items)) =>
    LET n == Len(items) IN
    /\ eval = FALSE /\ ~Sim!RunEnded(n) => chosen = IF n = 0 THEN None ELSE Sim!ActiveAfter(n)
    /\ ~Sim!QuestionsForgotten(n + 1) => asked = IF n = 0 THEN 0 ELSE TurnsAfter(n)

FirstTurn == tape # <<>> => tape[1].turns = 0 /\ tape[1].before = None
FirstNow == tape = <<>> => turns = 0 /\ run = None
AllExplained == \A k \in DOMAIN tape : Explained(k)

SimIInv ==
  /\ Logs /\ Plain /\ InOrder /\ Chained /\ LooksBack /\ EvalLooksBack
  /\ AllExplained /\ Follows /\ FirstTurn /\ FirstNow /\ Sim!ReplayPredicts

-----------------------------------------------------------------------------
LEMMA LogOfMore ==
  ASSUME NEW S, NEW T, S \subseteq T, NEW s \in Seq(S)
  PROVE  s \in Seq(T)
<1>1. \A i \in 1 .. Len(s) : s[i] \in T
  OBVIOUS
<1> QED BY <1>1

\* A log grows at its end.
LEMMA LogGrows ==
  ASSUME NEW s, IsLog(s), NEW e
  PROVE  /\ IsLog(Append(s, e)) /\ Len(Append(s, e)) = Len(s) + 1
         /\ Append(s, e)[Len(s) + 1] = e
         /\ \A i \in 1 .. Len(s) : Append(s, e)[i] = s[i]
<1> DEFINE t == Append(s, e)
           S == Values(s) \cup {e}
<1>1. s \in Seq(S) /\ e \in S
  <2>1. s \in Seq(Values(s)) /\ Values(s) \subseteq S
    BY DEF IsLog
  <2> QED BY <2>1, LogOfMore
<1>2. /\ t \in Seq(S) /\ Len(t) = Len(s) + 1 /\ t[Len(s) + 1] = e
      /\ \A i \in 1 .. Len(s) : t[i] = s[i]
  <2> HIDE DEF S
  <2> QED BY <1>1
<1>3. t \in Seq(Values(t))
  <2> HIDE DEF S, t
  <2>1. \A i \in DOMAIN t : t[i] \in Values(t)
    BY DEF Values
  <2> QED BY <1>2, <2>1
<1> QED BY <1>2, <1>3 DEF IsLog

\* t is what is left of the log s within the limit once x is its newest.
Recalls(t, s, x, limit) ==
  /\ IsLog(t) /\ Len(t) = Shorter(Len(s) + 1, limit) /\ t[1] = x
  /\ \A j \in DOMAIN t \ {1} : j - 1 \in DOMAIN s /\ t[j] = s[j - 1]

LEMMA NewestOfLog ==
  ASSUME NEW s, IsLog(s), NEW x, NEW limit \in Nat \ {0}
  PROVE  Recalls(Sim!Newest(<<x>> \o s, limit), s, x, limit)
<1> DEFINE S == Values(s) \cup {x}
           c == <<x>> \o s
           n == Shorter(Len(s) + 1, limit)
           t == SubSeq(c, 1, n)
<1>1. s \in Seq(S) /\ x \in S
  <2>1. s \in Seq(Values(s)) /\ Values(s) \subseteq S
    BY DEF IsLog
  <2> QED BY <2>1, LogOfMore
<1>2. /\ c \in Seq(S) /\ Len(c) = Len(s) + 1 /\ c[1] = x
      /\ \A i \in 1 .. Len(s) : c[i + 1] = s[i]
  <2> HIDE DEF S
  <2> QED BY <1>1
<1>3. n \in 1 .. Len(c)
  <2> HIDE DEF S, c
  <2> QED BY <1>1, <1>2 DEF Shorter
<1>4. t \in Seq(S) /\ Len(t) = n /\ \A i \in 1 .. n : t[i] = c[i]
  <2> HIDE DEF S, c, n
  <2> QED BY <1>2, <1>3
<1>5. Sim!Newest(<<x>> \o s, limit) = t
  BY <1>2 DEF Sim!Newest, Shorter
<1>6. IsLog(t)
  <2> HIDE DEF S, t
  <2>1. \A i \in DOMAIN t : t[i] \in Values(t)
    BY DEF Values
  <2> QED BY <1>4, <2>1 DEF IsLog
<1>7. \A j \in DOMAIN t \ {1} : j - 1 \in DOMAIN s /\ t[j] = s[j - 1]
  <2> SUFFICES ASSUME NEW j \in DOMAIN t, j # 1 PROVE j - 1 \in DOMAIN s /\ t[j] = s[j - 1]
    OBVIOUS
  <2>1. j \in 1 .. n /\ t[j] = c[j] /\ j - 1 \in 1 .. Len(s)
    <3> HIDE DEF S, c, n, t
    <3> QED BY <1>1, <1>2, <1>3, <1>4
  <2>2. c[(j - 1) + 1] = s[j - 1] /\ (j - 1) + 1 = j /\ DOMAIN s = 1 .. Len(s)
    <3> HIDE DEF S, c, n, t
    <3> QED BY <1>1, <1>2, <2>1
  <2> HIDE DEF S, c, n, t
  <2> QED BY <2>1, <2>2
<1>8. t[1] = x
  <2> HIDE DEF S, c, n, t
  <2> QED BY <1>2, <1>3, <1>4
<1> HIDE DEF t
<1> QED BY <1>4, <1>5, <1>6, <1>7, <1>8 DEF Recalls

\* A set of positive numbers has a least element.
LEMMA HasLeast ==
  ASSUME NEW S \in SUBSET Nat, S # {}
  PROVE  \E i \in S : \A j \in S : i <= j
<1>1. PICK i \in S : \A j \in S : ~(<<j, i>> \in OpToRel(<, Nat))
  BY WFMin, NatLessThanWellFounded
<1>2. \A j \in S : ~(j < i)
  BY <1>1 DEF OpToRel
<1> QED BY <1>2

LEMMA PolicyType ==
  ASSUME Sim!ReplayAssumption, asks \in Asks
  PROVE  Sim!Policy.turns \in Nat /\ Sim!Policy.cooldown \in Nat
<1>1. Sim!LatestConfig \in Sim!Orchestrators
  <2> DEFINE O == Sim!Orchestrators
  <2>1. Configs \in Seq(O) /\ Configs # <<>>
    BY DEF Sim!ReplayAssumption
  <2> HIDE DEF O
  <2>2. Head(Configs) \in O
    BY <2>1
  <2> QED BY <2>2 DEF Sim!LatestConfig, O
<1>2. Sim!Orchestrator \in Sim!Orchestrators
  BY <1>1 DEF Sim!ReplayAssumption, Sim!Orchestrator, Sim!Resolve
<1>3. /\ Settings[Sim!Orchestrator].max_disambiguation_turns \in Int
      /\ Settings[Sim!Orchestrator].cooldown_seconds \in Int
  BY <1>2 DEF Sim!ReplayAssumption, Sim!Fields
<1> QED BY <1>3 DEF Sim!Policy, Sim!PolicyOf

\* With the newest first, some switch is too recent if the newest one is.
LEMMA SwitchErrorIs ==
  ASSUME NEW log, IsLog(log), NEW m, Sim!NoneAssumption, Sim!Policy.cooldown \in Nat, clock \in Nat,
         \A i, j \in DOMAIN log : i <= j => log[j].at <= log[i].at,
         \A i \in DOMAIN log : log[i].at \in Nat
  PROVE  Sim!SwitchError(Sim!Policy, log, Sim!Explicit(m)) =
           ErrorOf(m, \E i \in DOMAIN log : log[i].action = "SWITCH_WORKFLOW"
                                            /\ clock - log[i].at < Sim!Policy.cooldown)
<1> DEFINE hits == {i \in DOMAIN log : log[i].action = "SWITCH_WORKFLOW"}
           first == CHOOSE i \in hits : \A j \in hits : i <= j
           hot == \E i \in DOMAIN log : log[i].action = "SWITCH_WORKFLOW"
                                        /\ clock - log[i].at < Sim!Policy.cooldown
           last == Sim!LastSwitch(log)
<1>1. hot <=> last # None /\ clock - last < Sim!Policy.cooldown
  <2>1. CASE hits = {}
    BY <2>1 DEF Sim!LastSwitch
  <2>2. CASE hits # {}
    <3>1. hits \subseteq Nat
      <4>1. DOMAIN log \subseteq Nat
        BY DEF IsLog
      <4> QED BY <4>1
    <3>2. first \in hits /\ \A j \in hits : first <= j
      <4> HIDE DEF hits
      <4> QED BY <2>2, <3>1, HasLeast
    <3>3. last = log[first].at
      BY <2>2 DEF Sim!LastSwitch
    <3>4. last \in Nat /\ last # None
      BY <3>2, <3>3 DEF Sim!NoneAssumption
    <3> HIDE DEF first, last
    <3>5. \A i \in hits : log[i].at <= last
      BY <3>2, <3>3
    <3> QED BY <3>2, <3>3, <3>4, <3>5
  <2> QED BY <2>1, <2>2
<1> HIDE DEF hot, last
<1>2. Sim!SwitchError(Sim!Policy, log, Sim!Explicit(m)) = ErrorOf(m, hot)
  BY <1>1 DEF Sim!SwitchError, ErrorOf, last
<1> QED BY <1>2 DEF hot

-----------------------------------------------------------------------------
(* The rule: a message and a case are decided by Ruling.                    *)

\* What a message writes, o being its outcome.
Writes(m, o) ==
  /\ tape' = Append(tape, [said |-> m, before |-> Sim!Running, turns |-> turns,
                           at |-> clock, outcome |-> o])
  /\ recent' = Sim!Newest(<<[action |-> o.action, at |-> clock]>> \o recent, RecentLimit)
  /\ turns' = Questions(o.action, turns)
  /\ OfWorkflow(run')
  /\ UNCHANGED <<Sim!project, clock, Sim!replay>>

\* A message that is answered decides by the rule, unless its run may not be left.
LEMMA MessageDecided ==
  ASSUME Sim!ReplayAssumption, Sim!NoneAssumption, asks \in Asks, turns \in Nat, OfWorkflow(run),
         NEW m \in Texts, Sim!Handle(m)
  PROVE  /\ eval = None
         /\ \E o : /\ Writes(m, o)
                   /\ \/ o.error = "ERR_CANCEL_NOT_ALLOWED"
                      \/ Is(o, Ruling(m, Sim!Said(m), Sim!Running, turns, Sim!PolicyError(m)))
<1> DEFINE d == Sim!Said(m)
           e == Sim!PolicyError(m)
           right(o) == \/ o.error = "ERR_CANCEL_NOT_ALLOWED"
                       \/ Is(o, Ruling(m, d, Sim!Running, turns, e))
<1> SUFFICES \E o : Writes(m, o) /\ right(o)
  BY DEF Sim!Handle, Sim!Arrives
<1>1. \/ Sim!Operator(m, d) \/ Sim!Cancel(m, d) \/ Sim!Clarify(m, d) \/ Sim!NoTarget(m, d)
      \/ Sim!Switch(m, d) \/ Sim!MayNotLeave(m, d) \/ Sim!Keep(m, d)
      \/ Sim!Resume(m, d) \/ Sim!Start(m, d)
  BY DEF Sim!Handle
<1>2. Sim!Policy.turns \in Nat
  BY PolicyType
<1>3. Sim!Running = None <=> run = None
  BY DEF Sim!Running, OfWorkflow
<1> HIDE DEF d, e
<1>4. CASE Sim!Operator(m, d)
  <2> DEFINE o == Sim!Does("OPERATOR", None, None)
  <2>1. right(o)
    BY <1>4 DEF Sim!Operator, Ruling, Verdict, Is, Sim!Does
  <2>2. Writes(m, o)
    BY <1>4 DEF Sim!Operator, Sim!Answer, Writes, Questions, Sim!Does
  <2> QED BY <2>1, <2>2
<1>5. CASE Sim!Cancel(m, d)
  <2>0. d.type = "CANCEL"
    BY <1>5 DEF Sim!Cancel
  <2>1. CASE run = None
    <3> DEFINE o == Sim!Does("CANCEL", None, "ERR_NO_ACTIVE_WORKFLOW")
    <3>1. right(o)
      BY <2>0, <2>1, <1>3 DEF Ruling, Verdict, Is, Sim!Does
    <3>2. Writes(m, o)
      BY <1>5, <2>1 DEF Sim!Cancel, Sim!Answer, Writes, Questions, Sim!Does
    <3> QED BY <3>1, <3>2
  <2>2. CASE run # None /\ ~run.cancellable
    <3> DEFINE o == Sim!Does("CANCEL", Sim!Running, "ERR_CANCEL_NOT_ALLOWED")
    <3>1. right(o)
      BY DEF Sim!Does
    <3>2. Writes(m, o)
      BY <1>5, <2>2 DEF Sim!Cancel, Sim!Answer, Writes, Questions, Sim!Does
    <3> QED BY <3>1, <3>2
  <2>3. CASE run # None /\ run.cancellable
    <3> DEFINE o == Sim!Does("CANCEL", Sim!Running, None)
    <3>1. right(o)
      BY <2>0, <2>3, <1>3 DEF Ruling, Verdict, Is, Sim!Does
    <3>2. Writes(m, o)
      BY <1>5, <2>3 DEF Sim!Cancel, Sim!Answer, Writes, Questions, Sim!Does, OfWorkflow
    <3> QED BY <3>1, <3>2
  <2> QED BY <2>1, <2>2, <2>3
<1>6. CASE Sim!Clarify(m, d)
  <2> DEFINE o == Sim!Does("DISAMBIGUATE", None, None)
  <2>1. right(o)
    BY <1>6 DEF Sim!Clarify, Ruling, Verdict, Is, Sim!Does
  <2>2. Writes(m, o)
    BY <1>6 DEF Sim!Clarify, Sim!Answer, Writes, Questions, Sim!Does
  <2> QED BY <2>1, <2>2
<1>7. CASE Sim!NoTarget(m, d)
  <2> DEFINE o == Sim!Does("FALLBACK", None, "ERR_FALLBACK_NOT_AVAILABLE")
  <2>1. right(o)
    BY <1>2, <1>7 DEF Sim!NoTarget, Sim!Settles, Ruling, Verdict, Is, Sim!Does
  <2>2. Writes(m, o)
    BY <1>7 DEF Sim!NoTarget, Sim!Answer, Writes, Questions, Sim!Does
  <2> QED BY <2>1, <2>2
<1>8. CASE Sim!Switch(m, d)
  <2> DEFINE o == Sim!Does("SWITCH_WORKFLOW", Sim!TargetOf(m, d), None)
  <2>1. right(o)
    BY <1>2, <1>3, <1>8 DEF Sim!Switch, Sim!Elsewhere, Sim!MaySwitch, e, Sim!Settles, Ruling,
      Verdict, Is, Sim!Does
  <2>2. OfWorkflow(run')
    BY <1>8 DEF Sim!Switch, Sim!Elsewhere, Sim!StartedRun, OfWorkflow
  <2>3. Writes(m, o)
    BY <1>8, <2>2 DEF Sim!Switch, Sim!Answer, Writes, Questions, Sim!Does
  <2> QED BY <2>1, <2>3
<1>9. CASE Sim!MayNotLeave(m, d)
  <2> DEFINE o == Sim!Does("RESUME_CURRENT", Sim!Running, "ERR_CANCEL_NOT_ALLOWED")
  <2>1. right(o)
    BY DEF Sim!Does
  <2>2. Writes(m, o)
    BY <1>9 DEF Sim!MayNotLeave, Sim!Answer, Writes, Questions, Sim!Does
  <2> QED BY <2>1, <2>2
<1>10. CASE Sim!Keep(m, d)
  <2> DEFINE o == [Sim!Does("RESUME_CURRENT", Sim!Running, e)
                     EXCEPT !.after = Sim!RetryAfter(e, Sim!Policy, recent)]
  <2>1. right(o)
    BY <1>2, <1>3, <1>10
      DEF Sim!Keep, Sim!Elsewhere, Sim!MaySwitch, e, Sim!Settles, Ruling, Verdict, Is, Sim!Does
  <2>2. OfWorkflow(run')
    BY <1>10 DEF Sim!Keep, Sim!Elsewhere, Sim!ResumedRun, OfWorkflow
  <2>3. Writes(m, o)
    BY <1>10, <2>2 DEF Sim!Keep, Sim!Answer, Writes, Questions, Sim!Does, e
  <2> QED BY <2>1, <2>3
<1>11. CASE Sim!Resume(m, d)
  <2> DEFINE o == Sim!Does("RESUME_CURRENT", Sim!Running, None)
  <2>1. right(o)
    BY <1>2, <1>3, <1>11 DEF Sim!Resume, Sim!Settles, Ruling, Verdict, Is, Sim!Does
  <2>2. OfWorkflow(run')
    BY <1>11 DEF Sim!Resume, Sim!ResumedRun, OfWorkflow
  <2>3. Writes(m, o)
    BY <1>11, <2>2 DEF Sim!Resume, Sim!Answer, Writes, Questions, Sim!Does
  <2> QED BY <2>1, <2>3
<1>12. CASE Sim!Start(m, d)
  <2> DEFINE o == Sim!Does(IF d.type = "FALLBACK" THEN "FALLBACK" ELSE "START_WORKFLOW",
                           Sim!TargetOf(m, d), None)
  <2>1. right(o)
    BY <1>2, <1>3, <1>12 DEF Sim!Start, Sim!Settles, Ruling, Verdict, Is, Sim!Does
  <2>2. OfWorkflow(run')
    BY <1>12 DEF Sim!Start, Sim!StartedRun, OfWorkflow
  <2>3. Writes(m, o)
    BY <1>12, <2>2 DEF Sim!Start, Sim!Answer, Writes, Questions, Sim!Does
  <2> QED BY <2>1, <2>3
<1> QED BY <1>1, <1>4, <1>5, <1>6, <1>7, <1>8, <1>9, <1>10, <1>11, <1>12

\* What the evaluation of a case writes, o being its item.
Predicts(o) ==
  /\ items' = Append(items, o)
  /\ past' = Sim!Newest(<<[action |-> o.action, at |-> clock]>> \o past, ReplayLimit)
  /\ chosen' = NextActive(o, Sim!EvalActive)
  /\ asked' = EvalQuestions(o.action, asked)
  /\ UNCHANGED <<Sim!project, Sim!session, clock, eval>>

\* A case is decided by the same rule.
LEMMA CaseDecided ==
  ASSUME Sim!ReplayAssumption, Sim!NoneAssumption, asks \in Asks, asked \in Nat, Sim!Evaluate
  PROVE  /\ eval # None /\ Len(items) < Len(tape)
         /\ \E o :
              /\ Predicts(o)
              /\ Is(o, Ruling(Sim!CaseSays, Sim!EvalSaid, Sim!EvalActive, asked, Sim!EvalError))
<1> DEFINE d == Sim!EvalSaid
           w == Sim!EvalActive
           e == Sim!EvalError
           right(o) == Is(o, Ruling(Sim!CaseSays, d, w, asked, e))
<1> SUFFICES \E o : Predicts(o) /\ right(o)
  BY DEF Sim!Evaluate, Sim!Evaluates
<1>1. \/ Sim!EvalOperator(d) \/ Sim!EvalCancel(d) \/ Sim!EvalClarify(d) \/ Sim!EvalNoTarget(d)
      \/ Sim!EvalSwitch(d) \/ Sim!EvalKeep(d) \/ Sim!EvalResume(d) \/ Sim!EvalStart(d)
  BY DEF Sim!Evaluate
<1>2. Sim!Policy.turns \in Nat
  BY PolicyType
<1>3. Sim!EvalPolicy = Sim!Policy /\ Sim!EvalTarget(d) = Sim!TargetOf(Sim!CaseSays, d)
  BY DEF Sim!EvalPolicy, Sim!EvalOrchestrator, Sim!Policy, Sim!Orchestrator, Sim!EvalTarget,
    Sim!TargetOf, Sim!EvalCandidates, Sim!Candidates
<1>4. Sim!EvalUnsure(d) = Sim!Unsure(d)
  BY <1>3 DEF Sim!EvalUnsure, Sim!Unsure
<1> HIDE DEF d, e
<1>5. CASE Sim!EvalOperator(d)
  <2> DEFINE o == Sim!Does("OPERATOR", None, None)
  <2>1. right(o)
    BY <1>5 DEF Sim!EvalOperator, Ruling, Verdict, Is, Sim!Does
  <2>2. Predicts(o)
    BY <1>5 DEF Sim!EvalOperator, Sim!Item, Predicts, EvalQuestions, NextActive, Sim!Does
  <2> QED BY <2>1, <2>2
<1>6. CASE Sim!EvalCancel(d)
  <2> DEFINE o == Sim!Does("CANCEL", w, IF w = None THEN "ERR_NO_ACTIVE_WORKFLOW" ELSE None)
  <2>1. right(o)
    BY <1>6 DEF Sim!EvalCancel, Ruling, Verdict, Is, Sim!Does
  <2>2. Predicts(o)
    BY <1>6 DEF Sim!EvalCancel, Sim!Item, Predicts, EvalQuestions, NextActive, Sim!Does
  <2> QED BY <2>1, <2>2
<1>7. CASE Sim!EvalClarify(d)
  <2> DEFINE o == Sim!Does("DISAMBIGUATE", None, None)
  <2>1. right(o)
    BY <1>3, <1>4, <1>7 DEF Sim!EvalClarify, Ruling, Verdict, Is, Sim!Does
  <2>2. Predicts(o)
    BY <1>7 DEF Sim!EvalClarify, Sim!Item, Predicts, EvalQuestions, NextActive, Sim!Does
  <2> QED BY <2>1, <2>2
<1>8. CASE Sim!EvalNoTarget(d)
  <2> DEFINE o == Sim!Does("FALLBACK", None, "ERR_FALLBACK_NOT_AVAILABLE")
  <2>1. right(o)
    BY <1>2, <1>3, <1>4, <1>8 DEF Sim!EvalNoTarget, Sim!EvalSettles, Ruling, Verdict, Is, Sim!Does
  <2>2. Predicts(o)
    BY <1>8 DEF Sim!EvalNoTarget, Sim!Item, Predicts, EvalQuestions, NextActive, Sim!Does
  <2> QED BY <2>1, <2>2
<1>9. CASE Sim!EvalSwitch(d)
  <2> DEFINE o == Sim!Does("SWITCH_WORKFLOW", Sim!EvalTarget(d), None)
  <2>1. right(o)
    BY <1>2, <1>3, <1>4, <1>9
      DEF Sim!EvalSwitch, Sim!EvalMaySwitch, e, Sim!EvalSettles, Ruling, Verdict, Is, Sim!Does
  <2>2. Predicts(o)
    BY <1>9 DEF Sim!EvalSwitch, Sim!Item, Predicts, EvalQuestions, NextActive, Sim!Does
  <2> QED BY <2>1, <2>2
<1>10. CASE Sim!EvalKeep(d)
  <2> DEFINE o == [Sim!Does("RESUME_CURRENT", w, e)
                     EXCEPT !.after = Sim!RetryAfter(e, Sim!EvalPolicy, past)]
  <2>1. right(o)
    BY <1>2, <1>3, <1>4, <1>10
      DEF Sim!EvalKeep, Sim!EvalMaySwitch, e, Sim!EvalSettles, Ruling, Verdict, Is, Sim!Does
  <2>2. Predicts(o)
    BY <1>10 DEF Sim!EvalKeep, Sim!Item, Predicts, EvalQuestions, NextActive, Sim!Does, e
  <2> QED BY <2>1, <2>2
<1>11. CASE Sim!EvalResume(d)
  <2> DEFINE o == Sim!Does("RESUME_CURRENT", w, None)
  <2>1. right(o)
    BY <1>2, <1>3, <1>4, <1>11 DEF Sim!EvalResume, Sim!EvalSettles, Ruling, Verdict, Is, Sim!Does
  <2>2. Predicts(o)
    BY <1>11 DEF Sim!EvalResume, Sim!Item, Predicts, EvalQuestions, NextActive, Sim!Does
  <2> QED BY <2>1, <2>2
<1>12. CASE Sim!EvalStart(d)
  <2> DEFINE o == Sim!Does(IF d.type = "FALLBACK" THEN "FALLBACK" ELSE "START_WORKFLOW",
                           Sim!EvalTarget(d), None)
  <2>1. right(o)
    BY <1>2, <1>3, <1>4, <1>12 DEF Sim!EvalStart, Sim!EvalSettles, Ruling, Verdict, Is, Sim!Does
  <2>2. Predicts(o)
    BY <1>12 DEF Sim!EvalStart, Sim!Item, Predicts, EvalQuestions, NextActive, Sim!Does
  <2> QED BY <2>1, <2>2
<1> QED BY <1>1, <1>5, <1>6, <1>7, <1>8, <1>9, <1>10, <1>11, <1>12

-----------------------------------------------------------------------------
LEMMA Boundary ==
  ASSUME NEW s, IsLog(s)
  PROVE  Len(s) \in Nat /\ DOMAIN s = 1 .. Len(s) /\ (s = <<>> <=> Len(s) = 0)
BY DEF IsLog

\* The rule of a decision depends on the project only.
LEMMA SameRule ==
  ASSUME UNCHANGED Sim!project
  PROVE  /\ Sim!Policy' = Sim!Policy
         /\ \A m : Sim!Candidates(m)' = Sim!Candidates(m)
         /\ \A m, w : SaidWith(m, w)' = SaidWith(m, w)
         /\ \A m, hot : ErrorOf(m, hot)' = ErrorOf(m, hot)
         /\ \A m, d, w, q, e : Ruling(m, d, w, q, e)' = Ruling(m, d, w, q, e)
<1>1. Sim!Policy' = Sim!Policy /\ Sim!Orchestrator' = Sim!Orchestrator
      /\ \A m : Sim!Candidates(m)' = Sim!Candidates(m)
  BY DEF Sim!project, Sim!Policy, Sim!Orchestrator, Sim!Candidates, Sim!Shortlist
<1>2. \A m, w : SaidWith(m, w)' = SaidWith(m, w)
  BY <1>1 DEF SaidWith
<1>3. \A m, hot : ErrorOf(m, hot)' = ErrorOf(m, hot)
  BY <1>1 DEF ErrorOf
<1>4. \A m, d : Sim!TargetOf(m, d)' = Sim!TargetOf(m, d) /\ Sim!Unsure(d)' = Sim!Unsure(d)
  BY <1>1 DEF Sim!TargetOf, Sim!Target, Sim!Unsure, Sim!IsActive, Sim!Fallback, Sim!project
<1>5. \A m, d, w, q, e : Ruling(m, d, w, q, e)' = Ruling(m, d, w, q, e)
  BY <1>1, <1>4 DEF Ruling
<1> QED BY <1>1, <1>2, <1>3, <1>5

\* The earlier entries of the tape are as they were: so is what is said of them.
LEMMA SameTape ==
  ASSUME NEW n \in Nat, \A i \in 1 .. n : tape'[i] = tape[i], UNCHANGED Sim!project,
         NEW k \in 1 .. n
  PROVE  /\ TurnsAfter(k)' = TurnsAfter(k) /\ Sim!ActiveAfter(k)' = Sim!ActiveAfter(k)
         /\ Sim!CooledDown(k)' = Sim!CooledDown(k)
         /\ Explained(k)' = Explained(k)
<1>1. tape'[k] = tape[k] /\ \A i \in 1 .. k - 1 : tape'[i] = tape[i]
  OBVIOUS
<1>2. TurnsAfter(k)' = TurnsAfter(k) /\ Sim!ActiveAfter(k)' = Sim!ActiveAfter(k)
  BY <1>1 DEF TurnsAfter, Sim!ActiveAfter
<1>3. Sim!CooledDown(k)' = Sim!CooledDown(k)
  BY <1>1, SameRule DEF Sim!CooledDown
<1> QED BY <1>1, <1>2, <1>3, SameRule DEF Explained

\* What the policy has against a switch in the session, in terms of the tape.
LEMMA SessionError ==
  ASSUME Sim!ReplayAssumption, Sim!NoneAssumption, SimIInv, NEW m
  PROVE  Sim!PolicyError(m) = ErrorOf(m, \E i \in 1 .. Len(tape) :
           /\ tape[i].outcome.action = "SWITCH_WORKFLOW"
           /\ ~(Len(tape) + 1 - i > RecentLimit \/ clock - tape[i].at >= Sim!Policy.cooldown))
<1> DEFINE n == Len(tape)
           hot == \E i \in DOMAIN recent : recent[i].action = "SWITCH_WORKFLOW"
                                           /\ clock - recent[i].at < Sim!Policy.cooldown
           seen == \E i \in 1 .. n :
                     /\ tape[i].outcome.action = "SWITCH_WORKFLOW"
                     /\ ~(n + 1 - i > RecentLimit \/ clock - tape[i].at >= Sim!Policy.cooldown)
<1>1. n \in Nat /\ DOMAIN tape = 1 .. n /\ DOMAIN recent = 1 .. Shorter(n, RecentLimit)
  BY Boundary DEF SimIInv, Logs, LooksBack
<1>2. Sim!Policy.cooldown \in Nat /\ clock \in Nat /\ RecentLimit \in Nat \ {0}
  BY PolicyType DEF SimIInv, Plain, Sim!ReplayAssumption
<1>3. \A j \in DOMAIN recent :
        /\ n + 1 - j \in 1 .. n /\ j <= RecentLimit
        /\ recent[j].action = tape[n + 1 - j].outcome.action
        /\ recent[j].at = tape[n + 1 - j].at
  BY <1>1, <1>2 DEF SimIInv, LooksBack, Shorter
<1>4. \A i \in 1 .. n : tape[i].at \in Nat
  BY <1>1 DEF SimIInv, Plain
<1>5. \A i, j \in 1 .. n : i <= j => tape[i].at <= tape[j].at
  BY <1>1 DEF SimIInv, InOrder
<1> HIDE DEF n
<1>6. \A i, j \in DOMAIN recent : i <= j => recent[j].at <= recent[i].at
  <2> SUFFICES ASSUME NEW i \in DOMAIN recent, NEW j \in DOMAIN recent, i <= j
               PROVE  recent[j].at <= recent[i].at
    OBVIOUS
  <2>1. n + 1 - j <= n + 1 - i
    BY <1>1, <1>2 DEF Shorter
  <2> QED BY <1>3, <1>5, <2>1
<1>7. \A i \in DOMAIN recent : recent[i].at \in Nat
  BY <1>3, <1>4
<1>8. Sim!PolicyError(m) = ErrorOf(m, hot)
  BY <1>2, <1>6, <1>7, SwitchErrorIs DEF Sim!PolicyError, SimIInv, Logs
<1>9. hot => seen
  <2> SUFFICES ASSUME NEW j \in DOMAIN recent, recent[j].action = "SWITCH_WORKFLOW",
                      clock - recent[j].at < Sim!Policy.cooldown
               PROVE  seen
    OBVIOUS
  <2>1. n + 1 - j \in 1 .. n /\ n + 1 - (n + 1 - j) = j /\ ~(j > RecentLimit)
    BY <1>1, <1>2, <1>3 DEF Shorter
  <2>2. tape[n + 1 - j].outcome.action = "SWITCH_WORKFLOW"
        /\ ~(clock - tape[n + 1 - j].at >= Sim!Policy.cooldown)
    BY <1>2, <1>3, <1>4, <2>1
  <2> QED BY <2>1, <2>2
<1>10. seen => hot
  <2> SUFFICES ASSUME NEW i \in 1 .. n, tape[i].outcome.action = "SWITCH_WORKFLOW",
                      ~(n + 1 - i > RecentLimit \/ clock - tape[i].at >= Sim!Policy.cooldown)
               PROVE  hot
    OBVIOUS
  <2>1. n + 1 - i \in DOMAIN recent /\ n + 1 - (n + 1 - i) = i
    BY <1>1, <1>2 DEF Shorter
  <2>2. /\ recent[n + 1 - i].action = "SWITCH_WORKFLOW"
        /\ recent[n + 1 - i].at = tape[i].at
    BY <1>3, <2>1
  <2>3. clock - tape[i].at < Sim!Policy.cooldown
    BY <1>2, <1>4
  <2> QED BY <2>1, <2>2, <2>3
<1>11. hot = seen
  BY <1>9, <1>10
<1> HIDE DEF hot, seen
<1> QED BY <1>8, <1>11 DEF n, seen

LEMMA Handled ==
  ASSUME Sim!ReplayAssumption, Sim!NoneAssumption, SimIInv, NEW m \in Texts, Sim!Handle(m)
  PROVE  SimIInv'
<1>0. PICK n \in Nat : n = Len(tape)
  BY Boundary DEF SimIInv, Logs
<1>1. PICK o : /\ Writes(m, o)
               /\ \/ o.error = "ERR_CANCEL_NOT_ALLOWED"
                  \/ Is(o, Ruling(m, Sim!Said(m), Sim!Running, turns, Sim!PolicyError(m)))
  BY MessageDecided DEF SimIInv, Plain
<1>2. eval = None
  BY MessageDecided DEF SimIInv, Plain
<1> DEFINE rec == [said |-> m, before |-> Sim!Running, turns |-> turns, at |-> clock, outcome |-> o]
<1>3. /\ n \in Nat /\ DOMAIN tape = 1 .. n /\ (tape = <<>> <=> n = 0)
      /\ IsLog(tape') /\ Len(tape') = n + 1 /\ tape'[n + 1] = rec /\ tape' # <<>>
      /\ \A i \in 1 .. n : tape'[i] = tape[i]
      /\ DOMAIN tape' = 1 .. (n + 1)
  <2>1. IsLog(tape)
    BY DEF SimIInv, Logs
  <2>2. tape' = Append(tape, rec)
    BY <1>1 DEF Writes
  <2> HIDE DEF rec
  <2>3. /\ IsLog(tape') /\ Len(tape') = n + 1 /\ tape'[n + 1] = rec
        /\ \A i \in 1 .. n : tape'[i] = tape[i]
    BY <1>0, <2>1, <2>2, LogGrows
  <2> QED BY <1>0, <2>1, <2>3, Boundary
<1>4. UNCHANGED <<Sim!project, clock, eval, chosen, asked, past, items>>
  BY <1>1 DEF Writes, Sim!replay
<1>5. items = <<>> /\ past = <<>> /\ Len(items) = 0 /\ Len(past) = 0
  BY <1>2 DEF SimIInv, Plain
<1>6. /\ IsLog(recent') /\ Len(recent') = Shorter(Len(recent) + 1, RecentLimit)
      /\ recent'[1] = [action |-> o.action, at |-> clock]
      /\ \A j \in DOMAIN recent' \ {1} : j - 1 \in DOMAIN recent /\ recent'[j] = recent[j - 1]
  <2> DEFINE x == [action |-> o.action, at |-> clock]
  <2>1. recent' = Sim!Newest(<<x>> \o recent, RecentLimit) /\ IsLog(recent)
        /\ RecentLimit \in Nat \ {0}
    BY <1>1 DEF Writes, SimIInv, Logs, Sim!ReplayAssumption
  <2>2. Recalls(recent', recent, x, RecentLimit)
    BY <2>1, NewestOfLog
  <2> QED BY <2>2 DEF Recalls
<1>7. /\ rec.said = m /\ rec.before = Sim!Running /\ rec.turns = turns
      /\ rec.at = clock /\ rec.outcome = o
  OBVIOUS
<1> HIDE DEF rec
<1>8. \A k \in 1 .. n : /\ TurnsAfter(k)' = TurnsAfter(k)
                        /\ Explained(k)' = Explained(k)
  BY <1>3, <1>4, SameTape
<1>9. Logs'
  BY <1>3, <1>4, <1>5, <1>6 DEF SimIInv, Logs
<1>10. Plain'
  <2>1. turns' \in Nat
    BY <1>1 DEF Writes, Questions, SimIInv, Plain
  <2>2. OfWorkflow(run')
    BY <1>1 DEF Writes
  <2>3. \A k \in 1 .. (n + 1) :
          tape'[k].turns \in Nat /\ tape'[k].at \in Nat /\ tape'[k].at <= clock
    <3>1. \A k \in 1 .. n : tape[k].turns \in Nat /\ tape[k].at \in Nat /\ tape[k].at <= clock
      BY <1>3 DEF SimIInv, Plain
    <3>2. rec.turns \in Nat /\ rec.at \in Nat /\ rec.at <= clock
      BY <1>7 DEF SimIInv, Plain
    <3> SUFFICES ASSUME NEW k \in 1 .. (n + 1)
                 PROVE  tape'[k].turns \in Nat /\ tape'[k].at \in Nat /\ tape'[k].at <= clock
      OBVIOUS
    <3>3. CASE k = n + 1
      <4>1. tape'[k] = rec
        BY <1>3, <3>3
      <4> QED BY <4>1, <3>2
    <3>4. CASE k \in 1 .. n
      <4>1. tape'[k] = tape[k]
        BY <1>3, <3>4
      <4> QED BY <4>1, <3>1, <3>4
    <3>5. n \in Nat
      BY <1>3
    <3> QED BY <3>3, <3>4, <3>5
  <2> QED BY <1>3, <1>4, <2>1, <2>2, <2>3 DEF SimIInv, Plain, Sim!project
<1>11. InOrder'
  <2>1. \A i \in 1 .. n : tape'[i].at <= clock /\ tape'[i].at \in Nat
    BY <1>3 DEF SimIInv, Plain
  <2>2. tape'[n + 1].at = clock /\ clock \in Nat
    BY <1>3, <1>7 DEF SimIInv, Plain
  <2>3. \A i, j \in 1 .. n : i <= j => tape'[i].at <= tape'[j].at
    BY <1>3 DEF SimIInv, InOrder
  <2> QED BY <1>3, <2>1, <2>2, <2>3 DEF InOrder
<1>12. Chained'
  <2>1. TurnsAfter(n + 1)' = turns'
    BY <1>1, <1>3, <1>7 DEF Writes, TurnsAfter
  <2>2. ASSUME NEW k \in 1 .. n PROVE tape'[k + 1].turns = TurnsAfter(k)'
    <3>1. CASE k = n
      BY <1>0, <1>3, <1>7, <1>8, <3>1 DEF SimIInv, Chained
    <3>2. CASE k # n
      <4>1. k \in 1 .. n - 1 /\ k + 1 \in 1 .. n
        BY <1>3, <3>2
      <4>2. tape[k + 1].turns = TurnsAfter(k)
        BY <1>0, <4>1 DEF SimIInv, Chained
      <4> QED BY <1>3, <1>8, <4>1, <4>2
    <3> QED BY <3>1, <3>2
  <2> QED BY <1>3, <2>1, <2>2 DEF Chained
<1>13. LooksBack'
  <2>0. RecentLimit \in Nat
    BY DEF Sim!ReplayAssumption
  <2>1. Len(recent) = Shorter(n, RecentLimit) /\ RecentLimit \in Nat \ {0}
    BY <1>0 DEF SimIInv, LooksBack, Sim!ReplayAssumption
  <2>2. Len(recent') = Shorter(n + 1, RecentLimit)
    BY <1>3, <1>6, <2>1 DEF Shorter
  <2>3. ASSUME NEW j \in DOMAIN recent'
        PROVE  /\ recent'[j].action = tape'[(n + 1) + 1 - j].outcome.action
               /\ recent'[j].at = tape'[(n + 1) + 1 - j].at
    <3>0. j \in 1 .. Shorter(n + 1, RecentLimit)
      BY <1>6, <2>2, Boundary
    <3>1. CASE j = 1
      BY <1>3, <1>6, <1>7, <3>1
    <3>2. CASE j # 1
      <4>1. j - 1 \in DOMAIN recent /\ recent'[j] = recent[j - 1]
        BY <1>6, <3>2
      <4>2. /\ recent[j - 1].action = tape[n + 1 - (j - 1)].outcome.action
            /\ recent[j - 1].at = tape[n + 1 - (j - 1)].at
        BY <1>0, <4>1 DEF SimIInv, LooksBack
      <4>3. n + 1 - (j - 1) \in 1 .. n /\ n + 1 - (j - 1) = (n + 1) + 1 - j
        BY <2>0, <3>0, <3>2 DEF Shorter
      <4> QED BY <1>3, <4>1, <4>2, <4>3
    <3> QED BY <3>1, <3>2
  <2> QED BY <1>3, <2>2, <2>3 DEF LooksBack
<1>14. EvalLooksBack'
  BY <1>4, <1>5 DEF SimIInv, EvalLooksBack
<1>15. AllExplained'
  <2>1. \A k \in 1 .. n : Explained(k)'
    BY <1>3, <1>8 DEF SimIInv, AllExplained
  <2>2. Explained(n + 1)'
    <3> DEFINE hot == \E i \in 1 .. n :
                        /\ tape[i].outcome.action = "SWITCH_WORKFLOW"
                        /\ ~(n + 1 - i > RecentLimit \/ clock - tape[i].at >= Sim!Policy.cooldown)
    <3>1. Sim!PolicyError(m) = ErrorOf(m, hot)
      BY <1>0, SessionError
    <3>2. 1 .. (n + 1) - 1 = 1 .. n
      OBVIOUS
    <3>3. Sim!Policy' = Sim!Policy
      BY <1>4, SameRule
    <3>4. hot <=> ~Sim!CooledDown(n + 1)'
      <4>1. Sim!CooledDown(n + 1)' <=>
              \A i \in 1 .. (n + 1) - 1 : tape'[i].outcome.action = "SWITCH_WORKFLOW" =>
                 (n + 1) - i > RecentLimit \/ tape'[n + 1].at - tape'[i].at >= Sim!Policy.cooldown
        BY <3>3 DEF Sim!CooledDown
      <4>2. tape'[n + 1].at = clock /\ \A i \in 1 .. n : tape'[i] = tape[i]
        BY <1>3, <1>7
      <4> DEFINE Old(i) == n + 1 - i > RecentLimit \/ clock - tape[i].at >= Sim!Policy.cooldown
                 Switched(i)  == tape[i].outcome.action = "SWITCH_WORKFLOW"
      <4>3. Sim!CooledDown(n + 1)' <=> \A i \in 1 .. n : Switched(i) => Old(i)
        BY <3>2, <4>1, <4>2
      <4>4. hot <=> \E i \in 1 .. n : Switched(i) /\ ~Old(i)
        OBVIOUS
      <4> HIDE DEF hot, Old, Switched
      <4> QED BY <4>3, <4>4
    <3> HIDE DEF hot
    <3>5. SaidWith(m, Sim!Running) = Sim!Said(m)
      BY DEF SaidWith, Sim!Said
    <3>6. ErrorOf(m, hot) = ErrorOf(m, ~Sim!CooledDown(n + 1)')
      BY <3>4 DEF ErrorOf
    <3> DEFINE e == ErrorOf(m, ~Sim!CooledDown(n + 1)')
    <3>7. \/ o.error = "ERR_CANCEL_NOT_ALLOWED"
          \/ Is(o, Ruling(m, SaidWith(m, Sim!Running), Sim!Running, turns, e))
      BY <1>1, <3>1, <3>5, <3>6
    <3>8. tape'[n + 1].said = m /\ tape'[n + 1].before = Sim!Running
          /\ tape'[n + 1].turns = turns /\ tape'[n + 1].outcome = o
      BY <1>3, <1>7
    <3> QED BY <1>4, <3>7, <3>8, SameRule DEF Explained
  <2> QED BY <1>3, <2>1, <2>2 DEF AllExplained
<1>16. Follows'
  <2>1. eval' # FALSE
    BY <1>2, <1>4 DEF Sim!NoneAssumption
  <2>2. Len(items') = 0 /\ asked' = 0
    BY <1>2, <1>4, <1>5 DEF SimIInv, Plain
  <2> QED BY <2>1, <2>2 DEF Follows
<1>17. FirstTurn' /\ FirstNow'
  <2>1. CASE n = 0
    <3>1. rec.turns = 0 /\ rec.before = None
      BY <1>3, <1>7, <2>1 DEF SimIInv, FirstNow, Sim!Running
    <3> QED BY <1>3, <2>1, <3>1 DEF FirstTurn, FirstNow
  <2>2. CASE n # 0
    BY <1>3, <2>2 DEF SimIInv, FirstTurn, FirstNow
  <2> QED BY <2>1, <2>2
<1>18. Sim!ReplayPredicts'
  BY <1>4, <1>5 DEF Sim!ReplayPredicts
<1> QED BY <1>9, <1>10, <1>11, <1>12, <1>13, <1>14, <1>15, <1>16, <1>17, <1>18 DEF SimIInv

-----------------------------------------------------------------------------
\* Why the evaluation need not say what was done with message k; o: what it says.
Forgiven(k, o) ==
  \/ ~eval /\ Sim!RunEnded(k)
  \/ Sim!QuestionsForgotten(k)
  \/ o.error = "ERR_SWITCH_COOLDOWN_ACTIVE" /\ Sim!CooledDown(k)
  \/ tape[k].outcome.error = "ERR_CANCEL_NOT_ALLOWED"
  \/ Sim!Candidates(tape[k].said) = <<>> /\ tape[k].said.intent # "none"

\* The evaluation has switches that are too recent for the session as too recent.
LEMMA EvalErrorIs ==
  ASSUME Sim!ReplayAssumption, Sim!NoneAssumption, SimIInv, Len(items) < Len(tape),
         AgreedOn(Len(items))
  PROVE  \E hot \in BOOLEAN : /\ Sim!EvalError = ErrorOf(Sim!CaseSays, hot)
                              /\ ~Sim!CooledDown(Len(items) + 1) => hot
<1>0. PICK n \in Nat : n = Len(items)
  BY Boundary DEF SimIInv, Logs
<1> DEFINE hot == \E i \in DOMAIN past : past[i].action = "SWITCH_WORKFLOW"
                                         /\ clock - past[i].at < Sim!Policy.cooldown
<1>1. /\ DOMAIN past = 1 .. Shorter(n, ReplayLimit) /\ DOMAIN tape = 1 .. Len(tape)
      /\ n + 1 \in DOMAIN tape /\ \A i \in 1 .. n : i \in DOMAIN tape
  BY <1>0, Boundary DEF SimIInv, Logs, EvalLooksBack
<1>2. /\ Sim!Policy.cooldown \in Nat /\ clock \in Nat
      /\ RecentLimit \in Nat /\ ReplayLimit \in Nat /\ RecentLimit <= ReplayLimit
  BY PolicyType DEF SimIInv, Plain, Sim!ReplayAssumption
<1>3. \A j \in DOMAIN past : past[j].action = items[n + 1 - j].action /\ past[j].at = clock
  BY <1>0 DEF SimIInv, EvalLooksBack
<1>4. Sim!EvalError = ErrorOf(Sim!CaseSays, hot)
  <2>1. Sim!EvalPolicy = Sim!Policy
    BY DEF Sim!EvalPolicy, Sim!EvalOrchestrator, Sim!Policy, Sim!Orchestrator
  <2>2. /\ \A i, j \in DOMAIN past : i <= j => past[j].at <= past[i].at
        /\ \A i \in DOMAIN past : past[i].at \in Nat
    BY <1>2, <1>3
  <2>3. Sim!SwitchError(Sim!Policy, past, Sim!Explicit(Sim!CaseSays)) = ErrorOf(Sim!CaseSays, hot)
    BY <1>2, <2>2, SwitchErrorIs DEF SimIInv, Logs
  <2> HIDE DEF hot
  <2> QED BY <2>1, <2>3 DEF Sim!EvalError
<1>5. ASSUME ~Sim!CooledDown(n + 1) PROVE hot
  <2>1. PICK i \in 1 .. n : /\ tape[i].outcome.action = "SWITCH_WORKFLOW"
                            /\ ~(n + 1 - i > RecentLimit)
                            /\ ~(tape[n + 1].at - tape[i].at >= Sim!Policy.cooldown)
    <3>1. (n + 1) - 1 = n
      OBVIOUS
    <3> QED BY <1>5, <3>1 DEF Sim!CooledDown
  <2>2. tape[i].at \in Nat /\ tape[n + 1].at \in Nat /\ tape[i].at <= tape[n + 1].at
    <3>1. i \in DOMAIN tape /\ i <= n + 1
      BY <1>1
    <3> QED BY <1>1, <3>1 DEF SimIInv, Plain, InOrder
  <2>3. Sim!Policy.cooldown > 0
    BY <1>2, <2>1, <2>2
  <2>4. n + 1 - i \in DOMAIN past /\ n + 1 - (n + 1 - i) = i
    BY <1>1, <1>2, <2>1 DEF Shorter
  <2>5. items[i].action = "SWITCH_WORKFLOW"
    BY <1>0, <2>1 DEF AgreedOn, Sim!Agree
  <2>6. past[n + 1 - i].action = "SWITCH_WORKFLOW" /\ past[n + 1 - i].at = clock
    BY <1>3, <2>4, <2>5
  <2> QED BY <1>2, <2>3, <2>4, <2>6
<1>6. hot = TRUE \/ hot = FALSE
  OBVIOUS
<1> HIDE DEF hot
<1>7. CASE hot = TRUE
  BY <1>0, <1>4, <1>7
<1>8. CASE hot = FALSE
  BY <1>0, <1>4, <1>5, <1>8
<1> QED BY <1>6, <1>7, <1>8

\* The policy's error only shows where the run is kept instead of another.
LEMMA ErrorShows ==
  ASSUME NEW m, NEW d, NEW w, NEW q, NEW e, NEW f
  PROVE  \/ Ruling(m, d, w, q, e) = Ruling(m, d, w, q, f)
         \/ Ruling(m, d, w, q, e).error = e
BY DEF Ruling, Verdict

\* The active workflow and the questions of a case are those of the session.
LEMMA SameCase ==
  ASSUME Sim!ReplayAssumption, Sim!NoneAssumption, SimIInv,
         NEW n \in Nat, n = Len(items), n < Len(tape), AgreedOn(n),
         eval # None
  PROVE  /\ ~(eval = FALSE /\ Sim!RunEnded(n + 1)) => Sim!EvalActive = tape[n + 1].before
         /\ ~Sim!QuestionsForgotten(n + 1) => asked = tape[n + 1].turns
<1>1. Len(tape) \in Nat /\ DOMAIN tape = 1 .. Len(tape) /\ tape # <<>>
  BY Boundary DEF SimIInv, Logs
<1>2. eval = TRUE \/ eval = FALSE
  BY DEF SimIInv, Plain
<1>3. ASSUME ~(eval = FALSE /\ Sim!RunEnded(n + 1)) PROVE Sim!EvalActive = tape[n + 1].before
  <2>1. CASE eval = TRUE
    BY <2>1 DEF Sim!EvalActive, Sim!Case
  <2>2. CASE eval = FALSE
    <3>1. Sim!EvalActive = chosen
      BY <2>2 DEF Sim!EvalActive
    <3>2. ~Sim!RunEnded(n + 1)
      BY <1>3, <2>2
    <3>3. ~Sim!RunEnded(n)
      <4>1. \A i \in 1 .. n - 1 : i \in 1 .. (n + 1) - 1
        OBVIOUS
      <4> QED BY <3>2, <4>1 DEF Sim!RunEnded
    <3>4. chosen = IF n = 0 THEN None ELSE Sim!ActiveAfter(n)
      BY <2>2, <3>3 DEF SimIInv, Follows
    <3>5. CASE n = 0
      BY <1>1, <3>1, <3>4, <3>5 DEF SimIInv, FirstTurn
    <3>6. CASE n # 0
      <4>1. n \in 1 .. (n + 1) - 1
        BY <3>6
      <4>2. tape[n + 1].before = Sim!ActiveAfter(n)
        BY <3>2, <4>1 DEF Sim!RunEnded
      <4> QED BY <3>1, <3>4, <3>6, <4>2
    <3> QED BY <3>5, <3>6
  <2> QED BY <1>2, <2>1, <2>2
<1>4. ASSUME ~Sim!QuestionsForgotten(n + 1) PROVE asked = tape[n + 1].turns
  <2>1. asked = IF n = 0 THEN 0 ELSE TurnsAfter(n)
    BY <1>4 DEF SimIInv, Follows
  <2>2. CASE n = 0
    BY <1>1, <2>1, <2>2 DEF SimIInv, FirstTurn
  <2>3. CASE n # 0
    <3>1. n \in 1 .. Len(tape) - 1
      BY <1>1, <2>3
    <3> QED BY <2>1, <2>3, <3>1 DEF SimIInv, Chained
  <2> QED BY <2>2, <2>3
<1> QED BY <1>3, <1>4

LEMMA Foretold ==
  ASSUME Sim!ReplayAssumption, Sim!NoneAssumption, SimIInv,
         NEW n \in Nat, n = Len(items), n < Len(tape), AgreedOn(n),
         eval # None,
         NEW o, Is(o, Ruling(Sim!CaseSays, Sim!EvalSaid, Sim!EvalActive, asked, Sim!EvalError))
  PROVE  Is(o, tape[n + 1].outcome) \/ Forgiven(n + 1, o)
<1> SUFFICES ASSUME ~Forgiven(n + 1, o) PROVE Is(o, tape[n + 1].outcome)
  OBVIOUS
<1> DEFINE t == tape[n + 1]
<1>1. n + 1 \in DOMAIN tape
  BY Boundary DEF SimIInv, Logs
<1>2. Sim!EvalActive = t.before /\ asked = t.turns /\ Sim!CaseSays = t.said
  BY SameCase DEF Forgiven, Sim!CaseSays, Sim!Case
<1>3. Sim!EvalSaid = SaidWith(t.said, t.before)
  <2>1. Sim!EvalSaid = Sim!Route(t.said, Sim!Candidates(t.said), t.before, Sim!Policy)
    BY <1>2 DEF Sim!EvalSaid, Sim!EvalCandidates, Sim!Candidates, Sim!EvalPolicy, Sim!Policy,
      Sim!EvalOrchestrator, Sim!Orchestrator
  <2>2. CASE Sim!Candidates(t.said) = <<>>
    <3>1. t.said.intent = "none"
      BY <2>2 DEF Forgiven
    <3> QED BY <2>1, <2>2, <3>1 DEF SaidWith, Sim!Route
  <2>3. CASE Sim!Candidates(t.said) # <<>>
    BY <2>1, <2>3 DEF SaidWith
  <2> QED BY <2>2, <2>3
<1> DEFINE Rule(e) == Ruling(t.said, SaidWith(t.said, t.before), t.before, t.turns, e)
           f == ErrorOf(t.said, ~Sim!CooledDown(n + 1))
<1>4. Is(t.outcome, Rule(f))
  BY <1>1 DEF SimIInv, AllExplained, Explained, Forgiven
<1>5. Is(o, Rule(Sim!EvalError))
  BY <1>2, <1>3
<1>6. PICK hot \in BOOLEAN : Sim!EvalError = ErrorOf(t.said, hot) /\ (~Sim!CooledDown(n + 1) => hot)
  BY <1>2, EvalErrorIs
<1>7. \/ Sim!EvalError = f
      \/ Sim!EvalError = "ERR_SWITCH_COOLDOWN_ACTIVE" /\ Sim!CooledDown(n + 1)
  <2>1. CASE hot = FALSE
    BY <1>6, <2>1
  <2>2. CASE hot = TRUE
    <3>1. Sim!EvalError = ErrorOf(t.said, TRUE)
      BY <1>6, <2>2
    <3>2. CASE Sim!CooledDown(n + 1)
      BY <3>1, <3>2 DEF ErrorOf
    <3>3. CASE ~Sim!CooledDown(n + 1)
      <4>1. (~Sim!CooledDown(n + 1)) = TRUE
        BY <3>3
      <4> QED BY <3>1, <4>1
    <3> QED BY <3>2, <3>3
  <2> QED BY <2>1, <2>2
<1>8. Rule(Sim!EvalError) = Rule(f) \/ Rule(Sim!EvalError).error = Sim!EvalError
  BY ErrorShows
<1> HIDE DEF Rule, f
<1>9. Rule(Sim!EvalError) = Rule(f)
  BY <1>5, <1>7, <1>8 DEF Is, Forgiven
<1> QED BY <1>4, <1>5, <1>9 DEF Is

\* An item that is what was done leaves the evaluation where the session was.
LEMMA Keeps ==
  ASSUME Sim!ReplayAssumption, Sim!NoneAssumption, SimIInv, NEW n \in Nat, n = Len(items),
         n < Len(tape),
         AgreedOn(n), eval # None, NEW o, Is(o, tape[n + 1].outcome),
         Is(o, Ruling(Sim!CaseSays, Sim!EvalSaid, Sim!EvalActive, asked, Sim!EvalError))
  PROVE  /\ eval = FALSE /\ ~Sim!RunEnded(n + 1) =>
              NextActive(o, Sim!EvalActive) = Sim!ActiveAfter(n + 1)
         /\ ~Sim!QuestionsForgotten(n + 2) => EvalQuestions(o.action, asked) = TurnsAfter(n + 1)
<1> DEFINE t == tape[n + 1]
<1>1. n + 1 \in DOMAIN tape
  BY Boundary DEF SimIInv, Logs
<1>2. o.action = t.outcome.action /\ o.workflow = t.outcome.workflow /\ o.error = t.outcome.error
  BY DEF Is
<1>3. ASSUME eval = FALSE, ~Sim!RunEnded(n + 1)
      PROVE  NextActive(o, Sim!EvalActive) = Sim!ActiveAfter(n + 1)
  <2>1. Sim!EvalActive = t.before
    BY <1>3, SameCase
  <2>2. o.action = "CANCEL" => o.error # "ERR_CANCEL_NOT_ALLOWED"
    <3>1. o.action = "CANCEL" => o.error \in {"ERR_NO_ACTIVE_WORKFLOW", None}
      BY DEF Is, Ruling, Verdict
    <3> QED BY <3>1 DEF Sim!NoneAssumption, Sim!Errors
  <2> HIDE DEF t
  <2>3. Sim!ActiveAfter(n + 1) =
          CASE t.outcome.action = "CANCEL" /\ t.outcome.error # "ERR_CANCEL_NOT_ALLOWED" -> None
            [] t.outcome.action # "CANCEL" /\ t.outcome.workflow # None -> t.outcome.workflow
            [] OTHER -> t.before
    BY DEF Sim!ActiveAfter, t
  <2> QED BY <1>2, <2>1, <2>2, <2>3 DEF NextActive
<1>4. ASSUME ~Sim!QuestionsForgotten(n + 2)
      PROVE  EvalQuestions(o.action, asked) = TurnsAfter(n + 1)
  <2>1. (n + 2) - 1 = n + 1 /\ (n + 1) - 1 = n
    OBVIOUS
  <2>2. \A i \in 1 .. n + 1 :
          ~ /\ tape[i].outcome.action \in {"OPERATOR", "CANCEL"} /\ tape[i].turns > 0
            /\ \A j \in i .. n + 1 :
                 tape[j].outcome.action \in {"OPERATOR", "CANCEL", "DISAMBIGUATE"}
    BY <1>4, <2>1 DEF Sim!QuestionsForgotten
  <2>3. TurnsAfter(n + 1) = Questions(o.action, t.turns)
    BY <1>2 DEF TurnsAfter
  <2>4. CASE o.action \in {"OPERATOR", "CANCEL"}
    <3>1. ~(t.turns > 0)
      <4>1. n + 1 \in 1 .. n + 1 /\ \A j \in n + 1 .. n + 1 : j = n + 1
        OBVIOUS
      <4> QED BY <1>2, <2>2, <2>4, <4>1
    <3>2. t.turns \in Nat
      BY <1>1 DEF SimIInv, Plain
    <3> QED BY <2>3, <2>4, <3>1, <3>2 DEF Questions, EvalQuestions
  <2>5. CASE o.action = "DISAMBIGUATE"
    <3>1. ~Sim!QuestionsForgotten(n + 1)
      <4> SUFFICES ASSUME NEW i \in 1 .. n,
                          tape[i].outcome.action \in {"OPERATOR", "CANCEL"}, tape[i].turns > 0,
                          \A j \in i .. n : tape[j].outcome.action
                                            \in {"OPERATOR", "CANCEL", "DISAMBIGUATE"}
                   PROVE  FALSE
        BY <2>1 DEF Sim!QuestionsForgotten
      <4>1. \A j \in i .. n + 1 : j \in i .. n \/ j = n + 1
        OBVIOUS
      <4>2. \A j \in i .. n + 1 : tape[j].outcome.action
                                  \in {"OPERATOR", "CANCEL", "DISAMBIGUATE"}
        BY <1>2, <2>5, <4>1
      <4> QED BY <2>2, <4>2
    <3>2. asked = t.turns
      BY <3>1, SameCase
    <3> QED BY <2>3, <2>5, <3>2 DEF Questions, EvalQuestions
  <2>6. CASE o.action \notin {"OPERATOR", "CANCEL", "DISAMBIGUATE"}
    BY <2>3, <2>6 DEF Questions, EvalQuestions
  <2> QED BY <2>4, <2>5, <2>6
<1> QED BY <1>3, <1>4

LEMMA Evaluated ==
  ASSUME Sim!ReplayAssumption, Sim!NoneAssumption, SimIInv, Sim!Evaluate
  PROVE  SimIInv'
<1>0. PICK n \in Nat : n = Len(items)
  BY Boundary DEF SimIInv, Logs
<1>1. PICK o : /\ Predicts(o)
               /\ Is(o, Ruling(Sim!CaseSays, Sim!EvalSaid, Sim!EvalActive, asked, Sim!EvalError))
  BY CaseDecided DEF SimIInv, Plain
<1>2. eval # None /\ n < Len(tape) /\ Len(tape) \in Nat /\ DOMAIN tape = 1 .. Len(tape)
  BY <1>0, CaseDecided, Boundary DEF SimIInv, Plain, Logs
<1>3. UNCHANGED <<active, asks, run, turns, recent, tape, clock, eval, Sim!project>>
  BY <1>1 DEF Predicts, Sim!project, Sim!session
<1>4. /\ IsLog(items') /\ Len(items') = n + 1 /\ items'[n + 1] = o
      /\ \A i \in 1 .. n : items'[i] = items[i]
      /\ DOMAIN items = 1 .. n /\ DOMAIN items' = 1 .. n + 1
  <2>1. IsLog(items) /\ items' = Append(items, o)
    BY <1>1 DEF SimIInv, Logs, Predicts
  <2>2. /\ IsLog(items') /\ Len(items') = n + 1 /\ items'[n + 1] = o
        /\ \A i \in 1 .. n : items'[i] = items[i]
    BY <1>0, <2>1, LogGrows
  <2> QED BY <1>0, <2>1, <2>2, Boundary
<1>5. /\ IsLog(past') /\ Len(past') = Shorter(Len(past) + 1, ReplayLimit)
      /\ past'[1] = [action |-> o.action, at |-> clock]
      /\ \A j \in DOMAIN past' \ {1} : j - 1 \in DOMAIN past /\ past'[j] = past[j - 1]
  <2> DEFINE x == [action |-> o.action, at |-> clock]
  <2>1. past' = Sim!Newest(<<x>> \o past, ReplayLimit) /\ IsLog(past) /\ ReplayLimit \in Nat \ {0}
    BY <1>1 DEF Predicts, SimIInv, Logs, Sim!ReplayAssumption
  <2>2. Recalls(past', past, x, ReplayLimit)
    BY <2>1, NewestOfLog
  <2> QED BY <2>2 DEF Recalls
<1>6. Logs'
  BY <1>2, <1>3, <1>4, <1>5 DEF SimIInv, Logs
<1>7. Plain'
  <2>1. asked' \in Nat
    BY <1>1 DEF Predicts, EvalQuestions, SimIInv, Plain
  <2> QED BY <1>2, <1>3, <2>1 DEF SimIInv, Plain
<1>8. InOrder' /\ LooksBack' /\ FirstTurn' /\ FirstNow'
  BY <1>3 DEF SimIInv, InOrder, LooksBack, FirstTurn, FirstNow
<1>9. \A k \in 1 .. Len(tape) : /\ TurnsAfter(k)' = TurnsAfter(k)
                                /\ Sim!ActiveAfter(k)' = Sim!ActiveAfter(k)
                                /\ Sim!CooledDown(k)' = Sim!CooledDown(k)
                                /\ Explained(k)' = Explained(k)
  <2>1. PICK l \in Nat : l = Len(tape)
    BY <1>2
  <2>2. \A i \in 1 .. l : tape'[i] = tape[i]
    BY <1>3
  <2> QED BY <1>3, <2>1, <2>2, SameTape
<1>10. Chained' /\ AllExplained'
  <2>1. Chained'
    BY <1>2, <1>3, <1>9, Boundary DEF SimIInv, Chained, Logs
  <2>2. AllExplained'
    BY <1>2, <1>3, <1>9 DEF SimIInv, AllExplained
  <2> QED BY <2>1, <2>2
<1>11. EvalLooksBack'
  <2>1. Len(past) = Shorter(n, ReplayLimit) /\ ReplayLimit \in Nat \ {0}
    BY <1>0 DEF SimIInv, EvalLooksBack, Sim!ReplayAssumption
  <2>2. Len(past') = Shorter(n + 1, ReplayLimit)
    BY <1>5, <2>1 DEF Shorter
  <2>3. ASSUME NEW j \in DOMAIN past'
        PROVE  past'[j].action = items'[(n + 1) + 1 - j].action /\ past'[j].at = clock
    <3>0. j \in 1 .. Shorter(n + 1, ReplayLimit)
      BY <1>5, <2>2, Boundary
    <3>1. CASE j = 1
      BY <1>4, <1>5, <3>1
    <3>2. CASE j # 1
      <4>1. j - 1 \in DOMAIN past /\ past'[j] = past[j - 1]
        BY <1>5, <3>2
      <4>2. past[j - 1].action = items[n + 1 - (j - 1)].action /\ past[j - 1].at = clock
        BY <1>0, <4>1 DEF SimIInv, EvalLooksBack
      <4>3. ReplayLimit \in Nat
        BY <2>1
      <4>4. n + 1 - (j - 1) \in 1 .. n /\ n + 1 - (j - 1) = (n + 1) + 1 - j
        BY <3>0, <3>2, <4>3 DEF Shorter
      <4> QED BY <1>4, <4>1, <4>2, <4>4
    <3> QED BY <3>1, <3>2
  <2> QED BY <1>3, <1>4, <2>2, <2>3 DEF EvalLooksBack
<1>12. /\ \A k \in 1 .. n : Sim!Agree(k)' = Sim!Agree(k)
       /\ Sim!Agree(n + 1)' <=> Is(o, tape[n + 1].outcome)
  BY <1>3, <1>4 DEF Sim!Agree, Is
<1>13. \A k \in 1 .. n + 1 : Sim!RunEnded(k)' = Sim!RunEnded(k)
  <2> SUFFICES ASSUME NEW k \in 1 .. n + 1 PROVE Sim!RunEnded(k)' = Sim!RunEnded(k)
    OBVIOUS
  <2>1. \A i \in 1 .. k - 1 : i \in 1 .. Len(tape)
    BY <1>2
  <2> QED BY <1>3, <1>9, <2>1 DEF Sim!RunEnded
<1>14. \A k : Sim!QuestionsForgotten(k)' = Sim!QuestionsForgotten(k)
  BY <1>3 DEF Sim!QuestionsForgotten
<1>15. AgreedOn(n + 1)' => AgreedOn(n) /\ Is(o, tape[n + 1].outcome)
  BY <1>12 DEF AgreedOn
<1>16. Follows'
  <2> SUFFICES ASSUME AgreedOn(n + 1)'
               PROVE  /\ eval = FALSE /\ ~Sim!RunEnded(n + 1) => chosen' = Sim!ActiveAfter(n + 1)
                      /\ ~Sim!QuestionsForgotten(n + 2) => asked' = TurnsAfter(n + 1)
    <3>1. /\ Sim!RunEnded(n + 1)' = Sim!RunEnded(n + 1)
          /\ Sim!QuestionsForgotten(n + 2)' = Sim!QuestionsForgotten(n + 2)
          /\ Sim!ActiveAfter(n + 1)' = Sim!ActiveAfter(n + 1)
          /\ TurnsAfter(n + 1)' = TurnsAfter(n + 1)
      <4>1. n + 1 \in 1 .. n + 1 /\ n + 1 \in 1 .. Len(tape)
        BY <1>2
      <4> QED BY <1>9, <1>13, <1>14, <4>1
    <3>2. n + 1 # 0 /\ (n + 1) + 1 = n + 2
      OBVIOUS
    <3> QED BY <1>3, <1>4, <3>1, <3>2 DEF Follows
  <2>1. chosen' = NextActive(o, Sim!EvalActive) /\ asked' = EvalQuestions(o.action, asked)
    BY <1>1 DEF Predicts
  <2> QED BY <1>0, <1>1, <1>2, <1>15, <2>1, Keeps
<1>17. Sim!ReplayPredicts'
  <2> DEFINE excuse(k) ==
        \/ ~eval /\ Sim!RunEnded(k)
        \/ Sim!QuestionsForgotten(k)
        \/ items'[k].error = "ERR_SWITCH_COOLDOWN_ACTIVE" /\ Sim!CooledDown(k)
        \/ tape[k].outcome.error = "ERR_CANCEL_NOT_ALLOWED"
        \/ Sim!Candidates(tape[k].said) = <<>> /\ tape[k].said.intent # "none"
  <2>1. ASSUME NEW k \in 1 .. n + 1, (\A i \in 1 .. k - 1 : Sim!Agree(i)'), ~Sim!Agree(k)'
        PROVE  excuse(k)
    <3>1. \A i \in 1 .. k - 1 : i \in 1 .. n
      OBVIOUS
    <3>2. \A i \in 1 .. k - 1 : Sim!Agree(i)
      BY <1>12, <2>1, <3>1
    <3>3. CASE k \in 1 .. n
      <4>1. ~Sim!Agree(k)
        BY <1>12, <2>1, <3>3
      <4> QED BY <1>4, <3>2, <3>3, <4>1 DEF SimIInv, Sim!ReplayPredicts
    <3>4. CASE k = n + 1
      <4>1. AgreedOn(n) /\ ~Is(o, tape[n + 1].outcome)
        <5>1. (n + 1) - 1 = n
          OBVIOUS
        <5> QED BY <1>12, <2>1, <3>2, <3>4, <5>1 DEF AgreedOn
      <4>2. Forgiven(n + 1, o)
        BY <1>0, <1>1, <1>2, <4>1, Foretold
      <4> QED BY <1>4, <3>4, <4>2 DEF Forgiven
    <3> QED BY <3>3, <3>4
  <2>2. ASSUME NEW k \in 1 .. n + 1
        PROVE  /\ Sim!RunEnded(k)' = Sim!RunEnded(k) /\ Sim!CooledDown(k)' = Sim!CooledDown(k)
               /\ Sim!QuestionsForgotten(k)' = Sim!QuestionsForgotten(k)
               /\ Sim!Candidates(tape[k].said)' = Sim!Candidates(tape[k].said)
    <3>1. k \in 1 .. Len(tape)
      BY <1>2
    <3> QED BY <1>3, <1>9, <1>13, <1>14, <3>1, SameRule
  <2> QED BY <1>3, <1>4, <2>1, <2>2 DEF Sim!ReplayPredicts
<1> QED BY <1>6, <1>7, <1>8, <1>10, <1>11, <1>16, <1>17 DEF SimIInv

LEMMA Ticks ==
  ASSUME Sim!ReplayAssumption, Sim!NoneAssumption, SimIInv, Sim!Tick
  PROVE  SimIInv'
<1>1. eval = None /\ items = <<>> /\ past = <<>> /\ clock' = clock + 1
      /\ UNCHANGED <<active, asks, run, turns, recent, tape, eval, chosen, asked, past, items>>
  BY DEF Sim!Tick, SimIInv, Plain, Sim!project, Sim!session, Sim!replay
<1>2. \A k \in 1 .. Len(tape) : TurnsAfter(k)' = TurnsAfter(k) /\ Explained(k)' = Explained(k)
  <2>1. PICK l \in Nat : l = Len(tape)
    BY Boundary DEF SimIInv, Logs
  <2>2. (\A i \in 1 .. l : tape'[i] = tape[i]) /\ UNCHANGED Sim!project
    BY <1>1 DEF Sim!project
  <2> QED BY <2>1, <2>2, SameTape
<1>3. Len(tape) \in Nat /\ DOMAIN tape = 1 .. Len(tape) /\ (tape = <<>> <=> Len(tape) = 0)
      /\ Len(items) = 0
  BY <1>1, Boundary DEF SimIInv, Logs
<1>4. Logs' /\ InOrder' /\ LooksBack' /\ FirstTurn' /\ FirstNow' /\ Sim!ReplayPredicts'
  BY <1>1 DEF SimIInv, Logs, InOrder, LooksBack, FirstTurn, FirstNow, Sim!ReplayPredicts
<1>5. Plain'
  BY <1>1 DEF SimIInv, Plain
<1>6. EvalLooksBack'
  BY <1>1 DEF SimIInv, EvalLooksBack
<1>7. Chained' /\ AllExplained'
  <2>1. Chained'
    BY <1>1, <1>2, <1>3 DEF SimIInv, Chained
  <2>2. AllExplained'
    BY <1>1, <1>2, <1>3 DEF SimIInv, AllExplained
  <2> QED BY <2>1, <2>2
<1>8. Follows'
  BY <1>1, <1>3 DEF SimIInv, Plain, Follows, Sim!NoneAssumption
<1> QED BY <1>4, <1>5, <1>6, <1>7, <1>8 DEF SimIInv

LEMMA Submits ==
  ASSUME Sim!ReplayAssumption, Sim!NoneAssumption, SimIInv, NEW given \in BOOLEAN, Sim!Submit(given)
  PROVE  SimIInv'
<1>1. eval = None /\ items = <<>> /\ past = <<>> /\ chosen = None /\ asked = 0 /\ eval' = given
      /\ UNCHANGED <<active, asks, run, turns, recent, tape, clock, chosen, asked, past, items>>
  BY DEF Sim!Submit, SimIInv, Plain, Sim!project, Sim!session
<1>2. \A k \in 1 .. Len(tape) : TurnsAfter(k)' = TurnsAfter(k) /\ Explained(k)' = Explained(k)
  <2>1. PICK l \in Nat : l = Len(tape)
    BY Boundary DEF SimIInv, Logs
  <2>2. (\A i \in 1 .. l : tape'[i] = tape[i]) /\ UNCHANGED Sim!project
    BY <1>1 DEF Sim!project
  <2> QED BY <2>1, <2>2, SameTape
<1>3. Len(tape) \in Nat /\ DOMAIN tape = 1 .. Len(tape) /\ (tape = <<>> <=> Len(tape) = 0)
      /\ Len(items) = 0
  BY <1>1, Boundary DEF SimIInv, Logs
<1>4. Logs' /\ InOrder' /\ LooksBack' /\ FirstTurn' /\ FirstNow' /\ Sim!ReplayPredicts'
  BY <1>1 DEF SimIInv, Logs, InOrder, LooksBack, FirstTurn, FirstNow, Sim!ReplayPredicts
<1>5. Plain'
  <2>1. eval' \in BOOLEAN
    BY <1>1
  <2> QED BY <1>1, <2>1 DEF SimIInv, Plain
<1>6. EvalLooksBack'
  BY <1>1 DEF SimIInv, EvalLooksBack
<1>7. Chained' /\ AllExplained'
  <2>1. Chained'
    BY <1>1, <1>2, <1>3 DEF SimIInv, Chained
  <2>2. AllExplained'
    BY <1>1, <1>2, <1>3 DEF SimIInv, AllExplained
  <2> QED BY <2>1, <2>2
<1>8. Follows'
  BY <1>1, <1>3 DEF Follows
<1> QED BY <1>4, <1>5, <1>6, <1>7, <1>8 DEF SimIInv

LEMMA Begins ==
  ASSUME Sim!ReplayAssumption, Sim!NoneAssumption, Sim!Init
  PROVE  SimIInv
<1>1. tape = <<>> /\ items = <<>> /\ recent = <<>> /\ past = <<>>
  BY DEF Sim!Init
<1>2. Logs
  BY <1>1 DEF Logs, IsLog
<1>3. Plain
  BY <1>1 DEF Sim!Init, Plain, OfWorkflow
<1>4. InOrder /\ Chained /\ AllExplained /\ FirstTurn /\ FirstNow /\ Sim!ReplayPredicts
  BY <1>1 DEF Sim!Init, InOrder, Chained, AllExplained, FirstTurn, FirstNow, Sim!ReplayPredicts
<1>5. LooksBack /\ EvalLooksBack
  BY <1>1 DEF LooksBack, EvalLooksBack, Shorter, Sim!ReplayAssumption
<1>6. Follows
  BY <1>1 DEF Sim!Init, Follows
<1> QED BY <1>2, <1>3, <1>4, <1>5, <1>6 DEF SimIInv

LEMMA Stays ==
  ASSUME Sim!ReplayAssumption, Sim!NoneAssumption, SimIInv, UNCHANGED Sim!vars
  PROVE  SimIInv'
<1>1. UNCHANGED <<active, asks, run, turns, recent, tape, clock, eval, chosen, asked, past, items>>
  BY DEF Sim!vars, Sim!project, Sim!session, Sim!replay
<1>2. \A k \in 1 .. Len(tape) : /\ TurnsAfter(k)' = TurnsAfter(k)
                                /\ Explained(k)' = Explained(k)
                                /\ Sim!ActiveAfter(k)' = Sim!ActiveAfter(k)
                                /\ Sim!CooledDown(k)' = Sim!CooledDown(k)
  <2>1. PICK l \in Nat : l = Len(tape)
    BY Boundary DEF SimIInv, Logs
  <2>2. (\A i \in 1 .. l : tape'[i] = tape[i]) /\ UNCHANGED Sim!project
    BY <1>1 DEF Sim!project
  <2> QED BY <2>1, <2>2, SameTape
<1>3. Len(tape) \in Nat /\ DOMAIN tape = 1 .. Len(tape) /\ (tape = <<>> <=> Len(tape) = 0)
      /\ Len(items) \in Nat /\ DOMAIN items = 1 .. Len(items) /\ Len(items) <= Len(tape)
  BY Boundary DEF SimIInv, Logs
<1>4. Logs' /\ Plain' /\ InOrder' /\ LooksBack' /\ EvalLooksBack' /\ FirstTurn' /\ FirstNow'
  BY <1>1 DEF SimIInv, Logs, Plain, InOrder, LooksBack, EvalLooksBack, FirstTurn, FirstNow
<1>5. Chained' /\ AllExplained'
  <2>1. Chained'
    BY <1>1, <1>2, <1>3 DEF SimIInv, Chained
  <2>2. AllExplained'
    BY <1>1, <1>2, <1>3 DEF SimIInv, AllExplained
  <2> QED BY <2>1, <2>2
<1>6. \A k \in 1 .. Len(items) : Sim!RunEnded(k)' = Sim!RunEnded(k)
  <2> SUFFICES ASSUME NEW k \in 1 .. Len(items) PROVE Sim!RunEnded(k)' = Sim!RunEnded(k)
    OBVIOUS
  <2>1. \A i \in 1 .. k - 1 : i \in 1 .. Len(tape)
    BY <1>3
  <2> QED BY <1>1, <1>2, <2>1 DEF Sim!RunEnded
<1>7. \A k : Sim!QuestionsForgotten(k)' = Sim!QuestionsForgotten(k) /\ Sim!Agree(k)' = Sim!Agree(k)
             /\ Sim!Candidates(tape[k].said)' = Sim!Candidates(tape[k].said)
  <2>1. \A m : Sim!Candidates(m)' = Sim!Candidates(m)
    BY <1>1, SameRule DEF Sim!project
  <2> QED BY <1>1, <2>1 DEF Sim!QuestionsForgotten, Sim!Agree
<1>8. Follows'
  <2>1. PICK n \in Nat : n = Len(items)
    BY <1>3
  <2>2. AgreedOn(n)' = AgreedOn(n)
    BY <1>7 DEF AgreedOn
  <2>3. Sim!RunEnded(n)' = Sim!RunEnded(n)
    <3>1. CASE n = 0
      <4>1. 1 .. n - 1 = {}
        BY <3>1
      <4> QED BY <4>1 DEF Sim!RunEnded
    <3>2. CASE n # 0
      BY <1>6, <2>1, <3>2
    <3> QED BY <3>1, <3>2
  <2>4. n # 0 => Sim!ActiveAfter(n)' = Sim!ActiveAfter(n) /\ TurnsAfter(n)' = TurnsAfter(n)
    BY <1>2, <1>3, <2>1
  <2> QED BY <1>1, <1>7, <2>1, <2>2, <2>3, <2>4 DEF SimIInv, Follows
<1>9. Sim!ReplayPredicts'
  BY <1>1, <1>2, <1>3, <1>6, <1>7 DEF SimIInv, Sim!ReplayPredicts
<1> QED BY <1>4, <1>5, <1>8, <1>9 DEF SimIInv

\* Sent the messages of a session, the evaluation (evaluate_routing_replay) says what was
\* done with each, up to one that it is excused for: for any project, messages and times.
THEOREM Simulates ==
  ASSUME Sim!ReplayAssumption, Sim!NoneAssumption
  PROVE  Sim!Spec => []Sim!ReplayPredicts
<1>1. Sim!Init => SimIInv
  BY Begins
<1>2. SimIInv /\ [Sim!Next]_Sim!vars => SimIInv'
  <2> SUFFICES ASSUME SimIInv, [Sim!Next]_Sim!vars PROVE SimIInv'
    OBVIOUS
  <2>1. CASE \E m \in Texts : Sim!Handle(m)
    BY <2>1, Handled
  <2>2. CASE Sim!Tick
    BY <2>2, Ticks
  <2>3. CASE \E given \in BOOLEAN : Sim!Submit(given)
    BY <2>3, Submits
  <2>4. CASE Sim!Evaluate
    BY <2>4, Evaluated
  <2>5. CASE UNCHANGED Sim!vars
    BY <2>5, Stays
  <2> QED BY <2>1, <2>2, <2>3, <2>4, <2>5 DEF Sim!Next
<1>3. SimIInv => Sim!ReplayPredicts
  BY DEF SimIInv
<1> QED BY <1>1, <1>2, <1>3, PTL DEF Sim!Spec
=============================================================================
