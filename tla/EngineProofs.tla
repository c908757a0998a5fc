---------------------------- MODULE EngineProofs ----------------------------
(***************************************************************************)
(* Theorems about Engine, for every workflow graph: the invariants of the  *)
(* engine under every API call; and, for the calls and the graphs that     *)
(* each needs, settled outputs, the steps of RunLifecycle, the order of    *)
(* dependencies, and that no call leaves a run stranded on a tidy graph.   *)
(* Then, for the calls that nodes make to the world outside (ToolCalls):   *)
(* what an accepted answer and a resolved node tell.                       *)
(***************************************************************************)
EXTENDS Engine, FiniteSetTheorems, TLAPS

\* What a node reaches are nodes.
LEMMA ReachableType == \A n \in Nodes : Reachable[n] \subseteq Nodes
  BY DEF Reachable, ReachableBy

\* Changing the status of one interrupt keeps the list well typed.
LEMMA InterruptStatusType ==
  ASSUME NEW s \in Seq(Interrupt), NEW i \in DOMAIN s,
         NEW st \in {"OPEN", "RESOLVED", "CANCELLED"}
  PROVE  [s EXCEPT ![i].status = st] \in Seq(Interrupt)
  <1> DEFINE t == [s EXCEPT ![i].status = st]
  <1>1. s[i] \in Interrupt
    OBVIOUS
  <1>2. [s[i] EXCEPT !.status = st] \in Interrupt
    BY <1>1 DEF Interrupt
  <1>3. t = [s EXCEPT ![i] = [s[i] EXCEPT !.status = st]]
    OBVIOUS
  <1>4. t \in Seq(Interrupt)
    BY <1>2, <1>3
  <1> QED BY <1>4

LEMMA AttemptsType ==
  ASSUME TypeOK, NEW ns \in [Nodes -> NodeStatuses]
  PROVE  Attempts(ns) \in [Nodes -> Nat \ {0}]
  BY DEF Attempts, FreshAttempt, TypeOK

\* The call of the thread at hand, as the others are kept.
AtHand == [phase |-> phase, todo |-> todo, popped |-> popped, alone |-> alone]

LEMMA AtHandFacts ==
  ASSUME TypeOK
  PROVE  /\ AtHand \in EngineCalls
         /\ \A k \in Others : parked[k] \in EngineCalls
         /\ \A n : Executes(AtHand, n) <=> phase = "node" /\ IsCurrent(n) /\ popped = 0
  BY DEF TypeOK, AtHand, EngineCalls, Executes, IsCurrent

LEMMA ExecutedIsUnique ==
  ASSUME NEW call \in EngineCalls, NEW m, NEW n, Executes(call, m), Executes(call, n)
  PROVE  m = n /\ n \in Nodes
  <1>1. m \in Int /\ n \in Int /\ n \in Nodes /\ m <= n /\ n <= m
    BY GraphAssumption DEF Executes, EngineCalls
  <1> QED BY <1>1

\* A call whose node run is popped is otherwise the same, and no other node is detached.
LEMMA DetachedFacts ==
  ASSUME TypeOK, NEW call \in EngineCalls, NEW reset
  PROVE  /\ Detached(call, reset) \in EngineCalls
         /\ Detached(call, reset).phase = call.phase
         /\ Detached(call, reset).todo = call.todo
         /\ Detached(call, reset).alone = call.alone
         /\ call.phase # "node" => Detached(call, reset) = call
         /\ \A m : m \notin reset /\ Executes(call, m) => Executes(Detached(call, reset), m)
  <1>1. CASE \E n \in reset : Executes(call, n)
    <2> DEFINE c == CHOOSE n \in reset : Executes(call, n)
    <2>1. c \in reset /\ Executes(call, c)
      BY <1>1
    <2>2. c \in Nodes /\ \A m : m \notin reset => ~Executes(call, m)
      BY <2>1, ExecutedIsUnique
    <2>3. attempt[c] \in Nat
      BY <2>2 DEF TypeOK
    <2>4. Detached(call, reset) = [call EXCEPT !.popped = attempt[c]]
      BY <1>1 DEF Detached
    <2>5. call.phase = "node"
      BY <2>1 DEF Executes
    <2> HIDE DEF c
    <2> QED BY <2>2, <2>3, <2>4, <2>5 DEF EngineCalls
  <1>2. CASE ~\E n \in reset : Executes(call, n)
    BY <1>2 DEF Detached
  <1> QED BY <1>1, <1>2

LEMMA OverlappedFacts ==
  ASSUME NEW call \in EngineCalls
  PROVE  /\ Overlapped(call) \in EngineCalls
         /\ Overlapped(call).phase = call.phase
         /\ Overlapped(call).todo = call.todo
         /\ Overlapped(call).popped = call.popped
         /\ call.phase = "idle" => Overlapped(call) = call
         /\ call.phase # "idle" => ~Overlapped(call).alone
         /\ \A m : Executes(call, m) => Executes(Overlapped(call), m)
  BY DEF Overlapped, EngineCalls, Executes

\* What the beginning of an engine call does to the calls.
LEMMA BeginCallFacts ==
  ASSUME TypeOK, NEW reset, BeginCall(reset)
  PROVE  /\ phase = "idle" /\ phase' = "pass" /\ stored
         /\ UNCHANGED <<todo, popped, crossed, stored>>
         /\ alone' = (\A k \in Others : parked[k].phase = "idle")
         /\ parked' \in [Others -> EngineCalls]
         /\ \A k \in Others :
              /\ parked'[k].phase = parked[k].phase /\ parked'[k].todo = parked[k].todo
              /\ parked[k].phase = "idle" => parked'[k] = parked[k]
              /\ parked[k].phase # "idle" => ~parked'[k].alone
              /\ parked[k].phase # "node" => parked'[k].popped = parked[k].popped
              /\ \A m : m \notin reset /\ Executes(parked[k], m) => Executes(parked'[k], m)
  <1>1. parked' = [k \in Others |-> Overlapped(Detached(parked[k], reset))]
    BY DEF BeginCall
  <1>2. \A k \in Others : parked[k] \in EngineCalls
    BY AtHandFacts
  <1>3. \A k \in Others : /\ Detached(parked[k], reset) \in EngineCalls
                          /\ parked'[k] = Overlapped(Detached(parked[k], reset))
    BY <1>1, <1>2, DetachedFacts
  <1>4. parked' \in [Others -> EngineCalls]
    BY <1>1, <1>3, OverlappedFacts
  <1>5. ASSUME NEW k \in Others
        PROVE  /\ parked'[k].phase = parked[k].phase /\ parked'[k].todo = parked[k].todo
               /\ parked[k].phase = "idle" => parked'[k] = parked[k]
               /\ parked[k].phase # "idle" => ~parked'[k].alone
               /\ parked[k].phase # "node" => parked'[k].popped = parked[k].popped
               /\ \A m : m \notin reset /\ Executes(parked[k], m) => Executes(parked'[k], m)
    BY <1>2, <1>3, DetachedFacts, OverlappedFacts
  <1> QED BY <1>4, <1>5 DEF BeginCall

\* The end of a node execution keeps the types, whatever well-typed changes
\* the handler made.
LEMMA FinishesType ==
  ASSUME TypeOK, NEW n \in Nodes, NEW st \in RunStatuses,
         NEW ns \in [Nodes -> NodeStatuses], NEW outs \in SUBSET Nodes,
         Finishes(n, st, ns, outs) \/ Throws(n, ns, outs),
         parked' \in [Others -> EngineCalls],
         interrupts' \in Seq(Interrupt),
         branch' \in [Nodes -> Nodes \cup {NoNode}],
         loops' \in [Nodes -> Nat],
         skipped' \subseteq Nodes
  PROVE  TypeOK'
  <1>0. Attempts(ns) \in [Nodes -> Nat \ {0}]
    BY AttemptsType
  <1>1. BackInPass(n) => /\ phase' \in Phases /\ todo' \subseteq Nodes
                         /\ stored' \in BOOLEAN /\ popped' \in Nat /\ alone' \in BOOLEAN
                         /\ crossed' \subseteq Nodes
    BY DEF BackInPass, TypeOK, Phases
  <1> SUFFICES /\ status' \in RunStatuses
               /\ nodeStatus' \in [Nodes -> NodeStatuses]
               /\ attempt' \in [Nodes -> Nat \ {0}]
               /\ outputs' \subseteq Nodes
               /\ BackInPass(n)
    BY <1>1 DEF TypeOK
  <1>2. CASE Returns(n, st, ns, outs)
    BY <1>0, <1>2 DEF Returns, Marked, NodeStatuses
  <1>3. CASE Throws(n, ns, outs)
    <2>1. CASE Retry(n, ns, outs)
      BY <1>0, <1>3, <2>1 DEF Throws, Retry, Marked, NodeStatuses, RunStatuses, TypeOK
    <2>2. CASE Fail(n, ns, outs)
      BY <1>0, <1>3, <2>2 DEF Throws, Fail, Marked, NodeStatuses, RunStatuses, TypeOK
    <2> QED BY <1>3, <2>1, <2>2 DEF Throws
  <1> QED BY <1>2, <1>3 DEF Finishes

-----------------------------------------------------------------------------
\* A new run is well typed.
LEMMA InitTyped == Init => TypeOK
  <1> SUFFICES ASSUME Init PROVE TypeOK
    OBVIOUS
  <1>1. interrupts \in Seq(Interrupt)
    BY DEF Init, NoNode
  <1>2. branch \in [Nodes -> Nodes \cup {NoNode}]
    BY DEF Init, NoNode
  <1>3. attempt \in [Nodes -> Nat \ {0}] /\ loops \in [Nodes -> Nat]
    BY DEF Init
  <1>4. /\ status \in RunStatuses /\ nodeStatus \in [Nodes -> NodeStatuses]
        /\ phase \in Phases /\ stored \in BOOLEAN
    BY DEF Init, RunStatuses, NodeStatuses, Phases
  <1>5. outputs = {} /\ skipped = {} /\ todo = {} /\ crossed = {}
        /\ popped \in Nat /\ alone \in BOOLEAN /\ parked \in [Others -> EngineCalls]
    BY DEF Init, NoCall, EngineCalls, Phases
  <1> QED BY <1>1, <1>2, <1>3, <1>4, <1>5 DEF TypeOK

\* Every variable keeps its type, for every graph and every set of API calls.
THEOREM TypeCorrect == Spec => []TypeOK
  <1>1. Init => TypeOK
    BY InitTyped
  <1>2. TypeOK /\ [Next]_vars => TypeOK'
    <2> SUFFICES ASSUME TypeOK, [Next]_vars
                 PROVE  TypeOK'
      OBVIOUS
    <2>1. CASE BeginPass
      BY <2>1 DEF BeginPass, RunnableNodes, TypeOK, run
    <2>2. CASE EndCall
      BY <2>2 DEF EndCall, TypeOK, run, Phases
    <2>3. ASSUME NEW n \in Nodes, SkipSettledNode(n)
          PROVE  TypeOK'
      BY <2>3 DEF SkipSettledNode, TypeOK, run
    <2>4. ASSUME NEW n \in Nodes, StartNode(n)
          PROVE  TypeOK'
      BY <2>4 DEF StartNode, TypeOK, Phases, NodeStatuses
    <2>5. ASSUME NEW n \in Nodes, HandlerRaises(n)
          PROVE  TypeOK'
      BY <2>5, FinishesType DEF HandlerRaises, TypeOK
    <2>6. ASSUME NEW n \in Nodes, HandleStart(n)
          PROVE  TypeOK'
      <3>1. outputs \cup {n} \in SUBSET Nodes
        BY DEF TypeOK
      <3>2. QED BY <3>1, <2>6, FinishesType DEF HandleStart, TypeOK
    <2>7. ASSUME NEW n \in Nodes, HandleTask(n)
          PROVE  TypeOK'
      <3>1. PICK st \in {status, "FAILED"} : Finishes(n, st, nodeStatus, outputs \cup {n})
        BY <2>7 DEF HandleTask
      <3>2. st \in RunStatuses /\ outputs \cup {n} \in SUBSET Nodes
        BY DEF TypeOK, RunStatuses
      <3>3. QED BY <3>1, <3>2, <2>7, FinishesType DEF HandleTask, TypeOK
    <2>8. ASSUME NEW n \in Nodes, HandleIfElse(n)
          PROVE  TypeOK'
      <3>1. Targets[n] \subseteq Nodes
        BY <2>8, GraphAssumption DEF HandleIfElse, Handling, IfElseNodes
      <3>2. PICK t \in Targets[n] :
              /\ branch' = [branch EXCEPT ![n] = t]
              /\ skipped' = skipped \cup
                   ((UNION {Reachable[u] : u \in Targets[n] \ {t}}) \ Reachable[t])
              /\ Finishes(n, status, nodeStatus, outputs)
        BY <2>8 DEF HandleIfElse
      <3>3. skipped' \subseteq Nodes
        BY <3>1, <3>2, ReachableType DEF TypeOK
      <3>4. branch' \in [Nodes -> Nodes \cup {NoNode}]
        BY <3>1, <3>2 DEF TypeOK
      <3>5. /\ interrupts' \in Seq(Interrupt) /\ loops' \in [Nodes -> Nat]
            /\ parked' \in [Others -> EngineCalls]
            /\ status \in RunStatuses
            /\ nodeStatus \in [Nodes -> NodeStatuses] /\ outputs \in SUBSET Nodes
        BY <2>8 DEF HandleIfElse, TypeOK
      <3>6. QED BY <3>2, <3>3, <3>4, <3>5, FinishesType
    <2>9. ASSUME NEW n \in Nodes, HandleWhileEnter(n)
          PROVE  TypeOK'
      <3> DEFINE ns == [m \in Nodes |-> IF m \in LoopBody(n) THEN "NONE" ELSE nodeStatus[m]]
      <3>1. Body[n] \in Nodes
        BY <2>9, GraphAssumption DEF HandleWhileEnter, Handling, WhileNodes
      <3>2. Finishes(n, status, ns, outputs \ LoopBody(n))
        BY <2>9 DEF HandleWhileEnter
      <3>3. ns \in [Nodes -> NodeStatuses] /\ outputs \ LoopBody(n) \in SUBSET Nodes
        BY DEF TypeOK, NodeStatuses
      <3>4. branch' \in [Nodes -> Nodes \cup {NoNode}] /\ loops' \in [Nodes -> Nat]
        BY <3>1, <2>9 DEF HandleWhileEnter, TypeOK
      <3>5. interrupts' \in Seq(Interrupt) /\ skipped' \subseteq Nodes /\ status \in RunStatuses
        BY <2>9 DEF HandleWhileEnter, TypeOK
      <3>6. parked' \in [Others -> EngineCalls]
        <4>1. parked' = [k \in Others |-> Detached(parked[k], LoopBody(n))]
          BY <2>9 DEF HandleWhileEnter
        <4> QED BY <4>1, AtHandFacts, DetachedFacts
      <3> HIDE DEF ns
      <3>7. QED BY <3>2, <3>3, <3>4, <3>5, <3>6, FinishesType
    <2>10. ASSUME NEW n \in Nodes, HandleWhileLeave(n)
           PROVE  TypeOK'
      <3>1. Exit[n] \in Nodes
        BY <2>10, GraphAssumption DEF HandleWhileLeave, Handling, WhileNodes
      <3>2. branch' \in [Nodes -> Nodes \cup {NoNode}]
        BY <3>1, <2>10 DEF HandleWhileLeave, TypeOK
      <3>3. QED BY <3>2, <2>10, FinishesType DEF HandleWhileLeave, TypeOK
    <2>11. ASSUME NEW n \in Nodes, HandleInteraction(n)
           PROVE  TypeOK'
      <3>1. interrupts' \in Seq(Interrupt)
        BY <2>11 DEF HandleInteraction, Interrupt, TypeOK
      <3>2. "WAITING_FOR_INPUT" \in RunStatuses
        BY DEF RunStatuses
      <3>3. QED BY <3>1, <3>2, <2>11, FinishesType DEF HandleInteraction, TypeOK
    <2>12. ASSUME NEW n \in Nodes, HandleEnd(n)
           PROVE  TypeOK'
      <3>1. "COMPLETED" \in RunStatuses
        BY DEF RunStatuses
      <3>2. QED BY <3>1, <2>12, FinishesType DEF HandleEnd, TypeOK
    <2>13. ASSUME NEW i \in DOMAIN interrupts, Resume(i)
           PROVE  TypeOK'
      <3>1. interrupts' \in Seq(Interrupt)
        BY <2>13, InterruptStatusType DEF Resume, TypeOK
      <3>2. interrupts[i] \in Interrupt
        BY DEF TypeOK
      <3>3. interrupts[i].node \in Nodes
        BY <3>2 DEF Interrupt
      <3>4. BeginCall({})
        BY <2>13 DEF Resume
      <3>5. QED BY <3>1, <3>3, <3>4, <2>13, BeginCallFacts
                DEF Resume, TypeOK, NodeStatuses, RunStatuses, Phases
    <2>14. ASSUME NEW i \in DOMAIN interrupts, CancelInterrupt(i)
           PROVE  TypeOK'
      <3>1. interrupts' \in Seq(Interrupt)
        BY <2>14, InterruptStatusType DEF CancelInterrupt, TypeOK
      <3>2. QED BY <3>1, <2>14
                DEF CancelInterrupt, TypeOK, NodeStatuses, RunStatuses, engine
    <2>15. ASSUME NEW n \in Nodes, NEW scope \in {"node_only", "downstream"},
                  Rerun(n, scope)
           PROVE  TypeOK'
      <3>1. BeginCall(ResetNodes(n, scope))
        BY <2>15 DEF Rerun
      <3>2. /\ phase' \in Phases /\ todo' \subseteq Nodes /\ popped' \in Nat /\ alone' \in BOOLEAN
            /\ parked' \in [Others -> EngineCalls] /\ crossed' \subseteq Nodes
            /\ stored' \in BOOLEAN
        BY <3>1, BeginCallFacts DEF TypeOK, Phases
      <3>3. /\ nodeStatus' \in [Nodes -> NodeStatuses] /\ attempt' \in [Nodes -> Nat \ {0}]
            /\ outputs' \subseteq Nodes
        BY <2>15 DEF Rerun, FreshAttempt, TypeOK, NodeStatuses
      <3>4. QED BY <2>15, <3>2, <3>3 DEF Rerun, TypeOK
    <2>16. CASE CancelRun
      BY <2>16 DEF CancelRun, TypeOK, RunStatuses, engine
    <2>17. CASE UNCHANGED vars
      BY <2>17 DEF vars, TypeOK
    <2>18. ASSUME NEW k \in Others, Switch(k)
           PROVE  TypeOK'
      <3>1. parked[k] \in EngineCalls /\ AtHand \in EngineCalls
        BY AtHandFacts
      <3>2. parked' = [parked EXCEPT ![k] = AtHand]
        BY <2>18 DEF Switch, AtHand
      <3>3. QED BY <2>18, <3>1, <3>2 DEF Switch, TypeOK, run, EngineCalls
    <2> QED
      BY <2>1, <2>2, <2>3, <2>4, <2>5, <2>6, <2>7, <2>8, <2>9, <2>10, <2>11,
         <2>12, <2>13, <2>14, <2>15, <2>16, <2>17, <2>18
      DEF Next, ExecuteUntilBlocked, Handle, ApiCall, Preempt, Rest
  <1> QED BY <1>1, <1>2, PTL DEF Spec

(* The inductive invariant.  A call that nothing overlaps is at work on a  *)
(* run that does not wait (OneCall), so its handlers never leave a node    *)
(* IN_PROGRESS; and two calls of which one is alone are never both at work *)
(* (CallsApart).                                                           *)

Accounted(n) == Kind[n] = "interaction" /\ \E i \in OpenInterrupts : interrupts[i].node = n

\* A call that is under way, in whichever thread.
OneCall(call) ==
  /\ call.phase = "idle" => call.todo = {} /\ call.alone
  /\ call.phase = "node" => call.todo # {}
  /\ call.phase # "node" \/ call.alone => call.popped = 0
  /\ call.alone /\ call.todo # {} => status \in {"RUNNING", "CANCELLED", "FAILED"}

Lone(call) == call.alone /\ call.phase # "idle"

CallsApart ==
  \A k \in Others :
    /\ Lone(AtHand) => parked[k].phase = "idle"
    /\ Lone(parked[k]) => phase = "idle" /\ \A j \in Others \ {k} : parked[j].phase = "idle"

CallsInv ==
  /\ OneCall(AtHand) /\ \A k \in Others : OneCall(parked[k])
  /\ CallsApart
  /\ Others = {} => alone

IInv ==
  /\ TypeOK
  /\ WaitingIsAnswerable
  /\ InProgressIsAccounted
  /\ CallsInv
  /\ AttemptsBounded

\* The call at hand, by the variables.
LEMMA OneCallAtHand ==
  OneCall(AtHand) <=>
    /\ phase = "idle" => todo = {} /\ alone
    /\ phase = "node" => todo # {}
    /\ phase # "node" \/ alone => popped = 0
    /\ alone /\ todo # {} => status \in {"RUNNING", "CANCELLED", "FAILED"}
  BY DEF OneCall, AtHand

LEMMA LoneAtHand == Lone(AtHand) <=> alone /\ phase # "idle"
  BY DEF Lone, AtHand

\* A node that is IN_PROGRESS, as InProgressIsAccounted has it.
LEMMA InProgress ==
  ASSUME TypeOK
  PROVE  InProgressIsAccounted <=>
           \A n \in Nodes : nodeStatus[n] = "IN_PROGRESS" =>
             \/ Executes(AtHand, n) \/ \E k \in Others : Executes(parked[k], n)
             \/ Accounted(n) \/ n \in crossed
  BY AtHandFacts DEF InProgressIsAccounted, Accounted

\* The node that a pass is at is unique.
LEMMA CurrentIsUnique ==
  ASSUME TypeOK, NEW m \in Nodes, NEW n \in Nodes, IsCurrent(m), IsCurrent(n)
  PROVE  m = n
  <1>1. m \in Int /\ n \in Int /\ m <= n /\ n <= m
    BY GraphAssumption DEF IsCurrent
  <1> QED BY <1>1

\* The other calls stay where they are; only nodes of reset can be popped under them.
OthersKeep(reset) ==
  \A k \in Others :
    /\ parked'[k].phase = parked[k].phase /\ parked'[k].todo = parked[k].todo
    /\ parked'[k].alone = parked[k].alone
    /\ parked[k].phase # "node" => parked'[k] = parked[k]
    /\ \A m : m \notin reset /\ Executes(parked[k], m) => Executes(parked'[k], m)

LEMMA OthersDetached ==
  ASSUME TypeOK, NEW reset, parked' = [k \in Others |-> Detached(parked[k], reset)]
  PROVE  OthersKeep(reset)
  BY AtHandFacts, DetachedFacts DEF OthersKeep

LEMMA OthersSame ==
  ASSUME parked' = parked
  PROVE  OthersKeep({})
  BY DEF OthersKeep

\* A step of the call at hand, or of a handler that is not in a call.
LEMMA CallsKeep ==
  ASSUME IInv, OneCall(AtHand)', NEW reset, OthersKeep(reset), UNCHANGED parked \/ phase # "idle",
         Lone(AtHand)' => Lone(AtHand), phase' = "idle" \/ phase # "idle",
         status' \in {status, "RUNNING", "CANCELLED", "FAILED"} \/ phase # "idle",
         Others = {} => alone'
  PROVE  CallsInv'
  <1>1. CallsApart /\ \A k \in Others : OneCall(parked[k])
    BY DEF IInv, CallsInv
  <1>2. CallsApart'
    BY <1>1, LoneAtHand DEF CallsApart, Lone, OthersKeep
  <1>3. ASSUME NEW k \in Others
        PROVE  OneCall(parked[k])'
    <2>1. /\ OneCall(parked[k])
          /\ parked'[k].phase = parked[k].phase /\ parked'[k].todo = parked[k].todo
          /\ parked'[k].alone = parked[k].alone
          /\ parked[k].phase # "node" => parked'[k] = parked[k]
      BY <1>1 DEF OthersKeep
    <2>2. CASE parked[k].phase = "idle"
      BY <2>1, <2>2 DEF OneCall
    <2>3. CASE ~parked[k].alone
      BY <2>1, <2>3 DEF OneCall
    <2>4. CASE parked[k].phase # "idle" /\ parked[k].alone
      <3>1. phase = "idle" /\ parked' = parked
        BY <1>1, <2>4 DEF CallsApart, Lone
      <3> QED BY <2>1, <2>4, <3>1 DEF OneCall
    <2> QED BY <2>2, <2>3, <2>4
  <1> QED BY <1>2, <1>3 DEF CallsInv

\* An engine call begins.
LEMMA CallsBegin ==
  ASSUME IInv, NEW reset, BeginCall(reset), status' \in {status, "RUNNING"}
  PROVE  /\ CallsInv'
         /\ \A m : m \notin reset /\ (\E k \in Others : Executes(parked[k], m))
                     => \E k \in Others : Executes(parked[k], m)'
  <1>1. /\ TypeOK /\ OneCall(AtHand) /\ CallsApart /\ \A k \in Others : OneCall(parked[k])
    BY DEF IInv, CallsInv
  <1>2. todo' = {} /\ popped' = 0 /\ phase' = "pass"
    BY <1>1, BeginCallFacts, OneCallAtHand
  <1>3. OneCall(AtHand)'
    BY <1>2 DEF OneCall, AtHand
  <1>4. ASSUME NEW k \in Others
        PROVE  OneCall(parked[k])' /\ ~Lone(parked[k])'
    <2>1. CASE parked[k].phase = "idle"
      BY <1>1, <2>1, BeginCallFacts DEF OneCall, Lone
    <2>2. CASE parked[k].phase # "idle"
      <3>1. /\ parked'[k].phase = parked[k].phase /\ parked'[k].todo = parked[k].todo
            /\ ~parked'[k].alone /\ OneCall(parked[k])
            /\ parked[k].phase # "node" => parked'[k].popped = parked[k].popped
        BY <1>1, <2>2, BeginCallFacts
      <3> QED BY <2>2, <3>1 DEF OneCall, Lone
    <2> QED BY <2>1, <2>2
  <1>5. CallsApart'
    BY <1>1, <1>4, BeginCallFacts, LoneAtHand DEF CallsApart, Lone, AtHand
  <1>6. Others = {} => alone'
    BY <1>1, BeginCallFacts
  <1> QED BY <1>1, <1>3, <1>4, <1>5, <1>6, BeginCallFacts DEF CallsInv, Executes

\* The end of an execution that created no interrupt: it leaves the run waiting only when
\* it was, and its node IN_PROGRESS only when another call made it wait.
LEMMA FinishesInv ==
  ASSUME IInv, TypeOK', NEW n \in Nodes, NEW st \in {status, "COMPLETED", "FAILED"},
         NEW ns \in [Nodes -> NodeStatuses], NEW outs, NEW reset, n \notin reset,
         \A m \in Nodes : ns[m] = IF m \in reset THEN "NONE" ELSE nodeStatus[m],
         OthersKeep(reset), phase = "node", IsCurrent(n),
         Throws(n, ns, outs) \/ (Kind[n] # "interaction" /\ Finishes(n, st, ns, outs)),
         interrupts' = interrupts
  PROVE  IInv'
  <1>0. TypeOK /\ OneCall(AtHand) /\ CallsInv /\ todo # {}
    BY DEF IInv, CallsInv, IsCurrent
  <1>1. /\ phase' = "pass" /\ popped' = 0 /\ alone' = alone
        /\ todo' = IF status' = "RUNNING" THEN todo \ {n} ELSE {}
        /\ crossed' = IF ~alone /\ Kind[n] # "interaction" /\ status' = "WAITING_FOR_INPUT"
                      THEN crossed \cup {n} ELSE crossed
    BY DEF Finishes, Returns, Throws, BackInPass
  <1>2. /\ \A m \in Nodes \ {n} : nodeStatus'[m] = ns[m]
        /\ status' = "WAITING_FOR_INPUT" => status = "WAITING_FOR_INPUT"
        /\ nodeStatus'[n] = "IN_PROGRESS" =>
             \/ popped # 0 /\ nodeStatus[n] = "IN_PROGRESS"
             \/ status' = "WAITING_FOR_INPUT" /\ Kind[n] # "interaction"
    <2>1. CASE Kind[n] # "interaction" /\ Returns(n, st, ns, outs)
      BY <2>1 DEF Returns, Marked
    <2>2. CASE Throws(n, ns, outs)
      BY <2>2 DEF Throws, Retry, Fail, Marked
    <2> QED BY <2>1, <2>2 DEF Finishes
  <1>3. \A m \in Nodes : attempt'[m] <= MaxRetries[m] + 1
    <2>1. \A m \in Nodes : MaxRetries[m] \in Nat /\ attempt[m] \in Nat
                           /\ attempt[m] <= MaxRetries[m] + 1
      BY <1>0, GraphAssumption DEF IInv, TypeOK, AttemptsBounded
    <2>2. \A m \in Nodes : Attempts(ns)[m] <= MaxRetries[m] + 1
      BY <2>1 DEF Attempts, FreshAttempt
    <2>3. CASE attempt' = Attempts(ns)
      BY <2>2, <2>3
    <2>4. CASE /\ attempt[n] <= MaxRetries[n]
               /\ attempt' = [Attempts(ns) EXCEPT ![n] = attempt[n] + 1]
      <3>1. attempt'[n] <= MaxRetries[n] + 1
        BY <2>1, <2>4 DEF Attempts
      <3>2. \A m \in Nodes \ {n} : attempt'[m] = Attempts(ns)[m]
        BY <2>4 DEF Attempts
      <3> QED BY <2>2, <3>1, <3>2
    <2> QED BY <2>3, <2>4 DEF Finishes, Returns, Throws, Retry, Fail, MayRetry
  <1>4. InProgressIsAccounted'
    <2> SUFFICES ASSUME NEW m \in Nodes, nodeStatus'[m] = "IN_PROGRESS"
                 PROVE  \/ \E k \in Others : Executes(parked[k], m)'
                        \/ Accounted(m)' \/ m \in crossed'
      BY DEF InProgressIsAccounted, Accounted
    <2>1. CASE m = n /\ status' = "WAITING_FOR_INPUT" /\ Kind[n] # "interaction"
      <3>1. ~alone
        BY <1>0, <1>2, <2>1, OneCallAtHand
      <3> QED BY <1>1, <2>1, <3>1
    <2>2. CASE m # n \/ (popped # 0 /\ nodeStatus[m] = "IN_PROGRESS")
      <3>1. nodeStatus[m] = "IN_PROGRESS" /\ m \notin reset
        <4>1. m # n => nodeStatus'[m] = ns[m]
          BY <1>2
        <4>2. m = n => nodeStatus[n] = "IN_PROGRESS"
          BY <2>2
        <4>3. ns[m] = "IN_PROGRESS" => m \notin reset /\ nodeStatus[m] = "IN_PROGRESS"
          OBVIOUS
        <4> QED BY <4>1, <4>2, <4>3
      <3>2. ~Executes(AtHand, m)
        BY <1>0, <2>2, AtHandFacts, CurrentIsUnique
      <3>3. (\E k \in Others : Executes(parked[k], m)) \/ Accounted(m) \/ m \in crossed
        BY <1>0, <3>1, <3>2, InProgress DEF IInv
      <3>4. Accounted(m) => Accounted(m)'
        BY DEF Accounted, OpenInterrupts
      <3> QED BY <1>1, <3>1, <3>3, <3>4 DEF OthersKeep, Executes
    <2> QED BY <1>2, <2>1, <2>2
  <1>5. CallsInv'
    <2>1. OneCall(AtHand)'
      BY <1>0, <1>1 DEF OneCall, AtHand
    <2>2. (Lone(AtHand)' => Lone(AtHand)) /\ (Others = {} => alone')
      BY <1>0, <1>1, LoneAtHand DEF Lone, AtHand, CallsInv
    <2> QED BY <2>1, <2>2, CallsKeep
  <1>6. WaitingIsAnswerable'
    BY <1>2 DEF IInv, WaitingIsAnswerable, OpenInterrupts
  <1> QED BY <1>3, <1>4, <1>5, <1>6 DEF IInv, AttemptsBounded

\* The same for a handler that takes no run back.
LEMMA FinishesPlain ==
  ASSUME IInv, TypeOK', NEW n \in Nodes, NEW st \in {status, "COMPLETED", "FAILED"}, NEW outs,
         parked' = parked, phase = "node", IsCurrent(n),
         Throws(n, nodeStatus, outs) \/ (Kind[n] # "interaction" /\ Finishes(n, st, nodeStatus, outs)),
         interrupts' = interrupts
  PROVE  IInv'
  <1> DEFINE reset == {}
  <1>1. /\ nodeStatus \in [Nodes -> NodeStatuses] /\ n \notin reset /\ OthersKeep(reset)
        /\ \A m \in Nodes : nodeStatus[m] = IF m \in reset THEN "NONE" ELSE nodeStatus[m]
    BY OthersSame DEF IInv, TypeOK
  <1> HIDE DEF reset
  <1> QED BY <1>1, FinishesInv

\* A cancellation, or nothing, while the calls stay where they are.
LEMMA StatusKeeps ==
  ASSUME IInv, UNCHANGED <<phase, todo, popped, alone, parked>>,
         status' \in {status, "CANCELLED", "FAILED"}
  PROVE  CallsInv'
  <1>1. OneCall(AtHand) /\ \A k \in Others : OneCall(parked[k])
    BY DEF IInv, CallsInv
  <1>2. AtHand' = AtHand
    BY DEF AtHand
  <1>3. OneCall(AtHand)' /\ \A k \in Others : OneCall(parked[k])'
    BY <1>1, <1>2 DEF OneCall
  <1>4. CallsApart' /\ (Others = {} => alone')
    BY <1>2 DEF IInv, CallsInv, CallsApart, Lone
  <1> QED BY <1>3, <1>4 DEF CallsInv

\* IInv, which contains the safety invariants of run overlap, is inductive: each
\* operation of the engine and each API handler preserves it, in whichever threads.
THEOREM Invariance == Spec => []IInv
  <1>1. Init => IInv
    <2> SUFFICES ASSUME Init, TypeOK
                 PROVE  IInv
      BY InitTyped
    <2>1. OneCall(AtHand) /\ ~(phase = "idle") /\ alone
      BY DEF Init, OneCall, AtHand
    <2>2. \A k \in Others : parked[k] = NoCall
      BY DEF Init
    <2>3. OneCall(NoCall) /\ ~Lone(NoCall) /\ NoCall.phase = "idle"
      BY DEF OneCall, NoCall, Lone
    <2>4. CallsInv
      BY <2>1, <2>2, <2>3 DEF CallsInv, CallsApart
    <2> QED
      BY <2>4, GraphAssumption
      DEF Init, IInv, WaitingIsAnswerable, InProgressIsAccounted, AttemptsBounded
  <1>2. IInv /\ TypeOK' /\ [Next]_vars => IInv'
    <2> SUFFICES ASSUME IInv, TypeOK', [Next]_vars
                 PROVE  IInv'
      OBVIOUS
    <2>0. /\ TypeOK /\ CallsInv /\ OneCall(AtHand) /\ (Others = {} => alone)
          /\ nodeStatus \in [Nodes -> NodeStatuses]
      BY DEF IInv, CallsInv, TypeOK
    <2>1. ASSUME UNCHANGED <<run, popped, parked, crossed>>, phase = "pass",
                 \/ phase' = "pass" /\ alone' = alone
                    /\ (todo' # {} => todo # {} \/ status = "RUNNING")
                 \/ phase' = "idle" /\ alone' = TRUE /\ todo' = {}
          PROVE  IInv'
      <3>1. UNCHANGED <<status, nodeStatus, attempt, interrupts>>
        BY <2>1 DEF run
      <3>2. OneCall(AtHand)'
        BY <2>0, <2>1, <3>1, OneCallAtHand DEF OneCall, AtHand
      <3>3. CallsInv'
        <4>1. (Lone(AtHand)' => Lone(AtHand)) /\ (Others = {} => alone') /\ OthersKeep({})
          BY <2>0, <2>1, OthersSame DEF Lone, AtHand
        <4> QED BY <2>1, <3>2, <4>1, CallsKeep
      <3>4. InProgressIsAccounted'
        <4>1. \A n \in Nodes : nodeStatus[n] = "IN_PROGRESS" =>
                \/ \E k \in Others : Executes(parked[k], n)
                \/ Accounted(n) \/ n \in crossed
          BY <2>0, <2>1, InProgress, AtHandFacts DEF IInv
        <4>2. \A n \in Nodes : (\E k \in Others : Executes(parked[k], n)) \/ Accounted(n) \/ n \in crossed
                => (\E k \in Others : Executes(parked[k], n)') \/ Accounted(n)' \/ n \in crossed'
          BY <2>1, <3>1 DEF Accounted, OpenInterrupts, Executes
        <4> QED BY <3>1, <4>1, <4>2 DEF InProgressIsAccounted, Accounted
      <3> QED BY <3>1, <3>3, <3>4
              DEF IInv, WaitingIsAnswerable, OpenInterrupts, AttemptsBounded
    <2>2. CASE BeginPass \/ EndCall
      <3>1. UNCHANGED <<run, popped, parked, crossed>> /\ phase = "pass"
        BY <2>2 DEF BeginPass, EndCall
      <3>2. \/ phase' = "pass" /\ alone' = alone /\ (todo' # {} => status = "RUNNING")
            \/ phase' = "idle" /\ alone' = TRUE /\ todo' = {}
        BY <2>2 DEF BeginPass, EndCall
      <3> QED BY <2>1, <3>1, <3>2
    <2>3. ASSUME NEW n \in Nodes, SkipSettledNode(n)
          PROVE  IInv'
      <3>1. UNCHANGED <<run, popped, parked, crossed>> /\ phase = "pass"
        BY <2>3 DEF SkipSettledNode
      <3>2. phase' = "pass" /\ alone' = alone /\ todo # {}
        BY <2>3 DEF SkipSettledNode, IsCurrent
      <3> QED BY <2>1, <3>1, <3>2
    <2>4. ASSUME NEW n \in Nodes, StartNode(n)
          PROVE  IInv'
      <3>1. /\ phase = "pass" /\ IsCurrent(n) /\ phase' = "node" /\ n \in todo
            /\ UNCHANGED <<status, attempt, interrupts, todo, popped, alone, parked>>
            /\ nodeStatus' = [nodeStatus EXCEPT ![n] = "IN_PROGRESS"]
            /\ crossed' = crossed \ {n}
        BY <2>4 DEF StartNode, IsCurrent
      <3>2. popped = 0
        BY <2>0, <3>1, OneCallAtHand
      <3>3. InProgressIsAccounted'
        <4> SUFFICES ASSUME NEW m \in Nodes, nodeStatus'[m] = "IN_PROGRESS"
                     PROVE  \/ (phase = "node" /\ IsCurrent(m) /\ popped = 0)'
                            \/ \E k \in Others : Executes(parked[k], m)'
                            \/ Accounted(m)' \/ m \in crossed'
          BY DEF InProgressIsAccounted, Accounted
        <4>1. CASE m = n
          BY <4>1, <3>1, <3>2 DEF IsCurrent
        <4>2. CASE m # n
          <5>1. (\E k \in Others : Executes(parked[k], m)) \/ Accounted(m) \/ m \in crossed
            BY <4>2, <3>1, <2>0, InProgress, AtHandFacts DEF IInv
          <5> QED BY <4>2, <5>1, <3>1 DEF Executes, Accounted, OpenInterrupts
        <4> QED BY <4>1, <4>2
      <3>4. CallsInv'
        <4>1. OneCall(AtHand)'
          BY <2>0, <3>1, <3>2, OneCallAtHand DEF OneCall, AtHand
        <4>2. (Lone(AtHand)' => Lone(AtHand)) /\ OthersKeep({})
          BY <3>1, OthersSame DEF Lone, AtHand
        <4> QED BY <2>0, <3>1, <4>1, <4>2, CallsKeep
      <3>5. WaitingIsAnswerable' /\ AttemptsBounded'
        BY <3>1 DEF IInv, WaitingIsAnswerable, OpenInterrupts, AttemptsBounded
      <3> QED BY <3>3, <3>4, <3>5 DEF IInv
    <2>5. ASSUME NEW n \in Nodes, HandlerRaises(n)
          PROVE  IInv'
      <3>1. PICK outs \in {outputs, outputs \cup {n}} : Throws(n, nodeStatus, outs)
        BY <2>5 DEF HandlerRaises
      <3>2. phase = "node" /\ IsCurrent(n) /\ parked' = parked /\ interrupts' = interrupts
        BY <2>5 DEF HandlerRaises, Handling
      <3> QED BY <3>1, <3>2, FinishesPlain
    <2>6. ASSUME NEW n \in Nodes, HandleStart(n)
          PROVE  IInv'
      <3>1. /\ Finishes(n, status, nodeStatus, outputs \cup {n}) /\ Kind[n] # "interaction"
            /\ phase = "node" /\ IsCurrent(n) /\ parked' = parked /\ interrupts' = interrupts
        BY <2>6 DEF HandleStart, Handling
      <3> QED BY <3>1, FinishesPlain
    <2>7. ASSUME NEW n \in Nodes, HandleTask(n)
          PROVE  IInv'
      <3>1. PICK st \in {status, "FAILED"} : Finishes(n, st, nodeStatus, outputs \cup {n})
        BY <2>7 DEF HandleTask
      <3>2. /\ Kind[n] # "interaction"
            /\ phase = "node" /\ IsCurrent(n) /\ parked' = parked /\ interrupts' = interrupts
        BY <2>7 DEF HandleTask, Handling
      <3> QED BY <3>1, <3>2, FinishesPlain
    <2>8. ASSUME NEW n \in Nodes, HandleIfElse(n)
          PROVE  IInv'
      <3>1. /\ Finishes(n, status, nodeStatus, outputs) /\ Kind[n] # "interaction"
            /\ phase = "node" /\ IsCurrent(n) /\ parked' = parked /\ interrupts' = interrupts
        BY <2>8 DEF HandleIfElse, Handling
      <3> QED BY <3>1, FinishesPlain
    <2>9. ASSUME NEW n \in Nodes, HandleWhileEnter(n)
          PROVE  IInv'
      <3> DEFINE ns == [m \in Nodes |-> IF m \in LoopBody(n) THEN "NONE" ELSE nodeStatus[m]]
      <3>1. ns \in [Nodes -> NodeStatuses]
        BY <2>0 DEF NodeStatuses
      <3>2. \A m \in Nodes : ns[m] = IF m \in LoopBody(n) THEN "NONE" ELSE nodeStatus[m]
        OBVIOUS
      <3>3. Finishes(n, status, ns, outputs \ LoopBody(n))
        BY <2>9 DEF HandleWhileEnter
      <3>4. /\ interrupts' = interrupts /\ phase = "node" /\ IsCurrent(n) /\ Kind[n] # "interaction"
            /\ parked' = [k \in Others |-> Detached(parked[k], LoopBody(n))]
        BY <2>9 DEF HandleWhileEnter, Handling
      <3>5. OthersKeep(LoopBody(n)) /\ n \notin LoopBody(n)
        BY <2>0, <3>4, OthersDetached DEF LoopBody
      <3> HIDE DEF ns
      <3> QED BY <3>1, <3>2, <3>3, <3>4, <3>5, FinishesInv
    <2>10. ASSUME NEW n \in Nodes, HandleWhileLeave(n)
           PROVE  IInv'
      <3>1. /\ Finishes(n, status, nodeStatus, outputs) /\ Kind[n] # "interaction"
            /\ phase = "node" /\ IsCurrent(n) /\ parked' = parked /\ interrupts' = interrupts
        BY <2>10 DEF HandleWhileLeave, Handling
      <3> QED BY <3>1, FinishesPlain
    <2>11. ASSUME NEW n \in Nodes, HandleInteraction(n)
           PROVE  IInv'
      <3> DEFINE k == Len(interrupts) + 1
      <3>1. /\ interrupts \in Seq(Interrupt) /\ parked' = parked
            /\ interrupts' = Append(interrupts, [node |-> n, status |-> "OPEN"])
            /\ phase = "node" /\ IsCurrent(n) /\ Kind[n] = "interaction"
            /\ Finishes(n, "WAITING_FOR_INPUT", nodeStatus, outputs)
        BY <2>0, <2>11 DEF HandleInteraction, Handling, TypeOK
      <3>2. /\ k \in DOMAIN interrupts'
            /\ interrupts'[k] = [node |-> n, status |-> "OPEN"]
            /\ \A i \in DOMAIN interrupts :
                 i \in DOMAIN interrupts' /\ interrupts'[i] = interrupts[i]
        BY <3>1
      <3>3. OpenInterrupts \subseteq OpenInterrupts' /\ k \in OpenInterrupts'
        BY <3>2 DEF OpenInterrupts
      <3>4. /\ phase' = "pass" /\ popped' = 0 /\ UNCHANGED <<alone, crossed>>
            /\ todo' = IF status' = "RUNNING" THEN todo \ {n} ELSE {}
        BY <3>1 DEF Finishes, Returns, Throws, BackInPass
      <3>5. \A m \in Nodes \ {n} : nodeStatus'[m] = nodeStatus[m]
        BY <2>0, <3>1 DEF Finishes, Returns, Throws, Retry, Fail, Marked
      <3>6. InProgressIsAccounted'
        <4> SUFFICES ASSUME NEW m \in Nodes, nodeStatus'[m] = "IN_PROGRESS"
                     PROVE  \/ \E j \in Others : Executes(parked[j], m)'
                            \/ Accounted(m)' \/ m \in crossed'
          BY DEF InProgressIsAccounted, Accounted
        <4>1. CASE m = n
          BY <4>1, <3>1, <3>2, <3>3 DEF Accounted
        <4>2. CASE m # n
          <5>1. (\E j \in Others : Executes(parked[j], m)) \/ Accounted(m) \/ m \in crossed
            BY <4>2, <3>1, <3>5, <2>0, InProgress, AtHandFacts, CurrentIsUnique DEF IInv
          <5>2. Accounted(m) => Accounted(m)'
            BY <3>2, <3>3 DEF Accounted, OpenInterrupts
          <5> QED BY <3>1, <3>4, <5>1, <5>2 DEF Executes
        <4> QED BY <4>1, <4>2
      <3>7. CallsInv'
        <4>1. OneCall(AtHand)'
          BY <2>0, <3>4 DEF OneCall, AtHand
        <4>2. (Lone(AtHand)' => Lone(AtHand)) /\ OthersKeep({})
          BY <3>1, <3>4, OthersSame DEF Lone, AtHand
        <4> QED BY <2>0, <3>1, <3>4, <4>1, <4>2, CallsKeep
      <3>8. WaitingIsAnswerable'
        BY <3>3 DEF WaitingIsAnswerable
      <3>9. AttemptsBounded'
        <4>1. \A m \in Nodes : /\ attempt[m] \in Nat /\ MaxRetries[m] \in Nat
                              /\ attempt[m] <= MaxRetries[m] + 1
          BY <2>0, GraphAssumption DEF IInv, AttemptsBounded, TypeOK
        <4>2. \A m \in Nodes : Attempts(nodeStatus)[m] <= MaxRetries[m] + 1
          BY <4>1 DEF Attempts, FreshAttempt
        <4>3. CASE attempt' = Attempts(nodeStatus)
          BY <4>2, <4>3 DEF AttemptsBounded
        <4>4. CASE /\ attempt[n] <= MaxRetries[n]
                   /\ attempt' = [Attempts(nodeStatus) EXCEPT ![n] = attempt[n] + 1]
          <5> SUFFICES ASSUME NEW m \in Nodes
                       PROVE  attempt'[m] <= MaxRetries[m] + 1
            BY DEF AttemptsBounded
          <5>1. attempt'[m] = IF m = n THEN attempt[n] + 1 ELSE Attempts(nodeStatus)[m]
            BY <4>4 DEF Attempts
          <5> QED BY <5>1, <4>1, <4>2, <4>4
        <4> QED
          BY <4>3, <4>4, <3>1 DEF Finishes, Returns, Throws, Retry, Fail, MayRetry
      <3> QED BY <3>6, <3>7, <3>8, <3>9 DEF IInv
    <2>12. ASSUME NEW n \in Nodes, HandleEnd(n)
           PROVE  IInv'
      <3>1. /\ Finishes(n, "COMPLETED", nodeStatus, outputs) /\ Kind[n] # "interaction"
            /\ phase = "node" /\ IsCurrent(n) /\ parked' = parked /\ interrupts' = interrupts
        BY <2>12 DEF HandleEnd, Handling
      <3> QED BY <3>1, FinishesPlain
    <2>13. ASSUME NEW i \in DOMAIN interrupts, Resume(i)
           PROVE  IInv'
      <3> DEFINE n == interrupts[i].node
      <3>1. /\ BeginCall({}) /\ status' = "RUNNING" /\ attempt' = attempt
            /\ interrupts' = [interrupts EXCEPT ![i].status = "RESOLVED"]
            /\ nodeStatus' = [nodeStatus EXCEPT ![n] = IF @ = "NONE" THEN @ ELSE "RESOLVED"]
        BY <2>13 DEF Resume
      <3>2. /\ DOMAIN interrupts' = DOMAIN interrupts
            /\ \A j \in DOMAIN interrupts : j # i => interrupts'[j] = interrupts[j]
        BY <3>1, <2>0 DEF TypeOK
      <3>3. phase = "idle" /\ crossed' = crossed
        BY <3>1 DEF BeginCall
      <3>4. InProgressIsAccounted'
        <4> SUFFICES ASSUME NEW m \in Nodes, nodeStatus'[m] = "IN_PROGRESS"
                     PROVE  \/ \E k \in Others : Executes(parked[k], m)'
                            \/ Accounted(m)' \/ m \in crossed'
          BY DEF InProgressIsAccounted, Accounted
        <4>1. m # n /\ nodeStatus[m] = "IN_PROGRESS"
          BY <3>1, <2>0
        <4>2. (\E k \in Others : Executes(parked[k], m)) \/ Accounted(m) \/ m \in crossed
          BY <4>1, <3>3, <2>0, InProgress, AtHandFacts DEF IInv
        <4>3. Accounted(m) => Accounted(m)'
          BY <4>1, <3>2 DEF Accounted, OpenInterrupts
        <4> QED BY <4>2, <4>3, <3>1, <3>3, CallsBegin
      <3>5. CallsInv'
        BY <3>1, CallsBegin
      <3>6. WaitingIsAnswerable' /\ AttemptsBounded'
        BY <3>1 DEF IInv, WaitingIsAnswerable, AttemptsBounded
      <3> QED BY <3>4, <3>5, <3>6 DEF IInv
    <2>14. ASSUME NEW i \in DOMAIN interrupts, CancelInterrupt(i)
           PROVE  IInv'
      <3> DEFINE n == interrupts[i].node
      <3>1. /\ status' = "FAILED" /\ attempt' = attempt
            /\ UNCHANGED <<phase, todo, popped, alone, parked, crossed>>
            /\ interrupts' = [interrupts EXCEPT ![i].status = "CANCELLED"]
            /\ nodeStatus' = [nodeStatus EXCEPT ![n] = IF @ = "NONE" THEN @ ELSE "ERROR"]
        BY <2>14 DEF CancelInterrupt, engine
      <3>2. /\ DOMAIN interrupts' = DOMAIN interrupts
            /\ \A j \in DOMAIN interrupts : j # i => interrupts'[j] = interrupts[j]
        BY <3>1, <2>0 DEF TypeOK
      <3>3. InProgressIsAccounted'
        <4> SUFFICES ASSUME NEW m \in Nodes, nodeStatus'[m] = "IN_PROGRESS"
                     PROVE  \/ Executes(AtHand, m)'
                            \/ \E k \in Others : Executes(parked[k], m)'
                            \/ Accounted(m)' \/ m \in crossed'
          BY DEF InProgressIsAccounted, Accounted, Executes, AtHand, IsCurrent
        <4>1. m # n /\ nodeStatus[m] = "IN_PROGRESS"
          BY <3>1, <2>0
        <4>2. \/ Executes(AtHand, m) \/ \E k \in Others : Executes(parked[k], m)
              \/ Accounted(m) \/ m \in crossed
          BY <4>1, <2>0, InProgress DEF IInv
        <4> QED BY <4>1, <4>2, <3>1, <3>2 DEF Accounted, OpenInterrupts, Executes, AtHand
      <3>4. CallsInv'
        BY <2>0, <3>1, StatusKeeps
      <3>5. WaitingIsAnswerable' /\ AttemptsBounded'
        BY <3>1 DEF IInv, WaitingIsAnswerable, AttemptsBounded
      <3> QED BY <3>3, <3>4, <3>5 DEF IInv
    <2>15. ASSUME NEW n \in Nodes, NEW scope \in {"node_only", "downstream"},
                  Rerun(n, scope)
           PROVE  IInv'
      <3> DEFINE reset == ResetNodes(n, scope)
      <3>1. /\ BeginCall(reset) /\ UNCHANGED <<status, interrupts>>
            /\ nodeStatus' = [m \in Nodes |-> IF m \in reset THEN "NONE" ELSE nodeStatus[m]]
            /\ attempt' = [m \in Nodes |-> IF m \in reset THEN FreshAttempt ELSE attempt[m]]
        BY <2>15 DEF Rerun
      <3> HIDE DEF reset
      <3>2. phase = "idle" /\ crossed' = crossed
        BY <3>1 DEF BeginCall
      <3>3. InProgressIsAccounted'
        <4> SUFFICES ASSUME NEW m \in Nodes, nodeStatus'[m] = "IN_PROGRESS"
                     PROVE  \/ \E k \in Others : Executes(parked[k], m)'
                            \/ Accounted(m)' \/ m \in crossed'
          BY DEF InProgressIsAccounted, Accounted
        <4>1. m \notin reset /\ nodeStatus[m] = "IN_PROGRESS"
          BY <3>1
        <4>2. (\E k \in Others : Executes(parked[k], m)) \/ Accounted(m) \/ m \in crossed
          BY <4>1, <3>2, <2>0, InProgress, AtHandFacts DEF IInv
        <4> QED BY <4>1, <4>2, <3>1, <3>2, CallsBegin DEF Accounted, OpenInterrupts
      <3>4. CallsInv'
        BY <3>1, CallsBegin
      <3>5. WaitingIsAnswerable'
        BY <3>1 DEF IInv, WaitingIsAnswerable, OpenInterrupts
      <3>6. AttemptsBounded'
        BY <3>1, GraphAssumption DEF FreshAttempt, IInv, AttemptsBounded
      <3> QED BY <3>3, <3>4, <3>5, <3>6 DEF IInv
    <2>16. CASE CancelRun
      <3>1. /\ status' = "CANCELLED" /\ UNCHANGED <<nodeStatus, attempt, interrupts>>
            /\ UNCHANGED <<phase, todo, popped, alone, parked, crossed>>
        BY <2>16 DEF CancelRun, engine
      <3>2. CallsInv'
        BY <2>0, <3>1, StatusKeeps
      <3> QED BY <3>1, <3>2 DEF IsCurrent, Executes, IInv, WaitingIsAnswerable, OpenInterrupts,
                InProgressIsAccounted, AttemptsBounded
    <2>17. CASE UNCHANGED vars
      <3>1. CallsInv'
        BY <2>0, <2>17, StatusKeeps DEF vars
      <3> QED BY <2>17, <3>1 DEF vars, IsCurrent, Executes, IInv, WaitingIsAnswerable,
                OpenInterrupts, InProgressIsAccounted, AttemptsBounded
    <2>18. ASSUME NEW k \in Others, Switch(k)
           PROVE  IInv'
      <3>1. /\ UNCHANGED <<status, nodeStatus, attempt, interrupts, crossed>>
            /\ AtHand' = parked[k] /\ parked' = [parked EXCEPT ![k] = AtHand]
        BY <2>0, <2>18, AtHandFacts DEF Switch, AtHand, run, EngineCalls
      <3>2. parked'[k] = AtHand /\ \A j \in Others \ {k} : parked'[j] = parked[j]
        BY <2>0, <3>1 DEF TypeOK
      <3>3. InProgressIsAccounted'
        <4> SUFFICES ASSUME NEW m \in Nodes, nodeStatus'[m] = "IN_PROGRESS"
                     PROVE  \/ Executes(AtHand, m)'
                            \/ \E j \in Others : Executes(parked[j], m)'
                            \/ Accounted(m)' \/ m \in crossed'
          BY DEF InProgressIsAccounted, Accounted, Executes, AtHand, IsCurrent
        <4>1. \/ Executes(AtHand, m) \/ \E j \in Others : Executes(parked[j], m)
              \/ Accounted(m) \/ m \in crossed
          BY <3>1, <2>0, InProgress DEF IInv
        <4> QED BY <4>1, <3>1, <3>2 DEF Accounted, OpenInterrupts, Executes
      <3>4. CallsInv'
        <4>1. OneCall(AtHand)' /\ \A j \in Others : OneCall(parked[j])'
          BY <2>0, <3>1, <3>2 DEF OneCall, CallsInv
        <4>2. AtHand.phase = phase /\ AtHand'.phase = phase'
          BY DEF AtHand
        <4>3. CallsApart'
          BY <2>0, <3>1, <3>2, <4>2 DEF CallsInv, CallsApart, Lone
        <4> QED BY <4>1, <4>3 DEF CallsInv
      <3> QED BY <3>1, <3>3, <3>4
              DEF IInv, WaitingIsAnswerable, OpenInterrupts, AttemptsBounded
    <2> QED
      BY <2>2, <2>3, <2>4, <2>5, <2>6, <2>7, <2>8, <2>9, <2>10, <2>11,
         <2>12, <2>13, <2>14, <2>15, <2>16, <2>17, <2>18
      DEF Next, ExecuteUntilBlocked, Handle, ApiCall, Preempt, Rest
  <1>3. IInv => TypeOK
    BY DEF IInv
  <1> QED BY <1>1, <1>2, <1>3, TypeCorrect, PTL DEF Spec

\* A call of the thread at hand, alone, has the run in no status in which it waits.
LEMMA AloneStatus ==
  ASSUME IInv, alone
  PROVE  /\ popped = 0
         /\ \A n \in Nodes : IsCurrent(n) => status \in {"RUNNING", "CANCELLED", "FAILED"}
  BY OneCallAtHand DEF IInv, CallsInv, IsCurrent

LEMMA PassStopsInv == IInv => PassStopsWithRun
  BY OneCallAtHand DEF IInv, CallsInv, PassStopsWithRun

\* Whatever is cancelled, rerun or timed out, a run that waits for input has
\* an interrupt that resume_interrupt accepts.
THEOREM WaitingAnswerable == Spec => []WaitingIsAnswerable
  <1>1. IInv => WaitingIsAnswerable
    BY DEF IInv
  <1> QED BY <1>1, Invariance, PTL

\* No node is left IN_PROGRESS with nobody to bring it out, in however many threads the
\* engine calls on the run are, but by the handler of a call that another one overlapped and
\* made the run wait (crossed).
THEOREM InProgressAccounted == Spec => []InProgressIsAccounted
  <1>1. IInv => InProgressIsAccounted
    BY DEF IInv
  <1> QED BY <1>1, Invariance, PTL

\* A pass that no other call overlaps stops with its run, for every graph and every order
\* of API calls.
THEOREM PassStops == Spec => []PassStopsWithRun
  <1> QED BY PassStopsInv, Invariance, PTL

\* No node run exceeds its retry budget.
THEOREM AttemptsWithinBudget == Spec => []AttemptsBounded
  <1>1. IInv => AttemptsBounded
    BY DEF IInv
  <1> QED BY <1>1, Invariance, PTL

-----------------------------------------------------------------------------
(* What the execution of a node does, whatever its kind, in a call that    *)
(* has been alone.                                                         *)

NextNodes(n) == IF status' = "RUNNING" THEN todo \ {n} ELSE {}

\* The nodes whose runs the handler of n takes back.
Resets(n, reset) ==
  /\ reset \subseteq LoopBody(n) /\ (reset # {} => Kind[n] = "while")
  /\ \A m \in Nodes \ {n} : nodeStatus'[m] = IF m \in reset THEN "NONE" ELSE nodeStatus[m]
  /\ outputs' \subseteq (outputs \ reset) \cup {n}

\* How the execution of n ends: in an error, with another attempt to come, blocked, or
\* resolved.
Ends(n) ==
  \/ status' = "FAILED" /\ nodeStatus'[n] = "ERROR"
  \/ status' = "RUNNING" /\ nodeStatus'[n] = "TO_DO" /\ n \notin outputs'
  \/ /\ Kind[n] = "interaction" /\ status' = "WAITING_FOR_INPUT"
     /\ nodeStatus'[n] = nodeStatus[n] /\ outputs' = outputs
  \/ status' \in {status, "COMPLETED"} /\ nodeStatus'[n] = "RESOLVED"

\* An interaction that asks, and does not run out of time, blocks the run.
Asks(n) ==
  /\ Kind[n] = "interaction"
  /\ interrupts' = Append(interrupts, [node |-> n, status |-> "OPEN"])
  /\ n \in Timed \/ (status' = "WAITING_FOR_INPUT" /\ nodeStatus'[n] = nodeStatus[n])

Handled(n) ==
  /\ phase = "node" /\ IsCurrent(n) /\ phase' = "pass" /\ todo' = NextNodes(n)
  /\ skipped \subseteq skipped' /\ UNCHANGED <<alone, crossed, stored>>
  /\ \E reset \in SUBSET Nodes : Resets(n, reset)
  /\ Ends(n)
  /\ n \in outputs' => n \in outputs \/ Kind[n] \in {"start", "task"}
  /\ (interrupts' = interrupts /\ status' # "WAITING_FOR_INPUT") \/ Asks(n)

LEMMA EndOfNode ==
  ASSUME IInv, alone, NEW n \in Nodes, NEW st \in {"RUNNING", "CANCELLED", "FAILED", "COMPLETED"},
         NEW reset \in SUBSET Nodes, reset \subseteq LoopBody(n), reset # {} => Kind[n] = "while",
         NEW ns \in [Nodes -> NodeStatuses],
         \A m \in Nodes : ns[m] = IF m \in reset THEN "NONE" ELSE nodeStatus[m],
         NEW outs, outs \subseteq (outputs \ reset) \cup {n},
         n \in outs => n \in outputs \/ Kind[n] \in {"start", "task"},
         phase = "node", IsCurrent(n), st \in {status, "COMPLETED", "FAILED"},
         Finishes(n, st, ns, outs) \/ Throws(n, ns, outs),
         interrupts' = interrupts, skipped \subseteq skipped'
  PROVE  Handled(n)
<1>1. phase' = "pass" /\ todo' = NextNodes(n) /\ UNCHANGED <<alone, crossed, stored>>
  BY DEF Finishes, Returns, Throws, BackInPass, NextNodes
<1>2. /\ \A m \in Nodes \ {n} : nodeStatus'[m] = ns[m]
      /\ outputs' \subseteq outs
      /\ Ends(n) /\ status' # "WAITING_FOR_INPUT"
  <2>0. popped = 0
    BY AloneStatus
  <2>1. CASE Returns(n, st, ns, outs)
    BY <2>0, <2>1 DEF Returns, Ends, Marked
  <2>2. CASE Throws(n, ns, outs)
    BY <2>0, <2>2 DEF Throws, Retry, Fail, Ends, Marked
  <2>. QED BY <2>1, <2>2 DEF Finishes
<1>3. Resets(n, reset)
  BY <1>2 DEF Resets
<1>. QED BY <1>1, <1>2, <1>3 DEF Handled

\* The same for a handler that takes no run back.
LEMMA EndPlain ==
  ASSUME IInv, alone, NEW n \in Nodes, NEW st \in {"RUNNING", "CANCELLED", "FAILED", "COMPLETED"},
         NEW outs, outs \subseteq outputs \cup {n},
         n \in outs => n \in outputs \/ Kind[n] \in {"start", "task"},
         phase = "node", IsCurrent(n), st \in {status, "COMPLETED", "FAILED"},
         Finishes(n, st, nodeStatus, outs) \/ Throws(n, nodeStatus, outs),
         interrupts' = interrupts, skipped \subseteq skipped'
  PROVE  Handled(n)
<1>. DEFINE reset == {}
<1>1. /\ reset \in SUBSET Nodes /\ reset \subseteq LoopBody(n) /\ (reset # {} => Kind[n] = "while")
      /\ \A m \in Nodes : nodeStatus[m] = IF m \in reset THEN "NONE" ELSE nodeStatus[m]
      /\ outs \subseteq (outputs \ reset) \cup {n}
  OBVIOUS
<1>2. nodeStatus \in [Nodes -> NodeStatuses]
  BY DEF IInv, TypeOK
<1>. HIDE DEF reset
<1>. QED BY <1>1, <1>2, EndOfNode

LEMMA HandleDeed ==
  ASSUME IInv, alone, NEW n \in Nodes, Handle(n)
  PROVE  Handled(n)
<1>0. /\ nodeStatus \in [Nodes -> NodeStatuses] /\ phase = "node" /\ IsCurrent(n)
      /\ status \in {"RUNNING", "CANCELLED", "FAILED"} /\ popped = 0
  BY AloneStatus
  DEF IInv, TypeOK, Handle, HandlerRaises, HandleStart, HandleTask, HandleIfElse,
    HandleWhileEnter, HandleWhileLeave, HandleInteraction, HandleEnd, Handling
<1>1. CASE HandlerRaises(n)
  <2>1. PICK outs \in {outputs, outputs \cup {n}} :
          (outs # outputs => Kind[n] = "task") /\ Throws(n, nodeStatus, outs)
    BY <1>1 DEF HandlerRaises
  <2>2. /\ outs \subseteq outputs \cup {n} /\ (n \in outs => n \in outputs \/ Kind[n] \in {"start", "task"})
        /\ interrupts' = interrupts /\ skipped \subseteq skipped'
    BY <1>1, <2>1 DEF HandlerRaises
  <2>. QED BY <1>0, <2>1, <2>2, EndPlain
<1>2. CASE HandleStart(n)
  <2>1. /\ Kind[n] = "start" /\ Finishes(n, status, nodeStatus, outputs \cup {n})
        /\ interrupts' = interrupts /\ skipped \subseteq skipped'
    BY <1>2 DEF HandleStart, Handling
  <2>. QED BY <1>0, <2>1, EndPlain
<1>3. CASE HandleTask(n)
  <2>1. PICK st \in {status, "FAILED"} : Finishes(n, st, nodeStatus, outputs \cup {n})
    BY <1>3 DEF HandleTask
  <2>2. Kind[n] = "task" /\ interrupts' = interrupts /\ skipped \subseteq skipped'
    BY <1>3 DEF HandleTask, Handling
  <2>. QED BY <1>0, <2>1, <2>2, EndPlain
<1>4. CASE HandleIfElse(n)
  <2>1. /\ skipped \subseteq skipped' /\ Finishes(n, status, nodeStatus, outputs)
        /\ interrupts' = interrupts
    BY <1>4 DEF HandleIfElse
  <2>. QED BY <1>0, <2>1, EndPlain
<1>5. CASE HandleWhileEnter(n)
  <2>. DEFINE reset == LoopBody(n) \cap Nodes
              ns == [m \in Nodes |-> IF m \in LoopBody(n) THEN "NONE" ELSE nodeStatus[m]]
  <2>1. /\ ns \in [Nodes -> NodeStatuses] /\ reset \in SUBSET Nodes /\ reset \subseteq LoopBody(n)
        /\ \A m \in Nodes : ns[m] = IF m \in reset THEN "NONE" ELSE nodeStatus[m]
    BY <1>0 DEF NodeStatuses
  <2>2. /\ Finishes(n, status, ns, outputs \ LoopBody(n)) /\ Kind[n] = "while"
        /\ interrupts' = interrupts /\ skipped' = skipped
    BY <1>5 DEF HandleWhileEnter, Handling
  <2>3. outputs \ LoopBody(n) \subseteq (outputs \ reset) \cup {n}
    OBVIOUS
  <2>. HIDE DEF ns, reset
  <2>4. n \in outputs \ LoopBody(n) => n \in outputs
    OBVIOUS
  <2>. DEFINE outs == outputs \ LoopBody(n)
  <2>. HIDE DEF outs
  <2>5. /\ outs \subseteq (outputs \ reset) \cup {n} /\ (n \in outs => n \in outputs)
        /\ Finishes(n, status, ns, outs)
    BY <2>2, <2>3, <2>4 DEF outs
  <2>6. /\ status \in {"RUNNING", "CANCELLED", "FAILED", "COMPLETED"}
        /\ status \in {status, "COMPLETED", "FAILED"} /\ (reset # {} => Kind[n] = "while")
        /\ (n \in outs => n \in outputs \/ Kind[n] \in {"start", "task"})
        /\ skipped \subseteq skipped' /\ interrupts' = interrupts
    BY <1>0, <2>2, <2>5
  <2>. QED BY ONLY IInv, alone, n \in Nodes, <1>0, <2>1, <2>2, <2>5, <2>6, EndOfNode
<1>6. CASE HandleWhileLeave(n)
  <2>1. /\ skipped \subseteq skipped' /\ Finishes(n, status, nodeStatus, outputs)
        /\ interrupts' = interrupts
    BY <1>6 DEF HandleWhileLeave
  <2>. QED BY <1>0, <2>1, EndPlain
<1>7. CASE HandleInteraction(n)
  <2>1. /\ Kind[n] = "interaction" /\ skipped' = skipped
        /\ interrupts' = Append(interrupts, [node |-> n, status |-> "OPEN"])
        /\ Finishes(n, "WAITING_FOR_INPUT", nodeStatus, outputs)
    BY <1>7 DEF HandleInteraction, Handling
  <2>2. phase' = "pass" /\ todo' = NextNodes(n) /\ UNCHANGED <<alone, crossed, stored>>
    BY <2>1 DEF Finishes, Returns, Throws, BackInPass, NextNodes
  <2>3. /\ \A m \in Nodes \ {n} : nodeStatus'[m] = nodeStatus[m]
        /\ outputs' \subseteq outputs /\ Ends(n)
        /\ n \in Timed \/ (status' = "WAITING_FOR_INPUT" /\ nodeStatus'[n] = nodeStatus[n])
    <3>1. CASE Returns(n, "WAITING_FOR_INPUT", nodeStatus, outputs)
      BY <1>0, <2>1, <3>1 DEF Returns, Ends, Marked
    <3>2. CASE n \in Timed /\ Throws(n, nodeStatus, outputs)
      BY <1>0, <2>1, <3>2 DEF Throws, Retry, Fail, Ends, Marked
    <3>. QED BY <2>1, <3>1, <3>2 DEF Finishes
  <2>4. Resets(n, {})
    BY <2>3 DEF Resets
  <2>. QED BY <1>0, <2>1, <2>2, <2>3, <2>4 DEF Handled, Asks
<1>8. CASE HandleEnd(n)
  <2>1. /\ skipped \subseteq skipped' /\ Finishes(n, "COMPLETED", nodeStatus, outputs)
        /\ interrupts' = interrupts
    BY <1>8 DEF HandleEnd
  <2>. QED BY <1>0, <2>1, EndPlain
<1>. QED BY <1>1, <1>2, <1>3, <1>4, <1>5, <1>6, <1>7, <1>8 DEF Handle

-----------------------------------------------------------------------------
(* Outputs, of a run with one engine call at a time.  Reruns and           *)
(* interactions that time out can leave interrupts open behind a run that  *)
(* goes on; answering one of those gives an output to a node whose run is  *)
(* gone.                                                                   *)

InteractionsWait == \A n \in Timed : Kind[n] # "interaction"

\* An open interrupt is the only one, and nothing runs.
OpenBlocks ==
  \A i \in OpenInterrupts :
    /\ phase # "node" /\ todo = {} /\ status # "RUNNING"
    /\ nodeStatus[interrupts[i].node] # "NONE"
    /\ \A j \in OpenInterrupts : j = i

Asked == \A i \in DOMAIN interrupts : Kind[interrupts[i].node] = "interaction"

\* The node whose handler runs has a node run, which a cancellation may have failed.
AtNode ==
  \A n \in Nodes : phase = "node" /\ IsCurrent(n) => nodeStatus[n] \in {"IN_PROGRESS", "ERROR"}

\* A while node, which is run again, has no output.
NoWhileOutput == \A n \in outputs : Kind[n] # "while"

OutputInv == OpenBlocks /\ Asked /\ AtNode /\ NoWhileOutput /\ OutputsAreSettled

LEMMA InitOutputInv == Init => OutputInv
  BY DEF Init, OutputInv, OpenBlocks, Asked, AtNode, NoWhileOutput, OutputsAreSettled,
    OpenInterrupts

\* One interrupt gets another status.
LEMMA StatusChange ==
  ASSUME TypeOK, NEW i \in DOMAIN interrupts, NEW st \in {"RESOLVED", "CANCELLED"},
         interrupts' = [interrupts EXCEPT ![i].status = st]
  PROVE  /\ DOMAIN interrupts' = DOMAIN interrupts
         /\ \A j \in DOMAIN interrupts : interrupts'[j].node = interrupts[j].node
         /\ OpenInterrupts' = OpenInterrupts \ {i}
         /\ interrupts[i].node \in Nodes
<1>1. \A j \in DOMAIN interrupts : interrupts[j] \in Interrupt
  BY DEF TypeOK
<1>2. DOMAIN interrupts' = DOMAIN interrupts
  BY DEF TypeOK
<1>3. \A j \in DOMAIN interrupts : j # i => interrupts'[j] = interrupts[j]
  OBVIOUS
<1>4. interrupts'[i].node = interrupts[i].node /\ interrupts'[i].status = st
  BY <1>1 DEF Interrupt
<1>5. OpenInterrupts' = OpenInterrupts \ {i}
  BY <1>2, <1>3, <1>4 DEF OpenInterrupts
<1>. QED BY <1>1, <1>2, <1>3, <1>4, <1>5 DEF Interrupt

\* One interrupt is added.
LEMMA OneMore ==
  ASSUME TypeOK, NEW n \in Nodes,
         interrupts' = Append(interrupts, [node |-> n, status |-> "OPEN"])
  PROVE  /\ \A j \in DOMAIN interrupts' :
              (j \in DOMAIN interrupts /\ interrupts'[j] = interrupts[j])
              \/ (j = Len(interrupts) + 1 /\ interrupts'[j] = [node |-> n, status |-> "OPEN"])
         /\ OpenInterrupts' \subseteq OpenInterrupts \cup {Len(interrupts) + 1}
<1>1. interrupts \in Seq(Interrupt)
  BY DEF TypeOK
<1>2. \A j \in DOMAIN interrupts' :
        (j \in DOMAIN interrupts /\ interrupts'[j] = interrupts[j])
        \/ (j = Len(interrupts) + 1 /\ interrupts'[j] = [node |-> n, status |-> "OPEN"])
  BY <1>1
<1>. QED BY <1>2 DEF OpenInterrupts

LEMMA HandledOutputs ==
  ASSUME IInv, OutputInv, InteractionsWait, NEW n \in Nodes, Handled(n)
  PROVE  OutputInv'
<1>0. /\ TypeOK /\ OpenBlocks /\ Asked /\ AtNode /\ NoWhileOutput /\ OutputsAreSettled
      /\ phase = "node" /\ IsCurrent(n) /\ phase' = "pass"
      /\ nodeStatus[n] \in {"IN_PROGRESS", "ERROR"}
  BY DEF OutputInv, IInv, Handled, AtNode
<1>1. OpenInterrupts = {}
  BY <1>0 DEF OpenBlocks
<1>2. PICK reset \in SUBSET Nodes : Resets(n, reset)
  BY DEF Handled
<1>3. n \notin reset /\ (reset # {} => Kind[n] = "while")
  BY <1>2 DEF Resets, LoopBody
<1>4. CASE interrupts' = interrupts
  <2>0. outputs \subseteq Nodes /\ status' # "WAITING_FOR_INPUT"
    <3>1. ~Asks(n)
      BY <1>0, <1>4 DEF Asks, TypeOK
    <3>. QED BY <1>0, <3>1 DEF TypeOK, Handled
  <2>1. OpenBlocks' /\ Asked'
    BY <1>0, <1>1, <1>4 DEF OpenBlocks, Asked, OpenInterrupts
  <2>2. NoWhileOutput'
    BY <1>0, <1>2 DEF NoWhileOutput, Handled, Resets
  <2>3. OutputsAreSettled'
    BY <1>0, <1>2, <1>3, <1>4, <2>0 DEF OutputsAreSettled, Handled, Resets, Ends
  <2>. QED BY <1>0, <2>1, <2>2, <2>3 DEF OutputInv, AtNode
<1>5. CASE Asks(n)
  <2>1. /\ Kind[n] = "interaction" /\ status' = "WAITING_FOR_INPUT"
        /\ nodeStatus'[n] = nodeStatus[n] /\ reset = {}
        /\ interrupts' = Append(interrupts, [node |-> n, status |-> "OPEN"])
    BY <1>3, <1>5 DEF Asks, InteractionsWait
  <2>2. OpenInterrupts' \subseteq {Len(interrupts) + 1}
    BY <1>0, <1>1, <2>1, OneMore
  <2>3. \A j \in OpenInterrupts' : interrupts'[j].node = n
    BY <1>0, <1>1, <2>1, <2>2, OneMore DEF OpenInterrupts
  <2>4. todo' = {}
    BY <2>1 DEF Handled, NextNodes
  <2>5. OpenBlocks'
    BY <1>0, <2>1, <2>2, <2>3, <2>4 DEF OpenBlocks
  <2>6. Asked'
    BY <1>0, <2>1, OneMore DEF Asked
  <2>7. NoWhileOutput'
    BY <1>0, <1>2 DEF NoWhileOutput, Handled, Resets
  <2>8. outputs' = outputs /\ outputs \subseteq Nodes
    BY <1>0, <2>1 DEF Handled, Ends, TypeOK, IInv, PassStopsWithRun
  <2>9. OutputsAreSettled'
    BY <1>0, <1>2, <2>1, <2>8 DEF OutputsAreSettled, Handled, Resets, Ends
  <2>. QED BY <1>0, <2>5, <2>6, <2>7, <2>9 DEF OutputInv, AtNode
<1>. QED BY <1>4, <1>5 DEF Handled

LEMMA NextOutputInv ==
  ASSUME IInv, OutputInv, Others = {}, InteractionsWait, "rerun" \notin Calls, [Next]_vars
  PROVE  OutputInv'
<1>0. /\ TypeOK /\ OpenBlocks /\ Asked /\ AtNode /\ NoWhileOutput /\ OutputsAreSettled
      /\ PassStopsWithRun /\ alone
  BY PassStopsInv DEF OutputInv, IInv, CallsInv
<1>1. CASE UNCHANGED <<status, nodeStatus, outputs, interrupts>> /\ (BeginPass \/ EndCall \/ \E n \in Nodes : SkipSettledNode(n))
  BY <1>0, <1>1 DEF BeginPass, EndCall, SkipSettledNode, IsCurrent, run, OutputInv, OpenBlocks,
      OpenInterrupts, Asked,
    AtNode, NoWhileOutput, OutputsAreSettled
<1>2. ASSUME NEW n \in Nodes, StartNode(n) PROVE OutputInv'
  <2>1. /\ phase = "pass" /\ IsCurrent(n) /\ phase' = "node" /\ todo # {}
        /\ nodeStatus' = [nodeStatus EXCEPT ![n] = "IN_PROGRESS"]
        /\ UNCHANGED <<status, outputs, interrupts, todo>>
    BY <1>2 DEF StartNode, IsCurrent
  <2>2. n \notin outputs
    BY <1>0, <1>2 DEF StartNode, IsSettled, NoWhileOutput, OutputsAreSettled
  <2>3. OutputsAreSettled'
    BY <1>0, <2>1, <2>2 DEF OutputsAreSettled, TypeOK
  <2>4. OpenBlocks' /\ Asked' /\ NoWhileOutput'
    BY <1>0, <2>1 DEF OpenBlocks, OpenInterrupts, Asked, NoWhileOutput
  <2>5. AtNode'
    <3>1. \A m \in Nodes : IsCurrent(m)' => m = n
      BY <1>0, <2>1, CurrentIsUnique DEF IsCurrent
    <3>. QED BY <1>0, <2>1, <3>1 DEF AtNode, TypeOK
  <2>. QED BY <2>3, <2>4, <2>5 DEF OutputInv
<1>3. ASSUME NEW n \in Nodes, Handle(n) PROVE OutputInv'
  BY <1>0, <1>3, HandleDeed, HandledOutputs
<1>4. ASSUME NEW i \in DOMAIN interrupts, Resume(i) PROVE OutputInv'
  <2>. DEFINE n == interrupts[i].node
  <2>1. /\ i \in OpenInterrupts /\ phase = "idle" /\ status' = "RUNNING" /\ phase' = "pass"
        /\ todo' = todo
        /\ nodeStatus' = [nodeStatus EXCEPT ![n] = IF @ = "NONE" THEN @ ELSE "RESOLVED"]
        /\ outputs' \subseteq outputs \cup {n}
        /\ interrupts' = [interrupts EXCEPT ![i].status = "RESOLVED"]
    BY <1>4 DEF Resume, BeginCall, OpenInterrupts
  <2>2. /\ DOMAIN interrupts' = DOMAIN interrupts
        /\ \A j \in DOMAIN interrupts : interrupts'[j].node = interrupts[j].node
        /\ OpenInterrupts' = OpenInterrupts \ {i} /\ n \in Nodes
    BY <1>0, <2>1, StatusChange
  <2>3. OpenInterrupts' = {} /\ nodeStatus[n] # "NONE" /\ Kind[n] = "interaction"
    BY <1>0, <2>1, <2>2 DEF OpenBlocks, Asked
  <2>. HIDE DEF n
  <2>4. nodeStatus'[n] = "RESOLVED" /\ \A m \in Nodes : m # n => nodeStatus'[m] = nodeStatus[m]
    BY <1>0, <2>1, <2>2, <2>3 DEF TypeOK
  <2>5. OutputsAreSettled' /\ NoWhileOutput'
    BY <1>0, <2>1, <2>3, <2>4 DEF OutputsAreSettled, NoWhileOutput, TypeOK
  <2>. QED BY <1>0, <2>1, <2>2, <2>3, <2>5 DEF OutputInv, OpenBlocks, Asked, AtNode
<1>5. ASSUME NEW i \in DOMAIN interrupts, CancelInterrupt(i) PROVE OutputInv'
  <2>. DEFINE n == interrupts[i].node
  <2>1. /\ status' = "FAILED" /\ UNCHANGED <<outputs, phase, todo>>
        /\ nodeStatus' = [nodeStatus EXCEPT ![n] = IF @ = "NONE" THEN @ ELSE "ERROR"]
        /\ interrupts' = [interrupts EXCEPT ![i].status = "CANCELLED"]
    BY <1>5 DEF CancelInterrupt, engine
  <2>2. /\ DOMAIN interrupts' = DOMAIN interrupts
        /\ \A j \in DOMAIN interrupts : interrupts'[j].node = interrupts[j].node
        /\ OpenInterrupts' = OpenInterrupts \ {i} /\ n \in Nodes
    BY <1>0, <2>1, StatusChange
  <2>. HIDE DEF n
  <2>3. /\ nodeStatus'[n] = IF nodeStatus[n] = "NONE" THEN "NONE" ELSE "ERROR"
        /\ \A m \in Nodes : m # n => nodeStatus'[m] = nodeStatus[m]
    BY <1>0, <2>1, <2>2 DEF TypeOK
  <2>4. OutputsAreSettled' /\ NoWhileOutput'
    BY <1>0, <2>1, <2>3 DEF OutputsAreSettled, NoWhileOutput, TypeOK
  <2>5. AtNode'
    BY <1>0, <2>1, <2>3 DEF AtNode, IsCurrent
  <2>6. \A j \in OpenInterrupts' : j \in OpenInterrupts /\ j \in DOMAIN interrupts /\ interrupts[j].node \in Nodes
    <3>1. \A j \in DOMAIN interrupts : interrupts[j] \in Interrupt
      BY <1>0 DEF TypeOK
    <3>. QED BY <2>2, <3>1 DEF OpenInterrupts, Interrupt
  <2>7. OpenBlocks'
    BY <1>0, <2>1, <2>2, <2>3, <2>6 DEF OpenBlocks
  <2>. QED BY <1>0, <2>2, <2>4, <2>5, <2>7 DEF OutputInv, Asked
<1>6. CASE CancelRun
  BY <1>0, <1>6 DEF CancelRun, engine, OutputInv, OpenBlocks, OpenInterrupts, Asked, AtNode,
      IsCurrent,
    NoWhileOutput, OutputsAreSettled
<1>7. CASE UNCHANGED vars
  BY <1>0, <1>7 DEF vars, OutputInv, OpenBlocks, OpenInterrupts, Asked, AtNode, IsCurrent,
      NoWhileOutput,
    OutputsAreSettled
<1>8. ASSUME NEW n \in Nodes, NEW scope \in {"node_only", "downstream"}, Rerun(n, scope) PROVE FALSE
  BY <1>8 DEF Rerun
<1>. QED BY <1>1, <1>2, <1>3, <1>4, <1>5, <1>6, <1>7, <1>8 DEF Next, ExecuteUntilBlocked, ApiCall,
    Preempt, Rest, BeginPass, EndCall, SkipSettledNode, run

\* What a later expression reads was produced by a node run that is settled, whatever
\* fails, is retried, is looped over or cancelled, as long as the run has one engine call at
\* a time and is not rerun, and no interaction has a timeout (runtime/engine.py,
\* execute_until_blocked and resume_interrupt).
THEOREM OutputsSettled ==
  ASSUME Others = {}, InteractionsWait, "rerun" \notin Calls
  PROVE  Spec => []OutputsAreSettled
<1>1. IInv /\ OutputInv /\ [Next]_vars => OutputInv'
  BY NextOutputInv
<1>2. OutputInv => OutputsAreSettled
  BY DEF OutputInv
<1>. QED BY <1>1, <1>2, InitOutputInv, Invariance, PTL DEF Spec

-----------------------------------------------------------------------------
(* The lifecycle of a run that is only answered, one engine call at a      *)
(* time, step by step.                                                     *)

LifecycleInv ==
  /\ OutputInv
  /\ todo # {} => status = "RUNNING"
  /\ crossed = {}
  /\ OpenInterrupts # {} => status = "WAITING_FOR_INPUT"

LEMMA InitLifecycleInv == Init => LifecycleInv
<1>. SUFFICES ASSUME Init PROVE LifecycleInv
  OBVIOUS
<1>1. OpenInterrupts = {} /\ todo = {} /\ crossed = {}
  BY DEF Init, OpenInterrupts
<1>. QED BY <1>1, InitOutputInv DEF LifecycleInv

LEMMA LifecycleStep ==
  ASSUME IInv, LifecycleInv, Others = {}, InteractionsWait, Calls \subseteq {"resume"},
         [Next]_vars
  PROVE  LifecycleInv' /\ [Lifecycle!Next]_status
<1>0. /\ OutputInv' /\ TypeOK /\ PassStopsWithRun /\ OpenBlocks /\ alone /\ crossed = {}
      /\ (todo # {} => status = "RUNNING") /\ (phase = "node" => status = "RUNNING")
      /\ (OpenInterrupts # {} => status = "WAITING_FOR_INPUT")
  BY NextOutputInv, PassStopsInv DEF LifecycleInv, IInv, CallsInv, OutputInv, PassStopsWithRun
<1>1. CASE BeginPass \/ EndCall \/ (\E n \in Nodes : SkipSettledNode(n)) \/ UNCHANGED vars
  BY <1>0, <1>1 DEF BeginPass, EndCall, SkipSettledNode, IsCurrent, run, vars, LifecycleInv,
    OpenInterrupts
<1>2. ASSUME NEW n \in Nodes, StartNode(n)
      PROVE  LifecycleInv' /\ [Lifecycle!Next]_status
  BY <1>0, <1>2 DEF StartNode, IsCurrent, PassStopsWithRun, LifecycleInv, OpenInterrupts
<1>3. ASSUME NEW n \in Nodes, Handle(n)
      PROVE  LifecycleInv' /\ [Lifecycle!Next]_status
  <2>1. /\ Handled(n) /\ status = "RUNNING" /\ phase' = "pass" /\ OpenInterrupts = {}
        /\ crossed' = {} /\ (todo' # {} => status' = "RUNNING")
    BY <1>0, <1>3, HandleDeed DEF Handled, OpenBlocks, NextNodes
  <2>2. [Lifecycle!Next]_status
    BY <2>1 DEF Handled, Ends, Lifecycle!Next, Lifecycle!Block, Lifecycle!Finish, Lifecycle!Final
  <2>3. OpenInterrupts' # {} => status' = "WAITING_FOR_INPUT"
    <3>1. CASE Asks(n)
      BY <3>1 DEF Asks, InteractionsWait
    <3>2. CASE interrupts' = interrupts
      BY <2>1, <3>2 DEF OpenInterrupts
    <3>. QED BY <2>1, <3>1, <3>2 DEF Handled
  <2>. QED BY <1>0, <2>1, <2>2, <2>3 DEF LifecycleInv
<1>4. ASSUME NEW i \in DOMAIN interrupts, Resume(i)
      PROVE  LifecycleInv' /\ [Lifecycle!Next]_status
  <2>1. /\ i \in OpenInterrupts /\ status' = "RUNNING" /\ crossed' = crossed
        /\ interrupts' = [interrupts EXCEPT ![i].status = "RESOLVED"]
    BY <1>4 DEF Resume, BeginCall, OpenInterrupts
  <2>2. OpenInterrupts' = {}
    BY <1>0, <2>1, StatusChange DEF OpenBlocks
  <2>3. Lifecycle!Answer
    BY <1>0, <2>1 DEF Lifecycle!Answer
  <2>. QED BY <1>0, <2>1, <2>2, <2>3 DEF LifecycleInv, Lifecycle!Next
<1>5. /\ ~CancelRun /\ \A i \in DOMAIN interrupts : ~CancelInterrupt(i)
      /\ \A n \in Nodes, scope \in {"node_only", "downstream"} : ~Rerun(n, scope)
  BY DEF CancelRun, CancelInterrupt, Rerun
<1>. QED BY <1>1, <1>2, <1>3, <1>4, <1>5 DEF Next, ExecuteUntilBlocked, ApiCall, Preempt, Rest

\* A run that is only answered, one call at a time, and whose interactions do not time out,
\* takes only the steps of RunLifecycle: that is the safety part of ImplementsLifecycle, for
\* every graph (runtime/engine.py, run.status).
THEOREM LifecycleSteps ==
  ASSUME Others = {}, InteractionsWait, Calls \subseteq {"resume"}
  PROVE  Spec => Lifecycle!Init /\ [][Lifecycle!Next]_status
<1>1. IInv /\ LifecycleInv /\ [Next]_vars => LifecycleInv' /\ [Lifecycle!Next]_status
  BY LifecycleStep
<1>2. Init => Lifecycle!Init
  BY DEF Init, Lifecycle!Init
<1>. QED BY <1>1, <1>2, InitLifecycleInv, Invariance, PTL DEF Spec

-----------------------------------------------------------------------------
(* Dependencies.  Within a pass of a call that nothing overlaps, the       *)
(* dependencies of the nodes that are still to run stay settled, unless a  *)
(* while node takes its body back.                                         *)

\* No while nodes, and what a condition leads to has no other dependency, which would
\* not wait for the condition.
PlainGraph ==
  /\ \A n \in Nodes : Kind[n] # "while"
  /\ \A m \in Nodes, n \in Nodes : Kind[m] = "if_else" /\ <<m, n>> \in Edges => Pred(n) = {m}

StaySettled(call) ==
  call.alone => \A n \in call.todo : \A m \in Pred(n) :
    m \in skipped \/ (Settled(m) /\ m \notin call.todo)

DependenciesStay == StaySettled(AtHand) /\ \A k \in Others : StaySettled(parked[k])

\* A step that reaches no other call that has been alone and is under way.
LEMMA OthersStay ==
  ASSUME IInv, NEW reset, OthersKeep(reset), phase # "idle"
  PROVE  \A k \in Others : StaySettled(parked[k])'
<1>. SUFFICES ASSUME NEW k \in Others, parked'[k].alone
              PROVE  parked'[k].todo = {}
  BY DEF StaySettled
<1>1. /\ parked[k].alone /\ parked'[k].todo = parked[k].todo
      /\ OneCall(parked[k]) /\ (Lone(parked[k]) => phase = "idle")
  BY DEF OthersKeep, IInv, CallsInv, CallsApart
<1>. QED BY <1>1 DEF OneCall, Lone

\* Nothing is to run between two calls.
LEMMA BeginStays ==
  ASSUME IInv, NEW reset, BeginCall(reset)
  PROVE  DependenciesStay'
<1>1. TypeOK /\ todo = {} /\ \A k \in Others : OneCall(parked[k])
  BY OneCallAtHand DEF IInv, CallsInv, BeginCall
<1>2. todo' = {}
  BY <1>1, BeginCallFacts
<1>3. ASSUME NEW k \in Others, parked'[k].alone
      PROVE  parked'[k].todo = {}
  <2>1. parked[k].phase = "idle" /\ parked'[k] = parked[k]
    BY <1>1, <1>3, BeginCallFacts
  <2>. QED BY <1>1, <2>1 DEF OneCall
<1>. QED BY <1>2, <1>3 DEF DependenciesStay, StaySettled, AtHand

LEMMA DependencyStep ==
  ASSUME IInv, DependenciesStay, PlainGraph, [Next]_vars
  PROVE  /\ DependenciesStay'
         /\ alone => \A n \in Nodes \ WhileNodes : Starts(n) => \A m \in Pred(n) : Settled(m)
<1>0. /\ TypeOK /\ todo \subseteq Nodes /\ \A n : Pred(n) \subseteq Nodes
      /\ alone => \A n \in todo : \A m \in Pred(n) : m \in skipped \/ (Settled(m) /\ m \notin todo)
  BY DEF IInv, TypeOK, Pred, DependenciesStay, StaySettled, AtHand
<1>. DEFINE Goal == alone => \A n \in Nodes \ WhileNodes : Starts(n) => \A m \in Pred(n) : Settled(m)
            Stays == alone' => \A n \in todo' : \A m \in Pred(n) :
                       m \in skipped' \/ (Settled(m)' /\ m \notin todo')
<1>a. Stays => StaySettled(AtHand)'
  BY DEF StaySettled, AtHand
<1>b. parked' = parked /\ phase # "idle" => \A k \in Others : StaySettled(parked[k])'
  BY OthersSame, OthersStay
<1>. HIDE DEF Stays
<1>1. CASE BeginPass
  <2>1. ASSUME NEW n \in RunnableNodes, NEW m \in Pred(n)
        PROVE  m \in skipped \/ (nodeStatus[m] = "RESOLVED" /\ m \notin RunnableNodes)
    <3>1. /\ Kind[n] # "while" /\ IsRunnable(n) /\ m \in Nodes /\ Kind[m] # "while" /\ <<m, n>> \in Edges
          /\ n \in Nodes
      BY <2>1 DEF RunnableNodes, PlainGraph, Pred
    <3>2. nodeStatus[m] = "RESOLVED" => m \notin RunnableNodes
      BY <3>1 DEF RunnableNodes, IsRunnable
    <3>3. LET active == {k \in Pred(n) : IsEdgeActive(k, n)}
          IN  active # {} /\ \A k \in active : nodeStatus[k] = "RESOLVED"
      BY <2>1, <3>1 DEF IsRunnable, DependenciesResolved, Dependencies
    <3>4. CASE Kind[m] = "if_else"
      <4>1. Pred(n) = {m}
        BY <3>1, <3>4 DEF PlainGraph
      <4>. QED BY <3>2, <3>3, <4>1
    <3>5. CASE Kind[m] # "if_else"
      <4>1. m \in skipped \/ IsEdgeActive(m, n)
        BY <3>1, <3>5 DEF IsEdgeActive
      <4>. QED BY <2>1, <3>2, <3>3, <4>1
    <3>. QED BY <3>4, <3>5
  <2>2. /\ todo' = RunnableNodes /\ UNCHANGED <<skipped, nodeStatus, interrupts, parked>>
        /\ phase = "pass"
    BY <1>1 DEF BeginPass, run
  <2>3. Stays
    BY <2>1, <2>2 DEF Stays, Settled
  <2>. QED BY <1>a, <1>b, <2>2, <2>3 DEF DependenciesStay, Starts
<1>2. ASSUME NEW n \in Nodes, StartNode(n)
      PROVE  DependenciesStay' /\ Goal
  <2>1. /\ n \in todo /\ nodeStatus' = [nodeStatus EXCEPT ![n] = "IN_PROGRESS"]
        /\ UNCHANGED <<todo, skipped, interrupts, alone, parked>> /\ phase = "pass"
    BY <1>2 DEF StartNode, IsCurrent
  <2>2. Stays
    <3>1. \A m \in Nodes : m # n => nodeStatus'[m] = nodeStatus[m]
      BY <1>0, <2>1 DEF TypeOK
    <3>2. \A m \in Nodes : m # n /\ Settled(m) => Settled(m)'
      BY <2>1, <3>1 DEF Settled
    <3>. QED BY <1>0, <2>1, <3>2 DEF Stays
  <2>3. \A k \in Nodes : Starts(k) => k = n
    BY <1>0, <2>1 DEF Starts, TypeOK
  <2>4. alone => \A m \in Pred(n) : Settled(m)
    BY <1>0, <2>1 DEF Settled
  <2>. QED BY <1>a, <1>b, <2>1, <2>2, <2>3, <2>4 DEF DependenciesStay
<1>3. ASSUME NEW n \in Nodes, Handle(n)
      PROVE  DependenciesStay' /\ Goal
  <2>0. phase = "node" /\ alone' = alone /\ parked' = parked
    BY <1>3
    DEF Handle, HandlerRaises, HandleStart, HandleTask, HandleIfElse, HandleWhileEnter,
        HandleWhileLeave, HandleInteraction, HandleEnd, Handling, Finishes, Returns, Throws,
        BackInPass, PlainGraph
  <2>. SUFFICES ASSUME alone PROVE Stays /\ Goal
    BY <1>a, <1>b, <2>0 DEF DependenciesStay, Stays
  <2>1. Handled(n) /\ n \in todo
    BY <1>3, HandleDeed DEF Handled, IsCurrent
  <2>2. \A m \in Nodes \ {n} : nodeStatus'[m] = nodeStatus[m]
    BY <2>1 DEF Handled, Resets, PlainGraph
  <2>3. todo' \subseteq todo /\ skipped \subseteq skipped'
    BY <2>1 DEF Handled, NextNodes
  <2>4. \A i \in DOMAIN interrupts : i \in DOMAIN interrupts' /\ interrupts'[i] = interrupts[i]
    <3>1. interrupts \in Seq(Interrupt)
      BY <1>0 DEF TypeOK
    <3>2. interrupts' = interrupts \/ \E e \in Interrupt : interrupts' = Append(interrupts, e)
      BY <2>1 DEF Handled, Asks, Interrupt
    <3>. QED BY <3>1, <3>2
  <2>5. \A m \in Nodes \ {n} : Settled(m) => Settled(m)'
    BY <2>2, <2>3, <2>4 DEF Settled
  <2>6. Stays
    BY <1>0, <2>1, <2>3, <2>5 DEF Stays
  <2>7. nodeStatus'[n] = "IN_PROGRESS" => nodeStatus[n] = "IN_PROGRESS"
    BY <2>1 DEF Handled, Ends
  <2>. QED BY <2>2, <2>6, <2>7 DEF Starts
<1>4. ASSUME NEW n \in Nodes, SkipSettledNode(n)
      PROVE  DependenciesStay' /\ Goal
  <2>1. /\ UNCHANGED <<skipped, nodeStatus, interrupts, alone, parked>> /\ todo' \subseteq todo
        /\ phase = "pass"
    BY <1>4 DEF SkipSettledNode, run
  <2>2. Stays
    BY <1>0, <2>1 DEF Stays, Settled
  <2>. QED BY <1>a, <1>b, <2>1, <2>2 DEF DependenciesStay, Starts
<1>5. CASE EndCall
  <2>1. todo' = {} /\ parked' = parked /\ phase = "pass" /\ nodeStatus' = nodeStatus
    BY <1>5 DEF EndCall, run
  <2>2. Stays
    BY <2>1 DEF Stays
  <2>. QED BY <1>a, <1>b, <2>1, <2>2 DEF DependenciesStay, Starts
<1>6. ASSUME UNCHANGED <<skipped, phase, todo, popped, alone, parked>>,
             \A m \in Nodes : Settled(m) => Settled(m)'
      PROVE  DependenciesStay'
  <2>1. Stays
    BY <1>0, <1>6 DEF Stays
  <2>2. ASSUME NEW k \in Others, StaySettled(parked[k])
        PROVE  StaySettled(parked[k])'
    <3>1. parked[k].todo \subseteq Nodes
      BY <1>0, AtHandFacts DEF EngineCalls
    <3>. QED BY <1>0, <1>6, <2>2, <3>1 DEF StaySettled
  <2>. QED BY <1>a, <2>1, <2>2 DEF DependenciesStay
<1>7. ASSUME NEW i \in DOMAIN interrupts, CancelInterrupt(i)
      PROVE  DependenciesStay' /\ Goal
  <2>1. /\ UNCHANGED <<skipped, phase, todo, popped, alone, parked>>
        /\ interrupts' = [interrupts EXCEPT ![i].status = "CANCELLED"]
        /\ nodeStatus' = [nodeStatus EXCEPT ![interrupts[i].node] = IF @ = "NONE" THEN @ ELSE "ERROR"]
    BY <1>7 DEF CancelInterrupt, engine
  <2>2. /\ DOMAIN interrupts' = DOMAIN interrupts /\ interrupts'[i].status = "CANCELLED"
        /\ \A j \in DOMAIN interrupts : /\ interrupts'[j].node = interrupts[j].node
                                        /\ j # i => interrupts'[j] = interrupts[j]
    <3>1. \A j \in DOMAIN interrupts : interrupts[j] \in Interrupt
      BY <1>0 DEF TypeOK
    <3>. QED BY <1>0, <2>1, <3>1, StatusChange DEF Interrupt
  <2>3. ASSUME NEW m \in Nodes, Settled(m)
        PROVE  Settled(m)'
    <3>1. CASE m = interrupts[i].node /\ nodeStatus[m] # "NONE"
      <4>1. nodeStatus'[m] = "ERROR"
        BY <1>0, <2>1, <3>1 DEF TypeOK
      <4>. QED BY <2>2, <3>1, <4>1 DEF Settled
    <3>2. CASE m # interrupts[i].node \/ nodeStatus[m] = "NONE"
      <4>1. nodeStatus'[m] = nodeStatus[m]
        BY <1>0, <2>1, <3>2 DEF TypeOK
      <4>. QED BY <2>1, <2>2, <2>3, <4>1 DEF Settled
    <3>. QED BY <3>1, <3>2
  <2>4. \A m \in Nodes : nodeStatus'[m] = "IN_PROGRESS" => nodeStatus[m] = "IN_PROGRESS"
    BY <1>0, <2>1 DEF TypeOK
  <2>. QED BY <1>6, <2>1, <2>3, <2>4 DEF Starts
<1>8. ASSUME NEW i \in DOMAIN interrupts, Resume(i)
      PROVE  DependenciesStay' /\ Goal
  <2>1. \A m \in Nodes : nodeStatus'[m] = "IN_PROGRESS" => nodeStatus[m] = "IN_PROGRESS"
    BY <1>0, <1>8 DEF Resume, TypeOK
  <2>. QED BY <1>8, <2>1, BeginStays DEF Resume, Starts
<1>9. ASSUME NEW n \in Nodes, NEW scope \in {"node_only", "downstream"}, Rerun(n, scope)
      PROVE  DependenciesStay' /\ Goal
  <2>1. \A m \in Nodes : nodeStatus'[m] = "IN_PROGRESS" => nodeStatus[m] = "IN_PROGRESS"
    BY <1>0, <1>9 DEF Rerun
  <2>. QED BY <1>9, <2>1, BeginStays DEF Rerun, Starts
<1>10. CASE CancelRun \/ UNCHANGED vars
  <2>1. UNCHANGED <<skipped, nodeStatus, interrupts, phase, todo, popped, alone, parked>>
    BY <1>10 DEF CancelRun, engine, vars
  <2>. QED BY <1>6, <2>1 DEF Settled, Starts
<1>11. ASSUME NEW k \in Others, Switch(k)
       PROVE  DependenciesStay' /\ Goal
  <2>1. /\ UNCHANGED <<skipped, nodeStatus, interrupts>>
        /\ AtHand' = parked[k] /\ parked' = [parked EXCEPT ![k] = AtHand]
    BY <1>0, <1>11, AtHandFacts DEF Switch, AtHand, run, EngineCalls
  <2>2. parked'[k] = AtHand /\ \A j \in Others \ {k} : parked'[j] = parked[j]
    BY <1>0, <2>1 DEF TypeOK
  <2>. QED BY <2>1, <2>2 DEF DependenciesStay, StaySettled, Settled, Starts
<1>. QED BY <1>1, <1>2, <1>3, <1>4, <1>5, <1>7, <1>8, <1>9, <1>10, <1>11
     DEF Next, ExecuteUntilBlocked, ApiCall, Preempt, Rest

\* Every inbound dependency of a node is settled when it starts, in graphs without loops
\* where what a condition leads to depends on nothing else, whatever is cancelled meanwhile,
\* as long as no other engine call overlaps the one that starts it (runtime/engine.py,
\* _runnable_nodes and _execute_node).
THEOREM DependenciesFirst ==
  ASSUME PlainGraph
  PROVE  Spec => StartsAfterDependencies
<1>1. Init => DependenciesStay
  BY DEF Init, DependenciesStay, StaySettled, AtHand, NoCall
<1>2. IInv /\ DependenciesStay /\ [Next]_vars =>
        /\ DependenciesStay'
        /\ alone => \A n \in Nodes \ WhileNodes : Starts(n) => \A m \in Pred(n) : Settled(m)
  BY DependencyStep
<1>. QED BY <1>1, <1>2, Invariance, PTL DEF Spec, StartsAfterDependencies

-----------------------------------------------------------------------------
(* Tidy graphs.  Paths: what is reached is closed under the edges, the     *)
(* least such set, and every set of nodes has a first and a last one.      *)

LEMMA ReachFacts ==
  ASSUME NEW edges \in SUBSET (Nodes \X Nodes), NEW n \in Nodes
  PROVE  /\ n \in ReachableBy(edges)[n] /\ ReachableBy(edges)[n] \subseteq Nodes
         /\ \A x, y : <<x, y>> \in edges /\ x \in ReachableBy(edges)[n] => y \in ReachableBy(edges)[n]
         /\ \A S \in SUBSET Nodes :
              n \in S /\ (\A x, y : <<x, y>> \in edges /\ x \in S => y \in S)
                => ReachableBy(edges)[n] \subseteq S
<1>. DEFINE Closed(S) == \A e \in edges : e[1] \in S => e[2] \in S
<1>1. ReachableBy(edges)[n] = {m \in Nodes : \A S \in SUBSET Nodes : n \in S /\ Closed(S) => m \in S}
  BY DEF ReachableBy
<1>2. ASSUME NEW S, \A x, y : <<x, y>> \in edges /\ x \in S => y \in S
      PROVE  Closed(S)
  <2>. SUFFICES ASSUME NEW e \in edges, e[1] \in S
                PROVE  e[2] \in S
    OBVIOUS
  <2>1. e = <<e[1], e[2]>>
    OBVIOUS
  <2>. QED BY <1>2, <2>1
<1>3. ASSUME NEW x, NEW y, <<x, y>> \in edges, x \in ReachableBy(edges)[n]
      PROVE  y \in ReachableBy(edges)[n]
  <2>1. y \in Nodes
    BY <1>3
  <2>2. ASSUME NEW S \in SUBSET Nodes, n \in S, Closed(S)
        PROVE  y \in S
    <3>1. x \in S
      BY <1>1, <1>3, <2>2
    <3>2. <<x, y>>[1] = x /\ <<x, y>>[2] = y
      OBVIOUS
    <3>. QED BY <1>3, <2>2, <3>1, <3>2
  <2>. QED BY <1>1, <2>1, <2>2
<1>. QED BY <1>1, <1>2, <1>3

LEMMA ReachOn ==
  ASSUME NEW edges \in SUBSET (Nodes \X Nodes), NEW n \in Nodes, NEW m \in ReachableBy(edges)[n]
  PROVE  m \in Nodes /\ ReachableBy(edges)[m] \subseteq ReachableBy(edges)[n]
<1>1. m \in Nodes /\ ReachableBy(edges)[n] \in SUBSET Nodes
  BY ReachFacts
<1>2. \A x, y : <<x, y>> \in edges /\ x \in ReachableBy(edges)[n] => y \in ReachableBy(edges)[n]
  BY ReachFacts
<1>. QED BY <1>1, <1>2, ReachFacts

\* A path of at least one edge has a first and a last edge.
LEMMA ReachEnds ==
  ASSUME NEW edges \in SUBSET (Nodes \X Nodes), NEW n \in Nodes,
         NEW m \in ReachableBy(edges)[n], m # n
  PROVE  /\ \E x \in Nodes : <<n, x>> \in edges /\ m \in ReachableBy(edges)[x]
         /\ \E p \in ReachableBy(edges)[n] : <<p, m>> \in edges
<1>1. \E p \in ReachableBy(edges)[n] : <<p, m>> \in edges
  <2>. SUFFICES ASSUME \A p \in ReachableBy(edges)[n] : <<p, m>> \notin edges
                PROVE  FALSE
    OBVIOUS
  <2>. DEFINE S == ReachableBy(edges)[n] \ {m}
  <2>1. S \in SUBSET Nodes /\ n \in S
    BY ReachFacts
  <2>2. \A x, y : <<x, y>> \in edges /\ x \in S => y \in S
    BY ReachFacts
  <2>. HIDE DEF S
  <2>3. ReachableBy(edges)[n] \subseteq S
    BY <2>1, <2>2, ReachFacts
  <2>. QED BY <2>3 DEF S
<1>2. \E x \in Nodes : <<n, x>> \in edges /\ m \in ReachableBy(edges)[x]
  <2>. DEFINE S == {n} \cup {y \in Nodes : \E x \in Nodes : <<n, x>> \in edges /\ y \in ReachableBy(edges)[x]}
  <2>1. S \in SUBSET Nodes /\ n \in S
    OBVIOUS
  <2>2. ASSUME NEW x, NEW y, <<x, y>> \in edges, x \in S
        PROVE  y \in S
    <3>1. y \in Nodes
      BY <2>2
    <3>2. CASE x = n
      BY <2>2, <3>1, <3>2, ReachFacts
    <3>3. ASSUME NEW z \in Nodes, <<n, z>> \in edges, x \in ReachableBy(edges)[z]
          PROVE  y \in S
      <4>1. y \in ReachableBy(edges)[z]
        BY <2>2, <3>3, ReachFacts
      <4>. QED BY <3>1, <3>3, <4>1
    <3>. QED BY <2>2, <3>2, <3>3
  <2>3. m \in S
    <3>. HIDE DEF S
    <3>. QED BY <2>1, <2>2, ReachFacts
  <2>. QED BY <2>3
<1>. QED BY <1>1, <1>2

LEMMA EdgeSets == Edges \in SUBSET (Nodes \X Nodes) /\ Forward \in SUBSET (Nodes \X Nodes)
                  /\ Forward \subseteq Edges
  BY GraphAssumption DEF Forward

LEMMA Acyclic ==
  ASSUME TidyPaths, NEW m \in Nodes, NEW n \in Ahead[m], m \in Ahead[n]
  PROVE  m = n
<1>. SUFFICES ASSUME n # m
              PROVE  FALSE
  OBVIOUS
<1>1. PICK x \in Nodes : <<m, x>> \in Forward /\ n \in Ahead[x]
  BY EdgeSets, ReachEnds DEF Ahead
<1>2. m \in Ahead[x]
  BY <1>1, EdgeSets, ReachOn DEF Ahead
<1>3. <<m, x>>[1] = m /\ <<m, x>>[2] = x
  OBVIOUS
<1>. QED BY <1>1, <1>2, <1>3 DEF TidyPaths

\* A set of sets of nodes has a least member.
LEMMA LeastSet ==
  ASSUME NEW F, F \subseteq SUBSET Nodes, F # {}
  PROVE  \E A \in F : \A B \in F : ~(B \subseteq A /\ B # A)
<1>1. \A A \in F : A \in FiniteSubsetsOf(Nodes)
  <2>1. \A A \in SUBSET Nodes : IsFiniteSet(A)
    BY GraphAssumption, FS_Subset
  <2>. QED BY <2>1 DEF FiniteSubsetsOf
<1>2. IsWellFoundedOn(StrictSubsetOrdering(Nodes), FiniteSubsetsOf(Nodes))
  BY FS_StrictSubsetOrderingWellFounded
<1>3. PICK A \in F : \A B \in F : <<B, A>> \notin StrictSubsetOrdering(Nodes)
  BY <1>1, <1>2, WFMin
<1>4. ASSUME NEW B \in F, B \subseteq A, B # A
      PROVE  FALSE
  <2>1. <<B, A>> \in StrictSubsetOrdering(Nodes)
    BY <1>4 DEF StrictSubsetOrdering
  <2>. QED BY <1>3, <2>1
<1>. QED BY <1>4

LEMMA LastOf ==
  ASSUME TidyPaths, NEW T \in SUBSET Nodes, T # {}
  PROVE  \E n \in T : \A m \in T : m \in Ahead[n] => m = n
<1>. DEFINE F == {Ahead[n] : n \in T}
<1>1. F \subseteq SUBSET Nodes /\ F # {}
  BY EdgeSets, ReachFacts DEF Ahead
<1>2. PICK n \in T : \A m \in T : ~(Ahead[m] \subseteq Ahead[n] /\ Ahead[m] # Ahead[n])
  <2>1. \E A \in F : \A B \in F : ~(B \subseteq A /\ B # A)
    <3>. HIDE DEF F
    <3>. QED BY <1>1, LeastSet
  <2>. QED BY <2>1
<1>3. ASSUME NEW m \in T, m \in Ahead[n]
      PROVE  m = n
  <2>1. Ahead[m] \subseteq Ahead[n] /\ n \in Ahead[n] /\ m \in Nodes /\ n \in Nodes
    BY <1>3, EdgeSets, ReachFacts, ReachOn DEF Ahead
  <2>2. n \in Ahead[m]
    BY <1>2, <2>1
  <2>. QED BY <1>3, <2>1, <2>2, Acyclic
<1>. QED BY <1>3

LEMMA FirstOf ==
  ASSUME TidyPaths, NEW T \in SUBSET Nodes, T # {}
  PROVE  \E n \in T : \A m \in T : n \in Ahead[m] => m = n
<1>. DEFINE Behind(n) == {m \in Nodes : n \in Ahead[m]}
            F == {Behind(n) : n \in T}
<1>1. F \subseteq SUBSET Nodes /\ F # {}
  OBVIOUS
<1>2. PICK n \in T : \A m \in T : ~(Behind(m) \subseteq Behind(n) /\ Behind(m) # Behind(n))
  <2>1. \E A \in F : \A B \in F : ~(B \subseteq A /\ B # A)
    <3>. HIDE DEF F
    <3>. QED BY <1>1, LeastSet
  <2>2. PICK A \in F : \A B \in F : ~(B \subseteq A /\ B # A)
    BY <2>1
  <2>3. PICK n \in T : A = Behind(n)
    OBVIOUS
  <2>4. \A m \in T : Behind(m) \in F
    OBVIOUS
  <2>. HIDE DEF F, Behind
  <2>. QED BY <2>2, <2>3, <2>4
<1>3. ASSUME NEW m \in T, n \in Ahead[m]
      PROVE  m = n
  <2>1. n \in Ahead[n] /\ n \in Nodes /\ m \in Nodes
    BY EdgeSets, ReachFacts DEF Ahead
  <2>2. Behind(m) \subseteq Behind(n)
    <3>. SUFFICES ASSUME NEW x \in Nodes, m \in Ahead[x]
                  PROVE  n \in Ahead[x]
      OBVIOUS
    <3>. QED BY <1>3, EdgeSets, ReachOn DEF Ahead
  <2>3. n \in Behind(m)
    BY <1>2, <2>1, <2>2
  <2>. QED BY <1>3, <2>1, <2>3, Acyclic
<1>. QED BY <1>3

(* What the shape of a tidy graph says.                                    *)

InBody(n) == \E w \in WhileNodes : n \in LoopBody(w)

\* What n waits for when it runs first.
Before(n) == {m \in Nodes : <<m, n>> \in Forward}

LEMMA Neighbours ==
  ASSUME NEW n
  PROVE  /\ Pred(n) \subseteq Nodes /\ Succ(n) \subseteq Nodes /\ Before(n) \subseteq Pred(n)
         /\ \A m : m \in Pred(n) <=> <<m, n>> \in Edges
         /\ \A m : m \in Succ(n) <=> <<n, m>> \in Edges
         /\ n \notin WhileNodes => Before(n) = Pred(n)
         /\ n \in WhileNodes => Before(n) = Pred(n) \ {LoopBack[n]}
<1>1. \A m : <<m, n>> \in Edges \/ <<n, m>> \in Edges => m \in Nodes
  BY GraphAssumption
<1>2. \A m : <<m, n>>[1] = m /\ <<m, n>>[2] = n
  OBVIOUS
<1>. QED BY <1>1, <1>2 DEF Pred, Succ, Before, Forward

\* Reachable, by its facts.
LEMMA Reaching ==
  ASSUME NEW n \in Nodes
  PROVE  /\ n \in Reachable[n] /\ Reachable[n] \subseteq Nodes
         /\ \A x, y : <<x, y>> \in Edges /\ x \in Reachable[n] => y \in Reachable[n]
         /\ \A S \in SUBSET Nodes :
              n \in S /\ (\A x, y : <<x, y>> \in Edges /\ x \in S => y \in S) => Reachable[n] \subseteq S
         /\ \A m \in Reachable[n] : Reachable[m] \subseteq Reachable[n]
  BY EdgeSets, ReachFacts, ReachOn DEF Reachable

LEMMA ReachedHasPred ==
  ASSUME NEW n \in Nodes, NEW m \in Reachable[n], Pred(n) # {}
  PROVE  Pred(m) # {}
<1>1. CASE m = n
  BY <1>1
<1>2. CASE m # n
  <2>1. \E p \in Reachable[n] : <<p, m>> \in Edges
    BY <1>2, EdgeSets, ReachEnds DEF Reachable
  <2>. QED BY <2>1, Neighbours
<1>. QED BY <1>1, <1>2

LEMMA BelowIsNodes ==
  ASSUME NEW d
  PROVE  /\ Downstream(d) \subseteq Nodes
         /\ \A x, y : <<x, y>> \in Edges /\ x \in Downstream(d) => y \in Downstream(d)
         /\ \A n \in Downstream(d) : Reachable[n] \subseteq Downstream(d)
         /\ \A n \in Downstream(d) : Pred(n) # {}
         /\ Succ(d) \subseteq Downstream(d)
<1>1. \A n : n \in Downstream(d) <=> \E u \in Succ(d) : n \in Reachable[u]
  BY DEF Downstream
<1>2. Succ(d) \subseteq Nodes /\ \A u \in Succ(d) : <<d, u>> \in Edges
  BY Neighbours
<1>3. \A u \in Succ(d) : Pred(u) # {}
  BY <1>2, Neighbours
<1>. QED BY <1>1, <1>2, <1>3, Reaching, ReachedHasPred

LEMMA BodyFacts ==
  ASSUME TidyLoops, NEW w \in WhileNodes, NEW n \in LoopBody(w)
  PROVE  /\ n \in Nodes /\ w \in Nodes /\ n # w /\ n \notin WhileNodes /\ n \notin IfElseNodes
         /\ Kind[n] \in {"task", "interaction"}
         /\ Pred(n) # {} /\ Pred(n) \subseteq LoopBody(w) \cup {w}
         /\ Succ(n) \subseteq LoopBody(w) \cup {w}
         /\ n \in Reachable[w] /\ w \in Reachable[n]
         /\ LoopBack[w] \in LoopBody(w) /\ LoopBack[w] \in Nodes /\ LoopBack[w] \in Reachable[n]
<1>1. /\ Succ(w) = {Body[w], Exit[w]} /\ Pred(w) \cap LoopBody(w) = {LoopBack[w]}
      /\ Body[w] \in LoopBody(w)
      /\ Kind[n] \in {"task", "interaction"}
      /\ Pred(n) \cup Succ(n) \subseteq LoopBody(w) \cup {w}
  BY DEF TidyLoops
<1>2. /\ w \in Nodes /\ Body[w] \in Nodes /\ LoopBack[w] \in Nodes
      /\ LoopBack[w] \in LoopBody(w) /\ LoopBack[w] \in Pred(w)
  BY <1>1, GraphAssumption DEF WhileNodes
<1>3. n \in Reachable[Body[w]] /\ LoopBack[w] \in Reachable[n] /\ n # w
  BY DEF LoopBody
<1>4. n \in Nodes /\ <<w, Body[w]>> \in Edges /\ <<LoopBack[w], w>> \in Edges
  BY <1>1, <1>2, <1>3, Reaching, Neighbours
<1>5. w \in Reachable[n] /\ n \in Reachable[w]
  BY <1>2, <1>3, <1>4, Reaching
<1>6. Pred(n) # {}
  BY <1>2, <1>3, <1>4, Neighbours, ReachedHasPred
<1>7. n \notin WhileNodes /\ n \notin IfElseNodes
  BY <1>1 DEF WhileNodes, IfElseNodes
<1>. QED BY <1>1, <1>2, <1>3, <1>4, <1>5, <1>6, <1>7

\* No node is in two loops.
LEMMA BodiesApart ==
  ASSUME TidyLoops, NEW v \in WhileNodes, NEW w \in WhileNodes, NEW n \in LoopBody(v),
         n \in LoopBody(w)
  PROVE  v = w
<1>. SUFFICES ASSUME v # w
              PROVE  FALSE
  OBVIOUS
<1>. DEFINE S == LoopBody(v) \cap LoopBody(w)
<1>1. S \in SUBSET Nodes /\ n \in S /\ w \notin S
  BY BodyFacts
<1>2. ASSUME NEW x, NEW y, <<x, y>> \in Edges, x \in S
      PROVE  y \in S
  <2>1. y \in Succ(x)
    BY <1>2, Neighbours
  <2>2. y \in LoopBody(v) \cup {v} /\ y \in LoopBody(w) \cup {w}
    BY <1>2, <2>1, BodyFacts
  <2>3. v \notin LoopBody(w) /\ w \notin LoopBody(v)
    BY BodyFacts
  <2>. QED BY <2>2, <2>3
<1>. HIDE DEF S
<1>3. n \in Nodes /\ w \in Reachable[n]
  BY BodyFacts
<1>. QED BY <1>1, <1>2, <1>3, Reaching

\* A condition chooses between nodes outside the loops.
LEMMA TargetOutside ==
  ASSUME TidyGraph, NEW d \in IfElseNodes, NEW t \in Targets[d]
  PROVE  /\ d \in Nodes /\ t \in Nodes /\ <<d, t>> \in Forward /\ ~InBody(t)
         /\ t \in Succ(d) /\ t \in Downstream(d)
<1>1. t \in Succ(d) /\ d \in Nodes /\ d \notin WhileNodes
  BY DEF TidyGraph, TidyBranches, IfElseNodes, WhileNodes
<1>2. t \in Nodes /\ <<d, t>> \in Edges /\ d \in Pred(t) /\ t \in Downstream(d)
  BY <1>1, Neighbours, BelowIsNodes
<1>3. ~InBody(t)
  BY <1>1, <1>2, BodyFacts DEF TidyGraph, InBody
<1>4. ASSUME t \in WhileNodes, d = LoopBack[t]
      PROVE  FALSE
  <2>1. LoopBack[t] \in LoopBody(t)
    BY <1>4 DEF TidyGraph, TidyLoops
  <2>. QED BY <1>4, <2>1, BodyFacts DEF TidyGraph
<1>5. <<d, t>> \in Forward
  BY <1>2, <1>4 DEF Forward
<1>. QED BY <1>1, <1>2, <1>3, <1>5

\* From a node outside the loops, whatever is reached is ahead.
LEMMA ReachIsAhead ==
  ASSUME TidyGraph, NEW t \in Nodes, ~InBody(t), NEW m \in Reachable[t]
  PROVE  m \in Ahead[t]
<1>. DEFINE S == {x \in Nodes : x \in Ahead[t]
                     /\ \A w \in WhileNodes : x \in LoopBody(w) => w \in Ahead[t]}
<1>1. t \in Ahead[t] /\ \A x, y : <<x, y>> \in Forward /\ x \in Ahead[t] => y \in Ahead[t]
  BY EdgeSets, ReachFacts DEF Ahead
<1>2. S \in SUBSET Nodes /\ t \in S
  BY <1>1 DEF InBody
<1>3. ASSUME NEW x, NEW y, <<x, y>> \in Edges, x \in S
      PROVE  y \in S
  <2>1. y \in Nodes /\ x \in Pred(y) /\ x \in Ahead[t]
    BY <1>3, Neighbours
  <2>2. y \in Ahead[t]
    <3>1. CASE <<x, y>> \in Forward
      BY <1>1, <2>1, <3>1
    <3>2. CASE y \in WhileNodes /\ x = LoopBack[y]
      <4>1. x \in LoopBody(y)
        BY <3>2 DEF TidyGraph, TidyLoops
      <4>. QED BY <1>3, <3>2, <4>1
    <3>. QED BY <1>3, <3>1, <3>2 DEF Forward
  <2>3. ASSUME NEW w \in WhileNodes, y \in LoopBody(w)
        PROVE  w \in Ahead[t]
    <3>1. x \in LoopBody(w) \cup {w}
      BY <2>1, <2>3, BodyFacts DEF TidyGraph
    <3>. QED BY <1>3, <2>1, <3>1
  <2>. QED BY <2>1, <2>2, <2>3
<1>. HIDE DEF S
<1>4. m \in S
  BY <1>2, <1>3, Reaching
<1>. QED BY <1>4 DEF S

\* What is downstream of a condition comes after it.
LEMMA BelowIsAhead ==
  ASSUME TidyGraph, NEW d \in IfElseNodes
  PROVE  /\ d \notin Downstream(d)
         /\ \A t \in Targets[d] : \A m \in Reachable[t] : m \in Ahead[d] /\ m # d
<1>1. ASSUME NEW t \in Targets[d], NEW m \in Reachable[t]
      PROVE  m \in Ahead[d] /\ m # d
  <2>1. m \in Ahead[t] /\ <<d, t>> \in Forward /\ d \in Nodes /\ t \in Nodes
    BY <1>1, TargetOutside, ReachIsAhead
  <2>2. t \in Ahead[d]
    BY <2>1, EdgeSets, ReachFacts DEF Ahead
  <2>3. <<d, t>>[1] = d /\ <<d, t>>[2] = t
    OBVIOUS
  <2>4. d \notin Ahead[t]
    BY <2>1, <2>3 DEF TidyGraph, TidyPaths
  <2>. QED BY <2>1, <2>2, <2>4, EdgeSets, ReachOn DEF Ahead
<1>2. Succ(d) = Targets[d]
  BY DEF TidyGraph, TidyBranches
<1>. QED BY <1>1, <1>2 DEF Downstream

(* The state of a run on a tidy graph: what a choice has cut off, and what *)
(* still waits for a choice, was never started; the while node of a loop   *)
(* that goes on is at its body, or about to decide again.                  *)

Started(n)   == nodeStatus[n] # "NONE" \/ n \in todo
Untouched(S) == \A n \in S : ~Started(n)

NoErrors ==
  status \in {"RUNNING", "WAITING_FOR_INPUT"} =>
    \A n \in Nodes : /\ nodeStatus[n] # "ERROR"
                     /\ nodeStatus[n] = "RESOLVED" => Kind[n] # "end"

Branches ==
  \A d \in IfElseNodes :
    \/ /\ branch[d] = NoNode /\ nodeStatus[d] # "RESOLVED"
       /\ \A t \in Targets[d] : Untouched(CutOff(d, t))
    \/ /\ branch[d] \in Targets[d] /\ nodeStatus[d] = "RESOLVED" /\ d \notin todo
       /\ CutOff(d, branch[d]) \subseteq skipped

Skips ==
  \A n \in skipped :
    ~Started(n) /\ \E d \in IfElseNodes : branch[d] \in Targets[d] /\ n \in CutOff(d, branch[d])

AtBack(w) == nodeStatus[LoopBack[w]] = "RESOLVED" /\ LoopBack[w] \notin todo

Fresh(w)   == /\ branch[w] = NoNode /\ loops[w] = 0 /\ nodeStatus[w] # "RESOLVED"
              /\ Untouched(LoopBody(w))
Looping(w) == /\ branch[w] = Body[w] /\ loops[w] > 0 /\ nodeStatus[w] # "NONE"
              /\ w \in todo \/ nodeStatus[w] # "RESOLVED" => AtBack(w)
Left(w)    == branch[w] = Exit[w] /\ nodeStatus[w] = "RESOLVED" /\ w \notin todo

Loops == \A w \in WhileNodes : Fresh(w) \/ Looping(w) \/ Left(w)

TidyInv == NoErrors /\ Branches /\ Skips /\ Loops

LEMMA NoNodeIsNone == NoNode \notin Nodes
  BY GraphAssumption DEF NoNode

\* A first node of a set waits for none of it, and a last one leads to none of it.
LEMMA FirstWaits ==
  ASSUME TidyPaths, NEW T \in SUBSET Nodes, NEW n \in T, \A m \in T : n \in Ahead[m] => m = n,
         NEW m \in Before(n)
  PROVE  m \notin T
<1>1. <<m, n>> \in Forward /\ m \in Nodes /\ n \in Nodes
  BY DEF Before
<1>2. n \in Ahead[m] /\ n \in Ahead[n]
  BY <1>1, EdgeSets, ReachFacts DEF Ahead
<1>3. <<m, n>>[1] = m /\ <<m, n>>[2] = n
  OBVIOUS
<1>. QED BY <1>1, <1>2, <1>3 DEF TidyPaths

LEMMA LastLeads ==
  ASSUME TidyPaths, NEW T \in SUBSET Nodes, NEW n \in T, \A m \in T : m \in Ahead[n] => m = n,
         NEW m, <<n, m>> \in Forward
  PROVE  m \notin T
<1>1. m \in Nodes /\ n \in Nodes
  BY EdgeSets
<1>2. m \in Ahead[n] /\ n \in Ahead[n]
  BY <1>1, EdgeSets, ReachFacts DEF Ahead
<1>3. <<n, m>>[1] = n /\ <<n, m>>[2] = m
  OBVIOUS
<1>. QED BY <1>1, <1>2, <1>3 DEF TidyPaths

LEMMA DecidedIsNotSkipped ==
  ASSUME Branches, Skips, NEW d \in IfElseNodes, branch[d] \in Targets[d], TidyGraph
  PROVE  d \notin skipped /\ nodeStatus[d] = "RESOLVED" /\ CutOff(d, branch[d]) \subseteq skipped
<1>1. branch[d] # NoNode
  BY NoNodeIsNone, TargetOutside
<1>. QED BY <1>1 DEF Branches, Skips, Started

\* While a loop goes on, its body does, or its while node decides again.
LEMMA LoopGoesOn ==
  ASSUME TidyGraph, TypeOK, TidyInv, todo = {}, NEW w \in WhileNodes, branch[w] = Body[w],
         \A n \in Nodes : nodeStatus[n] \in {"NONE", "TO_DO", "RESOLVED"}
  PROVE  RunnableNodes # {}
<1>1. /\ w \in Nodes /\ Kind[w] = "while" /\ Body[w] \in LoopBody(w) /\ Exit[w] \notin LoopBody(w)
      /\ LoopBack[w] \in LoopBody(w) /\ LoopBack[w] \in Pred(w) /\ Succ(w) = {Body[w], Exit[w]}
  BY DEF TidyGraph, TidyLoops, WhileNodes
<1>2. Looping(w)
  <2>1. Body[w] # Exit[w] /\ Body[w] \in Nodes
    BY <1>1, GraphAssumption
  <2>. QED BY <2>1, NoNodeIsNone DEF TidyInv, Loops, Fresh, Left
<1>3. w \notin skipped
  BY <1>2 DEF TidyInv, Skips, Started, Looping
<1>4. ASSUME NEW n \in LoopBody(w)
      PROVE  n \notin skipped
  <2>. SUFFICES ASSUME n \in skipped
                PROVE  FALSE
    OBVIOUS
  <2>1. PICK d \in IfElseNodes : branch[d] \in Targets[d] /\ n \in CutOff(d, branch[d])
    BY DEF TidyInv, Skips
  <2>2. n \in Downstream(d) /\ n \notin Reachable[branch[d]] /\ branch[d] \in Nodes
    BY <2>1, TargetOutside DEF CutOff
  <2>3. w \in Downstream(d) /\ w \notin Reachable[branch[d]]
    BY <2>2, BodyFacts, BelowIsNodes, Reaching DEF TidyGraph
  <2>4. CutOff(d, branch[d]) \subseteq skipped
    BY <2>1, DecidedIsNotSkipped DEF TidyInv
  <2>. QED BY <1>3, <2>3, <2>4 DEF CutOff
<1>5. CASE nodeStatus[LoopBack[w]] = "RESOLVED"
  <2>1. Dependencies(w) = {LoopBack[w]} /\ Pred(w) # {}
    BY <1>1, <1>2 DEF Dependencies, Looping
  <2>2. IsEdgeActive(LoopBack[w], w)
    <3>1. Kind[LoopBack[w]] \in {"task", "interaction"}
      BY <1>1, BodyFacts DEF TidyGraph
    <3>. QED BY <1>1, <1>4, <3>1 DEF IsEdgeActive
  <2>3. DependenciesResolved(w)
    BY <1>5, <2>1, <2>2 DEF DependenciesResolved
  <2>4. ~LeftLoop(w)
    BY <1>1 DEF LeftLoop
  <2>5. IsRunnable(w)
    BY <1>1, <1>3, <2>3, <2>4 DEF IsRunnable
  <2>. QED BY <1>1, <2>5 DEF RunnableNodes
<1>6. CASE nodeStatus[LoopBack[w]] # "RESOLVED"
  <2>. DEFINE T == {n \in LoopBody(w) : nodeStatus[n] # "RESOLVED"}
  <2>1. T \in SUBSET Nodes /\ T # {}
    BY <1>1, <1>6, BodyFacts DEF TidyGraph
  <2>2. PICK n \in T : \A m \in T : n \in Ahead[m] => m = n
    <3>. HIDE DEF T
    <3>. QED BY <2>1, FirstOf DEF TidyGraph
  <2>3. /\ n \in LoopBody(w) /\ n \in Nodes /\ Kind[n] \in {"task", "interaction"}
        /\ n \notin WhileNodes
        /\ Pred(n) # {} /\ Pred(n) \subseteq LoopBody(w) \cup {w} /\ Before(n) = Pred(n)
        /\ nodeStatus[n] # "RESOLVED"
    BY BodyFacts, Neighbours DEF TidyGraph
  <2>4. nodeStatus[w] = "RESOLVED"
    BY <1>2, <1>6 DEF Looping, AtBack
  <2>5. ASSUME NEW m \in Pred(n)
        PROVE  IsEdgeActive(m, n) /\ nodeStatus[m] = "RESOLVED"
    <3>1. CASE m = w
      <4>1. n \in Succ(w)
        BY <3>1, Neighbours
      <4>2. branch[w] = n
        BY <1>1, <2>3, <4>1
      <4>. QED BY <1>3, <2>4, <3>1, <4>2 DEF IsEdgeActive
    <3>2. CASE m \in LoopBody(w)
      <4>1. m \notin T
        <5>. HIDE DEF T
        <5>. QED BY <2>1, <2>2, <2>3, FirstWaits DEF TidyGraph
      <4>2. Kind[m] \in {"task", "interaction"}
        BY <3>2, BodyFacts DEF TidyGraph
      <4>. QED BY <1>4, <3>2, <4>1, <4>2 DEF IsEdgeActive
    <3>. QED BY <2>3, <3>1, <3>2
  <2>6. Dependencies(n) = Pred(n)
    BY <2>3 DEF Dependencies
  <2>7. DependenciesResolved(n)
    BY <2>3, <2>5, <2>6 DEF DependenciesResolved
  <2>8. nodeStatus[n] \notin {"IN_PROGRESS", "RESOLVED", "ERROR"} /\ n \notin skipped
    BY <1>4, <2>3
  <2>9. IsRunnable(n)
    BY <2>3, <2>7, <2>8 DEF IsRunnable
  <2>. QED BY <2>3, <2>9 DEF RunnableNodes
<1>. QED BY <1>5, <1>6

\* A path from outside the loops comes to a node by one of the edges it waits for.
LEMMA EntryBefore ==
  ASSUME TidyGraph, NEW t \in Nodes, ~InBody(t), NEW n \in Reachable[t], n # t
  PROVE  \E p \in Before(n) : p \in Reachable[t]
<1>1. CASE n \notin WhileNodes
  <2>1. \E p \in Reachable[t] : <<p, n>> \in Edges
    BY EdgeSets, ReachEnds DEF Reachable
  <2>. QED BY <1>1, <2>1, Neighbours
<1>2. CASE n \in WhileNodes
  <2>. SUFFICES ASSUME \A p \in Before(n) : p \notin Reachable[t]
                PROVE  FALSE
    OBVIOUS
  <2>. DEFINE S == Reachable[t] \ (LoopBody(n) \cup {n})
  <2>1. S \in SUBSET Nodes /\ t \in S
    BY <1>2, Reaching DEF InBody
  <2>2. ASSUME NEW x, NEW y, <<x, y>> \in Edges, x \in S
        PROVE  y \in S
    <3>1. y \in Reachable[t] /\ x \in Pred(y)
      BY <2>2, Reaching, Neighbours
    <3>2. y \notin LoopBody(n)
      BY <1>2, <2>2, <3>1, BodyFacts DEF TidyGraph
    <3>3. y # n
      <4>1. LoopBack[n] \in LoopBody(n)
        BY <1>2 DEF TidyGraph, TidyLoops
      <4>. QED BY <1>2, <2>2, <3>1, <4>1, Neighbours
    <3>. QED BY <3>1, <3>2, <3>3
  <2>3. n \notin S
    OBVIOUS
  <2>. HIDE DEF S
  <2>. QED BY <2>1, <2>2, <2>3, Reaching
<1>. QED BY <1>1, <1>2

\* Where no loop goes on, the nodes that a node waits for, all settled, leave a way open to
\* it.  Of the conditions that chose a way to it take a last one, d: on the way from d's
\* choice to the node nothing is cut off, as what cuts it off would be a later one, or
\* would have cut off d.
LEMMA OpenWay ==
  ASSUME TidyGraph, TidyInv, \A w \in WhileNodes : branch[w] # Body[w],
         NEW n \in Nodes, ~InBody(n), n \notin skipped, Before(n) # {},
         \A m \in Before(n) : m \in skipped \/ nodeStatus[m] = "RESOLVED"
  PROVE  \E m \in Before(n) : IsEdgeActive(m, n)
<1>. SUFFICES ASSUME \A m \in Before(n) : ~IsEdgeActive(m, n)
              PROVE  FALSE
  OBVIOUS
<1>. DEFINE DD == {d \in IfElseNodes : branch[d] \in Targets[d] /\ n \in Reachable[branch[d]]}
<1>1. ASSUME NEW d \in IfElseNodes, branch[d] \in Targets[d], n \in Downstream(d)
      PROVE  d \in DD
  <2>1. CutOff(d, branch[d]) \subseteq skipped
    BY <1>1, DecidedIsNotSkipped DEF TidyInv
  <2>. QED BY <1>1, <2>1 DEF CutOff
<1>2. ASSUME NEW m \in Before(n), m \notin skipped
      PROVE  m \in DD
  <2>1. /\ nodeStatus[m] = "RESOLVED" /\ Kind[m] \in {"if_else", "while"} /\ branch[m] # n
        /\ m \in Nodes /\ n \in Succ(m)
    BY <1>2, Neighbours DEF IsEdgeActive
  <2>2. CASE Kind[m] = "while"
    <3>1. m \in WhileNodes
      BY <2>1, <2>2 DEF WhileNodes
    <3>2. branch[m] = Exit[m]
      BY <2>1, <3>1 DEF TidyInv, Loops, Fresh, Looping, Left
    <3>3. n = Body[m] /\ Body[m] \in LoopBody(m)
      BY <2>1, <3>1, <3>2 DEF TidyGraph, TidyLoops
    <3>. QED BY <3>1, <3>3 DEF InBody
  <2>3. CASE Kind[m] = "if_else"
    <3>1. m \in IfElseNodes
      BY <2>1, <2>3 DEF IfElseNodes
    <3>2. branch[m] \in Targets[m]
      BY <2>1, <3>1 DEF TidyInv, Branches
    <3>. QED BY <1>1, <2>1, <3>1, <3>2, BelowIsNodes
  <2>. QED BY <2>1, <2>2, <2>3
<1>3. ASSUME NEW m \in Before(n), m \in skipped
      PROVE  \E d \in DD : m \in CutOff(d, branch[d])
  <2>1. PICK d \in IfElseNodes : branch[d] \in Targets[d] /\ m \in CutOff(d, branch[d])
    BY <1>3 DEF TidyInv, Skips
  <2>2. n \in Downstream(d)
    BY <2>1, BelowIsNodes, Neighbours DEF CutOff
  <2>. QED BY <1>1, <2>1, <2>2
<1>4. DD \in SUBSET Nodes /\ DD # {}
  BY <1>2, <1>3 DEF IfElseNodes
<1>5. PICK d \in DD : \A m \in DD : m \in Ahead[d] => m = d
  <2>. HIDE DEF DD
  <2>. QED BY <1>4, LastOf DEF TidyGraph
<1>. DEFINE t == branch[d]
<1>6. /\ d \in IfElseNodes /\ d \in Nodes /\ t \in Targets[d] /\ t \in Nodes /\ n \in Reachable[t]
      /\ <<d, t>> \in Forward /\ ~InBody(t)
      /\ \A m \in Reachable[t] : m \in Ahead[d] /\ m # d
  BY TargetOutside, BelowIsAhead
<1>7. d \notin skipped
  BY <1>6, DecidedIsNotSkipped DEF TidyInv
<1>8. n # t
  BY <1>6, <1>7 DEF Before, IsEdgeActive
<1>9. PICK p \in Before(n) : p \in Reachable[t]
  BY <1>6, <1>8, EntryBefore
<1>10. p \in skipped
  BY <1>2, <1>5, <1>6, <1>9
<1>11. PICK e \in DD : p \in CutOff(e, branch[e])
  BY <1>3, <1>10
<1>. DEFINE u == branch[e]
<1>12. /\ e \in IfElseNodes /\ u \in Targets[e] /\ u \in Nodes /\ CutOff(e, u) \subseteq skipped
       /\ \A x \in CutOff(e, u) : Pred(x) \subseteq Downstream(e) \cup {e}
  BY DecidedIsNotSkipped, TargetOutside DEF TidyInv, TidyGraph, TidyBranches
<1>13. e \notin Reachable[t]
  BY <1>5, <1>6
<1>14. t \in CutOff(e, u)
  <2>. SUFFICES ASSUME t \notin CutOff(e, u)
                PROVE  FALSE
    OBVIOUS
  <2>. DEFINE S == Reachable[t] \ CutOff(e, u)
  <2>1. S \in SUBSET Nodes /\ t \in S
    BY <1>6, Reaching
  <2>2. ASSUME NEW x, NEW y, <<x, y>> \in Edges, x \in S
        PROVE  y \in S
    <3>1. y \in Reachable[t] /\ x \in Pred(y) /\ x # e
      BY <1>6, <1>13, <2>2, Reaching, Neighbours
    <3>2. ASSUME y \in CutOff(e, u)
          PROVE  FALSE
      <4>1. x \in Downstream(e)
        BY <1>12, <3>1, <3>2
      <4>2. x \in Reachable[u]
        BY <2>2, <4>1 DEF CutOff
      <4>3. y \in Reachable[u]
        BY <1>12, <2>2, <4>2, Reaching
      <4>. QED BY <3>2, <4>3 DEF CutOff
    <3>. QED BY <3>1, <3>2
  <2>3. p \notin S
    BY <1>11
  <2>. HIDE DEF S, t, u
  <2>. QED BY <1>6, <1>9, <2>1, <2>2, <2>3, Reaching
<1>15. d \in Downstream(e) \cup {e}
  BY <1>6, <1>12, <1>14, Neighbours, EdgeSets
<1>16. d # e
  BY <1>6, <1>14, Reaching DEF CutOff
<1>17. d \notin Reachable[u]
  BY <1>6, <1>12, <1>14, Reaching, EdgeSets DEF CutOff
<1>. QED BY <1>7, <1>12, <1>15, <1>16, <1>17 DEF CutOff

\* Between two passes a run on a tidy graph has a node to run.
LEMMA SomethingToRun ==
  ASSUME TidyGraph, TypeOK, TidyInv, todo = {}, status = "RUNNING",
         \A n \in Nodes : nodeStatus[n] \in {"NONE", "TO_DO", "RESOLVED"}
  PROVE  RunnableNodes # {}
<1>1. CASE \E w \in WhileNodes : branch[w] = Body[w]
  BY <1>1, LoopGoesOn
<1>2. CASE \A w \in WhileNodes : branch[w] # Body[w]
  <2>. DEFINE O == {n \in Nodes : ~InBody(n) /\ n \notin skipped}
              U == {n \in O : nodeStatus[n] # "RESOLVED"}
  <2>1. CASE U # {}
    <3>1. U \in SUBSET Nodes
      OBVIOUS
    <3>2. PICK n \in U : \A m \in U : n \in Ahead[m] => m = n
      <4>. HIDE DEF U
      <4>. QED BY <2>1, <3>1, FirstOf DEF TidyGraph
    <3>3. n \in Nodes /\ ~InBody(n) /\ n \notin skipped /\ nodeStatus[n] \in {"NONE", "TO_DO"}
      OBVIOUS
    <3>4. ASSUME NEW m \in Before(n)
          PROVE  m \in skipped \/ nodeStatus[m] = "RESOLVED"
      <4>1. m \in Nodes /\ m \notin U /\ n \in Succ(m) /\ m \in Pred(n)
        <5>. HIDE DEF U
        <5>. QED BY <3>1, <3>2, FirstWaits, Neighbours DEF TidyGraph
      <4>2. ASSUME NEW w \in WhileNodes, m \in LoopBody(w)
            PROVE  FALSE
        <5>1. n \in LoopBody(w) \cup {w}
          BY <4>1, <4>2, BodyFacts DEF TidyGraph
        <5>2. n = w
          BY <3>3, <5>1 DEF InBody
        <5>3. m = LoopBack[w]
          BY <4>1, <4>2, <5>2 DEF TidyGraph, TidyLoops
        <5>. QED BY <5>2, <5>3, Neighbours
      <4>. QED BY <4>1, <4>2 DEF InBody
    <3>5. CASE Pred(n) = {}
      <4>1. IsRunnable(n)
        BY <3>3, <3>5 DEF IsRunnable, DependenciesResolved
      <4>. QED BY <3>3, <4>1 DEF RunnableNodes
    <3>6. CASE Pred(n) # {}
      <4>1. Dependencies(n) = Before(n) /\ Before(n) # {}
        <5>1. CASE n \in WhileNodes
          <6>1. loops[n] = 0
            BY <1>2, <3>3, <5>1 DEF TidyInv, Loops, Fresh, Looping, Left
          <6>2. Kind[n] = "while" /\ Pred(n) \ {LoopBack[n]} # {}
            BY <5>1 DEF WhileNodes, TidyGraph, TidyLoops
          <6>. QED BY <5>1, <6>1, <6>2, Neighbours DEF Dependencies
        <5>2. CASE n \notin WhileNodes
          BY <3>3, <3>6, <5>2, Neighbours DEF Dependencies, WhileNodes
        <5>. QED BY <5>1, <5>2
      <4>2. \E m \in Before(n) : IsEdgeActive(m, n)
        BY <1>2, <3>3, <3>4, <4>1, OpenWay
      <4>3. \A m \in Before(n) : IsEdgeActive(m, n) => nodeStatus[m] = "RESOLVED"
        BY <3>4 DEF IsEdgeActive
      <4>4. DependenciesResolved(n)
        BY <4>1, <4>2, <4>3 DEF DependenciesResolved
      <4>5. IsRunnable(n)
        BY <3>3, <4>4 DEF IsRunnable
      <4>. QED BY <3>3, <4>5 DEF RunnableNodes
    <3>. QED BY <3>5, <3>6
  <2>2. CASE U = {}
    <3>1. O \in SUBSET Nodes /\ O # {}
      <4>1. Nodes \in SUBSET Nodes /\ Nodes # {}
        BY DEF TidyGraph, TidyPaths
      <4>2. PICK r \in Nodes : \A m \in Nodes : r \in Ahead[m] => m = r
        BY <4>1, FirstOf DEF TidyGraph
      <4>3. Before(r) = {}
        BY <4>1, <4>2, FirstWaits DEF TidyGraph, Before
      <4>4. r \notin WhileNodes
        BY <4>3, Neighbours DEF TidyGraph, TidyLoops
      <4>5. Pred(r) = {}
        BY <4>3, <4>4, Neighbours
      <4>6. ~InBody(r)
        BY <4>5, BodyFacts DEF TidyGraph, InBody
      <4>7. r \notin skipped
        BY <4>5, BelowIsNodes DEF TidyInv, Skips, CutOff
      <4>. QED BY <4>6, <4>7
    <3>2. PICK n \in O : \A m \in O : m \in Ahead[n] => m = n
      <4>. HIDE DEF O
      <4>. QED BY <3>1, LastOf DEF TidyGraph
    <3>3. /\ n \in Nodes /\ ~InBody(n) /\ n \notin skipped /\ nodeStatus[n] = "RESOLVED"
          /\ Kind[n] # "end"
      BY <2>2 DEF TidyInv, NoErrors
    <3>4. PICK x \in Succ(n) : /\ n \in WhileNodes => x = Exit[n]
                               /\ n \in IfElseNodes => x = branch[n] /\ branch[n] \in Targets[n]
      <4>1. CASE n \in WhileNodes
        <5>1. Exit[n] \in Succ(n) /\ n \notin IfElseNodes
          BY <4>1 DEF TidyGraph, TidyLoops, WhileNodes, IfElseNodes
        <5>. QED BY <4>1, <5>1
      <4>2. CASE n \in IfElseNodes
        <5>1. branch[n] \in Targets[n] /\ n \notin WhileNodes
          BY <3>3, <4>2 DEF TidyInv, Branches, WhileNodes, IfElseNodes
        <5>. QED BY <4>2, <5>1, TargetOutside
      <4>3. CASE n \notin WhileNodes /\ n \notin IfElseNodes
        BY <3>3, <4>3 DEF TidyGraph, TidyPaths
      <4>. QED BY <4>1, <4>2, <4>3
    <3>5. x \in Nodes /\ <<n, x>> \in Edges /\ n \in Pred(x)
      BY Neighbours
    <3>6. ~InBody(x)
      <4>. SUFFICES ASSUME NEW w \in WhileNodes, x \in LoopBody(w)
                    PROVE  FALSE
        BY DEF InBody
      <4>1. n \in LoopBody(w) \cup {w}
        BY <3>5, BodyFacts DEF TidyGraph
      <4>2. n = w
        BY <3>3, <4>1 DEF InBody
      <4>. QED BY <3>4, <4>2 DEF TidyGraph, TidyLoops
    <3>7. <<n, x>> \in Forward
      <4>1. ASSUME x \in WhileNodes, n = LoopBack[x]
            PROVE  FALSE
        BY <3>3, <4>1 DEF TidyGraph, TidyLoops, InBody
      <4>. QED BY <3>5, <4>1 DEF Forward
    <3>8. x \notin skipped
      <4>. SUFFICES ASSUME x \in skipped
                    PROVE  FALSE
        OBVIOUS
      <4>1. PICK d \in IfElseNodes : branch[d] \in Targets[d] /\ x \in CutOff(d, branch[d])
        BY DEF TidyInv, Skips
      <4>2. /\ branch[d] \in Nodes /\ CutOff(d, branch[d]) \subseteq skipped
            /\ n \in Downstream(d) \cup {d}
        BY <3>5, <4>1, TargetOutside, DecidedIsNotSkipped DEF TidyInv, TidyGraph, TidyBranches
      <4>3. x \notin Reachable[branch[d]]
        BY <4>1 DEF CutOff
      <4>4. n # d
        BY <3>4, <4>1, <4>2, <4>3, Reaching
      <4>5. n \notin Reachable[branch[d]]
        BY <3>5, <4>2, <4>3, Reaching
      <4>. QED BY <3>3, <4>2, <4>4, <4>5 DEF CutOff
    <3>9. x \in O
      BY <3>5, <3>6, <3>8
    <3>. HIDE DEF O
    <3>. QED BY <3>1, <3>2, <3>7, <3>9, LastLeads DEF TidyGraph
  <2>. QED BY <2>1, <2>2
<1>. QED BY <1>1, <1>2

-----------------------------------------------------------------------------
(* Every step keeps what is known of a run on a tidy graph, as long as the *)
(* nodes that choose or ask do not time out after they have done so.       *)

OnlyStepsTimeOut == \A n \in Timed : Kind[n] \notin {"if_else", "while", "interaction"}

\* What the handler of a node does to the choices, by the kind of node.
Passes(n) ==
  /\ UNCHANGED <<branch, loops, skipped>>
  /\ \A m \in Nodes \ {n} : nodeStatus'[m] = nodeStatus[m]
  /\ nodeStatus'[n] # "NONE"
  /\ Kind[n] \in {"if_else", "while"} => nodeStatus'[n] # "RESOLVED"

Chooses(n) ==
  /\ n \in IfElseNodes /\ UNCHANGED loops
  /\ \A m \in Nodes \ {n} : nodeStatus'[m] = nodeStatus[m]
  /\ nodeStatus'[n] = "RESOLVED"
  /\ \E t \in Targets[n] :
       /\ branch' = [branch EXCEPT ![n] = t]
       /\ skipped' = skipped \cup
            ((UNION {Reachable[u] : u \in Targets[n] \ {t}}) \ Reachable[t])

Enters(n) ==
  /\ n \in WhileNodes /\ UNCHANGED skipped
  /\ \A m \in Nodes \ {n} :
       nodeStatus'[m] = IF m \in LoopBody(n) THEN "NONE" ELSE nodeStatus[m]
  /\ nodeStatus'[n] = "RESOLVED"
  /\ branch' = [branch EXCEPT ![n] = Body[n]] /\ loops' = [loops EXCEPT ![n] = @ + 1]

Leaves(n) ==
  /\ n \in WhileNodes /\ UNCHANGED <<loops, skipped>>
  /\ \A m \in Nodes \ {n} : nodeStatus'[m] = nodeStatus[m]
  /\ nodeStatus'[n] = "RESOLVED"
  /\ branch' = [branch EXCEPT ![n] = Exit[n]]

Decides(n) ==
  /\ n \in todo /\ todo' \subseteq todo \ {n}
  /\ Passes(n) \/ Chooses(n) \/ Enters(n) \/ Leaves(n)
  /\ status' \in {"RUNNING", "WAITING_FOR_INPUT"} =>
       nodeStatus'[n] # "ERROR" /\ (nodeStatus'[n] = "RESOLVED" => Kind[n] # "end")

\* The end of a handler, with what it leaves of the node statuses.
LEMMA EndStatuses ==
  ASSUME TypeOK, popped = 0, NEW n \in Nodes, nodeStatus[n] = "IN_PROGRESS", NEW st, NEW outs,
         NEW ns \in [Nodes -> NodeStatuses], ns[n] = nodeStatus[n], IsCurrent(n)
  PROVE  /\ Finishes(n, st, ns, outs) \/ Throws(n, ns, outs) =>
              /\ n \in todo /\ todo' \subseteq todo \ {n}
              /\ \A m \in Nodes \ {n} : nodeStatus'[m] = ns[m]
         /\ Throws(n, ns, outs) =>
              \/ status' = "RUNNING" /\ nodeStatus'[n] = "TO_DO"
              \/ status' = "FAILED" /\ nodeStatus'[n] = "ERROR"
         /\ Returns(n, st, ns, outs) =>
              /\ status' = st
              /\ nodeStatus'[n] = CASE st = "FAILED" -> "ERROR"
                                    [] st = "WAITING_FOR_INPUT" -> "IN_PROGRESS"
                                    [] OTHER -> "RESOLVED"
<1>1. Finishes(n, st, ns, outs) \/ Throws(n, ns, outs) => BackInPass(n)
  BY DEF Finishes, Returns, Throws
<1>2. n \in todo /\ (BackInPass(n) => todo' \subseteq todo \ {n})
  BY DEF BackInPass, IsCurrent
<1>3. Throws(n, ns, outs) =>
        /\ \A m \in Nodes \ {n} : nodeStatus'[m] = ns[m]
        /\ \/ status' = "RUNNING" /\ nodeStatus'[n] = "TO_DO"
           \/ status' = "FAILED" /\ nodeStatus'[n] = "ERROR"
  BY DEF Throws, Retry, Fail, Marked
<1>4. Returns(n, st, ns, outs) =>
        /\ \A m \in Nodes \ {n} : nodeStatus'[m] = ns[m]
        /\ status' = st
        /\ nodeStatus'[n] = CASE st = "FAILED" -> "ERROR"
                              [] st = "WAITING_FOR_INPUT" -> "IN_PROGRESS"
                              [] OTHER -> "RESOLVED"
  BY DEF Returns, Marked
<1>. QED BY <1>1, <1>2, <1>3, <1>4 DEF Finishes

LEMMA DecisionDeed ==
  ASSUME TypeOK, OnlyStepsTimeOut, NEW n \in Nodes, Handle(n), nodeStatus[n] = "IN_PROGRESS",
         status = "RUNNING", popped = 0
  PROVE  Decides(n)
<1>0. /\ IsCurrent(n) /\ nodeStatus \in [Nodes -> NodeStatuses]
  BY DEF TypeOK, Handle, HandlerRaises, HandleStart, HandleTask, HandleIfElse,
         HandleWhileEnter, HandleWhileLeave, HandleInteraction, HandleEnd, Handling
<1>1. CASE HandlerRaises(n)
  <2>1. UNCHANGED <<branch, loops, skipped>> /\ \E outs : Throws(n, nodeStatus, outs)
    BY <1>1 DEF HandlerRaises
  <2>. QED BY <1>0, <2>1, EndStatuses DEF Decides, Passes
<1>2. CASE HandleStart(n) \/ HandleTask(n)
  <2>1. /\ UNCHANGED <<branch, loops, skipped>> /\ Kind[n] \in {"start", "task"}
        /\ \E st \in {"RUNNING", "FAILED"} : \E outs : Finishes(n, st, nodeStatus, outs)
    BY <1>2 DEF HandleStart, HandleTask, Handling
  <2>. QED BY <1>0, <2>1, EndStatuses DEF Decides, Passes, Finishes
<1>3. CASE HandleInteraction(n)
  <2>1. /\ UNCHANGED <<branch, loops, skipped>> /\ Kind[n] = "interaction"
        /\ \E outs : Returns(n, "WAITING_FOR_INPUT", nodeStatus, outs)
    BY <1>3 DEF HandleInteraction, Handling, OnlyStepsTimeOut, Finishes
  <2>. QED BY <1>0, <2>1, EndStatuses DEF Decides, Passes, Finishes
<1>4. CASE HandleEnd(n)
  <2>1. /\ UNCHANGED <<branch, loops, skipped>> /\ Kind[n] = "end"
        /\ \E outs : Finishes(n, "COMPLETED", nodeStatus, outs)
    BY <1>4 DEF HandleEnd, Handling
  <2>. QED BY <1>0, <2>1, EndStatuses DEF Decides, Passes, Finishes
<1>5. CASE HandleIfElse(n)
  <2>1. /\ Kind[n] = "if_else" /\ n \in IfElseNodes /\ UNCHANGED loops
        /\ \E outs : Returns(n, "RUNNING", nodeStatus, outs)
    BY <1>5 DEF HandleIfElse, Handling, OnlyStepsTimeOut, Finishes, IfElseNodes
  <2>2. \E t \in Targets[n] :
       /\ branch' = [branch EXCEPT ![n] = t]
       /\ skipped' = skipped \cup
            ((UNION {Reachable[u] : u \in Targets[n] \ {t}}) \ Reachable[t])
    BY <1>5 DEF HandleIfElse
  <2>3. /\ nodeStatus'[n] = "RESOLVED" /\ n \in todo /\ todo' \subseteq todo \ {n}
        /\ \A m \in Nodes \ {n} : nodeStatus'[m] = nodeStatus[m]
    BY <1>0, <2>1, EndStatuses DEF Finishes
  <2>. QED BY <2>1, <2>2, <2>3 DEF Decides, Chooses
<1>6. CASE HandleWhileEnter(n)
  <2>. DEFINE ns == [m \in Nodes |-> IF m \in LoopBody(n) THEN "NONE" ELSE nodeStatus[m]]
  <2>1. /\ Kind[n] = "while" /\ n \in WhileNodes /\ UNCHANGED skipped
        /\ branch' = [branch EXCEPT ![n] = Body[n]] /\ loops' = [loops EXCEPT ![n] = @ + 1]
        /\ \E outs : Returns(n, "RUNNING", ns, outs)
    BY <1>6 DEF HandleWhileEnter, Handling, OnlyStepsTimeOut, Finishes, WhileNodes
  <2>2. ns \in [Nodes -> NodeStatuses] /\ ns[n] = nodeStatus[n]
    BY <1>0 DEF NodeStatuses, LoopBody
  <2>3. \A m \in Nodes : ns[m] = IF m \in LoopBody(n) THEN "NONE" ELSE nodeStatus[m]
    OBVIOUS
  <2>. HIDE DEF ns
  <2>4. /\ nodeStatus'[n] = "RESOLVED" /\ n \in todo /\ todo' \subseteq todo \ {n}
        /\ \A m \in Nodes \ {n} : nodeStatus'[m] = ns[m]
    BY <1>0, <2>1, <2>2, EndStatuses DEF Finishes
  <2>. QED BY <2>1, <2>3, <2>4 DEF Decides, Enters
<1>7. CASE HandleWhileLeave(n)
  <2>1. /\ Kind[n] = "while" /\ n \in WhileNodes /\ UNCHANGED <<loops, skipped>>
        /\ branch' = [branch EXCEPT ![n] = Exit[n]]
        /\ \E outs : Returns(n, "RUNNING", nodeStatus, outs)
    BY <1>7 DEF HandleWhileLeave, Handling, OnlyStepsTimeOut, Finishes, WhileNodes
  <2>2. /\ nodeStatus'[n] = "RESOLVED" /\ n \in todo /\ todo' \subseteq todo \ {n}
        /\ \A m \in Nodes \ {n} : nodeStatus'[m] = nodeStatus[m]
    BY <1>0, <2>1, EndStatuses DEF Finishes
  <2>. QED BY <2>1, <2>2 DEF Decides, Leaves
<1>. QED BY <1>1, <1>2, <1>3, <1>4, <1>5, <1>6, <1>7 DEF Handle

LEMMA CutOffIsBelow ==
  ASSUME NEW d, NEW t
  PROVE  CutOff(d, t) \subseteq Nodes /\ \A n \in CutOff(d, t) : Pred(n) # {}
  BY BelowIsNodes DEF CutOff

\* What an if_else node skips is what its choice cuts off.
LEMMA SkipIsCutOff ==
  ASSUME TidyGraph, NEW d \in IfElseNodes, NEW t \in Targets[d]
  PROVE  (UNION {Reachable[u] : u \in Targets[d] \ {t}}) \ Reachable[t] = CutOff(d, t)
<1>1. Succ(d) = Targets[d]
  BY DEF TidyGraph, TidyBranches
<1>. DEFINE A == (UNION {Reachable[u] : u \in Targets[d] \ {t}}) \ Reachable[t]
<1>2. A \subseteq CutOff(d, t)
  BY <1>1 DEF CutOff, Downstream
<1>3. CutOff(d, t) \subseteq A
  BY <1>1 DEF CutOff, Downstream
<1>. HIDE DEF A
<1>4. A = CutOff(d, t)
  BY <1>2, <1>3
<1>. QED BY <1>4 DEF A

LEMMA DecideKeeps ==
  ASSUME TypeOK, TidyGraph, TidyInv, status = "RUNNING", NEW n \in Nodes, Decides(n)
  PROVE  TidyInv'
<1>0. /\ todo \subseteq Nodes /\ todo' \subseteq todo \ {n} /\ n \in todo /\ Started(n)
      /\ skipped \subseteq Nodes
  BY DEF TypeOK, Decides, Started
<1>1. /\ \A m \in Nodes \ {n} : nodeStatus'[m] = nodeStatus[m] \/ nodeStatus'[m] = "NONE"
      /\ \A m \in Nodes \ {n} : nodeStatus'[m] # nodeStatus[m] => Enters(n) /\ m \in LoopBody(n)
      /\ nodeStatus'[n] # "NONE"
  BY DEF Decides, Passes, Chooses, Enters, Leaves
<1>2. \A m \in Nodes : ~Started(m) => ~Started(m)'
  BY <1>0, <1>1 DEF Started
<1>3. \A S \in SUBSET Nodes : Untouched(S) => Untouched(S)' /\ n \notin S
  BY <1>0, <1>2 DEF Untouched
<1>4. NoErrors'
  BY <1>1 DEF TidyInv, NoErrors, Decides
<1>5. \A m \in Nodes \ {n} : branch'[m] = branch[m] /\ loops'[m] = loops[m]
  BY DEF TypeOK, Decides, Passes, Chooses, Enters, Leaves
<1>6. ASSUME NEW d \in IfElseNodes, d # n
      PROVE  nodeStatus'[d] = nodeStatus[d] /\ branch'[d] = branch[d]
  <2>1. d \in Nodes /\ \A w \in WhileNodes : d \notin LoopBody(w)
    BY BodyFacts DEF TidyGraph, IfElseNodes
  <2>. QED BY <1>1, <1>5, <1>6, <2>1 DEF Enters
<1>7. ASSUME NEW w \in WhileNodes, w # n
      PROVE  nodeStatus'[w] = nodeStatus[w] /\ branch'[w] = branch[w] /\ loops'[w] = loops[w]
  <2>1. w \in Nodes /\ \A v \in WhileNodes : w \notin LoopBody(v)
    BY BodyFacts DEF TidyGraph, WhileNodes
  <2>. QED BY <1>1, <1>5, <1>7, <2>1 DEF Enters
<1>8. \A d \in IfElseNodes : branch[d] \in Targets[d] => d # n
  <2>1. ASSUME NEW d \in IfElseNodes, branch[d] \in Targets[d]
        PROVE  d \notin todo
    <3>1. branch[d] # NoNode
      BY <2>1, TargetOutside, NoNodeIsNone
    <3>. QED BY <3>1 DEF TidyInv, Branches
  <2>. QED BY <1>0, <2>1
<1>9. skipped \subseteq skipped'
  BY DEF Decides, Passes, Chooses, Enters, Leaves
<1>10. \A d, t : CutOff(d, t) \in SUBSET Nodes
  BY CutOffIsBelow
<1>11. Chooses(n) => /\ n \in IfElseNodes /\ nodeStatus'[n] = "RESOLVED"
                     /\ branch'[n] \in Targets[n]
                     /\ skipped' = skipped \cup CutOff(n, branch'[n])
                     /\ Untouched(CutOff(n, branch'[n]))
  <2>. SUFFICES ASSUME Chooses(n)
                PROVE  /\ n \in IfElseNodes /\ nodeStatus'[n] = "RESOLVED"
                       /\ branch'[n] \in Targets[n]
                       /\ skipped' = skipped \cup CutOff(n, branch'[n])
                       /\ Untouched(CutOff(n, branch'[n]))
    OBVIOUS
  <2>1. PICK t \in Targets[n] :
          /\ branch' = [branch EXCEPT ![n] = t]
          /\ skipped' = skipped \cup
               ((UNION {Reachable[u] : u \in Targets[n] \ {t}}) \ Reachable[t])
    BY DEF Chooses
  <2>2. branch'[n] = t /\ n \in IfElseNodes /\ nodeStatus'[n] = "RESOLVED"
    BY <2>1 DEF TypeOK, Chooses
  <2>3. Untouched(CutOff(n, t))
    BY <1>0, <2>2 DEF TidyInv, Branches
  <2>. QED BY <2>1, <2>2, <2>3, SkipIsCutOff
<1>12. Branches'
  <2>1. ASSUME NEW d \in IfElseNodes, branch[d] = NoNode, nodeStatus[d] # "RESOLVED",
               \A t \in Targets[d] : Untouched(CutOff(d, t)), d # n \/ ~Chooses(n)
        PROVE  /\ branch'[d] = NoNode /\ nodeStatus'[d] # "RESOLVED"
               /\ \A t \in Targets[d] : Untouched(CutOff(d, t))'
    <3>1. branch'[d] = NoNode /\ nodeStatus'[d] # "RESOLVED"
      <4>1. CASE d = n
        <5>1. Passes(n) /\ Kind[n] = "if_else"
          BY <2>1, <4>1 DEF Decides, Enters, Leaves, IfElseNodes, WhileNodes
        <5>. QED BY <2>1, <4>1, <5>1 DEF Passes
      <4>. QED BY <1>6, <2>1, <4>1
    <3>. QED BY <1>3, <1>10, <2>1, <3>1
  <2>2. ASSUME NEW d \in IfElseNodes, branch[d] \in Targets[d], nodeStatus[d] = "RESOLVED",
               d \notin todo, CutOff(d, branch[d]) \subseteq skipped
        PROVE  /\ branch'[d] \in Targets[d] /\ nodeStatus'[d] = "RESOLVED" /\ d \notin todo'
               /\ CutOff(d, branch'[d]) \subseteq skipped'
    BY <1>0, <1>6, <1>8, <1>9, <2>2
  <2>3. ASSUME NEW d \in IfElseNodes, d = n, Chooses(n)
        PROVE  /\ branch'[d] \in Targets[d] /\ nodeStatus'[d] = "RESOLVED" /\ d \notin todo'
               /\ CutOff(d, branch'[d]) \subseteq skipped'
    BY <1>0, <1>11, <2>3
  <2>. QED BY <2>1, <2>2, <2>3 DEF TidyInv, Branches, Untouched
<1>13. Skips'
  <2>. SUFFICES ASSUME NEW m \in skipped'
                PROVE  /\ ~Started(m)'
                       /\ \E d \in IfElseNodes : branch'[d] \in Targets[d] /\ m \in CutOff(d, branch'[d])
    BY DEF Skips
  <2>1. CASE m \in skipped
    <3>1. PICK d \in IfElseNodes : branch[d] \in Targets[d] /\ m \in CutOff(d, branch[d])
      BY <2>1 DEF TidyInv, Skips
    <3>2. branch'[d] = branch[d]
      BY <1>6, <1>8, <3>1
    <3>3. ~Started(m)'
      BY <1>0, <1>2, <2>1 DEF TidyInv, Skips
    <3>. QED BY <3>1, <3>2, <3>3
  <2>2. CASE m \notin skipped
    <3>1. Chooses(n)
      BY <2>2 DEF Decides, Passes, Enters, Leaves
    <3>2. m \in CutOff(n, branch'[n]) /\ branch'[n] \in Targets[n] /\ n \in IfElseNodes
      BY <1>11, <2>2, <3>1
    <3>3. ~Started(m)'
      BY <1>3, <1>10, <1>11, <3>1, <3>2 DEF Untouched
    <3>. QED BY <3>2, <3>3
  <2>. QED BY <2>1, <2>2
<1>14. \A w \in WhileNodes : LoopBody(w) \in SUBSET Nodes /\ LoopBack[w] \in LoopBody(w)
                             /\ LoopBack[w] # w /\ Body[w] # Exit[w] /\ w \in Nodes
                             /\ LoopBack[w] \in Nodes
  <2>1. ASSUME NEW w \in WhileNodes
        PROVE  LoopBack[w] \in LoopBody(w) /\ Body[w] # Exit[w] /\ w \in Nodes
    BY DEF TidyGraph, TidyLoops, WhileNodes
  <2>. QED BY <2>1, BodyFacts DEF TidyGraph
<1>15. ASSUME NEW w \in WhileNodes, w # n
       PROVE  (Fresh(w) => Fresh(w)') /\ (Looping(w) => Looping(w)') /\ (Left(w) => Left(w)')
  <2>1. Fresh(w) => Fresh(w)'
    BY <1>3, <1>7, <1>14, <1>15 DEF Fresh
  <2>2. Left(w) => Left(w)'
    BY <1>0, <1>7, <1>15 DEF Left
  <2>3. ASSUME Looping(w), w \in todo' \/ nodeStatus'[w] # "RESOLVED"
        PROVE  AtBack(w)'
    <3>1. AtBack(w)
      BY <1>0, <1>7, <1>15, <2>3 DEF Looping
    <3>2. LoopBack[w] # n
      BY <1>0, <3>1 DEF AtBack
    <3>3. ~(Enters(n) /\ LoopBack[w] \in LoopBody(n))
      BY <1>14, <1>15, BodiesApart DEF TidyGraph, Enters
    <3>. QED BY <1>0, <1>1, <1>14, <3>1, <3>2, <3>3 DEF AtBack
  <2>4. Looping(w) => Looping(w)'
    BY <1>7, <1>15, <2>3 DEF Looping
  <2>. QED BY <2>1, <2>2, <2>4
<1>16. ASSUME n \in WhileNodes
       PROVE  Fresh(n)' \/ Looping(n)' \/ Left(n)'
  <2>1. ~Chooses(n) /\ Kind[n] = "while" /\ branch[n] \in Nodes \cup {NoNode} /\ loops[n] \in Nat
    BY <1>16 DEF Chooses, IfElseNodes, WhileNodes, TypeOK
  <2>2. CASE Passes(n)
    <3>1. /\ branch'[n] = branch[n] /\ loops'[n] = loops[n] /\ nodeStatus'[n] # "RESOLVED"
          /\ \A m \in Nodes \ {n} : nodeStatus'[m] = nodeStatus[m]
      BY <2>1, <2>2 DEF Passes
    <3>2. Fresh(n) => Fresh(n)'
      BY <1>3, <1>14, <1>16, <3>1 DEF Fresh
    <3>3. ASSUME Looping(n)
          PROVE  Looping(n)'
      <4>1. AtBack(n) /\ AtBack(n)'
        BY <1>0, <1>14, <1>16, <3>1, <3>3 DEF Looping, AtBack
      <4>. QED BY <1>1, <3>1, <3>3, <4>1 DEF Looping
    <3>4. ~Left(n)
      BY <1>0 DEF Left
    <3>. QED BY <1>16, <3>2, <3>3, <3>4 DEF TidyInv, Loops
  <2>3. CASE Enters(n)
    <3>1. branch'[n] = Body[n] /\ loops'[n] = loops[n] + 1 /\ nodeStatus'[n] = "RESOLVED"
      BY <2>3 DEF Enters, TypeOK
    <3>2. loops'[n] > 0
      BY <2>1, <3>1
    <3>3. Looping(n)'
      BY <1>0, <3>1, <3>2 DEF Looping
    <3>. QED BY <3>3
  <2>4. CASE Leaves(n)
    <3>1. branch'[n] = Exit[n] /\ nodeStatus'[n] = "RESOLVED"
      BY <2>4 DEF Leaves, TypeOK
    <3>. QED BY <1>0, <3>1 DEF Left
  <2>. QED BY <2>1, <2>2, <2>3, <2>4 DEF Decides
<1>17. Loops'
  BY <1>15, <1>16 DEF TidyInv, Loops
<1>. QED BY <1>4, <1>12, <1>13, <1>17 DEF TidyInv

LEMMA TidyInit == ASSUME TidyGraph, Init PROVE TidyInv
<1>1. \A n \in Nodes : ~Started(n) /\ nodeStatus[n] = "NONE" /\ branch[n] = NoNode /\ loops[n] = 0
  BY DEF Init, Started
<1>2. skipped = {}
  BY DEF Init
<1>3. \A d, t : Untouched(CutOff(d, t))
  BY <1>1, CutOffIsBelow DEF Untouched
<1>4. \A w \in WhileNodes : Untouched(LoopBody(w))
  BY <1>1, BodyFacts DEF Untouched, TidyGraph
<1>. QED BY <1>1, <1>2, <1>3, <1>4
     DEF TidyInv, NoErrors, Branches, Skips, Loops, Fresh, IfElseNodes, WhileNodes

\* A new pass takes up nothing that is cut off, or waits for a choice.
LEMMA PassKeeps ==
  ASSUME TypeOK, TidyGraph, TidyInv, BeginPass
  PROVE  TidyInv'
<1>0. /\ todo = {} /\ todo' = RunnableNodes
      /\ UNCHANGED <<status, nodeStatus, branch, loops, skipped>>
  BY DEF BeginPass, run
<1>1. ASSUME NEW n \in Nodes, IsRunnable(n), Pred(n) # {}
      PROVE  \E m \in Pred(n) : IsEdgeActive(m, n) /\ nodeStatus[m] = "RESOLVED"
  <2>1. Dependencies(n) \subseteq Pred(n)
    BY DEF Dependencies
  <2>. QED BY <1>1, <2>1 DEF IsRunnable, DependenciesResolved
<1>2. NoErrors'
  BY <1>0 DEF TidyInv, NoErrors
<1>3. ASSUME NEW d \in IfElseNodes, branch[d] = NoNode, nodeStatus[d] # "RESOLVED",
             NEW t \in Targets[d], Untouched(CutOff(d, t)), NEW n \in CutOff(d, t)
      PROVE  n \notin todo'
  <2>. SUFFICES ASSUME IsRunnable(n)
                PROVE  FALSE
    BY <1>0 DEF RunnableNodes
  <2>1. n \in Nodes /\ Pred(n) # {} /\ t \in Nodes
    BY <1>3, CutOffIsBelow, TargetOutside
  <2>2. PICK m \in Pred(n) : nodeStatus[m] = "RESOLVED"
    BY <1>1, <2>1
  <2>3. m \in Downstream(d)
    BY <1>3, <2>2 DEF TidyGraph, TidyBranches
  <2>4. m \notin Reachable[t]
    BY <1>3, <2>1, <2>2, Neighbours, Reaching DEF CutOff
  <2>. QED BY <1>3, <2>2, <2>3, <2>4 DEF CutOff, Untouched, Started
<1>4. Branches'
  <2>1. ASSUME NEW d \in IfElseNodes, nodeStatus[d] = "RESOLVED"
        PROVE  d \notin todo'
    <3>1. Kind[d] = "if_else"
      BY DEF IfElseNodes
    <3>. QED BY <1>0, <2>1, <3>1 DEF RunnableNodes, IsRunnable
  <2>. QED BY <1>0, <1>3, <2>1 DEF TidyInv, Branches, Untouched, Started
<1>5. Skips'
  BY <1>0 DEF TidyInv, Skips, Started, RunnableNodes, IsRunnable
<1>6. ASSUME NEW w \in WhileNodes
      PROVE  (Fresh(w) => Fresh(w)') /\ (Looping(w) => Looping(w)') /\ (Left(w) => Left(w)')
  <2>1. /\ Kind[w] = "while" /\ w \in Nodes /\ LoopBack[w] \in LoopBody(w)
        /\ Body[w] # Exit[w] /\ Body[w] \in Nodes
    BY GraphAssumption DEF WhileNodes, TidyGraph, TidyLoops
  <2>2. ASSUME Fresh(w), NEW n \in LoopBody(w)
        PROVE  n \notin todo'
    <3>. SUFFICES ASSUME IsRunnable(n)
                  PROVE  FALSE
      BY <1>0 DEF RunnableNodes
    <3>1. n \in Nodes /\ Pred(n) # {} /\ Pred(n) \subseteq LoopBody(w) \cup {w}
      BY BodyFacts DEF TidyGraph
    <3>2. PICK m \in Pred(n) : nodeStatus[m] = "RESOLVED"
      BY <1>1, <3>1
    <3>. QED BY <2>2, <3>1, <3>2 DEF Fresh, Untouched, Started
  <2>3. ASSUME Left(w)
        PROVE  w \notin todo'
    BY <1>0, <2>1, <2>3 DEF Left, RunnableNodes, IsRunnable, LeftLoop
  <2>4. ASSUME Looping(w), w \in todo' \/ nodeStatus[w] # "RESOLVED"
        PROVE  nodeStatus[LoopBack[w]] = "RESOLVED" /\ LoopBack[w] \notin todo'
    <3>1. nodeStatus[LoopBack[w]] = "RESOLVED"
      <4>1. CASE nodeStatus[w] # "RESOLVED"
        BY <2>4, <4>1 DEF Looping, AtBack
      <4>2. CASE w \in todo'
        <5>1. IsRunnable(w) /\ Dependencies(w) \subseteq {LoopBack[w]} /\ Pred(w) # {}
          BY <1>0, <2>1, <2>4, <4>2
          DEF RunnableNodes, Dependencies, Looping, TidyGraph, TidyLoops
        <5>. QED BY <5>1 DEF IsRunnable, DependenciesResolved
      <4>. QED BY <2>4, <4>1, <4>2
    <3>2. Kind[LoopBack[w]] # "while"
      BY <2>1, BodyFacts DEF TidyGraph
    <3>. QED BY <1>0, <3>1, <3>2 DEF RunnableNodes, IsRunnable
  <2>. QED BY <1>0, <2>2, <2>3, <2>4 DEF Fresh, Looping, Left, AtBack, Untouched, Started
<1>7. Loops'
  BY <1>6 DEF TidyInv, Loops
<1>. QED BY <1>2, <1>4, <1>5, <1>7 DEF TidyInv

\* So do a step that changes no choice, and takes up or resolves only what has been started.
LEMMA QuietKeeps ==
  ASSUME TypeOK, TidyGraph, TidyInv, UNCHANGED <<branch, loops, skipped>>,
         todo' \subseteq todo, NoErrors',
         NEW n, \A m \in Nodes \ {n} : nodeStatus'[m] = nodeStatus[m],
         n \in Nodes => /\ Started(n) /\ nodeStatus'[n] # "NONE"
                        /\ n \in IfElseNodes => nodeStatus[n] # "RESOLVED" /\ nodeStatus'[n] # "RESOLVED"
                        /\ n \in WhileNodes => nodeStatus'[n] # "RESOLVED" /\ n \in todo
                        /\ n \in todo \/ nodeStatus'[n] = "RESOLVED"
  PROVE  TidyInv'
<1>1. \A m \in Nodes : ~Started(m) => ~Started(m)' /\ m # n
  BY DEF Started
<1>2. \A S \in SUBSET Nodes : Untouched(S) => Untouched(S)'
  BY <1>1 DEF Untouched
<1>3. \A d, t : CutOff(d, t) \in SUBSET Nodes
  BY CutOffIsBelow
<1>4. Branches'
  <2>1. \A d \in IfElseNodes : d \in Nodes
    BY DEF IfElseNodes
  <2>2. \A d \in IfElseNodes : nodeStatus'[d] = "RESOLVED" <=> nodeStatus[d] = "RESOLVED"
    BY <2>1
  <2>3. \A d \in IfElseNodes : (\A t \in Targets[d] : Untouched(CutOff(d, t)))
                                 => \A t \in Targets[d] : Untouched(CutOff(d, t))'
    BY <1>2, <1>3
  <2>. QED BY <2>2, <2>3 DEF TidyInv, Branches, Untouched
<1>5. Skips'
  <2>1. skipped \subseteq Nodes
    BY DEF TypeOK
  <2>. QED BY <1>1, <2>1 DEF TidyInv, Skips
<1>6. ASSUME NEW w \in WhileNodes
      PROVE  Fresh(w)' \/ Looping(w)' \/ Left(w)'
  <2>1. /\ w \in Nodes /\ LoopBody(w) \in SUBSET Nodes /\ LoopBack[w] \in Nodes
        /\ LoopBack[w] # w
    <3>1. w \in Nodes /\ LoopBack[w] \in LoopBody(w)
      BY DEF TidyGraph, TidyLoops, WhileNodes
    <3>. QED BY <3>1, BodyFacts DEF TidyGraph
  <2>2. Fresh(w) => Fresh(w)'
    BY <1>2, <2>1 DEF Fresh
  <2>3. Left(w) => Left(w)'
    BY <2>1 DEF Left
  <2>4. AtBack(w) => AtBack(w)'
    BY <2>1 DEF AtBack
  <2>5. Looping(w) => Looping(w)'
    BY <2>1, <2>4 DEF Looping
  <2>. QED BY <2>2, <2>3, <2>5 DEF TidyInv, Loops
<1>7. Loops'
  BY <1>6 DEF Loops
<1>. QED BY <1>4, <1>5, <1>7 DEF TidyInv

LEMMA NextTidy ==
  ASSUME IInv, LifecycleInv, Others = {}, TidyGraph, OnlyStepsTimeOut, Calls \subseteq {"resume"},
         TidyInv, [Next]_vars
  PROVE  TidyInv'
<1>0. /\ TypeOK /\ PassStopsWithRun /\ OpenBlocks /\ Asked /\ AtNode /\ popped = 0
      /\ (phase = "node" => status = "RUNNING")
      /\ (OpenInterrupts # {} => status = "WAITING_FOR_INPUT")
      /\ NoNode \notin Nodes
  BY NoNodeIsNone, PassStopsInv, AloneStatus
  DEF LifecycleInv, IInv, CallsInv, OutputInv, PassStopsWithRun
<1>1. CASE BeginPass
  BY <1>0, <1>1, PassKeeps
<1>2. CASE EndCall \/ (\E n \in Nodes : SkipSettledNode(n)) \/ UNCHANGED vars
  <2>1. /\ todo' \subseteq todo
        /\ UNCHANGED <<status, nodeStatus, branch, loops, skipped>>
    BY <1>2 DEF EndCall, SkipSettledNode, run, vars
  <2>2. NoErrors'
    BY <2>1 DEF TidyInv, NoErrors
  <2>. QED BY <1>0, <2>1, <2>2, QuietKeeps
<1>3. ASSUME NEW n \in Nodes, StartNode(n)
      PROVE  TidyInv'
  <2>1. /\ n \in todo /\ todo' = todo /\ UNCHANGED <<status, branch, loops, skipped>>
        /\ \A m \in Nodes \ {n} : nodeStatus'[m] = nodeStatus[m]
        /\ nodeStatus'[n] = "IN_PROGRESS"
    BY <1>0, <1>3 DEF StartNode, IsCurrent, TypeOK
  <2>2. NoErrors'
    BY <2>1 DEF TidyInv, NoErrors
  <2>3. n \in IfElseNodes => nodeStatus[n] # "RESOLVED"
    BY <2>1 DEF TidyInv, Branches
  <2>. QED BY <1>0, <2>1, <2>2, <2>3, QuietKeeps DEF Started
<1>4. ASSUME NEW n \in Nodes, Handle(n)
      PROVE  TidyInv'
  <2>1. /\ phase = "node" /\ IsCurrent(n)
    BY <1>4 DEF Handle, HandlerRaises, HandleStart, HandleTask, HandleIfElse,
         HandleWhileEnter, HandleWhileLeave, HandleInteraction, HandleEnd, Handling
  <2>2. status = "RUNNING" /\ nodeStatus[n] = "IN_PROGRESS"
    BY <1>0, <2>1 DEF AtNode, TidyInv, NoErrors
  <2>. QED BY <1>0, <1>4, <2>2, DecisionDeed, DecideKeeps
<1>5. ASSUME NEW i \in DOMAIN interrupts, Resume(i)
      PROVE  TidyInv'
  <2>. DEFINE n == interrupts[i].node
  <2>1. /\ i \in OpenInterrupts /\ status' = "RUNNING"
        /\ UNCHANGED <<branch, loops, skipped, todo>>
        /\ nodeStatus' = [nodeStatus EXCEPT ![n] = IF @ = "NONE" THEN @ ELSE "RESOLVED"]
    BY <1>5 DEF Resume, BeginCall, OpenInterrupts
  <2>2. n \in Nodes /\ nodeStatus[n] # "NONE" /\ Kind[n] = "interaction"
    <3>1. interrupts[i] \in Interrupt
      BY <1>0 DEF TypeOK
    <3>. QED BY <1>0, <2>1, <3>1 DEF OpenBlocks, Asked, Interrupt
  <2>. HIDE DEF n
  <2>3. nodeStatus'[n] = "RESOLVED" /\ \A m \in Nodes \ {n} : nodeStatus'[m] = nodeStatus[m]
    BY <1>0, <2>1, <2>2 DEF TypeOK
  <2>4. NoErrors'
    BY <1>0, <2>1, <2>2, <2>3 DEF TidyInv, NoErrors
  <2>5. n \notin IfElseNodes /\ n \notin WhileNodes
    BY <2>2 DEF IfElseNodes, WhileNodes
  <2>. QED BY <1>0, <2>1, <2>2, <2>3, <2>4, <2>5, QuietKeeps DEF Started
<1>6. /\ ~CancelRun /\ \A i \in DOMAIN interrupts : ~CancelInterrupt(i)
      /\ \A n \in Nodes, scope \in {"node_only", "downstream"} : ~Rerun(n, scope)
  BY DEF CancelRun, CancelInterrupt, Rerun
<1>. QED BY <1>1, <1>2, <1>3, <1>4, <1>5, <1>6
     DEF Next, ExecuteUntilBlocked, ApiCall, Preempt, Rest

LEMMA NextStranded ==
  ASSUME IInv, LifecycleInv, Others = {}, TidyGraph, TidyInv, Calls \subseteq {"resume"},
         NeverStranded, [Next]_vars
  PROVE  NeverStranded'
<1>0. /\ TypeOK /\ InProgressIsAccounted /\ alone /\ crossed = {}
      /\ (OpenInterrupts # {} => status = "WAITING_FOR_INPUT")
  BY DEF LifecycleInv, IInv, CallsInv
<1>1. CASE EndCall
  <2>. SUFFICES ASSUME status = "RUNNING"
                PROVE  FALSE
    BY <1>1 DEF EndCall, NeverStranded, run
  <2>1. phase = "pass" /\ todo = {} /\ RunnableNodes = {}
    BY <1>1 DEF EndCall
  <2>2. \A n \in Nodes : nodeStatus[n] \in {"NONE", "TO_DO", "RESOLVED"}
    BY <1>0, <2>1 DEF InProgressIsAccounted, TidyInv, NoErrors, TypeOK, NodeStatuses
  <2>. QED BY <1>0, <2>1, <2>2, SomethingToRun
<1>2. CASE UNCHANGED vars
  BY <1>2 DEF vars, NeverStranded
<1>3. ASSUME NEW n \in Nodes, Handle(n)
      PROVE  phase' # "idle"
  BY <1>0, <1>3, HandleDeed DEF Handled
<1>4. CASE BeginPass \/ (\E n \in Nodes : SkipSettledNode(n) \/ StartNode(n))
  BY <1>4 DEF BeginPass, SkipSettledNode, StartNode, NeverStranded
<1>5. CASE \E i \in DOMAIN interrupts : Resume(i)
  BY <1>5 DEF Resume, BeginCall, NeverStranded
<1>6. /\ ~CancelRun /\ \A i \in DOMAIN interrupts : ~CancelInterrupt(i)
      /\ \A n \in Nodes, scope \in {"node_only", "downstream"} : ~Rerun(n, scope)
  BY DEF CancelRun, CancelInterrupt, Rerun
<1>. QED BY <1>1, <1>2, <1>3, <1>4, <1>5, <1>6
     DEF Next, ExecuteUntilBlocked, ApiCall, Preempt, Rest, NeverStranded

\* A call of execute_until_blocked on a tidy graph never gives up on a run that it leaves
\* RUNNING: whatever the conditions choose, the loops do and the handlers raise, there is
\* something to run until the run waits or ends, as long as it is only answered, one call at
\* a time, and no node that chooses or asks times out (runtime/engine.py,
\* execute_until_blocked).
THEOREM NeverLeftRunning ==
  ASSUME Others = {}, TidyGraph, OnlyStepsTimeOut, Calls \subseteq {"resume"}
  PROVE  Spec => []NeverStranded
<1>1. InteractionsWait
  BY DEF OnlyStepsTimeOut, InteractionsWait
<1>2. IInv /\ LifecycleInv /\ [Next]_vars => LifecycleInv'
  BY <1>1, LifecycleStep
<1>3. IInv /\ LifecycleInv /\ TidyInv /\ [Next]_vars => TidyInv'
  BY NextTidy
<1>4. IInv /\ LifecycleInv /\ TidyInv /\ NeverStranded /\ [Next]_vars => NeverStranded'
  BY NextStranded
<1>5. Init => TidyInv /\ NeverStranded
  BY TidyInit DEF Init, NeverStranded
<1>. QED BY <1>2, <1>3, <1>4, <1>5, InitLifecycleInv, Invariance, PTL DEF Spec

(***************************************************************************)
(* The calls of nodes to the world outside, as ToolCalls has them, for any *)
(* nodes, numbers of retries, timeouts and configurations.                 *)
(***************************************************************************)
CONSTANTS CallNodes, CallKind, CallRetries, RetryAttempts, TimedCalls, Merging, Misconfigured,
          Structured, Lenient, Together, Nothing

VARIABLES standing, tryout, try, step, late, emitted, reported, output, queue, serving, passed,
          executed, replies, accepted, expired

Tool == INSTANCE ToolCalls WITH
  Nodes <- CallNodes, Kind <- CallKind, MaxRetries <- CallRetries, Timed <- TimedCalls,
  status <- standing, attempt <- tryout


\* The types of the threads, and of the rest.
ThreadsTyped ==
  /\ standing \in [CallNodes -> {"TO_DO", "IN_PROGRESS", "RESOLVED", "ERROR", "SKIPPED"}]
  /\ step \in [CallNodes -> {"off", "request", "waiting"}]
  /\ tryout \in [CallNodes -> Nat] /\ try \in [CallNodes -> Nat]
  /\ \A n \in CallNodes : Tool!Current(n) \in Tool!Calls
  /\ reported \in [CallNodes -> SUBSET Tool!Calls]
  /\ output \in [CallNodes -> Tool!Calls \cup {Nothing}]

CallsTyped ==
  /\ late \subseteq TimedCalls
  /\ emitted \in [CallNodes -> SUBSET Tool!Calls]
  /\ queue \subseteq Tool!Calls /\ serving \in Tool!Calls \cup {Nothing}
  /\ executed \subseteq passed /\ passed \subseteq Tool!Calls
  /\ replies \subseteq Tool!Calls \X {"good", "bad"}
  /\ accepted \subseteq passed /\ expired \subseteq Tool!Calls

Typed == ThreadsTyped /\ CallsTyped

\* The thread of a node is where its status says; a call that needs no bridge has passed
\* by the time the thread waits for it.
ThreadOK(n) ==
  /\ step[n] # "off" <=> standing[n] = "IN_PROGRESS"
  /\ step[n] # "off" => \A c \in emitted[n] : c[2] = tryout[n]
  /\ step[n] = "waiting" /\ CallKind[n] # "mcp" => Tool!Current(n) \in passed

\* A request that has timed out is of an earlier attempt, or has made this one late.
ExpiredOK(n) ==
  \A c \in Tool!Of(n, expired) :
    /\ c[2] <= tryout[n]
    /\ standing[n] = "TO_DO" => c[2] < tryout[n]
    /\ standing[n] \in {"IN_PROGRESS", "RESOLVED"} /\ n \in TimedCalls \ late => c[2] < tryout[n]
    /\ standing[n] = "RESOLVED" /\ n \in TimedCalls => n \notin late

\* Only who waits is answered, and what is said to be done was executed.
RepliesOK ==
  \A r \in replies :
    /\ Tool!Waiting(r[1])
    /\ r[2] = "good" \/ CallKind[r[1][1]] = "agent" => r[1] \in executed

BridgeOK == \A c \in queue \cup ({serving} \ {Nothing}) : CallKind[c[1]] = "mcp"

CallsIInv ==
  /\ Typed /\ RepliesOK /\ BridgeOK
  /\ \A n \in CallNodes : ThreadOK(n) /\ ExpiredOK(n)
  /\ Tool!AcceptedEndsNode /\ Tool!ResolvedIsExecuted

-----------------------------------------------------------------------------
LEMMA CallsType ==
  ASSUME Tool!ToolCallsAssumption
  PROVE  /\ \A c \in Tool!Calls :
              /\ c[1] \in CallNodes /\ c = <<c[1], c[2], c[3]>>
              /\ c[2] \in 1 .. CallRetries[c[1]] + 1 /\ c[3] \in 1 .. Tool!Tries(c[1])
         /\ \A n \in CallNodes : \A a, t :
              <<n, a, t>> \in Tool!Calls <=>
                a \in 1 .. CallRetries[n] + 1 /\ t \in 1 .. Tool!Tries(n)
         /\ \A n \in CallNodes : CallRetries[n] \in Nat /\ Tool!Tries(n) \in Nat \ {0}
<1>1. \A n \in CallNodes : CallRetries[n] \in Nat /\ Tool!Tries(n) \in Nat \ {0}
  BY DEF Tool!ToolCallsAssumption, Tool!Tries
<1>2. \A c \in Tool!Calls :
        /\ c[1] \in CallNodes /\ c = <<c[1], c[2], c[3]>>
        /\ c[2] \in 1 .. CallRetries[c[1]] + 1 /\ c[3] \in 1 .. Tool!Tries(c[1])
  BY DEF Tool!Calls
<1>3. \A n \in CallNodes : \A a, t :
        <<n, a, t>> \in Tool!Calls <=> a \in 1 .. CallRetries[n] + 1 /\ t \in 1 .. Tool!Tries(n)
  <2>1. ASSUME NEW n \in CallNodes, NEW a, NEW t, <<n, a, t>> \in Tool!Calls
        PROVE  a \in 1 .. CallRetries[n] + 1 /\ t \in 1 .. Tool!Tries(n)
    BY <2>1, <1>2
  <2>2. ASSUME NEW n \in CallNodes, NEW a \in 1 .. CallRetries[n] + 1, NEW t \in 1 .. Tool!Tries(n)
        PROVE  <<n, a, t>> \in Tool!Calls
    BY DEF Tool!Calls
  <2> QED BY <2>1, <2>2
<1> QED BY <1>1, <1>2, <1>3

LEMMA CallsNumbered ==
  ASSUME Tool!ToolCallsAssumption
  PROVE  \A c \in Tool!Calls : c[2] \in Nat
  BY CallsType

LEMMA CallsInit ==
  ASSUME Tool!ToolCallsAssumption, Tool!Init
  PROVE  CallsIInv
<1>1. Typed
  BY CallsType DEF Tool!Init, Typed, ThreadsTyped, CallsTyped, Tool!Current,
    Tool!ToolCallsAssumption
<1>2. RepliesOK /\ BridgeOK
  BY DEF Tool!Init, RepliesOK, BridgeOK
<1>3. \A n \in CallNodes : ThreadOK(n) /\ ExpiredOK(n)
  BY <1>1 DEF Tool!Init, ThreadOK, ExpiredOK, Tool!Of
<1>4. Tool!AcceptedEndsNode /\ Tool!ResolvedIsExecuted
  BY DEF Tool!Init, Tool!AcceptedEndsNode, Tool!ResolvedIsExecuted, Tool!Of
<1> QED BY <1>1, <1>2, <1>3, <1>4 DEF CallsIInv

-----------------------------------------------------------------------------
(* What the steps of a thread do, thread by thread.                        *)

\* The other threads stay where they are.
OnlyMoves(n) ==
  \A m \in CallNodes \ {n} :
    /\ standing'[m] = standing[m] /\ tryout'[m] = tryout[m] /\ try'[m] = try[m]
    /\ step'[m] = step[m] /\ reported'[m] = reported[m] /\ output'[m] = output[m]

Stays(n) == reported'[n] = reported[n] /\ output'[n] = output[n]

Raises(n) ==
  /\ \/ standing'[n] = "TO_DO" /\ tryout'[n] = tryout[n] + 1
     \/ standing'[n] = "ERROR" /\ tryout'[n] = tryout[n]
  /\ step'[n] = "off" /\ reported'[n] = reported[n]

Repeats(n) ==
  /\ standing'[n] = standing[n] /\ tryout'[n] = tryout[n]
  /\ step'[n] = "request" /\ Stays(n)

Resolves(n) ==
  /\ standing'[n] = "RESOLVED" /\ tryout'[n] = tryout[n] /\ try'[n] = try[n]
  /\ step'[n] = "off" /\ output'[n] = Tool!Current(n) /\ reported'[n] = emitted'[n]

LEMMA RaiseDeed ==
  ASSUME Tool!ToolCallsAssumption, ThreadsTyped, NEW n \in CallNodes,
         Tool!Raise(n) \/ Tool!Discard(n)
  PROVE  ThreadsTyped' /\ OnlyMoves(n) /\ Raises(n)
<1>0. /\ Tool!FailAttempt(n)
      /\ \E call \in Tool!Calls \cup {Nothing} : output' \in {output, [output EXCEPT ![n] = call]}
  BY DEF ThreadsTyped, Tool!Raise, Tool!Discard
<1>1. OnlyMoves(n) /\ Raises(n)
  BY <1>0 DEF ThreadsTyped, Tool!FailAttempt, OnlyMoves, Raises
<1>2. tryout[n] \in 1 .. CallRetries[n] + 1 /\ CallRetries[n] \in Nat /\ Tool!Tries(n) \in Nat \ {0}
  BY CallsType DEF ThreadsTyped, Tool!Current
<1>3. /\ standing' \in [CallNodes -> {"TO_DO", "IN_PROGRESS", "RESOLVED", "ERROR", "SKIPPED"}]
      /\ step' \in [CallNodes -> {"off", "request", "waiting"}]
      /\ tryout' \in [CallNodes -> Nat] /\ try' \in [CallNodes -> Nat]
      /\ reported' \in [CallNodes -> SUBSET Tool!Calls]
      /\ output' \in [CallNodes -> Tool!Calls \cup {Nothing}]
  BY <1>0, <1>2 DEF ThreadsTyped, Tool!FailAttempt
<1>4. tryout'[n] \in 1 .. CallRetries[n] + 1 /\ try'[n] = 1
  BY <1>0, <1>2 DEF ThreadsTyped, Tool!FailAttempt
<1>5. Tool!Current(n)' \in Tool!Calls
  BY <1>2, <1>4, CallsType DEF Tool!Current
<1>6. \A m \in CallNodes \ {n} : Tool!Current(m)' = Tool!Current(m)
  BY <1>1 DEF OnlyMoves, Tool!Current
<1> QED BY <1>1, <1>3, <1>5, <1>6 DEF ThreadsTyped

LEMMA TryAgainDeed ==
  ASSUME Tool!ToolCallsAssumption, ThreadsTyped, NEW n \in CallNodes, Tool!TryAgain(n)
  PROVE  ThreadsTyped' /\ OnlyMoves(n) /\ (Raises(n) \/ Repeats(n))
<1>1. CASE ~(try[n] < Tool!Tries(n))
  BY <1>1, RaiseDeed DEF Tool!TryAgain
<1>2. CASE try[n] < Tool!Tries(n)
  <2>1. OnlyMoves(n) /\ Repeats(n)
    BY <1>2 DEF ThreadsTyped, Tool!TryAgain, OnlyMoves, Repeats, Stays
  <2>2. /\ tryout[n] \in 1 .. CallRetries[n] + 1 /\ CallRetries[n] \in Nat
        /\ try[n] \in 1 .. Tool!Tries(n) /\ Tool!Tries(n) \in Nat \ {0}
    BY CallsType DEF ThreadsTyped, Tool!Current
  <2>3. tryout'[n] = tryout[n] /\ try'[n] = try[n] + 1
    BY <1>2 DEF ThreadsTyped, Tool!TryAgain
  <2>4. Tool!Current(n)' \in Tool!Calls
    BY <1>2, <2>2, <2>3, CallsType DEF Tool!Current
  <2>5. \A m \in CallNodes \ {n} : Tool!Current(m)' = Tool!Current(m)
    BY <2>1 DEF OnlyMoves, Tool!Current
  <2> QED BY <1>2, <2>1, <2>4, <2>5 DEF ThreadsTyped, Tool!TryAgain
<1> QED BY <1>1, <1>2

LEMMA ResolveDeed ==
  ASSUME ThreadsTyped, emitted' \in [CallNodes -> SUBSET Tool!Calls], NEW n \in CallNodes,
         Tool!Resolve(n)
  PROVE  ThreadsTyped' /\ OnlyMoves(n) /\ Resolves(n)
<1>1. OnlyMoves(n) /\ Resolves(n)
  BY DEF ThreadsTyped, Tool!Resolve, OnlyMoves, Resolves
<1>2. \A m \in CallNodes : Tool!Current(m)' = Tool!Current(m)
  BY DEF Tool!Resolve, Tool!Current
<1>3. /\ standing' \in [CallNodes -> {"TO_DO", "IN_PROGRESS", "RESOLVED", "ERROR", "SKIPPED"}]
      /\ step' \in [CallNodes -> {"off", "request", "waiting"}]
  BY DEF ThreadsTyped, Tool!Resolve
<1>4. /\ tryout' \in [CallNodes -> Nat] /\ try' \in [CallNodes -> Nat]
      /\ reported' \in [CallNodes -> SUBSET Tool!Calls]
  BY DEF ThreadsTyped, Tool!Resolve
<1>5. output' \in [CallNodes -> Tool!Calls \cup {Nothing}]
  BY DEF ThreadsTyped, Tool!Resolve
<1> QED BY <1>1, <1>2, <1>3, <1>4, <1>5 DEF ThreadsTyped

\* What else belongs to the calls of other nodes stays.
OnlyTouches(n) ==
  /\ \A m \in CallNodes \ {n} : emitted'[m] = emitted[m] /\ (m \in late' <=> m \in late)
  /\ \A c \in Tool!Calls : c[1] # n => /\ c \in accepted' <=> c \in accepted
                                       /\ c \in expired' <=> c \in expired
  /\ \A r \in replies : r[1][1] # n => r \in replies'
  /\ replies' \subseteq replies
  /\ executed' = executed /\ passed \subseteq passed' /\ serving' = serving
  /\ \A c \in queue' : c \in queue \/ CallKind[c[1]] = "mcp"

Begins(n) ==
  /\ standing[n] = "TO_DO" /\ standing'[n] = "IN_PROGRESS"
  /\ tryout'[n] = tryout[n] /\ step'[n] = "request" /\ Stays(n)
  /\ emitted'[n] = {} /\ n \notin late'
  /\ accepted' = accepted /\ expired' = expired

AsksFor(n) ==
  /\ step[n] = "request" /\ step'[n] = "waiting"
  /\ standing'[n] = standing[n] /\ tryout'[n] = tryout[n] /\ try'[n] = try[n] /\ Stays(n)
  /\ emitted'[n] = emitted[n] /\ (n \in late' <=> n \in late)
  /\ CallKind[n] # "mcp" => Tool!Current(n) \in passed'
  /\ accepted' = accepted /\ expired' = expired

\* A try that has come to nothing.  An answer that was accepted is one that came too late or
\* that the engine could not put where it belongs.
Fails(n) ==
  /\ step[n] # "off" /\ (Raises(n) \/ Repeats(n))
  /\ emitted'[n] \subseteq emitted[n] \cup {Tool!Current(n)}
  /\ n \in late => n \in late'
  /\ \/ accepted' = accepted
     \/ accepted' = accepted \cup {Tool!Current(n)} /\ n \in late \cup Merging /\ Raises(n)
  /\ \/ expired' = expired
     \/ expired' = expired \cup {Tool!Current(n)} /\ (n \in TimedCalls => n \in late')
  /\ \A r \in replies' : r[1] # Tool!Current(n)

Succeeds(n) ==
  /\ step[n] = "waiting" /\ Resolves(n)
  /\ n \notin late /\ n \notin late'
  /\ emitted'[n] \subseteq emitted[n] \cup {Tool!Current(n)}
  /\ CallKind[n] # "agent" => Tool!Current(n) \in emitted'[n]
  /\ n \notin Lenient => Tool!Current(n) \in executed
  /\ accepted' = accepted \cup {Tool!Current(n)} /\ expired' = expired
  /\ \A r \in replies' : r[1] # Tool!Current(n)

Deed(n) == OnlyMoves(n) /\ OnlyTouches(n) /\ (Begins(n) \/ AsksFor(n) \/ Fails(n) \/ Succeeds(n))

LEMMA StartDeed ==
  ASSUME Tool!ToolCallsAssumption, CallsIInv, NEW n \in CallNodes, Tool!Start(n)
  PROVE  Typed' /\ Deed(n)
<1>1. ASSUME NEW m \in CallNodes
      PROVE  Tool!Current(m)' \in Tool!Calls
  <2>1. /\ tryout[m] \in 1 .. CallRetries[m] + 1
        /\ try[m] \in 1 .. Tool!Tries(m) /\ Tool!Tries(m) \in Nat \ {0}
    BY CallsType DEF CallsIInv, Typed, ThreadsTyped, Tool!Current
  <2>2. tryout'[m] = tryout[m] /\ try'[m] \in {1, try[m]}
    BY DEF CallsIInv, Typed, ThreadsTyped, Tool!Start
  <2> QED BY <2>1, <2>2, CallsType DEF Tool!Current
<1>2. ThreadsTyped'
  BY <1>1 DEF CallsIInv, Typed, ThreadsTyped, Tool!Start
<1>3. CallsTyped'
  BY DEF CallsIInv, Typed, CallsTyped, Tool!Start, Tool!bridge, Tool!history
<1>4. OnlyMoves(n) /\ OnlyTouches(n)
  BY DEF CallsIInv, Typed, ThreadsTyped, CallsTyped, Tool!Start, OnlyMoves, OnlyTouches,
    Tool!bridge, Tool!history
<1>5. Begins(n)
  BY DEF CallsIInv, Typed, ThreadsTyped, CallsTyped, Tool!Start, Begins, Stays, Tool!bridge,
    Tool!history
<1> QED BY <1>2, <1>3, <1>4, <1>5 DEF Typed, Deed

\* Nobody answers a thread that does not wait.
LEMMA NoReplies ==
  ASSUME CallsIInv, NEW n \in CallNodes, step[n] # "waiting"
  PROVE  \A r \in replies : r[1][1] # n
  BY DEF CallsIInv, RepliesOK, Tool!Waiting

LEMMA RefusalDeed ==
  ASSUME Tool!ToolCallsAssumption, CallsIInv, NEW n \in CallNodes,
         Tool!Reject(n) \/ Tool!DenyEgress(n)
  PROVE  Typed' /\ Deed(n)
<1>1. /\ Tool!Raise(n) /\ step[n] = "request"
      /\ UNCHANGED <<late, emitted, Tool!bridge, passed, executed, replies, Tool!history>>
  BY DEF Tool!Reject, Tool!DenyEgress
<1>2. ThreadsTyped' /\ OnlyMoves(n) /\ Raises(n)
  BY <1>1, RaiseDeed DEF CallsIInv, Typed
<1>3. CallsTyped'
  BY <1>1 DEF CallsIInv, Typed, CallsTyped, Tool!bridge, Tool!history
<1>4. OnlyTouches(n)
  BY <1>1 DEF OnlyTouches, Tool!bridge, Tool!history
<1>5. \A r \in replies' : r[1] # Tool!Current(n)
  BY <1>1, NoReplies DEF Tool!Current
<1>6. Fails(n)
  BY <1>1, <1>2, <1>5 DEF Fails, Tool!history
<1> QED BY <1>2, <1>3, <1>4, <1>6 DEF Typed, Deed

LEMMA SendDeed ==
  ASSUME Tool!ToolCallsAssumption, CallsIInv, NEW n \in CallNodes,
         Tool!CallTarget(n) \/ Tool!CallModel(n) \/ Tool!CallTool(n)
  PROVE  Typed' /\ Deed(n)
<1>1. /\ Tool!Sends(n)
      /\ \/ CallKind[n] # "mcp" /\ passed' = passed \cup {Tool!Current(n)} /\ queue' = queue
         \/ CallKind[n] = "mcp" /\ queue' = queue \cup {Tool!Current(n)} /\ passed' = passed
  BY DEF Tool!CallTarget, Tool!CallModel, Tool!CallTool
<1>2. /\ Tool!Current(n) \in Tool!Calls /\ Tool!Current(n)[1] = n
      /\ \A m \in CallNodes : Tool!Current(m)' = Tool!Current(m)
  BY <1>1 DEF CallsIInv, Typed, ThreadsTyped, Tool!Sends, Tool!Current
<1>3. ThreadsTyped' /\ OnlyMoves(n)
  BY <1>1, <1>2 DEF CallsIInv, Typed, ThreadsTyped, Tool!Sends, OnlyMoves
<1>4. CallsTyped'
  BY <1>1, <1>2 DEF CallsIInv, Typed, CallsTyped, Tool!Sends, Tool!history
<1>5. OnlyTouches(n)
  BY <1>1, <1>2 DEF OnlyTouches, Tool!Sends, Tool!history
<1>6. AsksFor(n)
  BY <1>1 DEF CallsIInv, Typed, ThreadsTyped, AsksFor, Tool!Sends, Stays, Tool!history
<1> QED BY <1>3, <1>4, <1>5, <1>6 DEF Typed, Deed

\* The calls that end: what is forgotten is the thread's own.
LEMMA ForgetDeed ==
  ASSUME CallsIInv, NEW n \in CallNodes, step[n] = "waiting", Tool!Forget(n)
  PROVE  /\ replies' \subseteq replies /\ replies' \subseteq Tool!Calls \X {"good", "bad"}
         /\ \A r \in replies' : r[1] # Tool!Current(n)
         /\ \A r \in replies : r[1][1] # n => r \in replies'
  BY DEF CallsIInv, Typed, CallsTyped, Tool!Forget, Tool!Current

LEMMA AnswerDeed ==
  ASSUME Tool!ToolCallsAssumption, CallsIInv, NEW n \in CallNodes, Tool!Answer(n)
  PROVE  Typed' /\ Deed(n)
<1>1. PICK answer \in {"good", "bad"} :
        /\ <<Tool!Current(n), answer>> \in replies
        /\ \E emits \in Tool!Emits(n, answer) :
             emitted' = IF emits THEN [emitted EXCEPT ![n] = @ \cup {Tool!Current(n)}] ELSE emitted
        /\ IF ~Tool!Acceptable(n, answer) THEN Tool!TryAgain(n) /\ UNCHANGED accepted
           ELSE /\ accepted' = accepted \cup {Tool!Current(n)}
                /\ \/ Tool!InTime(n) /\ Tool!Resolve(n)
                   \/ (n \in Merging \/ ~Tool!InTime(n)) /\ Tool!Discard(n)
  BY DEF Tool!Answer
<1>2. /\ step[n] = "waiting" /\ Tool!Forget(n)
      /\ UNCHANGED <<late, Tool!bridge, passed, executed, expired>>
  BY DEF Tool!Answer
<1>3. /\ replies' \subseteq replies /\ replies' \subseteq Tool!Calls \X {"good", "bad"}
      /\ \A r \in replies' : r[1] # Tool!Current(n)
      /\ \A r \in replies : r[1][1] # n => r \in replies'
  BY <1>2, ForgetDeed
<1>4. /\ emitted' \in [CallNodes -> SUBSET Tool!Calls]
      /\ emitted'[n] \subseteq emitted[n] \cup {Tool!Current(n)}
      /\ \A m \in CallNodes \ {n} : emitted'[m] = emitted[m]
  BY <1>1 DEF CallsIInv, Typed, ThreadsTyped, CallsTyped
<1>5. /\ CallKind[n] \in {"http", "agent", "mcp"}
      /\ Tool!Current(n) \in Tool!Calls /\ Tool!Current(n)[1] = n
  BY DEF Tool!ToolCallsAssumption, CallsIInv, Typed, ThreadsTyped, Tool!Current
<1>6. /\ answer = "good" \/ CallKind[n] = "agent" => Tool!Current(n) \in executed
      /\ CallKind[n] # "mcp" => Tool!Current(n) \in passed
  BY <1>1, <1>2, <1>5 DEF CallsIInv, RepliesOK, ThreadOK
<1>7. executed \subseteq passed /\ accepted \subseteq passed
  BY DEF CallsIInv, Typed, CallsTyped
<1>8. CASE ~Tool!Acceptable(n, answer)
  <2>1. Tool!TryAgain(n) /\ accepted' = accepted
    BY <1>1, <1>8
  <2>2. ThreadsTyped' /\ OnlyMoves(n) /\ (Raises(n) \/ Repeats(n))
    BY <2>1, TryAgainDeed DEF CallsIInv, Typed
  <2>3. CallsTyped'
    BY <1>2, <1>3, <1>4, <2>1 DEF CallsIInv, Typed, CallsTyped, Tool!bridge
  <2>4. OnlyTouches(n)
    BY <1>2, <1>3, <1>4, <2>1 DEF OnlyTouches, Tool!bridge
  <2>5. Fails(n)
    BY <1>2, <1>3, <1>4, <2>1, <2>2 DEF Fails
  <2> QED BY <2>2, <2>3, <2>4, <2>5 DEF Typed, Deed
<1>9. CASE Tool!Acceptable(n, answer)
  <2>1. /\ accepted' = accepted \cup {Tool!Current(n)}
        /\ \/ n \notin late /\ Tool!Resolve(n)
           \/ n \in late \cup Merging /\ Tool!Discard(n)
    BY <1>1, <1>9 DEF Tool!InTime
  <2>2. Tool!Current(n) \in passed
    BY <1>5, <1>6, <1>7, <1>9 DEF Tool!Acceptable, Tool!HasResult
  <2>3. CallsTyped'
    BY <1>2, <1>3, <1>4, <2>1, <2>2 DEF CallsIInv, Typed, CallsTyped, Tool!bridge
  <2>4. OnlyTouches(n)
    BY <1>2, <1>3, <1>4, <1>5, <2>1 DEF OnlyTouches, Tool!bridge
  <2>5. CASE n \in late \cup Merging /\ Tool!Discard(n)
    <3>1. ThreadsTyped' /\ OnlyMoves(n) /\ Raises(n)
      BY <2>5, RaiseDeed DEF CallsIInv, Typed
    <3>2. Fails(n)
      BY <1>2, <1>3, <1>4, <2>1, <2>5, <3>1 DEF Fails
    <3> QED BY <2>3, <2>4, <3>1, <3>2 DEF Typed, Deed
  <2>6. CASE n \notin late /\ Tool!Resolve(n)
    <3>1. ThreadsTyped' /\ OnlyMoves(n) /\ Resolves(n)
      BY <1>4, <2>6, ResolveDeed DEF CallsIInv, Typed
    <3>2. n \notin Lenient => Tool!Current(n) \in executed
      BY <1>5, <1>6, <1>9 DEF Tool!Acceptable, Tool!StatusAllowed, Tool!HasResult
    <3>3. CallKind[n] # "agent" => Tool!Current(n) \in emitted'[n]
      <4>1. CallKind[n] # "agent" =>
              TRUE \in Tool!Emits(n, answer) /\ FALSE \notin Tool!Emits(n, answer)
        BY <1>5, <1>9 DEF Tool!Emits, Tool!Acceptable, Tool!HasResult
      <4>2. CallKind[n] # "agent" => emitted' = [emitted EXCEPT ![n] = @ \cup {Tool!Current(n)}]
        BY <1>1, <1>5, <1>9 DEF Tool!Emits, Tool!Acceptable, Tool!HasResult
      <4> QED BY <4>2 DEF CallsIInv, Typed, CallsTyped
    <3>4. Succeeds(n)
      BY <1>2, <1>3, <1>4, <2>1, <2>6, <3>1, <3>2, <3>3 DEF Succeeds
    <3> QED BY <2>3, <2>4, <3>1, <3>4 DEF Typed, Deed
  <2> QED BY <2>1, <2>5, <2>6
<1> QED BY <1>8, <1>9

LEMMA BreakDeed ==
  ASSUME Tool!ToolCallsAssumption, CallsIInv, NEW n \in CallNodes,
         Tool!Disconnect(n) \/ Tool!GiveUp(n)
  PROVE  Typed' /\ Deed(n)
<1>1. /\ step[n] = "waiting" /\ Tool!TryAgain(n) /\ Tool!Forget(n)
      /\ UNCHANGED <<emitted, Tool!bridge, passed, executed, accepted>>
      /\ UNCHANGED <<late, expired>> \/ Tool!Expire(n)
  BY DEF Tool!Disconnect, Tool!GiveUp, Tool!history
<1>2. ThreadsTyped' /\ OnlyMoves(n) /\ (Raises(n) \/ Repeats(n))
  BY <1>1, TryAgainDeed DEF CallsIInv, Typed
<1>3. /\ replies' \subseteq replies /\ replies' \subseteq Tool!Calls \X {"good", "bad"}
      /\ \A r \in replies' : r[1] # Tool!Current(n)
      /\ \A r \in replies : r[1][1] # n => r \in replies'
  BY <1>1, ForgetDeed
<1>4. Tool!Current(n) \in Tool!Calls /\ Tool!Current(n)[1] = n
  BY DEF CallsIInv, Typed, ThreadsTyped, Tool!Current
<1>5. CallsTyped'
  BY <1>1, <1>3, <1>4 DEF CallsIInv, Typed, CallsTyped, Tool!Expire, Tool!bridge
<1>6. OnlyTouches(n)
  BY <1>1, <1>3, <1>4 DEF OnlyTouches, Tool!Expire, Tool!bridge
<1>7. Fails(n)
  BY <1>1, <1>2, <1>3 DEF Fails, Tool!Expire
<1> QED BY <1>2, <1>5, <1>6, <1>7 DEF Typed, Deed

-----------------------------------------------------------------------------
(* Each part of the invariant is kept by each deed.                        *)

LEMMA CurrentStays ==
  ASSUME NEW n \in CallNodes, OnlyMoves(n)
  PROVE  \A m \in CallNodes \ {n} : Tool!Current(m)' = Tool!Current(m)
  BY DEF OnlyMoves, Tool!Current

LEMMA DeedThreads ==
  ASSUME CallsIInv, Typed', NEW n \in CallNodes, Deed(n)
  PROVE  \A m \in CallNodes : ThreadOK(m)'
<1>1. \A m \in CallNodes \ {n} : ThreadOK(m)'
  BY CurrentStays DEF CallsIInv, Deed, OnlyMoves, OnlyTouches, ThreadOK
<1>2. ThreadOK(n) /\ Tool!Current(n)[2] = tryout[n]
  BY DEF CallsIInv, Tool!Current
<1>3. ASSUME Begins(n) PROVE ThreadOK(n)'
  BY <1>3 DEF Begins, ThreadOK
<1>4. ASSUME AsksFor(n) PROVE ThreadOK(n)'
  BY <1>2, <1>4 DEF AsksFor, ThreadOK, Tool!Current
<1>5. ASSUME Fails(n) PROVE ThreadOK(n)'
  BY <1>2, <1>5 DEF Fails, Raises, Repeats, ThreadOK
<1>6. ASSUME Succeeds(n) PROVE ThreadOK(n)'
  BY <1>6 DEF Succeeds, Resolves, ThreadOK
<1> QED BY <1>1, <1>3, <1>4, <1>5, <1>6 DEF Deed

LEMMA DeedExpired ==
  ASSUME Tool!ToolCallsAssumption, CallsIInv, Typed', NEW n \in CallNodes, Deed(n)
  PROVE  \A m \in CallNodes : ExpiredOK(m)'
<1>1. /\ expired \subseteq Tool!Calls /\ expired' \subseteq Tool!Calls
      /\ Tool!Current(n)[2] = tryout[n]
  BY DEF CallsIInv, Typed, CallsTyped, Tool!Current
<1>2. \A m \in CallNodes \ {n} : ExpiredOK(m)'
  BY <1>1 DEF CallsIInv, Deed, OnlyMoves, OnlyTouches, ExpiredOK, Tool!Of
<1>3. /\ ThreadOK(n) /\ ExpiredOK(n) /\ tryout[n] \in Nat
      /\ \A c \in expired : c[1] = n => c[2] \in Nat
  BY CallsNumbered DEF CallsIInv, Typed, ThreadsTyped, CallsTyped
<1>4. ASSUME Begins(n) PROVE ExpiredOK(n)'
  BY <1>3, <1>4 DEF Begins, ExpiredOK, Tool!Of
<1>5. ASSUME AsksFor(n) PROVE ExpiredOK(n)'
  BY <1>3, <1>5 DEF Deed, AsksFor, ExpiredOK, Tool!Of
<1>6. ASSUME Fails(n) PROVE ExpiredOK(n)'
  BY <1>1, <1>3, <1>6 DEF Fails, Raises, Repeats, ThreadOK, ExpiredOK, Tool!Of
<1>7. ASSUME Succeeds(n) PROVE ExpiredOK(n)'
  BY <1>3, <1>7 DEF Succeeds, Resolves, ThreadOK, ExpiredOK, Tool!Of
<1> QED BY <1>2, <1>4, <1>5, <1>6, <1>7 DEF Deed

LEMMA DeedReplies ==
  ASSUME Tool!ToolCallsAssumption, CallsIInv, Typed', NEW n \in CallNodes, Deed(n)
  PROVE  RepliesOK' /\ BridgeOK'
<1>1. BridgeOK'
  BY DEF CallsIInv, BridgeOK, Deed, OnlyTouches
<1>2. ASSUME NEW r \in replies'
      PROVE  /\ Tool!Waiting(r[1])'
             /\ r[2] = "good" \/ CallKind[r[1][1]] = "agent" => r[1] \in executed'
  <2>1. /\ r \in replies /\ Tool!Waiting(r[1]) /\ r[1] \in Tool!Calls /\ r[1][1] \in CallNodes
        /\ r[2] = "good" \/ CallKind[r[1][1]] = "agent" => r[1] \in executed
    BY <1>2, CallsType DEF CallsIInv, Typed, CallsTyped, RepliesOK, Deed, OnlyTouches
  <2>2. executed' = executed
    BY DEF Deed, OnlyTouches
  <2>3. r[1][1] # n
    BY <2>1 DEF Deed, Begins, AsksFor, Fails, Succeeds, Tool!Waiting, CallsIInv, ThreadOK
  <2>4. Tool!Waiting(r[1])'
    BY <2>1, <2>3, CurrentStays DEF Tool!Waiting, Deed, OnlyMoves
  <2> QED BY <2>1, <2>2, <2>4
<1> QED BY <1>1, <1>2 DEF RepliesOK

LEMMA DeedAccepted ==
  ASSUME Tool!ToolCallsAssumption, CallsIInv, Typed', NEW n \in CallNodes, Deed(n)
  PROVE  Tool!AcceptedEndsNode'
<1>1. /\ accepted \subseteq Tool!Calls /\ accepted' \subseteq Tool!Calls
      /\ Tool!Current(n)[2] = tryout[n]
  BY DEF CallsIInv, Typed, CallsTyped, Tool!Current
<1>2. \A m \in CallNodes \ {n} : \A c \in Tool!Of(m, accepted') :
        \/ standing'[m] = "RESOLVED" /\ output'[m] = c
        \/ m \in TimedCalls \cup Merging /\ (c[2] < tryout'[m] \/ standing'[m] = "ERROR")
  BY <1>1 DEF CallsIInv, Deed, OnlyMoves, OnlyTouches, Tool!AcceptedEndsNode, Tool!Of
<1>3. /\ ThreadOK(n) /\ tryout[n] \in Nat /\ late \subseteq TimedCalls
      /\ \A c \in accepted : c[1] = n => c[2] \in Nat
  BY CallsNumbered DEF CallsIInv, Typed, ThreadsTyped, CallsTyped
<1>4. \A c \in Tool!Of(n, accepted) :
        \/ standing[n] = "RESOLVED" /\ output[n] = c
        \/ n \in TimedCalls \cup Merging /\ (c[2] < tryout[n] \/ standing[n] = "ERROR")
  BY DEF CallsIInv, Tool!AcceptedEndsNode
<1>. DEFINE Goal == \A c \in Tool!Of(n, accepted') :
        \/ standing'[n] = "RESOLVED" /\ output'[n] = c
        \/ n \in TimedCalls \cup Merging /\ (c[2] < tryout'[n] \/ standing'[n] = "ERROR")
<1>5. ASSUME Begins(n) PROVE Goal
  BY <1>4, <1>5 DEF Begins, Tool!Of
<1>6. ASSUME AsksFor(n) PROVE Goal
  BY <1>3, <1>4, <1>6 DEF AsksFor, ThreadOK, Stays, Tool!Of
<1>7. ASSUME Fails(n) PROVE Goal
  BY <1>1, <1>3, <1>4, <1>7 DEF Fails, Raises, Repeats, ThreadOK, Tool!Of
<1>8. ASSUME Succeeds(n) PROVE Goal
  BY <1>3, <1>4, <1>8 DEF Succeeds, Resolves, ThreadOK, Tool!Of
<1>9. Goal
  BY <1>5, <1>6, <1>7, <1>8 DEF Deed
<1> QED BY <1>2, <1>9 DEF Tool!AcceptedEndsNode, Tool!Of

\* What ResolvedIsExecuted says of one node.
CallsSettled(m) ==
  /\ output[m] = Tool!Current(m) /\ output[m] \in accepted
  /\ m \notin Lenient => output[m] \in executed
  /\ \A c \in reported[m] : c[2] = tryout[m]
  /\ CallKind[m] # "agent" => output[m] \in reported[m]
  /\ m \in TimedCalls => \A c \in Tool!Of(m, expired) : c[2] < tryout[m]

LEMMA DeedResolved ==
  ASSUME CallsIInv, Typed', NEW n \in CallNodes, Deed(n)
  PROVE  Tool!ResolvedIsExecuted'
<1>1. /\ accepted \subseteq Tool!Calls /\ accepted' \subseteq Tool!Calls
      /\ expired \subseteq Tool!Calls /\ expired' \subseteq Tool!Calls
  BY DEF CallsIInv, Typed, CallsTyped
<1>2. ASSUME NEW m \in CallNodes \ {n}, standing'[m] = "RESOLVED"
      PROVE  CallsSettled(m)'
  <2>1. CallsSettled(m) /\ Tool!Current(m)' = Tool!Current(m) /\ Tool!Current(m)[1] = m
    BY <1>2, CurrentStays DEF CallsIInv, Tool!ResolvedIsExecuted, CallsSettled, Deed, OnlyMoves,
      Tool!Current
  <2> QED BY <1>1, <2>1 DEF CallsSettled, Deed, OnlyMoves, OnlyTouches, Tool!Of
<1>3. ASSUME standing'[n] = "RESOLVED"
      PROVE  CallsSettled(n)'
  <2>1. ThreadOK(n) /\ ExpiredOK(n) /\ Tool!Current(n)[2] = tryout[n]
    BY DEF CallsIInv, Tool!Current
  <2>2. Succeeds(n)
    BY <1>3, <2>1 DEF Deed, Begins, AsksFor, Fails, Raises, Repeats, ThreadOK
  <2>3. Tool!Current(n)' = Tool!Current(n) /\ executed' = executed
    BY <2>2 DEF Succeeds, Resolves, Tool!Current, Deed, OnlyTouches
  <2> QED BY <2>1, <2>2, <2>3 DEF Succeeds, Resolves, CallsSettled, ThreadOK, ExpiredOK, Tool!Of
<1>4. \A m \in CallNodes : standing'[m] = "RESOLVED" => CallsSettled(m)'
  BY <1>2, <1>3
<1> QED BY <1>4 DEF Tool!ResolvedIsExecuted, CallsSettled

LEMMA DeedIInv ==
  ASSUME Tool!ToolCallsAssumption, CallsIInv, Typed', NEW n \in CallNodes, Deed(n)
  PROVE  CallsIInv'
  BY DeedThreads, DeedExpired, DeedReplies, DeedAccepted, DeedResolved DEF CallsIInv

-----------------------------------------------------------------------------
(* The clock, the bridge and those who are called.                         *)

LEMMA ClockIInv ==
  ASSUME CallsIInv, NEW n \in CallNodes, Tool!TimePasses(n)
  PROVE  CallsIInv'
<1>1. /\ UNCHANGED <<standing, tryout, try, step, emitted, reported, output, Tool!bridge,
                     passed, executed, replies, Tool!history>>
      /\ late' = late \cup {n} /\ n \in TimedCalls \ late /\ standing[n] = "IN_PROGRESS"
  BY DEF Tool!TimePasses
<1>2. Typed' /\ RepliesOK' /\ BridgeOK'
  BY <1>1 DEF CallsIInv, Typed, ThreadsTyped, CallsTyped, RepliesOK, BridgeOK, Tool!Waiting,
    Tool!Current, Tool!bridge, Tool!history
<1>3. \A m \in CallNodes : ThreadOK(m)' /\ ExpiredOK(m)'
  BY <1>1 DEF CallsIInv, ThreadOK, ExpiredOK, Tool!Of, Tool!Current, Tool!history
<1>4. Tool!AcceptedEndsNode' /\ Tool!ResolvedIsExecuted'
  BY <1>1 DEF CallsIInv, Tool!AcceptedEndsNode, Tool!ResolvedIsExecuted, Tool!Of, Tool!Current,
    Tool!history
<1> QED BY <1>2, <1>3, <1>4 DEF CallsIInv

\* More calls may arrive and be executed than before.
Outside ==
  /\ UNCHANGED <<Tool!thread, Tool!history>>
  /\ passed \subseteq passed' /\ executed \subseteq executed'

LEMMA OutsideKeeps ==
  ASSUME CallsIInv, Outside
  PROVE  /\ ThreadsTyped' /\ \A n \in CallNodes : ThreadOK(n)' /\ ExpiredOK(n)'
         /\ Tool!AcceptedEndsNode' /\ Tool!ResolvedIsExecuted'
<1>1. \A n \in CallNodes : Tool!Current(n)' = Tool!Current(n)
  BY DEF Outside, Tool!Current, Tool!thread
<1>2. ThreadsTyped'
  BY <1>1 DEF CallsIInv, Typed, ThreadsTyped, Outside, Tool!thread
<1>3. \A n \in CallNodes : ThreadOK(n)' /\ ExpiredOK(n)'
  BY <1>1 DEF CallsIInv, ThreadOK, ExpiredOK, Tool!Of, Outside, Tool!thread, Tool!history
<1>4. Tool!AcceptedEndsNode' /\ Tool!ResolvedIsExecuted'
  BY <1>1 DEF CallsIInv, Tool!AcceptedEndsNode, Tool!ResolvedIsExecuted, Tool!Of, Outside,
    Tool!thread, Tool!history
<1> QED BY <1>2, <1>3, <1>4

LEMMA SendReplies ==
  ASSUME CallsIInv, UNCHANGED Tool!thread, executed \subseteq executed', NEW c \in Tool!Calls,
         NEW answer \in {"good", "bad"}, Tool!Send(c, answer),
         answer = "good" \/ CallKind[c[1]] = "agent" => c \in executed
  PROVE  RepliesOK' /\ replies' \subseteq Tool!Calls \X {"good", "bad"}
<1>1. \A d : Tool!Waiting(d)' <=> Tool!Waiting(d)
  BY DEF Tool!Waiting, Tool!Current, Tool!thread
<1> QED BY <1>1 DEF CallsIInv, RepliesOK, Typed, CallsTyped, Tool!Send

LEMMA BridgeIInv ==
  ASSUME Tool!ToolCallsAssumption, CallsIInv, Tool!Bridge
  PROVE  CallsIInv'
<1>1. ASSUME NEW c \in queue, Tool!Take(c)
      PROVE  CallsIInv'
  <2>1. c \in Tool!Calls /\ CallKind[c[1]] = "mcp"
    BY DEF CallsIInv, Typed, CallsTyped, BridgeOK
  <2>2. Outside
    BY <1>1 DEF Outside, Tool!Take
  <2>3. CallsTyped' /\ BridgeOK'
    BY <1>1, <2>1 DEF CallsIInv, Typed, CallsTyped, BridgeOK, Tool!Take, Tool!thread, Tool!history
  <2>4. RepliesOK'
    BY <1>1 DEF CallsIInv, RepliesOK, Tool!Waiting, Tool!Current, Tool!Take, Tool!thread
  <2> QED BY <2>2, <2>3, <2>4, OutsideKeeps DEF CallsIInv, Typed
<1>2. ASSUME NEW c \in queue, Tool!TurnDown(c)
      PROVE  CallsIInv'
  <2>1. c \in Tool!Calls /\ CallKind[c[1]] = "mcp"
    BY DEF CallsIInv, Typed, CallsTyped, BridgeOK
  <2>2. Outside
    BY <1>2 DEF Outside, Tool!TurnDown
  <2>3. RepliesOK' /\ replies' \subseteq Tool!Calls \X {"good", "bad"}
    <3>1. UNCHANGED Tool!thread /\ executed \subseteq executed' /\ Tool!Send(c, "bad")
      BY <1>2 DEF Tool!TurnDown
    <3> QED BY <2>1, <3>1, SendReplies
  <2>4. CallsTyped' /\ BridgeOK'
    BY <1>2, <2>3 DEF CallsIInv, Typed, CallsTyped, BridgeOK, Tool!TurnDown, Tool!thread,
      Tool!history
  <2> QED BY <2>2, <2>3, <2>4, OutsideKeeps DEF CallsIInv, Typed
<1>3. ASSUME Tool!PassOn
      PROVE  CallsIInv'
  <2>1. serving \in Tool!Calls /\ CallKind[serving[1]] = "mcp"
    BY <1>3 DEF CallsIInv, Typed, CallsTyped, BridgeOK, Tool!PassOn
  <2>2. Outside
    BY <1>3 DEF Outside, Tool!PassOn
  <2>3. RepliesOK' /\ replies' \subseteq Tool!Calls \X {"good", "bad"}
    <3>1. PICK answer \in {"good", "bad"} :
            (answer = "good" => serving \in executed) /\ Tool!Send(serving, answer)
      BY <1>3 DEF Tool!PassOn
    <3>2. UNCHANGED Tool!thread /\ executed \subseteq executed'
      BY <1>3 DEF Tool!PassOn
    <3> QED BY <2>1, <3>1, <3>2, SendReplies
  <2>4. CallsTyped' /\ BridgeOK'
    BY <1>3, <2>3 DEF CallsIInv, Typed, CallsTyped, BridgeOK, Tool!PassOn, Tool!thread, Tool!history
  <2> QED BY <2>2, <2>3, <2>4, OutsideKeeps DEF CallsIInv, Typed
<1> QED BY <1>1, <1>2, <1>3 DEF Tool!Bridge

LEMMA WorldIInv ==
  ASSUME Tool!ToolCallsAssumption, CallsIInv, Tool!World
  PROVE  CallsIInv'
<1>1. ASSUME NEW c \in passed, Tool!Execute(c)
      PROVE  CallsIInv'
  <2>1. Outside
    BY <1>1 DEF Outside, Tool!Execute
  <2>2. CallsTyped' /\ BridgeOK' /\ RepliesOK'
    BY <1>1 DEF CallsIInv, Typed, CallsTyped, BridgeOK, RepliesOK, Tool!Waiting, Tool!Current,
      Tool!Execute, Tool!thread, Tool!bridge, Tool!history
  <2> QED BY <2>1, <2>2, OutsideKeeps DEF CallsIInv, Typed
<1>2. ASSUME NEW n \in CallNodes, Tool!Respond(n)
      PROVE  CallsIInv'
  <2>1. Outside
    BY <1>2 DEF Outside, Tool!Respond
  <2>2. Tool!Current(n) \in Tool!Calls /\ Tool!Current(n)[1] = n
    BY DEF CallsIInv, Typed, ThreadsTyped, Tool!Current
  <2>3. RepliesOK' /\ replies' \subseteq Tool!Calls \X {"good", "bad"}
    <3>1. PICK answer \in {"good", "bad"} :
            /\ (answer = "good" \/ CallKind[n] = "agent") => Tool!Current(n) \in executed
            /\ Tool!Send(Tool!Current(n), answer)
      BY <1>2 DEF Tool!Respond
    <3>2. UNCHANGED Tool!thread /\ executed \subseteq executed'
      BY <1>2 DEF Tool!Respond
    <3> QED BY <2>2, <3>1, <3>2, SendReplies
  <2>4. CallsTyped' /\ BridgeOK'
    BY <1>2, <2>3 DEF CallsIInv, Typed, CallsTyped, BridgeOK, Tool!Respond, Tool!thread,
      Tool!bridge, Tool!history
  <2> QED BY <2>1, <2>3, <2>4, OutsideKeeps DEF CallsIInv, Typed
<1> QED BY <1>1, <1>2 DEF Tool!World

LEMMA CallsNext ==
  ASSUME Tool!ToolCallsAssumption, CallsIInv, [Tool!Next]_Tool!vars
  PROVE  CallsIInv'
<1>1. ASSUME NEW n \in CallNodes, Tool!Thread(n)
      PROVE  CallsIInv'
  <2>1. Typed' /\ Deed(n)
    BY <1>1, StartDeed, RefusalDeed, SendDeed, AnswerDeed, BreakDeed DEF Tool!Thread
  <2> QED BY <2>1, DeedIInv
<1>2. ASSUME UNCHANGED Tool!vars
      PROVE  CallsIInv'
  <2>1. Outside /\ UNCHANGED <<Tool!bridge, passed, executed, replies>>
    BY <1>2 DEF Tool!vars, Outside
  <2>2. CallsTyped' /\ BridgeOK' /\ RepliesOK'
    BY <2>1 DEF CallsIInv, Typed, CallsTyped, BridgeOK, RepliesOK, Tool!Waiting, Tool!Current,
      Outside, Tool!thread, Tool!bridge, Tool!history
  <2> QED BY <2>1, <2>2, OutsideKeeps DEF CallsIInv, Typed
<1> QED BY <1>1, <1>2, ClockIInv, BridgeIInv, WorldIInv DEF Tool!Next

LEMMA CallsAlways == ASSUME Tool!ToolCallsAssumption PROVE Tool!Spec => []CallsIInv
  BY CallsInit, CallsNext, PTL DEF Tool!Spec

\* Threads, the bridge and the calls on their way keep their types; every thread is at an
\* attempt that max_retries allows, and at a try that retry_attempts allows.
THEOREM CallsTyping == ASSUME Tool!ToolCallsAssumption PROVE Tool!Spec => []Tool!TypeOK
<1>1. CallsIInv => Tool!TypeOK
  BY DEF CallsIInv, Typed, ThreadsTyped, CallsTyped, Tool!TypeOK
<1> QED BY <1>1, CallsAlways, PTL

\* IntegrationHTTPExecutor.execute and _execute_node stop at an answer that they accept: the
\* node is RESOLVED with it, or its timeout_s or the path of the state that the output goes to
\* has made the engine throw the answer away, and the node is at a later attempt or has failed.
THEOREM AcceptedEnds == ASSUME Tool!ToolCallsAssumption PROVE Tool!Spec => []Tool!AcceptedEndsNode
<1>1. CallsIInv => Tool!AcceptedEndsNode
  BY DEF CallsIInv
<1> QED BY <1>1, CallsAlways, PTL

\* The output that _execute_node records is the accepted answer of the node's last call, which
\* was executed unless the node takes any status; the events that left the engine are of the
\* last attempt, and with a timeout_s none of that attempt's requests has timed out.
THEOREM OutputIsExecuted ==
  ASSUME Tool!ToolCallsAssumption PROVE Tool!Spec => []Tool!ResolvedIsExecuted
<1>1. CallsIInv => Tool!ResolvedIsExecuted
  BY DEF CallsIInv
<1> QED BY <1>1, CallsAlways, PTL
=============================================================================
