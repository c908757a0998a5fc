------------------------------- MODULE Engine -------------------------------
(***************************************************************************)
(* The workflow engine (apps/orchestrator/runtime/engine.py) running ONE   *)
(* run of ONE published workflow, together with the API handlers that work *)
(* on the same Run object.                                                 *)
(*                                                                         *)
(* An engine call is resume_interrupt or rerun_node with the               *)
(* execute_until_blocked that follows.  multi_service.py runs each in a    *)
(* thread of its own, and with the in-memory store, which hands out the    *)
(* object it keeps, nothing stops a second call on a Run from starting     *)
(* while the first is at work.  The variables phase to alone are those of  *)
(* the call whose thread runs; Switch gives way to another thread.  A step *)
(* is a node's start, the end of its handler, or what is between two nodes.*)
(*                                                                         *)
(* The graph is a parameter.  Node ids are naturals because the engine     *)
(* executes the runnable nodes of a pass in the order of their ids.  What  *)
(* expressions, executors and clocks decide (which branch is true, whether *)
(* a handler raises, whether a timeout has passed) is a nondeterministic   *)
(* choice; payloads are left out, except whether a node has an output.     *)
(***************************************************************************)
EXTENDS Integers, Sequences, FiniteSets

CONSTANTS
  Nodes,          \* node ids, ordered as the engine sorts them
  Edges,          \* pairs <<source, target>>
  Kind,           \* node type, with every executor-like type as "task"
  Targets,        \* if_else: branch targets and else_target
  Body,           \* while: body_target
  Exit,           \* while: exit_target
  LoopBack,       \* while: loop_back
  MaxIterations,  \* while: max_iterations
  MaxRetries,     \* every node: max_retries
  Timed,          \* nodes with a timeout_s
  Calls,          \* API calls the environment makes on the run
  SharedRun,      \* TRUE: a handler may get the Run object that a thread works on
  Others,         \* the threads, besides one, that engine calls on the Run may run in
  MaxInterrupts   \* bound on interrupts before reruns stop

NoNode == -1

Kinds == {"start", "if_else", "while", "task", "interaction", "end"}

IfElseNodes == {n \in Nodes : Kind[n] = "if_else"}
WhileNodes  == {n \in Nodes : Kind[n] = "while"}

ASSUME GraphAssumption ==
  /\ Nodes \subseteq Nat /\ IsFiniteSet(Nodes)
  /\ Edges \subseteq Nodes \X Nodes
  /\ Kind \in [Nodes -> Kinds]
  /\ Targets \in [IfElseNodes -> SUBSET Nodes]
  /\ Body \in [WhileNodes -> Nodes]
  /\ Exit \in [WhileNodes -> Nodes]
  /\ LoopBack \in [WhileNodes -> Nodes]
  /\ MaxIterations \in [WhileNodes -> Nat]
  /\ MaxRetries \in [Nodes -> Nat]
  /\ Timed \subseteq Nodes

ASSUME CallAssumption ==
  /\ Calls \subseteq {"resume", "rerun", "cancel_run", "cancel_interrupt"}
  /\ SharedRun \in BOOLEAN
  /\ Others # {} => SharedRun
  /\ MaxInterrupts \in Nat

VARIABLES
  status,      \* run.status
  nodeStatus,  \* run.node_runs[n].status; "NONE" when there is no node run
  attempt,     \* run.node_runs[n].attempt
  outputs,     \* nodes present in run.node_outputs
  interrupts,  \* run.interrupts, in order of creation
  branch,      \* run.branch_selection
  loops,       \* run.loop_state; 0 when absent
  skipped,     \* run.skipped_nodes
  phase,       \* where execute_until_blocked is: see Phases
  todo,        \* rest of the current pass's runnable list
  popped,      \* 0, or the attempt of the executed node's run, popped meanwhile
  alone,       \* no other engine call was under way since the call began
  parked,      \* the same of the calls in the other threads
  crossed,     \* history: nodes whose handler, in a call that was not alone, came
               \* back to a run that another call had made wait
  stored       \* the run has been saved, so that handlers can load it

run    == <<status, nodeStatus, attempt, outputs, interrupts, branch, loops, skipped>>
engine == <<phase, todo, popped, alone, parked, crossed>>
vars   == <<status, nodeStatus, attempt, outputs, interrupts, branch, loops,
            skipped, phase, todo, popped, alone, parked, crossed, stored>>

RunStatuses  == {"RUNNING", "WAITING_FOR_INPUT", "COMPLETED", "FAILED", "CANCELLED"}
NodeStatuses == {"NONE", "TO_DO", "IN_PROGRESS", "RESOLVED", "ERROR"}
Interrupt    == [node : Nodes, status : {"OPEN", "RESOLVED", "CANCELLED"}]
Phases       == {"idle",   \* no call of execute_until_blocked is running
                 "pass",   \* between two nodes
                 "node"}   \* in the handler of the least node of todo
EngineCalls  == [phase : Phases, todo : SUBSET Nodes, popped : Nat, alone : BOOLEAN]

TypeOK ==
  /\ status \in RunStatuses
  /\ nodeStatus \in [Nodes -> NodeStatuses]
  /\ attempt \in [Nodes -> Nat \ {0}]
  /\ outputs \subseteq Nodes
  /\ interrupts \in Seq(Interrupt)
  /\ branch \in [Nodes -> Nodes \cup {NoNode}]
  /\ loops \in [Nodes -> Nat]
  /\ skipped \subseteq Nodes
  /\ phase \in Phases
  /\ todo \subseteq Nodes
  /\ popped \in Nat
  /\ alone \in BOOLEAN
  /\ parked \in [Others -> EngineCalls]
  /\ crossed \subseteq Nodes
  /\ stored \in BOOLEAN

-----------------------------------------------------------------------------
(* The graph.                                                              *)

Pred(n) == {m \in Nodes : <<m, n>> \in Edges}
Succ(n) == {m \in Nodes : <<n, m>> \in Edges}

\* The least set that contains n and is closed under the edges.
ReachableBy(edges) ==
  [n \in Nodes |->
     {m \in Nodes : \A S \in SUBSET Nodes :
        (n \in S /\ \A e \in edges : e[1] \in S => e[2] \in S) => m \in S}]

Reachable == ReachableBy(Edges)

Downstream(n) == UNION {Reachable[m] : m \in Succ(n)}

LoopBody(n) ==
  {m \in Reachable[Body[n]] : LoopBack[n] \in Reachable[m]} \ {n}

-----------------------------------------------------------------------------
(* Scheduling.                                                             *)

IsEdgeActive(m, n) ==
  /\ m \notin skipped
  /\ Kind[m] \in {"if_else", "while"} => branch[m] = n

\* Variant: a while node treats its loop_back edge as any other.
MutAllInbound(n) == Pred(n)

\* A while node looks only at its loop_back edge once it has iterated, and
\* at every other edge before.
Dependencies(n) ==
  IF Kind[n] # "while" THEN Pred(n)
  ELSE IF loops[n] > 0 THEN Pred(n) \cap {LoopBack[n]}
  ELSE Pred(n) \ {LoopBack[n]}

\* Variant: one resolved dependency is enough.
MutAnyResolved(n) ==
  \/ Pred(n) = {}
  \/ \E m \in Dependencies(n) : IsEdgeActive(m, n) /\ nodeStatus[m] = "RESOLVED"

DependenciesResolved(n) ==
  \/ Pred(n) = {}
  \/ LET active == {m \in Dependencies(n) : IsEdgeActive(m, n)}
     IN  active # {} /\ \A m \in active : nodeStatus[m] = "RESOLVED"

LeftLoop(n) == Kind[n] = "while" /\ branch[n] = Exit[n]

IsRunnable(n) ==
  /\ n \notin skipped
  /\ IF Kind[n] = "while" /\ nodeStatus[n] = "RESOLVED"
     THEN ~LeftLoop(n)
     ELSE nodeStatus[n] \notin {"IN_PROGRESS", "RESOLVED", "ERROR"}
  /\ DependenciesResolved(n)

RunnableNodes == {n \in Nodes : IsRunnable(n)}

\* The next node of the pass, or the one whose handler runs.
IsCurrent(n) == n \in todo /\ \A m \in todo : n <= m

\* _execute_node returns at once on a node that settled since it was listed.
IsSettled(n) ==
  /\ nodeStatus[n] \in {"RESOLVED", "ERROR"}
  /\ Kind[n] = "while" => LeftLoop(n)

-----------------------------------------------------------------------------
(* The calls in the other threads.                                         *)

NoCall == [phase |-> "idle", todo |-> {}, popped |-> 0, alone |-> TRUE]

\* The call's thread is in the handler of n and sees its node run in node_runs.
Executes(call, n) ==
  /\ call.phase = "node" /\ call.popped = 0
  /\ n \in call.todo /\ \A m \in call.todo : n <= m

\* Node runs are popped: a thread goes on with the one that it executes.
Detached(call, reset) ==
  IF \E n \in reset : Executes(call, n)
  THEN [call EXCEPT !.popped = attempt[CHOOSE n \in reset : Executes(call, n)]]
  ELSE call

Overlapped(call) == IF call.phase = "idle" THEN call ELSE [call EXCEPT !.alone = FALSE]

\* An engine call begins in the thread at hand, which was idle.
BeginCall(reset) ==
  /\ stored /\ phase = "idle"
  /\ phase' = "pass"
  /\ alone' = (\A k \in Others : parked[k].phase = "idle")
  /\ parked' = [k \in Others |-> Overlapped(Detached(parked[k], reset))]
  /\ UNCHANGED <<todo, popped, crossed, stored>>

\* The thread at hand waits, and that of another call goes on.
Switch(k) ==
  /\ stored
  /\ phase' = parked[k].phase /\ todo' = parked[k].todo
  /\ popped' = parked[k].popped /\ alone' = parked[k].alone
  /\ parked' = [parked EXCEPT ![k] =
       [phase |-> phase, todo |-> todo, popped |-> popped, alone |-> alone]]
  /\ UNCHANGED <<run, crossed, stored>>

-----------------------------------------------------------------------------
Init ==
  /\ status = "RUNNING"
  /\ nodeStatus = [n \in Nodes |-> "NONE"]
  /\ attempt = [n \in Nodes |-> 1]
  /\ outputs = {}
  /\ interrupts = << >>
  /\ branch = [n \in Nodes |-> NoNode]
  /\ loops = [n \in Nodes |-> 0]
  /\ skipped = {}
  /\ phase = "pass"
  /\ todo = {}
  /\ popped = 0
  /\ alone = TRUE
  /\ parked = [k \in Others |-> NoCall]
  /\ crossed = {}
  /\ stored = FALSE

\* The while loop of execute_until_blocked computes a new list of runnable
\* nodes once the previous one is exhausted.
BeginPass ==
  /\ phase = "pass" /\ todo = {}
  /\ status = "RUNNING"
  /\ RunnableNodes # {}
  /\ todo' = RunnableNodes
  /\ UNCHANGED <<run, phase, popped, alone, parked, crossed, stored>>

\* The loop ends: the run is blocked, finished, or has nothing runnable left.
\* The caller then saves the run.
EndCall ==
  /\ phase = "pass" /\ todo = {}
  /\ status # "RUNNING" \/ RunnableNodes = {}
  /\ phase' = "idle" /\ alone' = TRUE
  /\ stored' = TRUE
  /\ UNCHANGED <<run, todo, popped, parked, crossed>>

SkipSettledNode(n) ==
  /\ phase = "pass" /\ IsCurrent(n) /\ IsSettled(n)
  /\ todo' = IF status = "RUNNING" THEN todo \ {n} ELSE {}
  /\ UNCHANGED <<run, phase, popped, alone, parked, crossed, stored>>

\* _execute_node up to the handler.
StartNode(n) ==
  /\ phase = "pass" /\ IsCurrent(n) /\ ~IsSettled(n)
  /\ phase' = "node"
  /\ nodeStatus' = [nodeStatus EXCEPT ![n] = "IN_PROGRESS"]
  /\ crossed' = crossed \ {n}
  /\ UNCHANGED <<status, attempt, outputs, interrupts, branch, loops, skipped,
                 todo, popped, alone, parked, stored>>

-----------------------------------------------------------------------------
(* The rest of _execute_node.  st, ns and outs are run.status, the node    *)
(* statuses and the node outputs as the handler of n leaves them.          *)

\* A popped node run is recreated with attempt 1.
FreshAttempt == 1

Attempts(ns) == [m \in Nodes |-> IF ns[m] = "NONE" THEN FreshAttempt ELSE attempt[m]]

\* Control is back in the loop over the pass, which stops when the run left
\* RUNNING.
BackInPass(n) ==
  /\ phase' = "pass"
  /\ todo' = IF status' = "RUNNING" THEN todo \ {n} ELSE {}
  /\ popped' = 0
  /\ crossed' = IF ~alone /\ Kind[n] # "interaction" /\ status' = "WAITING_FOR_INPUT"
                THEN crossed \cup {n} ELSE crossed
  /\ UNCHANGED <<alone, stored>>

\* The node run gets a status; one that was popped meanwhile is nobody's any more.
Marked(n, ns, st) == IF popped = 0 THEN [ns EXCEPT ![n] = st] ELSE ns

Returns(n, st, ns, outs) ==
  /\ status' = st
  /\ nodeStatus' = Marked(n, ns,
       CASE st = "FAILED"            -> "ERROR"
         [] st = "WAITING_FOR_INPUT" -> ns[n]
         [] OTHER                    -> "RESOLVED")
  /\ attempt' = Attempts(ns)
  /\ outputs' = outs
  /\ BackInPass(n)

MayRetry(n) == (IF popped = 0 THEN attempt[n] ELSE popped) <= MaxRetries[n]

\* Variant: the attempt is not counted.
MutRetryUncounted(n, ns, outs) ==
  /\ status' = "RUNNING"
  /\ nodeStatus' = Marked(n, ns, "TO_DO")
  /\ attempt' = Attempts(ns)
  /\ outputs' = outs \ {n}

Retry(n, ns, outs) ==
  /\ status' = "RUNNING"
  /\ nodeStatus' = Marked(n, ns, "TO_DO")
  /\ attempt' = IF popped = 0 THEN [Attempts(ns) EXCEPT ![n] = attempt[n] + 1] ELSE Attempts(ns)
  /\ outputs' = outs \ {n}

Fail(n, ns, outs) ==
  /\ status' = "FAILED"
  /\ nodeStatus' = Marked(n, ns, "ERROR")
  /\ attempt' = Attempts(ns)
  /\ outputs' = outs

Throws(n, ns, outs) ==
  /\ \/ MayRetry(n) /\ Retry(n, ns, outs)
     \/ ~MayRetry(n) /\ Fail(n, ns, outs)
  /\ BackInPass(n)

\* A handler that returned is timed out afterwards, its effects in place.
Finishes(n, st, ns, outs) ==
  \/ Returns(n, st, ns, outs)
  \/ n \in Timed /\ Throws(n, ns, outs)

Handling(n, kinds) ==
  /\ phase = "node" /\ IsCurrent(n)
  /\ Kind[n] \in kinds

\* The handler raises: a failed expression, an executor error, an if_else
\* without a true branch or else_target.  Only a task may have left its output
\* by then (an agent whose result cannot be merged into the state).
HandlerRaises(n) ==
  /\ Handling(n, Kinds \ {"start", "end"})
  /\ \E outs \in {outputs, outputs \cup {n}} :
       /\ outs # outputs => Kind[n] = "task"
       /\ Throws(n, nodeStatus, outs)
  /\ UNCHANGED <<interrupts, branch, loops, skipped, parked>>

HandleStart(n) ==
  /\ Handling(n, {"start"})
  /\ Finishes(n, status, nodeStatus, outputs \cup {n})
  /\ UNCHANGED <<interrupts, branch, loops, skipped, parked>>

\* set_state, agent, mcp, integration_http and output: the node gets an
\* output; an executor may also mark the run FAILED without raising.
HandleTask(n) ==
  /\ Handling(n, {"task"})
  /\ \E st \in {status, "FAILED"} :
       Finishes(n, st, nodeStatus, outputs \cup {n})
  /\ UNCHANGED <<interrupts, branch, loops, skipped, parked>>

HandleIfElse(n) ==
  /\ Handling(n, {"if_else"})
  /\ \E t \in Targets[n] :
       /\ branch' = [branch EXCEPT ![n] = t]
       /\ skipped' = skipped \cup
            ((UNION {Reachable[u] : u \in Targets[n] \ {t}}) \ Reachable[t])
       /\ Finishes(n, status, nodeStatus, outputs)
  /\ UNCHANGED <<interrupts, loops, parked>>

\* Variant: only the node runs of the body are reset, not its outputs.
MutEnterKeepsOutputs(n) ==
  /\ Handling(n, {"while"})
  /\ loops[n] < MaxIterations[n]
  /\ loops' = [loops EXCEPT ![n] = @ + 1]
  /\ branch' = [branch EXCEPT ![n] = Body[n]]
  /\ Finishes(n, status,
       [m \in Nodes |-> IF m \in LoopBody(n) THEN "NONE" ELSE nodeStatus[m]],
       outputs)
  /\ parked' = [k \in Others |-> Detached(parked[k], LoopBody(n))]
  /\ UNCHANGED <<interrupts, skipped>>

\* The condition is true: the loop body is reset and entered.
HandleWhileEnter(n) ==
  /\ Handling(n, {"while"})
  /\ loops[n] < MaxIterations[n]
  /\ loops' = [loops EXCEPT ![n] = @ + 1]
  /\ branch' = [branch EXCEPT ![n] = Body[n]]
  /\ Finishes(n, status,
       [m \in Nodes |-> IF m \in LoopBody(n) THEN "NONE" ELSE nodeStatus[m]],
       outputs \ LoopBody(n))
  /\ parked' = [k \in Others |-> Detached(parked[k], LoopBody(n))]
  /\ UNCHANGED <<interrupts, skipped>>

HandleWhileLeave(n) ==
  /\ Handling(n, {"while"})
  /\ loops[n] < MaxIterations[n]
  /\ branch' = [branch EXCEPT ![n] = Exit[n]]
  /\ Finishes(n, status, nodeStatus, outputs)
  /\ UNCHANGED <<interrupts, loops, skipped, parked>>

HandleInteraction(n) ==
  /\ Handling(n, {"interaction"})
  /\ interrupts' = Append(interrupts, [node |-> n, status |-> "OPEN"])
  /\ Finishes(n, "WAITING_FOR_INPUT", nodeStatus, outputs)
  /\ UNCHANGED <<branch, loops, skipped, parked>>

HandleEnd(n) ==
  /\ Handling(n, {"end"})
  /\ Finishes(n, "COMPLETED", nodeStatus, outputs)
  /\ UNCHANGED <<interrupts, branch, loops, skipped, parked>>

-----------------------------------------------------------------------------
(* API calls.  resume and rerun call execute_until_blocked afterwards.     *)

\* Variant: an interrupt can be answered twice.
MutResumeAnswered(i) ==
  /\ "resume" \in Calls /\ BeginCall({})
  /\ LET n == interrupts[i].node
     IN  /\ interrupts' = [interrupts EXCEPT ![i].status = "RESOLVED"]
         /\ nodeStatus' = [nodeStatus EXCEPT ![n] =
              IF @ = "NONE" THEN @ ELSE "RESOLVED"]
  /\ status' = "RUNNING"
  /\ UNCHANGED <<attempt, outputs, branch, loops, skipped>>

Resume(i) ==
  /\ "resume" \in Calls /\ BeginCall({})
  /\ interrupts[i].status = "OPEN"
  /\ LET n == interrupts[i].node
     IN  /\ interrupts' = [interrupts EXCEPT ![i].status = "RESOLVED"]
         /\ nodeStatus' = [nodeStatus EXCEPT ![n] =
              IF @ = "NONE" THEN @ ELSE "RESOLVED"]
         /\ outputs' \in {outputs, outputs \cup {n}}  \* empty input or not
  /\ status' = "RUNNING"
  /\ UNCHANGED <<attempt, branch, loops, skipped>>

ResetNodes(n, scope) ==
  {n} \cup (IF scope = "downstream" THEN Downstream(n) ELSE {})

Rerun(n, scope) ==
  /\ "rerun" \in Calls /\ BeginCall(ResetNodes(n, scope))
  /\ Len(interrupts) < MaxInterrupts
  /\ LET reset == ResetNodes(n, scope)
     IN  /\ nodeStatus' = [m \in Nodes |-> IF m \in reset THEN "NONE" ELSE nodeStatus[m]]
         /\ attempt' = [m \in Nodes |-> IF m \in reset THEN FreshAttempt ELSE attempt[m]]
         /\ outputs' = outputs \ reset
  /\ UNCHANGED <<status, interrupts, branch, loops, skipped>>

\* A handler can load the run once it is stored.  With the in-memory store it
\* gets the object that the engine threads are working on.
HandlerCanTouchRun == stored /\ (phase = "idle" \/ SharedRun)

CancelRun ==
  /\ "cancel_run" \in Calls /\ HandlerCanTouchRun
  /\ status' = "CANCELLED"
  /\ UNCHANGED <<nodeStatus, attempt, outputs, interrupts, branch, loops,
                 skipped, engine, stored>>

\* Variant: the run is left as it is.
MutCancelKeepsRun(i) ==
  /\ "cancel_interrupt" \in Calls /\ HandlerCanTouchRun
  /\ interrupts' = [interrupts EXCEPT ![i].status = "CANCELLED"]
  /\ nodeStatus' = [nodeStatus EXCEPT ![interrupts[i].node] =
       IF @ = "NONE" THEN @ ELSE "ERROR"]
  /\ UNCHANGED <<status, attempt, outputs, branch, loops, skipped, engine, stored>>

\* Variant: the node is left as it is.
MutCancelKeepsNode(i) ==
  /\ "cancel_interrupt" \in Calls /\ HandlerCanTouchRun
  /\ interrupts' = [interrupts EXCEPT ![i].status = "CANCELLED"]
  /\ status' = "FAILED"
  /\ UNCHANGED <<nodeStatus, attempt, outputs, branch, loops, skipped, engine, stored>>

CancelInterrupt(i) ==
  /\ "cancel_interrupt" \in Calls /\ HandlerCanTouchRun
  /\ interrupts' = [interrupts EXCEPT ![i].status = "CANCELLED"]
  /\ status' = "FAILED"
  /\ nodeStatus' = [nodeStatus EXCEPT ![interrupts[i].node] =
       IF @ = "NONE" THEN @ ELSE "ERROR"]
  /\ UNCHANGED <<attempt, outputs, branch, loops, skipped, engine, stored>>

-----------------------------------------------------------------------------
Handle(n) ==
  \/ HandlerRaises(n)
  \/ HandleStart(n)
  \/ HandleTask(n)
  \/ HandleIfElse(n)
  \/ HandleWhileEnter(n)
  \/ HandleWhileLeave(n)
  \/ HandleInteraction(n)
  \/ HandleEnd(n)

ExecuteUntilBlocked ==
  \/ BeginPass
  \/ EndCall
  \/ \E n \in Nodes : SkipSettledNode(n) \/ StartNode(n) \/ Handle(n)

ApiCall ==
  \/ \E i \in DOMAIN interrupts : Resume(i) \/ CancelInterrupt(i)
  \/ \E n \in Nodes, scope \in {"node_only", "downstream"} : Rerun(n, scope)
  \/ CancelRun

Preempt == \E k \in Others : Switch(k)

\* Nothing can happen to a run that no API call may touch any more.
Rest == phase = "idle" /\ UNCHANGED vars

Next == ExecuteUntilBlocked \/ ApiCall \/ Preempt \/ Rest

\* A thread runs the engine call to its end, where it is the only one; nobody owes the run
\* an API call.
Spec == Init /\ [][Next]_vars /\ WF_vars(ExecuteUntilBlocked)

-----------------------------------------------------------------------------
(* Tidy graphs.  The engine takes any graph; some it cannot bring to an    *)
(* end.  In a tidy one every path leads on to an end, what the choice of a *)
(* condition can cut off is entered through that condition only, and the   *)
(* body of a loop is entered and left through its while node and holds     *)
(* neither conditions nor loops, whose choices a new iteration keeps.      *)

\* All edges but those that close a loop.
Forward == {e \in Edges : ~(e[2] \in WhileNodes /\ e[1] = LoopBack[e[2]])}

Ahead == ReachableBy(Forward)

\* What condition d skips when it chooses t.
CutOff(d, t) == Downstream(d) \ Reachable[t]

TidyPaths ==
  /\ Nodes # {}
  /\ \A e \in Forward : e[1] \notin Ahead[e[2]]
  /\ \A n \in Nodes : Kind[n] # "end" => Succ(n) # {}

TidyBranches ==
  \A d \in IfElseNodes :
    /\ Succ(d) = Targets[d]
    /\ \A t \in Targets[d] : \A n \in CutOff(d, t) :
         Pred(n) \subseteq Downstream(d) \cup {d}

TidyLoops ==
  \A w \in WhileNodes :
    /\ Succ(w) = {Body[w], Exit[w]} /\ Pred(w) \ {LoopBack[w]} # {}
    /\ Body[w] \in LoopBody(w) /\ Exit[w] \notin LoopBody(w)
    /\ Pred(w) \cap LoopBody(w) = {LoopBack[w]}
    /\ \A n \in LoopBody(w) :
         /\ Kind[n] \in {"task", "interaction"}
         /\ Pred(n) \cup Succ(n) \subseteq LoopBody(w) \cup {w}

TidyGraph == TidyPaths /\ TidyBranches /\ TidyLoops

-----------------------------------------------------------------------------
(* Properties.                                                             *)

OpenInterrupts == {i \in DOMAIN interrupts : interrupts[i].status = "OPEN"}

\* A run that waits for input has an interrupt that resume_interrupt accepts,
\* whatever was cancelled, rerun or timed out before.
WaitingIsAnswerable == status = "WAITING_FOR_INPUT" => OpenInterrupts # {}

\* A node left IN_PROGRESS is never run again by _runnable_nodes; so it is a node whose
\* handler runs, or an interaction that can still be answered.  Only the handler of a call
\* that overlapped with another one may leave a node so, when the other one made the run
\* wait.
InProgressIsAccounted ==
  \A n \in Nodes : nodeStatus[n] = "IN_PROGRESS" =>
    \/ phase = "node" /\ IsCurrent(n) /\ popped = 0
    \/ \E k \in Others : Executes(parked[k], n)
    \/ Kind[n] = "interaction" /\ \E i \in OpenInterrupts : interrupts[i].node = n
    \/ n \in crossed

\* No node of a call that nothing overlaps starts once a node of its pass has blocked or
\* completed the run: only a cancellation changes the status under it, and nothing is
\* queued between two calls.
PassStopsWithRun ==
  /\ phase = "idle" => todo = {}
  /\ phase = "node" => todo # {}
  /\ alone /\ todo # {} => status \in {"RUNNING", "CANCELLED", "FAILED"}

\* A node run makes at most max_retries + 1 attempts, however its handler
\* fails and whichever resets come between.
AttemptsBounded == \A n \in Nodes : attempt[n] <= MaxRetries[n] + 1

\* node_outputs holds nothing of a discarded attempt or a previous iteration:
\* what a later expression reads was produced by a node run that is settled.
OutputsAreSettled ==
  \A n \in outputs : nodeStatus[n] \in {"RESOLVED", "ERROR"}

\* execute_until_blocked never gives up on a run that it leaves RUNNING, as no
\* later call would go on with it.
NeverStranded == phase = "idle" => status # "RUNNING"

Starts(n) == nodeStatus[n] # "IN_PROGRESS" /\ nodeStatus'[n] = "IN_PROGRESS"

\* m was skipped or is done, or its interrupt was cancelled, which fails it afterwards.
Settled(m) ==
  \/ m \in skipped
  \/ nodeStatus[m] = "RESOLVED"
  \/ /\ nodeStatus[m] = "ERROR"
     /\ \E i \in DOMAIN interrupts : interrupts[i].node = m /\ interrupts[i].status = "CANCELLED"

\* A call that no other one overlaps starts a node only when every inbound dependency is
\* settled; a while node is entered by one kind of edge only.
StartsAfterDependencies ==
  [][alone => \A n \in Nodes \ WhileNodes : Starts(n) => \A m \in Pred(n) : Settled(m)]_vars

\* Every call of execute_until_blocked returns.
CallReturns == phase # "idle" ~> phase = "idle"

Lifecycle == INSTANCE RunLifecycle WITH status <- status

\* A run that is only answered (no reruns, no cancellations, no interaction
\* that times out) goes through the statuses as the lifecycle has it: it moves
\* from RUNNING and back as it waits and is answered, it never leaves a final
\* status, and it does not stay RUNNING.
ImplementsLifecycle == Lifecycle!Spec
=============================================================================
