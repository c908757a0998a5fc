------------------------------ MODULE MCEngine ------------------------------
(* Small workflow graphs for Engine.                                       *)
EXTENDS Engine, TLC

NoTargets == [n \in {} |-> {}]
NoLoop    == [n \in {} |-> 0]

\* A while loop whose body is a task and an interaction; then an if_else with a
\* task in one branch and an interaction in the other, joined before the end.
FlowNodes      == 1 .. 9
FlowEdges      == {<<1, 2>>, <<2, 3>>, <<3, 4>>, <<4, 2>>, <<2, 5>>, <<5, 6>>, <<5, 7>>,
                   <<6, 8>>, <<7, 8>>, <<8, 9>>}
FlowKind       == <<"start", "while", "task", "interaction", "if_else", "task",
                    "interaction", "task", "end">>
FlowTargets    == [n \in {5} |-> {6, 7}]
FlowBody       == [n \in {2} |-> 3]
FlowExit       == [n \in {2} |-> 5]
FlowLoopBack   == [n \in {2} |-> 4]
FlowIterations == [n \in {2} |-> 2]
FlowRetries    == [n \in FlowNodes |-> IF n \in {3, 8} THEN 1 ELSE 0]

\* A task that may be retried and an interaction in parallel, then the end: small
\* enough for two threads.  The task can bring back a run that a handler has failed.
PairNodes   == 1 .. 4
PairEdges   == {<<1, 2>>, <<1, 3>>, <<2, 4>>, <<3, 4>>}
PairKind    == <<"start", "task", "interaction", "end">>
PairRetries == [n \in PairNodes |-> IF n = 2 THEN 1 ELSE 0]

\* Both graphs are of the kind for which NeverStranded is proved.
ASSUME TidyAssumption == TidyGraph
=============================================================================
