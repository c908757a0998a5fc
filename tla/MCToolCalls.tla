---------------------------- MODULE MCToolCalls -----------------------------
(***************************************************************************)
(* Instances of ToolCalls for TLC.                                         *)
(***************************************************************************)
EXTENDS ToolCalls

\* Two nodes before the bridge; an http node with both retry budgets and a timeout_s, and
\* one without a timeout_s that accepts any status; an agent node with a timeout_s and a
\* schema, and one with neither; a node of each kind whose configuration is refused.  The
\* lenient http node and the first agent node write their outputs to paths of the state.
Reached    == {{"m1", "m2"}, {"h1"}, {"h2"}, {"a1"}, {"a2"}, {"m3"}, {"h3"}, {"a3"}}
AllNodes   == UNION Reached
KindOf     == [n \in AllNodes |-> CASE n \in {"h1", "h2", "h3"} -> "http"
                                     [] n \in {"a1", "a2", "a3"} -> "agent"
                                     [] OTHER                    -> "mcp"]
Retries    == [n \in AllNodes |-> 1]
InnerTries == [n \in AllNodes |-> 1]
TimedNodes == {"h1", "a1", "m2"}
Targeting  == {"h2", "a1"}
Rejected   == {"m3", "h3", "a3"}
WithSchema == {"a1"}
AnyStatus  == {"h2"}
=============================================================================
