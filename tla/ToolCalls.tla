------------------------------ MODULE ToolCalls ------------------------------
(***************************************************************************)
(* Calls that nodes of running workflows make to the world outside: an     *)
(* integration_http node calls its target, an agent node the model and an  *)
(* mcp node the MCP bridge, which calls the tool (executors/,              *)
(* mcp_bridge/service.py).  Two loops repeat a call: that of               *)
(* IntegrationHTTPExecutor.execute, inside an attempt of the node, and the *)
(* engine's, over attempts (runtime/engine.py, _execute_node).             *)
(*                                                                         *)
(* Each node is of a run of its own, in the thread of the one engine call  *)
(* that works on it (Engine has the calls that overlap).  Whoever is       *)
(* called executes the call at any time after it has arrived, also when    *)
(* the caller has given up, or never.  The bridge calls its tool from the  *)
(* event loop and waits there, so it serves one call at a time; the others *)
(* wait in front of it.                                                    *)
(***************************************************************************)
EXTENDS Naturals, FiniteSets

CONSTANTS
  Nodes,
  Kind,           \* [Nodes -> {"http", "agent", "mcp"}]
  MaxRetries,     \* [Nodes -> Nat]: config.max_retries
  RetryAttempts,  \* [Nodes -> Nat]: config.retry_attempts, of http nodes
  Timed,          \* the nodes with a config.timeout_s
  Merging,        \* the nodes that the engine may raise for when the executor has returned:
                  \* they write the output to a path of the state (response_state_target,
                  \* response_body_state_target, state_target), or their timeout_s is no number
  Misconfigured,  \* the nodes whose configuration no executor takes
  Structured,     \* the agent nodes that are to answer with JSON, or by a schema
  Lenient,        \* the http nodes that do not fail on a status
  Together,       \* sets of nodes that are reached together; a model starts one of them
  Nothing

Tries(n) == IF Kind[n] = "http" THEN RetryAttempts[n] + 1 ELSE 1

\* A call is named by its node, the node's attempt and the try within the attempt.
Calls == UNION {{n} \X (1 .. MaxRetries[n] + 1) \X (1 .. Tries(n)) : n \in Nodes}

ASSUME ToolCallsAssumption ==
  /\ Kind \in [Nodes -> {"http", "agent", "mcp"}]
  /\ MaxRetries \in [Nodes -> Nat] /\ RetryAttempts \in [Nodes -> Nat]
  /\ Timed \subseteq Nodes /\ Merging \subseteq Nodes /\ Misconfigured \subseteq Nodes
  /\ Structured \subseteq {n \in Nodes : Kind[n] = "agent"}
  /\ Lenient \subseteq {n \in Nodes : Kind[n] = "http"}
  /\ Together \subseteq SUBSET Nodes /\ Nothing \notin Calls

VARIABLES
  status,    \* the node run's status
  attempt,   \* its attempt
  try,       \* the executor's attempt
  step,      \* where the thread is
  late,      \* nodes whose attempt has taken longer than timeout_s
  emitted,   \* calls that the attempt has emitted an event for
  reported,  \* those whose event left the engine
  output,    \* the call whose answer is the node's output
  queue,     \* calls that wait in front of the bridge
  serving,   \* the call that it is passing on
  passed,    \* calls that have reached whoever executes them
  executed,  \* calls that were executed
  replies,   \* answers on their way to the caller: <<call, answer>>
  accepted,  \* history: calls whose answer the executor returned
  expired    \* history: calls of http nodes that timed out

thread  == <<status, attempt, try, step, late, emitted, reported, output>>
bridge  == <<queue, serving>>
history == <<accepted, expired>>
vars    == <<thread, bridge, passed, executed, replies, history>>

Current(n) == <<n, attempt[n], try[n]>>
Waiting(c) == step[c[1]] = "waiting" /\ Current(c[1]) = c

TypeOK ==
  /\ status \in [Nodes -> {"TO_DO", "IN_PROGRESS", "RESOLVED", "ERROR", "SKIPPED"}]
  /\ step \in [Nodes -> {"off", "request", "waiting"}]
  /\ \A n \in Nodes : Current(n) \in Calls
  /\ late \subseteq Timed
  /\ emitted \in [Nodes -> SUBSET Calls] /\ reported \in [Nodes -> SUBSET Calls]
  /\ output \in [Nodes -> Calls \cup {Nothing}]
  /\ queue \subseteq Calls /\ serving \in Calls \cup {Nothing}
  /\ executed \subseteq passed /\ passed \subseteq Calls
  /\ replies \subseteq Calls \X {"good", "bad"}
  /\ accepted \subseteq passed /\ expired \subseteq Calls

Init ==
  /\ \E reached \in Together :
       status = [n \in Nodes |-> IF n \in reached THEN "TO_DO" ELSE "SKIPPED"]
  /\ attempt = [n \in Nodes |-> 1] /\ try = [n \in Nodes |-> 1]
  /\ step = [n \in Nodes |-> "off"]
  /\ late = {} /\ passed = {} /\ executed = {} /\ accepted = {} /\ expired = {}
  /\ emitted = [n \in Nodes |-> {}] /\ reported = [n \in Nodes |-> {}]
  /\ output = [n \in Nodes |-> Nothing]
  /\ queue = {} /\ serving = Nothing
  /\ replies = {}

-----------------------------------------------------------------------------
(* The engine and the executors, in the thread of a node.                  *)

\* Variant: the retry is not counted.
MutFailAttempt(n) ==
  /\ IF attempt[n] <= MaxRetries[n]
     THEN status' = [status EXCEPT ![n] = "TO_DO"] /\ UNCHANGED attempt
     ELSE status' = [status EXCEPT ![n] = "ERROR"] /\ UNCHANGED attempt
  /\ step' = [step EXCEPT ![n] = "off"]
  /\ UNCHANGED <<try, reported>>

\* The except clause of _execute_node.  What the attempt has emitted is dropped.
FailAttempt(n) ==
  /\ IF attempt[n] <= MaxRetries[n]
     THEN status' = [status EXCEPT ![n] = "TO_DO"] /\ attempt' = [attempt EXCEPT ![n] = @ + 1]
     ELSE status' = [status EXCEPT ![n] = "ERROR"] /\ UNCHANGED attempt
  /\ step' = [step EXCEPT ![n] = "off"]
  /\ try' = [try EXCEPT ![n] = 1]
  /\ UNCHANGED reported

\* An exception leaves the executor.
Raise(n) == FailAttempt(n) /\ UNCHANGED output

\* The engine raises after the executor has returned: what it returned is already the
\* node's output, which only a retry takes back.
Discard(n) ==
  /\ FailAttempt(n)
  /\ output' = [output EXCEPT ![n] = IF attempt[n] <= MaxRetries[n] THEN Nothing ELSE Current(n)]

\* _execute_node.  The scheduler comes back to a node that is to be done again.
Start(n) ==
  /\ status[n] = "TO_DO"
  /\ status' = [status EXCEPT ![n] = "IN_PROGRESS"]
  /\ step' = [step EXCEPT ![n] = "request"]
  /\ try' = [try EXCEPT ![n] = 1]
  /\ late' = late \ {n}
  /\ emitted' = [emitted EXCEPT ![n] = {}]
  /\ UNCHANGED <<attempt, reported, output, bridge, passed, executed, replies, history>>

\* What an executor refuses before anything is sent: a url, method, authentication or
\* statuses that it cannot use; a bridge call without a server or a tool, or with a tool
\* that the node does not allow itself; a model provider without its key or version.
HTTPRejects(n)  == Kind[n] = "http"  /\ n \in Misconfigured
MCPRejects(n)   == Kind[n] = "mcp"   /\ n \in Misconfigured
AgentRejects(n) == Kind[n] = "agent" /\ n \in Misconfigured

Reject(n) ==
  /\ step[n] = "request"
  /\ HTTPRejects(n) \/ MCPRejects(n) \/ AgentRejects(n)
  /\ Raise(n)
  /\ UNCHANGED <<late, emitted, bridge, passed, executed, replies, history>>

\* validate_url looks the host up: what it finds may differ from attempt to attempt.
DenyEgress(n) ==
  /\ step[n] = "request" /\ try[n] = 1 /\ Kind[n] = "http" /\ n \notin Misconfigured
  /\ Raise(n)
  /\ UNCHANGED <<late, emitted, bridge, passed, executed, replies, history>>

\* The request leaves; whether it arrives is another matter.
Sends(n) ==
  /\ step[n] = "request" /\ n \notin Misconfigured
  /\ step' = [step EXCEPT ![n] = "waiting"]
  /\ UNCHANGED <<status, attempt, try, late, emitted, reported, output, serving,
                 executed, replies, history>>

CallTarget(n) ==
  /\ Kind[n] = "http" /\ Sends(n)
  /\ passed' = passed \cup {Current(n)} /\ UNCHANGED queue

\* The agent's stream is run to its end in an event loop of its own.
CallModel(n) ==
  /\ Kind[n] = "agent" /\ Sends(n)
  /\ passed' = passed \cup {Current(n)} /\ UNCHANGED queue

CallTool(n) ==
  /\ Kind[n] = "mcp" /\ Sends(n)
  /\ queue' = queue \cup {Current(n)} /\ UNCHANGED passed

\* While the thread waits, for an answer or before its next try.
TimePasses(n) ==
  /\ n \in Timed \ late /\ status[n] = "IN_PROGRESS"
  /\ late' = late \cup {n}
  /\ UNCHANGED <<status, attempt, try, step, emitted, reported, output, bridge,
                 passed, executed, replies, history>>

TryAgain(n) ==
  IF try[n] < Tries(n)
  THEN /\ try' = [try EXCEPT ![n] = @ + 1]
       /\ step' = [step EXCEPT ![n] = "request"]
       /\ UNCHANGED <<status, attempt, reported, output>>
  ELSE Raise(n)

\* An http node emits its event whatever the status is, an mcp node when it has a result,
\* an agent node when and if the model says something.
Emits(n, answer) ==
  CASE Kind[n] = "http"  -> {TRUE}
    [] Kind[n] = "mcp"   -> {answer = "good"}
    [] Kind[n] = "agent" -> BOOLEAN

\* A status that the node allows; an object with a result, and not an error, from the
\* bridge; from the model, what the node's schema wants if it has one.
StatusAllowed(n, answer) == n \notin Lenient => answer = "good"
HasResult(answer)        == answer = "good"
OutputFits(n, answer)    == n \in Structured => answer = "good"

Acceptable(n, answer) ==
  CASE Kind[n] = "http"  -> StatusAllowed(n, answer)
    [] Kind[n] = "mcp"   -> HasResult(answer)
    [] Kind[n] = "agent" -> OutputFits(n, answer)

\* Variant: a node without a timeout_s has a timeout of no time at all.
MutInTime(n) == n \in Timed \ late

\* The node's timeout_s is compared with the time that the whole attempt has taken.
InTime(n) == n \notin late

Resolve(n) ==
  /\ status' = [status EXCEPT ![n] = "RESOLVED"]
  /\ step' = [step EXCEPT ![n] = "off"]
  /\ output' = [output EXCEPT ![n] = Current(n)]
  /\ reported' = [reported EXCEPT ![n] = emitted'[n]]
  /\ UNCHANGED <<attempt, try>>

\* Nobody waits for the answer any more.
Forget(n) == replies' = {r \in replies : r[1] # Current(n)}

Answer(n) ==
  /\ step[n] = "waiting"
  /\ \E answer \in {"good", "bad"} :
       /\ <<Current(n), answer>> \in replies
       /\ \E emits \in Emits(n, answer) :
            emitted' = IF emits THEN [emitted EXCEPT ![n] = @ \cup {Current(n)}] ELSE emitted
       /\ IF ~Acceptable(n, answer) THEN TryAgain(n) /\ UNCHANGED accepted
          ELSE /\ accepted' = accepted \cup {Current(n)}
               /\ \/ InTime(n) /\ Resolve(n)
                  \/ (n \in Merging \/ ~InTime(n)) /\ Discard(n)
  /\ Forget(n)
  /\ UNCHANGED <<late, bridge, passed, executed, expired>>

\* The connection breaks.
Disconnect(n) ==
  /\ step[n] = "waiting"
  /\ TryAgain(n)
  /\ Forget(n)
  /\ UNCHANGED <<late, emitted, bridge, passed, executed, history>>

\* Variant: each try has a timeout_s of its own.
MutExpire(n) == late' = late /\ expired' = expired \cup {Current(n)}

Expire(n) == late' = late \cup ({n} \cap Timed) /\ expired' = expired \cup {Current(n)}

\* The client's timeout.  That of an http node is its timeout_s (10 s without one), so
\* that its attempt is late; that of the bridge's client is a setting of its own.
GiveUp(n) ==
  /\ step[n] = "waiting" /\ Kind[n] # "agent"
  /\ TryAgain(n)
  /\ Forget(n)
  /\ IF Kind[n] = "http" THEN Expire(n) ELSE UNCHANGED <<late, expired>>
  /\ UNCHANGED <<emitted, bridge, passed, executed, accepted>>

-----------------------------------------------------------------------------
(* The bridge, and those who are called.                                   *)

\* An answer that nobody waits for is lost.
Send(c, answer) == replies' = IF Waiting(c) THEN replies \cup {<<c, answer>>} ELSE replies

\* It cannot tell, once the call has been read, that nobody waits for the answer.
Take(c) ==
  /\ serving = Nothing /\ c \in queue
  /\ queue' = queue \ {c} /\ serving' = c
  /\ passed' = passed \cup {c}
  /\ UNCHANGED <<thread, executed, replies, history>>

\* The call is not allowed, or its caller was gone before it was read.
TurnDown(c) ==
  /\ serving = Nothing /\ c \in queue
  /\ queue' = queue \ {c}
  /\ Send(c, "bad")
  /\ UNCHANGED <<thread, serving, passed, executed, history>>

\* The tool's answer, or an error: the call to the tool has a timeout.
PassOn ==
  /\ serving # Nothing
  /\ \E answer \in {"good", "bad"} :
       (answer = "good" => serving \in executed) /\ Send(serving, answer)
  /\ serving' = Nothing
  /\ UNCHANGED <<thread, queue, passed, executed, history>>

Execute(c) ==
  /\ c \in passed \ executed
  /\ executed' = executed \cup {c}
  /\ UNCHANGED <<thread, bridge, passed, replies, history>>

\* A target's good answer tells that the call was executed, a bad one tells nothing.  The
\* model's answer is its execution.
Respond(n) ==
  /\ step[n] = "waiting" /\ Kind[n] # "mcp"
  /\ \A r \in replies : r[1] # Current(n)
  /\ \E answer \in {"good", "bad"} :
       /\ (answer = "good" \/ Kind[n] = "agent") => Current(n) \in executed
       /\ Send(Current(n), answer)
  /\ UNCHANGED <<thread, bridge, passed, executed, history>>

Thread(n) == \/ Start(n) \/ Reject(n) \/ DenyEgress(n)
             \/ CallTarget(n) \/ CallModel(n) \/ CallTool(n)
             \/ Answer(n) \/ Disconnect(n) \/ GiveUp(n)
Bridge    == (\E c \in queue : Take(c) \/ TurnDown(c)) \/ PassOn
World     == (\E c \in passed : Execute(c)) \/ (\E n \in Nodes : Respond(n))

Next == (\E n \in Nodes : Thread(n) \/ TimePasses(n)) \/ Bridge \/ World

Spec == Init /\ [][Next]_vars

\* Threads go on, and httpx raises when a timeout has passed; so does the bridge, whose
\* call to the tool has one; the model answers or closes the connection.
FairSpec == Spec /\ (\A n \in Nodes : WF_vars(Thread(n))) /\ WF_vars(Bridge)

-----------------------------------------------------------------------------
(* Properties.                                                             *)

Of(n, set)  == {c \in set : c[1] = n}
Over(n)     == status[n] \in {"RESOLVED", "ERROR"}

\* A node that has been answered acceptably calls no more, unless its timeout_s, or an
\* output that cannot be written where the state is to have it, has made the engine throw
\* the answer away: then the effect is repeated, or the node fails after it.
AcceptedEndsNode ==
  \A n \in Nodes : \A c \in Of(n, accepted) :
    \/ status[n] = "RESOLVED" /\ output[n] = c
    \/ n \in Timed \cup Merging /\ (c[2] < attempt[n] \/ status[n] = "ERROR")

\* The output of a resolved node is the answer of the last call that it made, which was
\* executed unless the node accepts any status, and the events that left the engine are
\* those of its last attempt.  None of that attempt's requests has timed out if the node has
\* a timeout_s, which is both the timeout of a request and that of the attempt: a retry
\* inside it is in vain.
ResolvedIsExecuted ==
  \A n \in Nodes : status[n] = "RESOLVED" =>
    /\ output[n] = Current(n) /\ output[n] \in accepted
    /\ n \notin Lenient => output[n] \in executed
    /\ \A c \in reported[n] : c[2] = attempt[n]
    /\ Kind[n] # "agent" => output[n] \in reported[n]
    /\ n \in Timed => \A c \in Of(n, expired) : c[2] < attempt[n]

\* Every node ends, whoever is slow or silent.
NodesEnd == \A n \in Nodes : status[n] = "TO_DO" ~> Over(n)
=============================================================================
