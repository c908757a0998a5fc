----------------------------- MODULE RunIntake ------------------------------
(***************************************************************************)
(* Calls from other systems that start runs: a handoff package is created  *)
(* or replayed (api/app.py, api/handoff_store.py), and a signed webhook    *)
(* starts a run or answers its interrupt (webhooks/service.py).  A partner *)
(* sends a call again when it got no answer, with the same Idempotency-Key.*)
(*                                                                         *)
(* One tenant, one key and one integration; a call that is malformed or    *)
(* not signed changes nothing and is left out.  The stores are Postgres:   *)
(* the memory stores do in one step what Postgres does in two.  A run is a *)
(* row, which a save rewrites with its interrupts; every run waits for one *)
(* interrupt, which webhooks may answer.                                   *)
(***************************************************************************)
EXTENDS Integers, FiniteSets

CONSTANTS
  Requests,     \* the calls; a package and a run have the name of the call that made them
  Payloads,     \* workflows with their inputs
  Nothing,      \* no package, run or reply
  MaxInFlight,  \* bound on the calls in flight
  MaxExpiries   \* bound on the replies that expire

VARIABLES
  packages,    \* workflow_handoffs
  runs,        \* the payload that a stored run executes
  open,        \* is its interrupt OPEN in a stored run
  replies,     \* idempotency_keys of the API: the call whose reply is remembered
  req,         \* what a call asks for
  pc,          \* where a call is
  of,          \* handoff_record of a call
  sawOpen,     \* is the interrupt OPEN in a call's copy of the run it works on
  outcome,     \* what became of a call
  after,       \* history: the calls that had ended when a call came in
  answers,     \* history: calls whose answer was accepted
  forgotten,   \* history: scopes whose reply expired or was not remembered
  expiries     \* replies that expired so far

stored  == <<packages, runs, open, replies>>
history == <<after, answers, forgotten, expiries>>
vars    == <<stored, req, pc, of, sawOpen, outcome, history>>

Kinds    == {"create", "replay", "start", "resume"}
Asked    == [kind : Kinds, keyed : BOOLEAN, replayable : BOOLEAN,
             payload : Payloads \cup {Nothing}, names : Requests \cup {Nothing}]
Scopes   == {"create", "replay"} \X (Requests \cup {Nothing})
Packages == [payload : Payloads, replayable : BOOLEAN, run : Requests \cup {Nothing},
             status : {"RECEIVED", "STARTED", "REPLAYED", "FAILED"}]
Steps    == {"off", "lookup", "find", "insert", "get", "start", "fail", "load", "resume",
             "save", "update", "remember", "done"}
\* replayed: the remembered reply; refused and failed: an error the code replies;
\* broken: an exception nobody handles, or the process stopped.
Outcomes == {"none", "ok", "replayed", "refused", "failed", "broken"}

ASSUME IntakeAssumption ==
  /\ IsFiniteSet(Requests)
  /\ Nothing \notin Requests \cup Payloads \cup Asked \cup Packages
  /\ MaxInFlight \in Nat /\ MaxExpiries \in Nat

TypeOK ==
  /\ packages \in [Requests -> Packages \cup {Nothing}]
  /\ runs \in [Requests -> Payloads \cup {Nothing}]
  /\ open \in [Requests -> BOOLEAN]
  /\ replies \in [Scopes -> Requests \cup {Nothing}]
  /\ req \in [Requests -> Asked \cup {Nothing}]
  /\ pc \in [Requests -> Steps]
  /\ of \in [Requests -> Requests \cup {Nothing}]
  /\ \A q \in Requests : of[q] # Nothing => packages[of[q]] # Nothing
  /\ sawOpen \in [Requests -> BOOLEAN]
  /\ outcome \in [Requests -> Outcomes]
  /\ \A q \in Requests : (pc[q] = "off") = (req[q] = Nothing)
  /\ after \in [Requests -> SUBSET Requests]
  /\ answers \subseteq Requests
  /\ forgotten \subseteq Scopes
  /\ expiries \in 0 .. MaxExpiries

Init ==
  /\ packages = [q \in Requests |-> Nothing]
  /\ runs = [q \in Requests |-> Nothing]
  /\ open = [q \in Requests |-> FALSE]
  /\ replies = [s \in Scopes |-> Nothing]
  /\ req = [q \in Requests |-> Nothing]
  /\ pc = [q \in Requests |-> "off"]
  /\ of = [q \in Requests |-> Nothing]
  /\ sawOpen = [q \in Requests |-> FALSE]
  /\ outcome = [q \in Requests |-> "none"]
  /\ after = [q \in Requests |-> {}]
  /\ answers = {} /\ forgotten = {} /\ expiries = 0

-----------------------------------------------------------------------------
InFlight(q)   == pc[q] \notin {"off", "done"}
Goto(q, step) == pc' = [pc EXCEPT ![q] = step]
Creates(q)    == req[q].kind = "create"
IsHandoff(q)  == req[q].kind \in {"create", "replay"}
ScopeOf(q)    == <<req[q].kind, req[q].names>>

End(q, result) ==
  /\ Goto(q, "done")
  /\ outcome' = [outcome EXCEPT ![q] = result]

\* _idempotent reads the key with request.headers.get, whatever its case.  A webhook's
\* headers are a plain dict, dict(request.headers), whose names are in lower case (as
\* ASGI delivers them), and handle_inbound looks for "Idempotency-Key" in it.
SeesKey(q) == req[q].keyed /\ IsHandoff(q)

\* A replay names a package, a webhook that answers an interrupt names its run.
Receive(q) ==
  /\ pc[q] = "off"
  /\ Cardinality({r \in Requests : InFlight(r)}) < MaxInFlight
  /\ \E asked \in Asked :
       /\ (asked.names = Nothing) = (asked.kind \notin {"replay", "resume"})
       /\ (asked.payload = Nothing) = (asked.kind \notin {"create", "start"})
       /\ asked.replayable => asked.kind = "create"
       /\ req' = [req EXCEPT ![q] = asked]
       /\ Goto(q, CASE asked.kind = "start"  -> "start"
                    [] asked.kind = "resume" -> "load"
                    [] OTHER                 -> "lookup")
  /\ after' = [after EXCEPT ![q] = {r \in Requests : pc[r] = "done"}]
  /\ UNCHANGED <<stored, of, sawOpen, outcome, answers, forgotten, expiries>>

-----------------------------------------------------------------------------
(* A handoff: its key, its package.                                        *)

LookUp(q) ==
  /\ pc[q] = "lookup"
  /\ IF SeesKey(q) /\ replies[ScopeOf(q)] # Nothing
     THEN End(q, "replayed")
     ELSE /\ Goto(q, CASE ~Creates(q)                -> "get"
                       [] Creates(q) /\ req[q].keyed -> "find"
                       [] OTHER                      -> "insert")
          /\ UNCHANGED outcome
  /\ UNCHANGED <<stored, req, of, sawOpen, history>>

\* Variant: any package of the tenant.
MutWithKey == {p \in Requests : packages[p] # Nothing}

\* Packages are unique by tenant and key; keys that are null do not count.
WithKey == {p \in Requests : packages[p] # Nothing /\ req[p].keyed}

\* A package that is found is used as it is: the call's own payload is not compared.
Find(q) ==
  /\ pc[q] = "find"
  /\ IF WithKey = {}
     THEN Goto(q, "insert") /\ UNCHANGED of
     ELSE /\ \E p \in WithKey : of' = [of EXCEPT ![q] = p]
          /\ Goto(q, "start")
  /\ UNCHANGED <<stored, req, sawOpen, outcome, history>>

Insert(q) ==
  /\ pc[q] = "insert"
  /\ IF req[q].keyed /\ WithKey # {}
     THEN End(q, "broken") /\ UNCHANGED <<packages, of>>
     ELSE /\ packages' = [packages EXCEPT ![q] =
               [payload |-> req[q].payload, replayable |-> req[q].replayable,
                run |-> Nothing, status |-> "RECEIVED"]]
          /\ of' = [of EXCEPT ![q] = q]
          /\ Goto(q, "start") /\ UNCHANGED outcome
  /\ UNCHANGED <<runs, open, replies, req, sawOpen, history>>

GetPackage(q) ==
  /\ pc[q] = "get"
  /\ LET p == req[q].names IN
     IF packages[p] # Nothing /\ packages[p].replayable
     THEN /\ of' = [of EXCEPT ![q] = p]
          /\ Goto(q, "start") /\ UNCHANGED outcome
     ELSE End(q, "refused") /\ UNCHANGED of
  /\ UNCHANGED <<stored, req, sawOpen, history>>

-----------------------------------------------------------------------------
(* The run.                                                                *)

\* A replay takes the package's inputs, a new handoff those of the call.
Input(q) == IF req[q].kind = "replay" THEN packages[of[q]].payload ELSE req[q].payload

\* runtime.start_run executes the run and the event hook stores it.
Start(q) ==
  /\ pc[q] = "start"
  /\ runs' = [runs EXCEPT ![q] = Input(q)]
  /\ open' = [open EXCEPT ![q] = TRUE]
  /\ sawOpen' = [sawOpen EXCEPT ![q] = TRUE]
  /\ Goto(q, "save")
  /\ UNCHANGED <<packages, replies, req, of, outcome, history>>

\* There is no such workflow or version, or the runtime raises, perhaps after the hook
\* has stored the run.  Only a new handoff records it.
StartRaises(q) ==
  /\ pc[q] = "start"
  /\ \/ UNCHANGED <<runs, open>>
     \/ runs' = [runs EXCEPT ![q] = Input(q)] /\ open' = [open EXCEPT ![q] = TRUE]
  /\ IF Creates(q)
     THEN Goto(q, "fail") /\ UNCHANGED outcome
     ELSE End(q, "failed")
  /\ UNCHANGED <<packages, replies, req, of, sawOpen, history>>

UpdateStatus(q, status, run) ==
  packages' = [packages EXCEPT ![of[q]].status = status, ![of[q]].run = run]

MarkFailed(q) ==
  /\ pc[q] = "fail"
  /\ UpdateStatus(q, "FAILED", Nothing)
  /\ End(q, "failed")
  /\ UNCHANGED <<runs, open, replies, req, of, sawOpen, history>>

\* The run a call works on: an answer's run has the name of the call that made it.
RunOf(q) == IF req[q].kind = "resume" THEN req[q].names ELSE q

\* The run that the hook has stored is saved again, as it is in the call's copy: what
\* others stored meanwhile is overwritten.
Save(q) ==
  /\ pc[q] = "save"
  /\ open' = [open EXCEPT ![RunOf(q)] = sawOpen[q]]
  /\ IF IsHandoff(q)
     THEN Goto(q, "update") /\ UNCHANGED outcome
     ELSE End(q, "ok")
  /\ UNCHANGED <<packages, runs, replies, req, of, sawOpen, history>>

\* Variant: a replay does not look at its own run.
MutMarkDone(q) ==
  /\ pc[q] = "update"
  /\ IF Creates(q) THEN UpdateStatus(q, "STARTED", q)
     ELSE UpdateStatus(q, "REPLAYED", packages[of[q]].run)
  /\ Goto(q, "remember")
  /\ UNCHANGED <<runs, open, replies, req, of, sawOpen, outcome, history>>

MarkDone(q) ==
  /\ pc[q] = "update"
  /\ UpdateStatus(q, IF Creates(q) THEN "STARTED" ELSE "REPLAYED", q)
  /\ Goto(q, "remember")
  /\ UNCHANGED <<runs, open, replies, req, of, sawOpen, outcome, history>>

\* Variant: only the reply to the call that made the package is remembered.
MutRemember(q) ==
  /\ pc[q] = "remember"
  /\ IF SeesKey(q) /\ of[q] = q
     THEN replies' = [replies EXCEPT ![ScopeOf(q)] = q]
     ELSE UNCHANGED replies
  /\ End(q, "ok")
  /\ UNCHANGED <<packages, runs, open, req, of, sawOpen, history>>

Remember(q) ==
  /\ pc[q] = "remember"
  /\ IF SeesKey(q)
     THEN replies' = [replies EXCEPT ![ScopeOf(q)] = q]
     ELSE UNCHANGED replies
  /\ End(q, "ok")
  /\ UNCHANGED <<packages, runs, open, req, of, sawOpen, history>>

\* An exception of the store is logged and the reply is sent.
RememberFails(q) ==
  /\ pc[q] = "remember" /\ SeesKey(q)
  /\ forgotten' = forgotten \cup {ScopeOf(q)}
  /\ End(q, "ok")
  /\ UNCHANGED <<stored, req, of, sawOpen, after, answers, expiries>>

Expire(s) ==
  /\ replies[s] # Nothing /\ expiries < MaxExpiries
  /\ replies' = [replies EXCEPT ![s] = Nothing]
  /\ forgotten' = forgotten \cup {s}
  /\ expiries' = expiries + 1
  /\ UNCHANGED <<packages, runs, open, req, pc, of, sawOpen, outcome, after, answers>>

-----------------------------------------------------------------------------
(* A webhook that answers the interrupt of a run.                          *)

Load(q) ==
  /\ pc[q] = "load"
  /\ IF runs[RunOf(q)] = Nothing
     THEN End(q, "refused") /\ UNCHANGED sawOpen
     ELSE /\ sawOpen' = [sawOpen EXCEPT ![q] = open[RunOf(q)]]
          /\ Goto(q, "resume") /\ UNCHANGED outcome
  /\ UNCHANGED <<stored, req, of, history>>

\* Variant: any interrupt may be answered.
MutMayAnswer(q) == TRUE

\* The engine raises unless the interrupt of its copy is OPEN.
MayAnswer(q) == sawOpen[q]

\* The event hook stores the run with its interrupt RESOLVED.
Resume(q) ==
  /\ pc[q] = "resume"
  /\ IF MayAnswer(q)
     THEN /\ open' = [open EXCEPT ![RunOf(q)] = FALSE]
          /\ sawOpen' = [sawOpen EXCEPT ![q] = FALSE]
          /\ answers' = answers \cup {q}
          /\ Goto(q, "save") /\ UNCHANGED outcome
     ELSE End(q, "refused") /\ UNCHANGED <<open, sawOpen, answers>>
  /\ UNCHANGED <<packages, runs, replies, req, of, after, forgotten, expiries>>

-----------------------------------------------------------------------------
\* Any store may raise where nobody handles it, and the process may stop.
BreaksOff(q) ==
  /\ InFlight(q)
  /\ End(q, "broken")
  /\ forgotten' = IF IsHandoff(q) THEN forgotten \cup {ScopeOf(q)} ELSE forgotten
  /\ UNCHANGED <<stored, req, of, sawOpen, after, answers, expiries>>

Step(q) ==
  \/ LookUp(q) \/ Find(q) \/ Insert(q) \/ GetPackage(q)
  \/ Start(q) \/ StartRaises(q) \/ MarkFailed(q)
  \/ Save(q) \/ MarkDone(q) \/ Remember(q) \/ RememberFails(q)
  \/ Load(q) \/ Resume(q) \/ BreaksOff(q)

Next == (\E q \in Requests : Receive(q) \/ Step(q)) \/ \E s \in Scopes : Expire(s)

Spec == Init /\ [][Next]_vars

-----------------------------------------------------------------------------
(* Properties.                                                             *)

\* docs/api/reference.md:469 promises "retry-safe delivery" to a handoff that carries a
\* key.  What the code does: once such a call has been answered with success, sending it
\* again executes nothing, as long as its reply is remembered.
RetriesReplay ==
  \A q \in Requests : \A r \in after[q] :
    /\ SeesKey(q) /\ SeesKey(r) /\ ScopeOf(q) = ScopeOf(r)
    /\ outcome[r] = "ok" /\ ScopeOf(q) \notin forgotten
    => runs[q] = Nothing /\ of[q] = Nothing

\* The run that a package names executes the package, whoever started it, unless the
\* partner has used the package's key for something else.
PackageMatchesRun ==
  \A p \in Requests :
    packages[p] # Nothing /\ packages[p].run # Nothing =>
      LET q == packages[p].run IN
      \/ runs[q] = packages[p].payload
      \/ Creates(q) /\ q # p /\ req[q].keyed /\ req[p].keyed

\* The calls that had a package's status to tell.
Tellers(p) ==
  {q \in Requests : of[q] = p /\ ~(req[q].kind = "replay" /\ outcome[q] = "failed")}

\* When the calls on a package came one after the other, its status and its run are what
\* the last of them made of it: an accepted call's run is never lost, and a package whose
\* run was not started says so.
StatusTellsLast ==
  \A q \in Requests :
    LET p == of[q] IN
    /\ pc[q] = "done" /\ p # Nothing /\ q \in Tellers(p)
    /\ Tellers(p) \ {q} \subseteq after[q]
    => CASE outcome[q] = "ok" ->
              /\ packages[p].run = q /\ runs[q] # Nothing
              /\ packages[p].status = IF Creates(q) THEN "STARTED" ELSE "REPLAYED"
         [] outcome[q] = "failed" -> packages[p].run = Nothing /\ packages[p].status = "FAILED"
         [] OTHER -> TRUE

\* A webhook that answers an interrupt can be sent again, for its key is not looked at, and
\* an answered interrupt can be OPEN again, for the call that made the run saves it twice.
\* A call that came in after an answer was accepted and replied is accepted too only if
\* that answer came in before the call that made the run had ended.
AnsweredOnce ==
  \A q \in answers : \A r \in after[q] \cap answers :
    RunOf(q) = RunOf(r) => RunOf(r) \notin after[r]
=============================================================================
