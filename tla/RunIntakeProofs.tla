-------------------------- MODULE RunIntakeProofs ---------------------------
(***************************************************************************)
(* Theorems about RunIntake, for any number of calls: type correctness,    *)
(* that a remembered reply stops a retry, that a package names a run of    *)
(* its own and tells how its last call ended, and that an interrupt is     *)
(* answered once, when the calls do not overlap with the one that made its *)
(* run.  Then, for the requests on one run (RunRequests): that an accepted *)
(* answer stays, is given once and can be given while the stored run       *)
(* waits, unless requests overlap.                                         *)
(***************************************************************************)
EXTENDS RunIntake, FiniteSetTheorems, FunctionTheorems, TLAPS

\* Where a call is tells what it has done so far.
Progress(q) ==
  /\ pc[q] \in {"off", "lookup", "find", "insert", "get"} => of[q] = Nothing /\ runs[q] = Nothing
  /\ pc[q] \in {"off", "lookup", "find", "insert"} => packages[q] = Nothing
  /\ pc[q] \in {"find", "insert"} => Creates(q)
  /\ pc[q] = "get" => req[q].kind = "replay"
  /\ pc[q] \in {"lookup", "find", "insert", "get", "fail", "update", "remember"} => IsHandoff(q)
  /\ pc[q] \in {"start", "fail", "save", "update", "remember"} /\ IsHandoff(q) => of[q] # Nothing
  /\ pc[q] \in {"load", "resume"} => req[q].kind = "resume"
  /\ pc[q] = "start" => req[q].kind # "resume"
  /\ pc[q] # "off" /\ req[q].kind \in {"create", "start"} => req[q].payload # Nothing
  /\ pc[q] # "off" /\ req[q].kind \in {"replay", "resume"} => req[q].names # Nothing
  /\ outcome[q] = "ok" => pc[q] = "done"
  /\ \A r \in after[q] : pc[r] = "done" /\ pc[q] # "off"

\* A reply that was not forgotten is remembered, and stops the calls that come later.
Remembered ==
  /\ \A r \in Requests :
       outcome[r] = "ok" /\ SeesKey(r) /\ ScopeOf(r) \notin forgotten
         => replies[ScopeOf(r)] # Nothing
  /\ \A q \in Requests : \A r \in after[q] :
       /\ SeesKey(q) /\ SeesKey(r) /\ ScopeOf(q) = ScopeOf(r)
       /\ outcome[r] = "ok" /\ ScopeOf(q) \notin forgotten
       => pc[q] \in {"lookup", "done"} /\ runs[q] = Nothing /\ of[q] = Nothing

\* An answer that came in after its run was made has closed the interrupt for good, and no
\* later call has a copy in which it is OPEN.
Answering ==
  /\ \A q \in answers : pc[q] \in {"save", "done"} /\ req[q].kind = "resume"
  /\ \A q \in Requests : pc[q] = "save" /\ req[q].kind = "resume" => ~sawOpen[q]
  /\ \A r \in answers : RunOf(r) \in after[r] => ~open[RunOf(r)]
  /\ \A q \in Requests : pc[q] = "resume" /\ sawOpen[q] =>
       \A r \in after[q] \cap answers : RunOf(q) = RunOf(r) => RunOf(r) \notin after[r]
  /\ AnsweredOnce

\* A run that is about to be named by its package executes it, or the key was used again.
Executing ==
  /\ \A q \in Requests : pc[q] = "find" => req[q].keyed
  /\ \A q \in Requests :
       of[q] # Nothing /\ Creates(q) =>
         IF of[q] = q THEN packages[q].payload = req[q].payload
         ELSE req[q].keyed /\ req[of[q]].keyed
  /\ \A q \in Requests :
       pc[q] \in {"save", "update", "remember"} /\ IsHandoff(q) => runs[q] = Input(q)
  /\ \A p \in Requests : packages[p] # Nothing /\ packages[p].run # Nothing =>
       pc[packages[p].run] \in {"remember", "done"}
  /\ PackageMatchesRun

IInv ==
  /\ TypeOK
  /\ \A q \in Requests : Progress(q)
  /\ Remembered /\ Answering /\ Executing

LEMMA InitIInv == Init => IInv
  BY IntakeAssumption DEF Init, IInv, TypeOK, Progress, Remembered, Answering, AnsweredOnce,
    Executing, PackageMatchesRun, Asked, Packages, Steps, Outcomes, Scopes, Kinds

-----------------------------------------------------------------------------
(* Types.                                                                  *)

LEMMA Known ==
  ASSUME TypeOK, NEW q \in Requests, Progress(q), pc[q] # "off"
  PROVE  /\ req[q] \in Asked
         /\ IsHandoff(q) => ScopeOf(q) \in Scopes
         /\ pc[q] = "start" => Input(q) \in Payloads
         /\ of[q] # Nothing => of[q] \in Requests /\ packages[of[q]] \in Packages
         /\ RunOf(q) \in Requests
<1>1. req[q] \in Asked
  BY DEF TypeOK
<1>2. IsHandoff(q) => ScopeOf(q) \in Scopes
  BY <1>1 DEF IsHandoff, ScopeOf, Scopes, Asked
<1>3. of[q] # Nothing => of[q] \in Requests /\ packages[of[q]] \in Packages
  BY DEF TypeOK
<1>4. ASSUME pc[q] = "start" PROVE Input(q) \in Payloads
  <2>1. CASE req[q].kind = "replay"
    BY <1>3, <1>4, <2>1 DEF Progress, IsHandoff, Input, Packages
  <2>2. CASE req[q].kind # "replay"
    BY <1>1, <1>4, <2>2 DEF Progress, Input, Asked, Kinds
  <2> QED BY <2>1, <2>2
<1>5. RunOf(q) \in Requests
  BY <1>1 DEF RunOf, Progress, Asked
<1> QED BY <1>1, <1>2, <1>3, <1>4, <1>5

LEMMA UpdateTyped ==
  ASSUME TypeOK, NEW q \in Requests, of[q] # Nothing,
         NEW status \in {"STARTED", "REPLAYED", "FAILED"}, NEW run \in Requests \cup {Nothing},
         UpdateStatus(q, status, run)
  PROVE  /\ packages' \in [Requests -> Packages \cup {Nothing}]
         /\ \A p \in Requests : packages[p] # Nothing => packages'[p] # Nothing
<1>1. of[q] \in Requests /\ packages[of[q]] \in Packages
  BY DEF TypeOK
<1>2. [packages[of[q]] EXCEPT !.status = status, !.run = run] \in Packages
  BY <1>1 DEF Packages
<1>3. packages' = [packages EXCEPT ![of[q]] = [packages[of[q]] EXCEPT !.status = status, !.run = run]]
  BY <1>1 DEF UpdateStatus, TypeOK
<1> QED BY <1>1, <1>2, <1>3, IntakeAssumption DEF TypeOK

LEMMA TypeStep ==
  ASSUME TypeOK, NEW q \in Requests, Progress(q), Receive(q) \/ Step(q)
  PROVE  TypeOK'
<1> USE IntakeAssumption DEF TypeOK, stored, history, Goto, End, InFlight
<1>0. pc[q] # "off" => /\ req[q] \in Asked
                       /\ req[q] # Nothing
                       /\ IsHandoff(q) => ScopeOf(q) \in Scopes
                       /\ pc[q] = "start" => Input(q) \in Payloads
                       /\ of[q] # Nothing => of[q] \in Requests
                       /\ RunOf(q) \in Requests
  BY Known
<1>1. CASE Receive(q)
  <2>1. PICK asked \in Asked :
          /\ req' = [req EXCEPT ![q] = asked]
          /\ Goto(q, CASE asked.kind = "start" -> "start"
                       [] asked.kind = "resume" -> "load"
                       [] OTHER -> "lookup")
    BY <1>1 DEF Receive
  <2>2. asked # Nothing
    OBVIOUS
  <2>3. \E step \in Steps \ {"off"} : pc' = [pc EXCEPT ![q] = step]
    BY <2>1 DEF Steps
  <2> QED BY <1>1, <2>1, <2>2, <2>3 DEF Receive
<1>2. CASE LookUp(q)
  BY <1>0, <1>2 DEF LookUp, Steps, Outcomes
<1>3. CASE Find(q)
  BY <1>0, <1>3 DEF Find, WithKey, Steps
<1>4. CASE Insert(q)
  <2>1. CASE req[q].keyed /\ WithKey # {}
    BY <1>0, <1>4, <2>1 DEF Insert, Steps, Outcomes
  <2>2. CASE ~(req[q].keyed /\ WithKey # {})
    <3> DEFINE new == [payload |-> req[q].payload, replayable |-> req[q].replayable,
                       run |-> Nothing, status |-> "RECEIVED"]
    <3>1. new \in Packages
      BY <1>0, <1>4 DEF Insert, Packages, Asked, Progress, Creates
    <3>2. packages' = [packages EXCEPT ![q] = new]
      BY <1>4, <2>2 DEF Insert
    <3>3. new # Nothing
      BY <3>1
    <3> HIDE DEF new
    <3> QED BY <1>0, <1>4, <2>2, <3>1, <3>2, <3>3 DEF Insert, Steps
  <2> QED BY <2>1, <2>2
<1>5. CASE GetPackage(q)
  BY <1>0, <1>5 DEF GetPackage, Steps, Outcomes, Progress, Asked
<1>6. CASE Start(q)
  BY <1>0, <1>6 DEF Start, Steps
<1>7. CASE StartRaises(q)
  <2>1. runs' \in [Requests -> Payloads \cup {Nothing}] /\ open' \in [Requests -> BOOLEAN]
    <3>1. CASE UNCHANGED <<runs, open>>
      BY <3>1
    <3>2. CASE runs' = [runs EXCEPT ![q] = Input(q)] /\ open' = [open EXCEPT ![q] = TRUE]
      BY <1>0, <1>7, <3>2 DEF StartRaises
    <3> QED BY <1>7, <3>1, <3>2 DEF StartRaises
  <2>2. /\ \E step \in {"fail", "done"} : pc' = [pc EXCEPT ![q] = step]
        /\ outcome' \in {outcome, [outcome EXCEPT ![q] = "failed"]}
        /\ pc[q] = "start"
    BY <1>7 DEF StartRaises
  <2>3. UNCHANGED <<packages, replies, req, of, sawOpen, after, answers, forgotten, expiries>>
    BY <1>7 DEF StartRaises
  <2> QED BY <1>0, <2>1, <2>2, <2>3 DEF Steps, Outcomes
<1>8. CASE MarkFailed(q)
  <2>1. of[q] # Nothing
    BY <1>8 DEF MarkFailed, Progress
  <2>2. /\ packages' \in [Requests -> Packages \cup {Nothing}]
        /\ \A p \in Requests : packages[p] # Nothing => packages'[p] # Nothing
    BY <1>8, <2>1, UpdateTyped DEF MarkFailed
  <2> QED BY <1>0, <1>8, <2>2 DEF MarkFailed, Steps, Outcomes
<1>9. CASE Save(q)
  BY <1>0, <1>9 DEF Save, Steps, Outcomes
<1>10. CASE MarkDone(q)
  <2>1. of[q] # Nothing
    BY <1>10 DEF MarkDone, Progress
  <2>2. /\ packages' \in [Requests -> Packages \cup {Nothing}]
        /\ \A p \in Requests : packages[p] # Nothing => packages'[p] # Nothing
    <3> DEFINE status == IF Creates(q) THEN "STARTED" ELSE "REPLAYED"
    <3>1. status \in {"STARTED", "REPLAYED", "FAILED"}
      OBVIOUS
    <3>2. UpdateStatus(q, status, q)
      BY <1>10 DEF MarkDone
    <3> HIDE DEF status
    <3> QED BY <2>1, <3>1, <3>2, UpdateTyped
  <2> QED BY <1>0, <1>10, <2>2 DEF MarkDone, Steps
<1>11. CASE Remember(q)
  <2>1. replies' \in [Scopes -> Requests \cup {Nothing}]
    BY <1>0, <1>11 DEF Remember
  <2> QED BY <1>0, <1>11, <2>1 DEF Remember, Steps, Outcomes
<1>12. CASE RememberFails(q)
  BY <1>0, <1>12 DEF RememberFails, SeesKey, Steps, Outcomes
<1>13. CASE Load(q)
  <2>1. CASE runs[RunOf(q)] = Nothing
    BY <1>0, <1>13, <2>1 DEF Load, Steps, Outcomes
  <2>2. CASE runs[RunOf(q)] # Nothing
    <3>1. open[RunOf(q)] \in BOOLEAN /\ pc[q] = "load"
      BY <1>0, <1>13 DEF Load
    <3>2. /\ sawOpen' = [sawOpen EXCEPT ![q] = open[RunOf(q)]] /\ Goto(q, "resume")
          /\ UNCHANGED <<stored, req, of, outcome, history>>
      BY <1>13, <2>2, Zenon DEF Load
    <3> QED BY <1>0, <3>1, <3>2 DEF Steps
  <2> QED BY <2>1, <2>2
<1>14. CASE Resume(q)
  <2>1. CASE MayAnswer(q)
    <3>1. /\ open' = [open EXCEPT ![RunOf(q)] = FALSE] /\ answers' = answers \cup {q}
          /\ sawOpen' = [sawOpen EXCEPT ![q] = FALSE]
      BY <1>14, <2>1, Zenon DEF Resume
    <3>2. pc[q] = "resume" /\ pc' = [pc EXCEPT ![q] = "save"]
      BY <1>14, <2>1 DEF Resume
    <3>3. UNCHANGED <<packages, runs, replies, req, of, after, forgotten, expiries>>
      BY <1>14 DEF Resume
    <3>4. outcome' = outcome
      BY <1>14, <2>1 DEF Resume
    <3> QED BY <1>0, <3>1, <3>2, <3>3, <3>4 DEF Steps
  <2>2. CASE ~MayAnswer(q)
    BY <1>0, <1>14, <2>2 DEF Resume, Steps, Outcomes
  <2> QED BY <2>1, <2>2
<1>15. CASE BreaksOff(q)
  <2>1. forgotten' \subseteq Scopes
    BY <1>0, <1>15 DEF BreaksOff
  <2> QED BY <1>0, <1>15, <2>1 DEF BreaksOff, Steps, Outcomes
<1> QED BY <1>1, <1>2, <1>3, <1>4, <1>5, <1>6, <1>7, <1>8, <1>9, <1>10, <1>11, <1>12, <1>13,
           <1>14, <1>15 DEF Step

-----------------------------------------------------------------------------
(* Where the calls are.                                                    *)

\* A step of a call leaves the others alone, and nothing follows its end.
LEMMA Others ==
  ASSUME TypeOK, NEW q \in Requests, Progress(q), Receive(q) \/ Step(q)
  PROVE  /\ pc[q] # "done"
         /\ \A r \in Requests \ {q} :
              /\ pc'[r] = pc[r] /\ req'[r] = req[r] /\ of'[r] = of[r] /\ runs'[r] = runs[r]
              /\ outcome'[r] = outcome[r] /\ sawOpen'[r] = sawOpen[r] /\ after'[r] = after[r]
              /\ packages[r] = Nothing => packages'[r] = Nothing
         /\ Receive(q) \/ (req' = req /\ after' = after)
<1> USE DEF TypeOK, stored, history, Goto, End, InFlight
<1>1. CASE Receive(q)
  BY <1>1 DEF Receive
<1>2. CASE LookUp(q) \/ Find(q) \/ GetPackage(q) \/ Start(q) \/ Save(q)
  BY <1>2 DEF LookUp, Find, GetPackage, Start, Save
<1>3. CASE Insert(q)
  BY <1>3 DEF Insert
<1>4. CASE StartRaises(q)
  BY <1>4 DEF StartRaises
<1>5. CASE MarkFailed(q)
  BY <1>5 DEF MarkFailed, UpdateStatus, Progress
<1>6. CASE MarkDone(q)
  BY <1>6 DEF MarkDone, UpdateStatus, Progress
<1>7. CASE Remember(q) \/ RememberFails(q) \/ Load(q)
  BY <1>7 DEF Remember, RememberFails, Load
<1>8. CASE Resume(q)
  BY <1>8 DEF Resume
<1>9. CASE BreaksOff(q)
  BY <1>9 DEF BreaksOff
<1> QED BY <1>1, <1>2, <1>3, <1>4, <1>5, <1>6, <1>7, <1>8, <1>9 DEF Step

LEMMA ProgressStep ==
  ASSUME TypeOK, NEW q \in Requests, \A r \in Requests : Progress(r), Receive(q) \/ Step(q)
  PROVE  \A r \in Requests : Progress(r)'
<1>1. ASSUME NEW r \in Requests \ {q} PROVE Progress(r)'
  BY <1>1, Others DEF Progress, Creates, IsHandoff, TypeOK
<1>2. Progress(q)'
  <2> USE DEF TypeOK, stored, history, Goto, End, InFlight, Progress, Creates, IsHandoff
  <2>0. TypeOK' /\ \A r \in Requests \ {q} : pc'[r] = pc[r]
    BY TypeStep, Others
  <2>1. CASE Receive(q)
    <3>1. PICK asked \in Asked :
            /\ (asked.names = Nothing) = (asked.kind \notin {"replay", "resume"})
            /\ (asked.payload = Nothing) = (asked.kind \notin {"create", "start"})
            /\ req' = [req EXCEPT ![q] = asked]
            /\ Goto(q, CASE asked.kind = "start" -> "start"
                         [] asked.kind = "resume" -> "load"
                         [] OTHER -> "lookup")
      BY <2>1 DEF Receive
    <3>2. /\ after'[q] = {r \in Requests : pc[r] = "done"} /\ pc[q] = "off"
          /\ UNCHANGED <<packages, runs, of, outcome>>
      BY <2>1 DEF Receive
    <3>3. asked.kind \in {"create", "replay", "start", "resume"}
      BY DEF Asked, Kinds
    <3>4. req'[q] = asked
      BY <3>1
    <3>5. pc'[q] = CASE asked.kind = "start" -> "start"
                     [] asked.kind = "resume" -> "load"
                     [] OTHER -> "lookup"
      BY <3>1
    <3>6. \A r \in after'[q] : pc'[r] = "done"
      BY <2>0, <3>2
    <3> QED BY <3>1, <3>2, <3>3, <3>4, <3>5, <3>6
  <2>2. CASE LookUp(q)
    <3>1. \/ pc'[q] = "done" /\ outcome'[q] = "replayed"
          \/ outcome'[q] = outcome[q] /\ pc'[q] = "get" /\ ~Creates(q)
          \/ outcome'[q] = outcome[q] /\ pc'[q] \in {"find", "insert"} /\ Creates(q)
      <4>1. CASE SeesKey(q) /\ replies[ScopeOf(q)] # Nothing
        BY <2>2, <4>1 DEF LookUp
      <4>2. CASE ~(SeesKey(q) /\ replies[ScopeOf(q)] # Nothing)
        <5>1. /\ outcome' = outcome
              /\ pc' = [pc EXCEPT ![q] = CASE ~Creates(q)                -> "get"
                                           [] Creates(q) /\ req[q].keyed -> "find"
                                           [] OTHER                      -> "insert"]
          BY <2>2, <4>2 DEF LookUp
        <5>2. CASE Creates(q)
          BY <5>1, <5>2
        <5>3. CASE ~Creates(q)
          BY <5>1, <5>3
        <5> QED BY <5>2, <5>3
      <4> QED BY <4>1, <4>2
    <3>2. pc[q] = "lookup" /\ UNCHANGED <<packages, runs, of, req, after>>
      BY <2>2 DEF LookUp
    <3> QED BY <2>0, <3>1, <3>2
  <2>3. CASE Find(q)
    <3>1. \/ pc'[q] = "insert" /\ of'[q] = of[q]
          \/ pc'[q] = "start" /\ of'[q] # Nothing
      BY <2>3, IntakeAssumption DEF Find, WithKey
    <3>2. pc[q] = "find" /\ UNCHANGED <<packages, runs, outcome, req, after>>
      BY <2>3 DEF Find
    <3> QED BY <2>0, <3>1, <3>2
  <2>4. CASE Insert(q)
    <3>1. \/ pc'[q] = "done" /\ outcome'[q] = "broken"
          \/ pc'[q] = "start" /\ of'[q] = q /\ outcome'[q] = outcome[q]
      BY <2>4 DEF Insert
    <3>2. pc[q] = "insert" /\ UNCHANGED <<runs, req, after>>
      BY <2>4 DEF Insert
    <3> QED BY <2>0, <3>1, <3>2, IntakeAssumption
  <2>5. CASE GetPackage(q)
    BY <2>0, <2>5 DEF GetPackage
  <2>6. CASE Start(q)
    BY <2>0, <2>6 DEF Start
  <2>7. CASE StartRaises(q)
    BY <2>0, <2>7 DEF StartRaises
  <2>8. CASE MarkFailed(q)
    BY <2>0, <2>8 DEF MarkFailed
  <2>9. CASE Save(q)
    BY <2>0, <2>9 DEF Save
  <2>10. CASE MarkDone(q)
    BY <2>0, <2>10 DEF MarkDone
  <2>11. CASE Remember(q)
    BY <2>0, <2>11 DEF Remember
  <2>12. CASE RememberFails(q)
    BY <2>0, <2>12 DEF RememberFails
  <2>13. CASE Load(q)
    BY <2>0, <2>13 DEF Load
  <2>14. CASE Resume(q)
    BY <2>0, <2>14 DEF Resume
  <2>15. CASE BreaksOff(q)
    BY <2>0, <2>15 DEF BreaksOff
  <2> QED BY <2>1, <2>2, <2>3, <2>4, <2>5, <2>6, <2>7, <2>8, <2>9, <2>10, <2>11, <2>12, <2>13,
             <2>14, <2>15 DEF Step
<1> QED BY <1>1, <1>2

-----------------------------------------------------------------------------
(* Replies and answers.                                                    *)

LEMMA RememberedStep ==
  ASSUME TypeOK, NEW q \in Requests, \A r \in Requests : Progress(r), Remembered,
         Receive(q) \/ Step(q)
  PROVE  Remembered'
<1>0. /\ pc[q] # "done" /\ outcome[q] # "ok"
      /\ \A r \in Requests \ {q} :
           /\ pc'[r] = pc[r] /\ req'[r] = req[r] /\ of'[r] = of[r] /\ runs'[r] = runs[r]
           /\ outcome'[r] = outcome[r] /\ after'[r] = after[r]
      /\ Receive(q) \/ (req' = req /\ after' = after)
  BY Others DEF Progress
<1>1. forgotten \subseteq forgotten'
  BY DEF Receive, Step, LookUp, Find, Insert, GetPackage, Start, StartRaises, MarkFailed, Save,
         MarkDone, Remember, RememberFails, Load, Resume, BreaksOff, stored, history
<1>2. \A s \in Scopes : replies[s] # Nothing => replies'[s] # Nothing
  BY IntakeAssumption
     DEF TypeOK, Receive, Step, LookUp, Find, Insert, GetPackage, Start, StartRaises, MarkFailed,
         Save, MarkDone, Remember, RememberFails, Load, Resume, BreaksOff, stored, history
<1>3. \A r \in Requests : SeesKey(r)' /\ pc'[r] # "off" => ScopeOf(r)' \in Scopes
  <2>1. TypeOK' /\ \A r \in Requests : Progress(r)'
    BY TypeStep, ProgressStep
  <2> QED BY <2>1 DEF TypeOK, SeesKey, IsHandoff, ScopeOf, Scopes, Asked
<1>4. ASSUME outcome'[q] = "ok", SeesKey(q)', ScopeOf(q)' \notin forgotten'
      PROVE  replies'[ScopeOf(q)'] # Nothing
  <2>1. Remember(q) \/ RememberFails(q) \/ Save(q)
    BY <1>0, <1>4
       DEF TypeOK, Receive, Step, LookUp, Find, Insert, GetPackage, Start, StartRaises, MarkFailed,
           MarkDone, Load, Resume, BreaksOff, stored, history, End
  <2>2. SeesKey(q) /\ ScopeOf(q)' = ScopeOf(q)
    BY <1>0, <1>4, <2>1 DEF SeesKey, ScopeOf, IsHandoff, Remember, RememberFails, Save, stored
  <2>3. ScopeOf(q) \in Scopes
    BY <2>1, <2>2, Known DEF SeesKey, Remember, RememberFails, Save
  <2>4. CASE Remember(q)
    BY <2>2, <2>3, <2>4, IntakeAssumption DEF Remember, TypeOK
  <2>5. CASE RememberFails(q)
    BY <1>4, <2>2, <2>5 DEF RememberFails
  <2>6. CASE Save(q)
    BY <1>0, <1>4, <2>2, <2>6 DEF Save, SeesKey, Goto
  <2> QED BY <2>1, <2>4, <2>5, <2>6
<1>5. ASSUME NEW r \in Requests, outcome'[r] = "ok", SeesKey(r)', ScopeOf(r)' \notin forgotten'
      PROVE  replies'[ScopeOf(r)'] # Nothing
  <2>1. CASE r = q
    BY <1>4, <1>5, <2>1
  <2>2. CASE r # q
    <3>1. outcome[r] = "ok" /\ SeesKey(r) /\ ScopeOf(r) = ScopeOf(r)' /\ pc'[r] = "done"
      BY <1>0, <1>5, <2>2 DEF SeesKey, ScopeOf, IsHandoff, Progress
    <3> QED BY <1>1, <1>2, <1>3, <1>5, <3>1 DEF Remembered
  <2> QED BY <2>1, <2>2
<1>6. ASSUME NEW p \in Requests, NEW r \in after'[p], SeesKey(p)', SeesKey(r)',
             ScopeOf(p)' = ScopeOf(r)', outcome'[r] = "ok", ScopeOf(p)' \notin forgotten'
      PROVE  pc'[p] \in {"lookup", "done"} /\ runs'[p] = Nothing /\ of'[p] = Nothing
  <2>1. CASE p # q
    <3>1. r \in after[p] /\ r # q /\ r \in Requests
      BY <1>0, <1>6, <2>1 DEF Progress, TypeOK
    <3>2. /\ SeesKey(p) /\ SeesKey(r) /\ ScopeOf(p) = ScopeOf(r) /\ outcome[r] = "ok"
          /\ ScopeOf(p) \notin forgotten
      BY <1>0, <1>1, <1>6, <2>1, <3>1 DEF SeesKey, ScopeOf, IsHandoff
    <3> QED BY <1>0, <2>1, <3>1, <3>2 DEF Remembered
  <2>2. CASE p = q /\ Receive(q)
    BY <1>6, <2>2 DEF Receive, Progress, SeesKey, IsHandoff, TypeOK, Goto, stored
  <2>3. CASE p = q /\ ~Receive(q)
    <3>1. r \in after[q] /\ r # q /\ r \in Requests
      BY <1>0, <1>6, <2>3 DEF Progress, TypeOK
    <3>2. /\ SeesKey(q) /\ SeesKey(r) /\ ScopeOf(q) = ScopeOf(r) /\ outcome[r] = "ok"
          /\ ScopeOf(q) \notin forgotten
      BY <1>0, <1>1, <1>6, <2>3, <3>1 DEF SeesKey, ScopeOf, IsHandoff
    <3>3. pc[q] = "lookup" /\ runs[q] = Nothing /\ of[q] = Nothing /\ replies[ScopeOf(q)] # Nothing
      BY <1>0, <3>1, <3>2 DEF Remembered
    <3>4. LookUp(q) \/ BreaksOff(q)
      BY <2>3, <3>3 DEF Step, Find, Insert, GetPackage, Start, StartRaises, MarkFailed, Save,
           MarkDone, Remember, RememberFails, Load, Resume
    <3> QED BY <2>3, <3>2, <3>3, <3>4 DEF LookUp, BreaksOff, End, Goto, TypeOK, stored
  <2> QED BY <2>1, <2>2, <2>3
<1> QED BY <1>5, <1>6 DEF Remembered

\* A closed interrupt is opened only by the call that made its run.
LEMMA OpenStep ==
  ASSUME TypeOK, NEW q \in Requests, Progress(q), Answering, Receive(q) \/ Step(q),
         NEW x \in Requests, open'[x], ~open[x]
  PROVE  x = q /\ pc[q] \in {"start", "save"}
<1>1. CASE Start(q) \/ StartRaises(q)
  BY <1>1 DEF Start, StartRaises, TypeOK
<1>2. CASE Save(q)
  <2>1. RunOf(q) \in Requests /\ req[q] \in Asked
    BY <1>2, Known DEF Save
  <2>2. x = RunOf(q) /\ sawOpen[q] /\ pc[q] = "save"
    BY <1>2, <2>1 DEF Save, TypeOK
  <2>3. req[q].kind # "resume"
    BY <2>2 DEF Answering
  <2> QED BY <2>2, <2>3 DEF RunOf
<1>3. CASE Resume(q)
  <2>1. open' = [open EXCEPT ![RunOf(q)] = FALSE] \/ open' = open
    BY <1>3 DEF Resume
  <2> QED BY <2>1 DEF TypeOK
<1>4. CASE ~(Start(q) \/ StartRaises(q) \/ Save(q) \/ Resume(q))
  BY <1>4 DEF Receive, Step, LookUp, Find, Insert, GetPackage, MarkFailed, MarkDone, Remember,
       RememberFails, Load, BreaksOff, stored
<1> QED BY <1>1, <1>2, <1>3, <1>4

LEMMA AnsweringStep ==
  ASSUME TypeOK, NEW q \in Requests, \A r \in Requests : Progress(r), Answering,
         Receive(q) \/ Step(q)
  PROVE  Answering'
<1>0. /\ pc[q] # "done"
      /\ \A r \in Requests \ {q} :
           /\ pc'[r] = pc[r] /\ sawOpen'[r] = sawOpen[r] /\ after'[r] = after[r]
           /\ req'[r] = req[r]
      /\ Receive(q) \/ (req' = req /\ after' = after)
      /\ \A r \in Requests : q \notin after[r]
      /\ answers \subseteq Requests
  BY Others DEF Progress, TypeOK
<1>a. Receive(q) => q \notin answers /\ pc[q] = "off" /\ after'[q] \subseteq Requests
  BY DEF Receive, Answering, TypeOK
<1>b. \A r \in Requests : r \in answers \/ r # q =>
        req'[r] = req[r] /\ after'[r] = after[r] /\ RunOf(r)' = RunOf(r)
  BY <1>0, <1>a DEF RunOf
<1>c. \A r \in answers : RunOf(r) \in Requests
  BY <1>0, Known DEF Answering
<1>1. CASE Resume(q) /\ MayAnswer(q)
  <2>1. /\ open' = [open EXCEPT ![RunOf(q)] = FALSE] /\ answers' = answers \cup {q}
        /\ sawOpen' = [sawOpen EXCEPT ![q] = FALSE]
    BY <1>1, Zenon DEF Resume
  <2>2. /\ pc[q] = "resume" /\ pc'[q] = "save" /\ after' = after /\ req' = req /\ sawOpen[q]
        /\ req[q].kind = "resume" /\ RunOf(q) \in Requests /\ ~sawOpen'[q]
    BY <1>1, <2>1, Known DEF Resume, MayAnswer, Goto, TypeOK, Progress
  <2>3. \A r \in after[q] \cap answers : RunOf(q) = RunOf(r) => RunOf(r) \notin after[r]
    BY <2>2 DEF Answering
  <2>4. \A r \in Requests : RunOf(r)' = RunOf(r)
    BY <2>2 DEF RunOf
  <2>5. \A p \in answers' : pc'[p] \in {"save", "done"} /\ req'[p].kind = "resume"
    BY <1>0, <2>1, <2>2 DEF Answering
  <2>6. \A p \in Requests : pc'[p] = "save" /\ req'[p].kind = "resume" => ~sawOpen'[p]
    BY <1>0, <2>2 DEF Answering
  <2>7. \A r \in answers' : RunOf(r)' \in after'[r] => ~open'[RunOf(r)']
    <3>1. \A r \in answers : RunOf(r) \in after[r] => ~open[RunOf(r)]
      BY DEF Answering
    <3> QED BY <1>0, <1>c, <2>1, <2>2, <2>4, <3>1 DEF TypeOK
  <2>8. ASSUME NEW p \in Requests, pc'[p] = "resume", sawOpen'[p]
        PROVE  \A r \in after'[p] \cap answers' : RunOf(p)' = RunOf(r)' => RunOf(r)' \notin after'[r]
    <3>1. p # q /\ pc[p] = "resume" /\ sawOpen[p]
      BY <1>0, <2>2, <2>8
    <3>2. \A r \in after[p] \cap answers : RunOf(p) = RunOf(r) => RunOf(r) \notin after[r]
      BY <3>1 DEF Answering
    <3> QED BY <1>0, <2>1, <2>2, <2>4, <3>2
  <2>9. AnsweredOnce'
    <3>1. \A p \in answers : \A r \in after[p] \cap answers :
            RunOf(p) = RunOf(r) => RunOf(r) \notin after[r]
      BY DEF Answering, AnsweredOnce
    <3>2. \A p \in answers' : \A r \in after[p] \cap answers' :
            RunOf(p) = RunOf(r) => RunOf(r) \notin after[r]
      BY <1>0, <2>1, <2>3, <3>1
    <3> QED BY <1>0, <2>1, <2>2, <2>4, <3>2 DEF AnsweredOnce
  <2> QED BY <2>5, <2>6, <2>7, <2>8, <2>9 DEF Answering
<1>2. CASE ~(Resume(q) /\ MayAnswer(q))
  <2>1. answers' = answers
    BY <1>2 DEF Receive, Step, LookUp, Find, Insert, GetPackage, Start, StartRaises, MarkFailed,
         Save, MarkDone, Remember, RememberFails, Load, Resume, BreaksOff, stored, history
  <2>2. ASSUME q \in answers PROVE pc'[q] = "done" /\ req'[q].kind = "resume"
    <3>1. pc[q] = "save" /\ req[q].kind = "resume"
      BY <1>0, <2>2 DEF Answering
    <3>2. Save(q) \/ BreaksOff(q)
      BY <3>1 DEF Receive, Step, LookUp, Find, Insert, GetPackage, Start, StartRaises,
           MarkFailed, MarkDone, Remember, RememberFails, Load, Resume
    <3> QED BY <3>1, <3>2 DEF Save, BreaksOff, End, Goto, TypeOK, IsHandoff, stored
  <2>3. \A p \in answers' : pc'[p] \in {"save", "done"} /\ req'[p].kind = "resume"
    BY <1>0, <2>1, <2>2 DEF Answering
  <2>4. ASSUME NEW p \in Requests, pc'[p] = "save", req'[p].kind = "resume" PROVE ~sawOpen'[p]
    <3>1. CASE p = q
      <4>1. Start(q)
        BY <1>2, <2>4, <3>1 DEF Receive, Step, LookUp, Find, Insert, GetPackage, StartRaises,
           MarkFailed, Save, MarkDone, Remember, RememberFails, Load, Resume, BreaksOff, End, Goto,
           TypeOK
      <4> QED BY <2>4, <3>1, <4>1 DEF Start, Progress
    <3>2. CASE p # q
      BY <1>0, <2>4, <3>2 DEF Answering
    <3> QED BY <3>1, <3>2
  <2>5. ASSUME NEW r \in answers, RunOf(r) \in after[r] PROVE ~open'[RunOf(r)]
    <3>1. pc[RunOf(r)] = "done" /\ RunOf(r) # q
      BY <1>0, <2>5 DEF Progress
    <3>2. ~open[RunOf(r)]
      BY <2>5 DEF Answering
    <3> QED BY <1>c, <3>1, <3>2, OpenStep
  <2>6. ASSUME pc'[q] = "resume", sawOpen'[q]
        PROVE  /\ Load(q) /\ open[RunOf(q)] /\ req' = req /\ after' = after /\ RunOf(q)' = RunOf(q)
    <3>1. Load(q)
      BY <1>2, <2>6
         DEF Receive, Step, LookUp, Find, Insert, GetPackage, Start, StartRaises, MarkFailed,
             Save, MarkDone, Remember, RememberFails, Resume, BreaksOff, End, Goto, TypeOK
    <3> QED BY <2>6, <3>1 DEF Load, TypeOK, history, RunOf, End, Goto
  <2>7. ASSUME NEW p \in Requests, pc'[p] = "resume", sawOpen'[p]
        PROVE  \A r \in after'[p] \cap answers' : RunOf(p)' = RunOf(r)' => RunOf(r)' \notin after'[r]
    <3>1. CASE p = q
      <4>1. \A r \in answers : RunOf(r) \in after[r] => ~open[RunOf(r)]
        BY DEF Answering
      <4> QED BY <1>0, <1>b, <2>1, <2>6, <2>7, <3>1, <4>1
    <3>2. CASE p # q
      <4>1. \A r \in after[p] \cap answers : RunOf(p) = RunOf(r) => RunOf(r) \notin after[r]
        BY <1>0, <2>7, <3>2 DEF Answering
      <4> QED BY <1>0, <1>b, <2>1, <3>2, <4>1
    <3> QED BY <3>1, <3>2
  <2>8. AnsweredOnce'
    BY <1>0, <1>b, <2>1 DEF Answering, AnsweredOnce
  <2>9. \A r \in answers' : RunOf(r)' \in after'[r] => ~open'[RunOf(r)']
    BY <1>0, <1>b, <2>1, <2>5
  <2> QED BY <2>3, <2>4, <2>7, <2>8, <2>9 DEF Answering
<1> QED BY <1>1, <1>2

-----------------------------------------------------------------------------
(* Packages and their runs.                                                *)

\* What a step does to a package.
LEMMA PackageStep ==
  ASSUME TypeOK, NEW q \in Requests, Progress(q), Receive(q) \/ Step(q),
         NEW p \in Requests, packages'[p] # Nothing
  PROVE  \/ /\ packages[p] # Nothing
            /\ packages'[p].payload = packages[p].payload
            /\ packages'[p].run \in {packages[p].run, Nothing}
         \/ /\ MarkDone(q) /\ p = of[q] /\ packages[p] # Nothing
            /\ packages'[p].payload = packages[p].payload /\ packages'[p].run = q
         \/ /\ Insert(q) /\ p = q /\ packages[p] = Nothing
            /\ packages'[p].payload = req[q].payload /\ packages'[p].run = Nothing
<1>1. CASE Insert(q)
  BY <1>1 DEF Insert, TypeOK, Progress
<1>2. CASE MarkFailed(q) \/ MarkDone(q)
  <2>1. of[q] \in Requests /\ packages[of[q]] \in Packages
    BY <1>2, Known DEF MarkFailed, MarkDone, Progress, IsHandoff, TypeOK
  <2>2. PICK status, run :
          /\ packages' = [packages EXCEPT ![of[q]].status = status, ![of[q]].run = run]
          /\ MarkDone(q) \/ run = Nothing
          /\ MarkDone(q) => run = q
    <3>1. CASE MarkFailed(q) /\ ~MarkDone(q)
      BY <3>1, Zenon DEF MarkFailed, UpdateStatus
    <3>2. CASE MarkDone(q)
      <4>1. \E status : UpdateStatus(q, status, q)
        BY <3>2, Zenon DEF MarkDone
      <4> QED BY <3>2, <4>1, Zenon DEF UpdateStatus
    <3> QED BY <1>2, <3>1, <3>2
  <2>3. packages[of[q]] # Nothing
    BY <2>1, IntakeAssumption
  <2> QED BY <2>1, <2>2, <2>3 DEF TypeOK, Packages
<1>3. CASE ~(Insert(q) \/ MarkFailed(q) \/ MarkDone(q))
  <2>1. packages' = packages
    BY <1>3 DEF Receive, Step, LookUp, Find, GetPackage, Start, StartRaises, Save, Remember,
         RememberFails, Load, Resume, BreaksOff, stored
  <2> QED BY <2>1
<1> QED BY <1>1, <1>2, <1>3

LEMMA ExecutingStep ==
  ASSUME TypeOK, NEW q \in Requests, \A r \in Requests : Progress(r), Executing,
         Receive(q) \/ Step(q)
  PROVE  Executing'
<1>0. /\ pc[q] # "done"
      /\ \A r \in Requests \ {q} :
           pc'[r] = pc[r] /\ req'[r] = req[r] /\ of'[r] = of[r] /\ runs'[r] = runs[r]
      /\ Receive(q) \/ req' = req
  BY Others
<1>a. Receive(q) => pc[q] = "off" /\ packages[q] = Nothing /\ of[q] = Nothing
  BY DEF Receive, Progress
<1>b. \A r \in Requests : of[r] # Nothing => of[r] \in Requests /\ packages[of[r]] # Nothing
  BY DEF TypeOK
<1> USE <1>a, <1>b, IntakeAssumption
<1>1. \A p \in Requests : packages[p] # Nothing => req'[p] = req[p]
  BY <1>0
<1>2. \A p \in Requests : packages[p] # Nothing =>
        packages'[p] # Nothing /\ packages'[p].payload = packages[p].payload
  <2>1. \A p \in Requests : packages[p] # Nothing => packages'[p] # Nothing
    BY UpdateTyped, <1>0 DEF TypeOK, Receive, Step, LookUp, Find, Insert, GetPackage, Start,
         StartRaises, MarkFailed, Save, MarkDone, Remember, RememberFails, Load, Resume,
         BreaksOff, stored, Progress, IsHandoff
  <2> QED BY <2>1, PackageStep, <1>0
<1>3. ASSUME NEW r \in Requests, pc'[r] = "find" PROVE req'[r].keyed
  <2>1. CASE r # q
    BY <1>0, <1>3, <2>1 DEF Executing
  <2>2. CASE r = q
    BY <1>3, <2>2 DEF TypeOK, Receive, Step, LookUp, Find, Insert, GetPackage, Start,
         StartRaises, MarkFailed, Save, MarkDone, Remember, RememberFails, Load, Resume,
         BreaksOff, Goto, End, stored
  <2> QED BY <2>1, <2>2
<1>4. ASSUME NEW r \in Requests, of'[r] # Nothing, Creates(r)'
      PROVE  IF of'[r] = r THEN packages'[r].payload = req'[r].payload
             ELSE req'[r].keyed /\ req'[of'[r]].keyed
  <2>1. CASE of'[r] = of[r]
    <3>1. Creates(r) /\ req'[r] = req[r] /\ req'[of[r]] = req[of[r]]
      BY <1>0, <1>1, <1>4, <2>1 DEF Creates
    <3> QED BY <1>0, <1>2, <1>4, <2>1, <3>1 DEF Executing
  <2>2. CASE of'[r] # of[r]
    <3>1. r = q /\ (Find(q) \/ Insert(q) \/ GetPackage(q))
      BY <1>0, <2>2 DEF Receive, Step, LookUp, Start, StartRaises, MarkFailed, Save, MarkDone,
           Remember, RememberFails, Load, Resume, BreaksOff
    <3>2. CASE Find(q)
      <4>1. of'[q] \in WithKey /\ req[q].keyed /\ req' = req /\ packages[q] = Nothing
        BY <2>2, <3>1, <3>2 DEF Find, TypeOK, Executing, Progress
      <4> QED BY <3>1, <4>1 DEF WithKey
    <3>3. CASE Insert(q)
      BY <2>2, <3>1, <3>3 DEF Insert, TypeOK
    <3>4. CASE GetPackage(q)
      BY <1>4, <3>1, <3>4 DEF GetPackage, Progress, Creates
    <3> QED BY <3>1, <3>2, <3>3, <3>4
  <2> QED BY <2>1, <2>2
<1>5. ASSUME NEW r \in Requests, pc'[r] \in {"save", "update", "remember"}, IsHandoff(r)'
      PROVE  runs'[r] = Input(r)'
  <2>1. CASE r # q
    BY <1>0, <1>2, <1>5, <2>1 DEF Executing, Input, IsHandoff, Progress
  <2>2. CASE r = q /\ Start(q)
    <3>1. runs'[q] = Input(q) /\ UNCHANGED <<req, of, packages>>
      BY <2>2 DEF Start, TypeOK
    <3> QED BY <2>2, <3>1 DEF Input
  <2>3. CASE r = q /\ ~Start(q)
    <3>1. pc[q] \in {"save", "update", "resume"} /\ req' = req /\ of' = of /\ runs' = runs
      BY <1>5, <2>3 DEF TypeOK, Receive, Step, LookUp, Find, Insert, GetPackage,
         StartRaises, MarkFailed, Save, MarkDone, Remember, RememberFails, Load, Resume,
         BreaksOff, Goto, End, stored
    <3>2. IsHandoff(q) /\ pc[q] \in {"save", "update"} /\ of[q] # Nothing
      BY <1>5, <2>3, <3>1 DEF IsHandoff, Progress
    <3> QED BY <1>0, <1>2, <2>3, <3>1, <3>2 DEF Executing, Input
  <2> QED BY <2>1, <2>2, <2>3
<1>6. ASSUME NEW p \in Requests, packages'[p] # Nothing, packages'[p].run # Nothing
      PROVE  /\ pc'[packages'[p].run] \in {"remember", "done"}
             /\ \/ runs'[packages'[p].run] = packages'[p].payload
                \/ /\ req'[packages'[p].run].kind = "create" /\ packages'[p].run # p
                   /\ req'[packages'[p].run].keyed /\ req'[p].keyed
  <2>1. \/ /\ packages[p] # Nothing /\ packages'[p].payload = packages[p].payload
           /\ packages'[p].run = packages[p].run
        \/ /\ MarkDone(q) /\ p = of[q] /\ packages[p] # Nothing
           /\ packages'[p].payload = packages[p].payload /\ packages'[p].run = q
    BY <1>6, PackageStep
  <2>2. CASE MarkDone(q) /\ p = of[q] /\ packages'[p].run = q
    <3>1. /\ pc[q] = "update" /\ pc'[q] = "remember" /\ UNCHANGED <<runs, req, of>>
          /\ IsHandoff(q) /\ of[q] # Nothing
      BY <2>2 DEF MarkDone, Goto, TypeOK, Progress
    <3>2. runs[q] = Input(q)
      BY <3>1 DEF Executing
    <3>3. CASE Creates(q)
      <4>1. req[q].kind # "replay" /\ Input(q) = req[q].payload
        BY <3>3 DEF Creates, Input
      <4>2. IF p = q THEN packages[q].payload = req[q].payload
            ELSE req[q].keyed /\ req[p].keyed
        BY <2>2, <3>1, <3>3, Zenon DEF Executing
      <4>3. CASE p = q
        BY <1>2, <2>2, <3>1, <3>2, <4>1, <4>2, <4>3
      <4>4. CASE p # q
        BY <2>2, <3>1, <3>3, <4>2, <4>4 DEF Creates
      <4> QED BY <4>3, <4>4
    <3>4. CASE ~Creates(q)
      BY <1>0, <1>2, <2>2, <3>1, <3>2, <3>4 DEF Creates, Input, IsHandoff
    <3> QED BY <3>1, <2>2, <3>3, <3>4
  <2>3. CASE /\ packages[p] # Nothing /\ packages'[p].payload = packages[p].payload
             /\ packages'[p].run = packages[p].run
    <3> DEFINE x == packages[p].run
    <3>1. x \in Requests /\ pc[x] \in {"remember", "done"}
      BY <1>6, <2>3 DEF Executing, TypeOK, Packages
    <3>2. pc'[x] \in {"remember", "done"} /\ runs'[x] = runs[x] /\ req'[x] = req[x]
      <4>1. CASE x # q
        BY <1>0, <3>1, <4>1
      <4>2. CASE x = q
        <5>1. Remember(q) \/ RememberFails(q) \/ BreaksOff(q)
          BY <1>0, <3>1, <4>2 DEF Receive, Step, LookUp, Find, Insert, GetPackage, Start,
             StartRaises, MarkFailed, Save, MarkDone, Load, Resume
        <5> QED BY <4>2, <5>1 DEF Remember, RememberFails, BreaksOff, End, Goto, TypeOK, stored
      <4> QED BY <4>1, <4>2
    <3>3. \/ runs[x] = packages[p].payload
          \/ Creates(x) /\ x # p /\ req[x].keyed /\ req[p].keyed
      BY <1>6, <2>3 DEF Executing, PackageMatchesRun
    <3> HIDE DEF x
    <3>4. packages'[p].run = x
      BY <2>3 DEF x
    <3>5. req'[p] = req[p]
      BY <1>1, <2>3
    <3> QED BY <2>3, <3>2, <3>3, <3>4, <3>5 DEF Creates
  <2> QED BY <2>1, <2>2, <2>3
<1>7. PackageMatchesRun'
  BY <1>6 DEF PackageMatchesRun, Creates
<1> QED BY <1>3, <1>4, <1>5, <1>6, <1>7, Zenon DEF Executing

-----------------------------------------------------------------------------
(* What a package's status tells.                                          *)

\* The tellers that have written what they had to tell, or never will.
Settled(p) == {r \in Tellers(p) : pc[r] \in {"remember", "done"}}

\* A call's word about its package stands until another one, which the call did not find
\* ended when it came in, has told its own.
Told ==
  /\ \A q \in Requests : of[q] # Nothing => IsHandoff(q)
  /\ \A q \in Requests : outcome[q] = "failed" => pc[q] = "done"
  /\ \A q \in Requests : pc[q] = "fail" => Creates(q)
  /\ \A q \in Requests : of[q] # Nothing /\ Settled(of[q]) \ {q} \subseteq after[q] =>
       /\ pc[q] = "remember" \/ outcome[q] = "ok" =>
            /\ packages[of[q]].run = q /\ runs[q] # Nothing
            /\ packages[of[q]].status = IF Creates(q) THEN "STARTED" ELSE "REPLAYED"
       /\ outcome[q] = "failed" /\ Creates(q) =>
            packages[of[q]].run = Nothing /\ packages[of[q]].status = "FAILED"

\* What is written over a package.
LEMMA Written ==
  ASSUME TypeOK, NEW q \in Requests, of[q] # Nothing, NEW status, NEW run,
         UpdateStatus(q, status, run)
  PROVE  /\ packages'[of[q]].status = status /\ packages'[of[q]].run = run
         /\ \A p \in Requests : p # of[q] => packages'[p] = packages[p]
<1>1. of[q] \in Requests /\ packages[of[q]] \in Packages
  BY DEF TypeOK
<1> QED BY <1>1 DEF UpdateStatus, TypeOK, Packages

\* Who has told stays so.
LEMMA SettledStays ==
  ASSUME TypeOK, NEW q \in Requests, \A r \in Requests : Progress(r), Told,
         Receive(q) \/ Step(q), NEW p \in Requests
  PROVE  /\ Settled(p) \subseteq Settled(p)'
         /\ Settled(p)' \subseteq Settled(p) \cup {q}
<1>1. /\ pc[q] # "done"
      /\ \A r \in Requests \ {q} : /\ pc'[r] = pc[r] /\ req'[r] = req[r] /\ of'[r] = of[r]
                                   /\ outcome'[r] = outcome[r]
  BY Others
<1>2. ASSUME NEW r \in Requests \ {q} PROVE r \in Settled(p) <=> r \in Settled(p)'
  BY <1>1 DEF Settled, Tellers
<1>3. ASSUME q \in Settled(p) PROVE q \in Settled(p)'
  <2>1. pc[q] = "remember" /\ of[q] = p
    BY <1>1, <1>3 DEF Settled, Tellers
  <2>2. Remember(q) \/ RememberFails(q) \/ BreaksOff(q)
    BY <2>1 DEF Receive, Step, LookUp, Find, Insert, GetPackage, Start, StartRaises, MarkFailed,
       Save, MarkDone, Load, Resume
  <2>3. /\ of' = of /\ pc'[q] = "done" /\ outcome'[q] # "failed"
    BY <2>2 DEF Remember, RememberFails, BreaksOff, End, Goto, TypeOK, stored
  <2> QED BY <2>1, <2>3 DEF Settled, Tellers
<1>4. Settled(p) \subseteq Requests /\ Settled(p)' \subseteq Requests
  BY DEF Settled, Tellers
<1> QED BY <1>2, <1>3, <1>4

LEMMA ToldStep ==
  ASSUME TypeOK, NEW q \in Requests, \A r \in Requests : Progress(r), Executing, Told,
         Receive(q) \/ Step(q)
  PROVE  Told'
<1>0. /\ pc[q] # "done" /\ outcome[q] # "failed"
      /\ \A r \in Requests \ {q} :
           /\ pc'[r] = pc[r] /\ req'[r] = req[r] /\ of'[r] = of[r] /\ runs'[r] = runs[r]
           /\ outcome'[r] = outcome[r] /\ after'[r] = after[r]
      /\ Receive(q) \/ (req' = req /\ after' = after)
  BY Others DEF Told
<1>1. of'[q] # Nothing => IsHandoff(q)'
  <2>1. CASE Receive(q)
    BY <2>1 DEF Receive, Progress
  <2>2. CASE Find(q) \/ Insert(q) \/ GetPackage(q)
    BY <1>0, <2>2 DEF Find, Insert, GetPackage, Progress, IsHandoff
  <2>3. CASE ~(Receive(q) \/ Find(q) \/ Insert(q) \/ GetPackage(q))
    <3>1. of' = of
      BY <2>3 DEF Step, LookUp, Start, StartRaises, MarkFailed, Save, MarkDone, Remember,
         RememberFails, Load, Resume, BreaksOff
    <3> QED BY <1>0, <2>3, <3>1 DEF Told, IsHandoff
  <2> QED BY <2>1, <2>2, <2>3
<1>2. /\ outcome'[q] = "failed" => pc'[q] = "done"
      /\ outcome'[q] = "failed" /\ Creates(q)' => MarkFailed(q)
      /\ pc'[q] = "fail" => Creates(q)'
      /\ pc'[q] = "remember" => MarkDone(q)
      /\ outcome'[q] = "ok" => Remember(q) \/ RememberFails(q) \/ (Save(q) /\ ~IsHandoff(q))
  <2> USE DEF TypeOK, Goto, End, Creates
  <2>1. outcome[q] # "ok" /\ pc[q] # "off" => outcome[q] # "ok"
    OBVIOUS
  <2>2. outcome[q] # "ok"
    BY <1>0 DEF Progress
  <2>3. CASE Receive(q)
    BY <1>0, <2>2, <2>3 DEF Receive
  <2>4. CASE LookUp(q) \/ Find(q) \/ Insert(q) \/ GetPackage(q)
    BY <1>0, <2>2, <2>4 DEF LookUp, Find, Insert, GetPackage
  <2>5. CASE Start(q) \/ StartRaises(q) \/ MarkFailed(q) \/ Save(q) \/ MarkDone(q)
    BY <1>0, <2>2, <2>5 DEF Start, StartRaises, MarkFailed, Save, MarkDone
  <2>6. CASE Remember(q) \/ RememberFails(q) \/ Load(q) \/ Resume(q) \/ BreaksOff(q)
    BY <1>0, <2>2, <2>6 DEF Remember, RememberFails, Load, Resume, BreaksOff
  <2> QED BY <2>3, <2>4, <2>5, <2>6 DEF Step
<1> DEFINE Stands(r) ==
      /\ pc[r] = "remember" \/ outcome[r] = "ok" =>
           /\ packages[of[r]].run = r /\ runs[r] # Nothing
           /\ packages[of[r]].status = IF Creates(r) THEN "STARTED" ELSE "REPLAYED"
      /\ outcome[r] = "failed" /\ Creates(r) =>
           packages[of[r]].run = Nothing /\ packages[of[r]].status = "FAILED"
<1>3. ASSUME NEW r \in Requests, r # q, of'[r] # Nothing,
             Settled(of[r])' \ {r} \subseteq after'[r]
      PROVE  Stands(r)'
  <2>1. of[r] \in Requests /\ of'[r] = of[r] /\ packages[of[r]] # Nothing
    BY <1>0, <1>3 DEF TypeOK
  <2>2. Settled(of[r]) \ {r} \subseteq after[r]
    BY <1>0, <1>3, <2>1, SettledStays
  <2>3. Stands(r)
    BY <1>0, <1>3, <2>2 DEF Told
  <2>4. q \notin after[r]
    BY <1>0 DEF Progress
  <2>5. packages'[of[r]] = packages[of[r]]
    <3>1. CASE MarkDone(q) \/ MarkFailed(q)
      <4>1. /\ pc[q] \in {"update", "fail"} /\ of' = of /\ req' = req
            /\ pc'[q] \in {"remember", "done"}
            /\ MarkDone(q) => outcome' = outcome
            /\ MarkFailed(q) => Creates(q)
        BY <3>1 DEF MarkDone, MarkFailed, End, Goto, TypeOK, Told
      <4>2. q \in Tellers(of[q])'
        BY <1>0, <3>1, <4>1 DEF Tellers, Creates
      <4>3. of[q] # of[r]
        BY <1>0, <1>3, <2>4, <4>1, <4>2 DEF Settled
      <4>4. of[q] # Nothing
        BY <4>1 DEF Progress
      <4>5. \E status, run : UpdateStatus(q, status, run)
        BY <3>1, Zenon DEF MarkDone, MarkFailed
      <4> QED BY <2>1, <4>3, <4>4, <4>5, Written
    <3>2. CASE Insert(q)
      BY <2>1, <3>2 DEF Insert, Progress, TypeOK
    <3>3. CASE ~(Insert(q) \/ MarkFailed(q) \/ MarkDone(q))
      BY <3>3 DEF Receive, Step, LookUp, Find, GetPackage, Start, StartRaises, Save, Remember,
         RememberFails, Load, Resume, BreaksOff, stored
    <3> QED BY <3>1, <3>2, <3>3
  <2> QED BY <1>0, <1>3, <2>1, <2>3, <2>5 DEF Creates
<1>4. ASSUME of'[q] # Nothing, Settled(of[q])' \ {q} \subseteq after'[q]
      PROVE  Stands(q)'
  <2>1. CASE MarkDone(q)
    <3>1. /\ pc[q] = "update" /\ of' = of /\ req' = req /\ runs' = runs /\ outcome' = outcome
          /\ IsHandoff(q) /\ of[q] \in Requests /\ packages[of[q]] \in Packages
      BY <1>4, <2>1 DEF MarkDone, Progress, TypeOK
    <3>2. runs[q] = Input(q) /\ Input(q) # Nothing
      <4>1. runs[q] = Input(q)
        BY <3>1 DEF Executing
      <4>2. req[q] \in Asked
        BY <3>1 DEF TypeOK
      <4> QED BY <3>1, <4>1, <4>2, IntakeAssumption DEF Input, Packages, Progress, IsHandoff, Asked,
                 TypeOK
    <3>3. /\ packages'[of[q]].run = q
          /\ packages'[of[q]].status = IF Creates(q) THEN "STARTED" ELSE "REPLAYED"
      <4> DEFINE status == IF Creates(q) THEN "STARTED" ELSE "REPLAYED"
      <4>1. UpdateStatus(q, status, q)
        BY <2>1 DEF MarkDone
      <4> HIDE DEF status
      <4>2. packages'[of[q]].status = status /\ packages'[of[q]].run = q
        BY <1>4, <3>1, <4>1, Written
      <4> QED BY <4>2 DEF status
    <3> QED BY <1>0, <3>1, <3>2, <3>3 DEF Creates
  <2>2. CASE Remember(q) \/ RememberFails(q)
    <3>1. /\ pc[q] = "remember" /\ UNCHANGED <<packages, runs, req, of, after>>
          /\ outcome'[q] = "ok" /\ pc'[q] = "done"
      BY <2>2 DEF Remember, RememberFails, stored, history, End, Goto, TypeOK
    <3>2. of[q] \in Requests
      BY <1>4, <3>1 DEF TypeOK
    <3>3. Settled(of[q]) \ {q} \subseteq after[q]
      BY <1>4, <3>1, <3>2, SettledStays
    <3>4. Stands(q)
      BY <1>4, <3>1, <3>3 DEF Told
    <3> QED BY <3>1, <3>4 DEF Creates
  <2>3. CASE MarkFailed(q)
    <3>1. /\ UpdateStatus(q, "FAILED", Nothing) /\ of' = of /\ outcome'[q] = "failed"
          /\ pc'[q] = "done"
      BY <2>3 DEF MarkFailed, End, Goto, TypeOK
    <3> QED BY <1>4, <3>1, Written
  <2>4. CASE ~(MarkDone(q) \/ Remember(q) \/ RememberFails(q) \/ MarkFailed(q))
    <3>1. CASE outcome'[q] = "ok"
      BY <1>1, <1>2, <1>4, <2>4, <3>1 DEF IsHandoff, Save
    <3>2. CASE outcome'[q] # "ok"
      BY <1>2, <2>4, <3>2
    <3> QED BY <3>1, <3>2
  <2> QED BY <2>1, <2>2, <2>3, <2>4
<1>5. \A r \in Requests : of'[r] # Nothing => IsHandoff(r)'
  BY <1>0, <1>1 DEF Told, IsHandoff
<1>6. \A r \in Requests : outcome'[r] = "failed" => pc'[r] = "done"
  BY <1>0, <1>2 DEF Told
<1>7. \A r \in Requests : pc'[r] = "fail" => Creates(r)'
  BY <1>0, <1>2 DEF Told, Creates
<1>8. \A r \in Requests : (of[r] # Nothing /\ Settled(of[r]) \ {r} \subseteq after[r] => Stands(r))'
  <2>1. \A r \in Requests \ {q} : of'[r] = of[r]
    BY <1>0
  <2> QED BY <1>3, <1>4, <2>1
<1> QED BY <1>5, <1>6, <1>7, <1>8 DEF Told

-----------------------------------------------------------------------------
(* Theorems.                                                               *)

LEMMA ExpireStep ==
  ASSUME IInv, NEW s \in Scopes, Expire(s)
  PROVE  IInv'
<1>1. TypeOK'
  BY IntakeAssumption DEF IInv, TypeOK, Expire
<1>2. \A q \in Requests : Progress(q)'
  BY DEF IInv, Progress, Expire, Creates, IsHandoff
<1>3. Remembered'
  BY DEF IInv, Remembered, Expire, SeesKey, IsHandoff, ScopeOf, TypeOK
<1>4. Answering'
  BY DEF IInv, Answering, AnsweredOnce, RunOf, Expire
<1>5. Executing'
  BY DEF IInv, Executing, PackageMatchesRun, Expire, Creates, IsHandoff, Input
<1> QED BY <1>1, <1>2, <1>3, <1>4, <1>5 DEF IInv

LEMMA StutterStep ==
  ASSUME IInv, UNCHANGED vars
  PROVE  IInv'
  BY DEF vars, stored, history, IInv, TypeOK, Progress, Remembered, Answering, AnsweredOnce,
         Executing, PackageMatchesRun, Creates, IsHandoff, Input, SeesKey, ScopeOf, RunOf

\* The inductive invariant: how far each call has come, what is remembered for whom, when
\* the interrupt was answered, and which run a package names.
THEOREM Invariance == Spec => []IInv
<1>1. Init => IInv
  BY InitIInv
<1>2. IInv /\ [Next]_vars => IInv'
  <2> SUFFICES ASSUME IInv, [Next]_vars PROVE IInv'
    OBVIOUS
  <2>1. ASSUME NEW q \in Requests, Receive(q) \/ Step(q) PROVE IInv'
    BY <2>1, TypeStep, ProgressStep, RememberedStep, AnsweringStep, ExecutingStep DEF IInv
  <2>2. ASSUME NEW s \in Scopes, Expire(s) PROVE IInv'
    BY <2>2, ExpireStep
  <2>3. CASE UNCHANGED vars
    BY <2>3, StutterStep
  <2> QED BY <2>1, <2>2, <2>3 DEF Next
<1> QED BY <1>1, <1>2, PTL DEF Spec

\* Every variable keeps its type: a call at work has its package, and a store only holds
\* what a call put there.
THEOREM Typed == Spec => []TypeOK
<1>1. IInv => TypeOK
  BY DEF IInv
<1> QED BY <1>1, Invariance, PTL

\* A handoff call that was answered with success is not executed again when it is sent
\* again with its key, for as long as its reply is remembered (_idempotent).
THEOREM RetryReplays == Spec => []RetriesReplay
<1>1. IInv => RetriesReplay
  BY DEF IInv, Remembered, RetriesReplay
<1> QED BY <1>1, Invariance, PTL

\* A package names a run that executes it, unless its key was used for something else
\* (create_handoff_package and replay_handoff_package).
THEOREM PackageHasItsRun == Spec => []PackageMatchesRun
<1>1. IInv => PackageMatchesRun
  BY DEF IInv, Executing
<1> QED BY <1>1, Invariance, PTL

\* When the calls on a package came one after the other, its status and its run are what
\* the last of them made of it (create_handoff_package and replay_handoff_package): a call
\* that was answered with success finds its run there, a failed one leaves FAILED.
THEOREM LastCallTells == Spec => []StatusTellsLast
<1>1. Init => Told
  BY DEF Init, Told
<1>2. IInv /\ Told /\ [Next]_vars => Told'
  <2> SUFFICES ASSUME IInv, Told, [Next]_vars PROVE Told'
    OBVIOUS
  <2>1. ASSUME NEW q \in Requests, Receive(q) \/ Step(q) PROVE Told'
    BY <2>1, ToldStep DEF IInv
  <2>2. ASSUME NEW s \in Scopes, Expire(s) PROVE Told'
    BY <2>2 DEF Expire, Told, Settled, Tellers, IsHandoff, Creates
  <2>3. CASE UNCHANGED vars
    BY <2>3 DEF vars, stored, history, Told, Settled, Tellers, IsHandoff, Creates
  <2> QED BY <2>1, <2>2, <2>3 DEF Next
<1>3. IInv /\ Told => StatusTellsLast
  <2> SUFFICES ASSUME TypeOK, Told, NEW q \in Requests, pc[q] = "done", of[q] # Nothing,
                      q \in Tellers(of[q]), Tellers(of[q]) \ {q} \subseteq after[q]
               PROVE  CASE outcome[q] = "ok" ->
                             /\ packages[of[q]].run = q /\ runs[q] # Nothing
                             /\ packages[of[q]].status = IF Creates(q) THEN "STARTED" ELSE "REPLAYED"
                        [] outcome[q] = "failed" ->
                             packages[of[q]].run = Nothing /\ packages[of[q]].status = "FAILED"
                        [] OTHER -> TRUE
    BY DEF StatusTellsLast, IInv
  <2>1. Settled(of[q]) \ {q} \subseteq after[q]
    BY DEF Settled
  <2>2. outcome[q] = "failed" => Creates(q)
    BY DEF Told, Tellers, IsHandoff, Creates
  <2> QED BY <2>1, <2>2 DEF Told
<1> QED BY <1>1, <1>2, <1>3, Invariance, PTL DEF Spec

\* An inbound webhook sent after another one's answer was accepted is refused by the
\* engine, not by its key, unless that answer came in before the call that made the run
\* had ended: until then a second save may open the interrupt again (handle_inbound).
THEOREM InterruptAnsweredOnce == Spec => []AnsweredOnce
<1>1. IInv => AnsweredOnce
  BY DEF IInv, Answering
<1> QED BY <1>1, Invariance, PTL

-----------------------------------------------------------------------------
(***************************************************************************)
(* The requests on one run, as RunRequests has them, for any number of     *)
(* requests, interrupts and crashes and either store.                      *)
(***************************************************************************)
CONSTANTS Callers, Interrupts, None, Operations, MaxCrashes

VARIABLES backend, heap, storedAt, loc, wants, stage, verdict, cached, snapshot, crashes, met,
          answered, discarded

Api == INSTANCE RunRequests WITH
  Requests <- Callers, Nothing <- None, req <- wants, pc <- stage, outcome <- verdict

\* The objects in use are the stored run and the objects of requests.
InUse == DOMAIN heap = ({storedAt} \cup {loc[r] : r \in Callers}) \ {None}

\* What a request asks for, and how far it is with it.
Where(r) ==
  /\ loc[r] = None <=> stage[r] \in {"off", "lookup", "load", "done"}
  /\ stage[r] # "off" =>
       /\ wants[r] \in Api!Asked
       /\ Api!Asks(r) \in {"resume_interrupt", "cancel_interrupt"} => Api!Its(r) \in Interrupts
  /\ stage[r] \in {"check", "resolve"} => Api!Asks(r) = "resume_interrupt"
  /\ stage[r] \in {"load", "torn"} => Api!Asks(r) # "start_run"
  /\ stage[r] = "rerun" => Api!Asks(r) = "rerun_node"
  /\ stage[r] = "torn" => backend = "postgres"
  /\ loc[r] # None /\ Api!Asks(r) # "start_run" => storedAt # None
  /\ verdict[r] # "none" => stage[r] = "done"

\* Requests that are in flight together have met; none but they come before the start is over.
Meetings ==
  /\ \A r, q \in Callers : r # q /\ Api!InFlight(r) /\ Api!InFlight(q) => <<r, q>> \in met
  /\ \A r, q \in Callers :
       r # q /\ Api!InFlight(q) /\ Api!Asks(q) = "start_run" /\ stage[r] # "off" => <<r, q>> \in met

\* Nothing is stored before a request gets to it.
Begun == storedAt # None => \E r \in Callers : stage[r] \notin {"off", "lookup"}

Closed(run) == {i \in Interrupts : run.interrupts[i] \in {"RESOLVED", "CANCELLED"}}
Has(run, i, lost) == i \in run.answers \cup lost /\ i \in Closed(run)

\* After the engine was entered; after the event hook has saved.
Underway == {"engine", "hook", "snapshot", "save", "reply"}
AfterHook == {"snapshot", "save", "reply"}

Resumes(r) == stage[r] # "off" /\ Api!Asks(r) = "resume_interrupt" /\ ~Api!Overlapped(r)

\* The answer of a request that met no other is in its object, then in the stored run, and
\* when it has succeeded in all of them, unless a pass has taken it out of the state; nobody
\* is about to give it again.
AnswersKept ==
  \A r \in Callers : Resumes(r) =>
    /\ stage[r] \in Underway => Has(Api!Object(r), Api!Its(r), discarded)
    /\ stage[r] \in AfterHook => Has(Api!Stored, Api!Its(r), discarded)
    /\ Api!Succeeded(r) =>
         /\ storedAt # None
         /\ \A o \in DOMAIN heap : Has(heap[o], Api!Its(r), discarded)
         /\ \A q \in Callers \ {r} : stage[q] = "resolve" => Api!Its(q) # Api!Its(r)

\* Who has answered is at work on it, or has succeeded or failed.
Answerers ==
  \A a \in answered :
    /\ stage[a[1]] # "off" /\ Api!Asks(a[1]) = "resume_interrupt" /\ a[2] = Api!Its(a[1])
    /\ stage[a[1]] \notin Underway =>
         verdict[a[1]] \in {"ok", "failed"}

Waits(run) == run.status = "WAITING_FOR_INPUT" => \E i \in Interrupts : run.interrupts[i] = "OPEN"

\* While requests come one by one every object that waits can be answered: a request has
\* the only object, or a copy of its own.
OneByOne ==
  met = {} =>
    /\ \A o \in DOMAIN heap : Waits(heap[o])
    /\ \A r \in Callers :
         /\ stage[r] = "torn" => Api!Object(r).interrupts = Api!Stored.interrupts
         /\ stage[r] \in {"check", "resolve", "rerun", "engine"} /\ backend = "memory" =>
              DOMAIN heap = {loc[r]}

ApiIInv ==
  /\ Api!TypeOK /\ InUse /\ Begun /\ Meetings
  /\ AnswersKept /\ Answerers /\ Api!AnsweredOnce /\ OneByOne
  /\ \A r \in Callers : Where(r)

-----------------------------------------------------------------------------
(* The objects.                                                            *)

LEMMA Counted ==
  ASSUME Api!RequestAssumption
  PROVE  IsFiniteSet(Callers) /\ Api!Objects = 0 .. Cardinality(Callers) + 1
  BY DEF Api!RequestAssumption, Api!Objects, Api!IsFiniteSet, Api!Cardinality, IsFiniteSet,
    Cardinality

LEMMA Distinct == Api!RequestAssumption => None \notin Api!Objects /\ Api!Objects \subseteq Nat
<1>1. ASSUME Api!RequestAssumption
      PROVE  None \notin Api!Objects /\ Api!Objects \subseteq Nat
  <2>1. Cardinality(Callers) \in Nat
    BY <1>1, Counted, FS_CardinalityType
  <2>2. Api!Objects \subseteq Nat
    BY <1>1, <2>1, Counted
  <2> QED BY <1>1, <2>2 DEF Api!RequestAssumption
<1> QED BY <1>1

\* There are more objects than can be in use.
LEMMA UnusedIsFree ==
  ASSUME Api!RequestAssumption, InUse
  PROVE  Api!Unused \in Api!Objects /\ Api!Unused \notin DOMAIN heap
<1>. DEFINE n == Cardinality(Callers)
            Locs == {loc[r] : r \in Callers}
<1>1. IsFiniteSet(Callers) /\ n \in Nat
  BY Counted, FS_CardinalityType
<1>2. IsFiniteSet(Locs) /\ Cardinality(Locs) <= n
  <2>1. [r \in Callers |-> loc[r]] \in Surjection(Callers, Locs)
    BY Fun_IsSurj
  <2> QED BY <1>1, <2>1, FS_Surjection
<1>3. IsFiniteSet({storedAt}) /\ Cardinality({storedAt}) = 1
  BY FS_Singleton
<1>4. IsFiniteSet({storedAt} \cup Locs) /\ Cardinality({storedAt} \cup Locs) <= n + 1
  <2>1. /\ IsFiniteSet({storedAt} \cup Locs)
        /\ Cardinality({storedAt} \cup Locs) =
             Cardinality({storedAt}) + Cardinality(Locs) - Cardinality({storedAt} \cap Locs)
    BY <1>2, <1>3, FS_Union
  <2>2. IsFiniteSet({storedAt} \cap Locs) /\ Cardinality({storedAt} \cap Locs) \in Nat
    BY <1>3, FS_Intersection, FS_CardinalityType
  <2>3. Cardinality(Locs) \in Nat
    BY <1>2, FS_CardinalityType
  <2> QED BY <1>1, <1>2, <1>3, <2>1, <2>2, <2>3
<1>5. IsFiniteSet(DOMAIN heap) /\ Cardinality(DOMAIN heap) <= n + 1
  <2>1. DOMAIN heap \subseteq {storedAt} \cup Locs
    BY DEF InUse
  <2>2. IsFiniteSet(DOMAIN heap) /\ Cardinality(DOMAIN heap) <= Cardinality({storedAt} \cup Locs)
    BY <1>4, <2>1, FS_Subset
  <2>3. Cardinality(DOMAIN heap) \in Nat /\ Cardinality({storedAt} \cup Locs) \in Nat
    BY <1>4, <2>2, FS_CardinalityType
  <2> QED BY <1>1, <1>4, <2>2, <2>3
<1>6. IsFiniteSet(Api!Objects) /\ Cardinality(Api!Objects) = n + 2
  <2>1. /\ IsFiniteSet(0 .. n + 1)
        /\ Cardinality(0 .. n + 1) = IF 0 > n + 1 THEN 0 ELSE (n + 1) - 0 + 1
    BY <1>1, FS_Interval
  <2> QED BY <1>1, <2>1, Counted
<1>7. \E o \in Api!Objects : o \notin DOMAIN heap
  <2>1. SUFFICES ASSUME Api!Objects \subseteq DOMAIN heap
                 PROVE  FALSE
    OBVIOUS
  <2>2. Cardinality(Api!Objects) <= Cardinality(DOMAIN heap)
    BY <1>5, <2>1, FS_Subset
  <2>3. Cardinality(DOMAIN heap) \in Nat
    BY <1>5, FS_CardinalityType
  <2> QED BY <1>1, <1>5, <1>6, <2>2, <2>3
<1> QED BY <1>7 DEF Api!Unused

LEMMA Kept ==
  ASSUME NEW objects, NEW at, NEW locs, Api!Keep(objects, at, locs)
  PROVE  /\ DOMAIN heap' = ({at} \cup {locs[r] : r \in Callers}) \ {None}
         /\ \A o \in DOMAIN heap' : heap'[o] = objects[o]
         /\ storedAt' = at /\ loc' = locs
  BY DEF Api!Keep, Api!Restrict

-----------------------------------------------------------------------------
(* What a step of a request does, object by object.                        *)

\* The others stay where they are, and so does what r asks for.
Goes(r) ==
  /\ Api!InFlight(r) /\ stage'[r] \in Api!Steps \ {"off", "lookup"}
  /\ \A q \in Callers \ {r} : stage'[q] = stage[q] /\ verdict'[q] = verdict[q] /\ loc'[q] = loc[q]
  /\ backend' = backend /\ wants' = wants /\ met' = met

\* The requests' variables that are functions.
Frames ==
  /\ stage' \in [Callers -> Api!Steps] /\ verdict' \in [Callers -> Api!Outcomes]

Walks(r) == heap' = heap /\ storedAt' = storedAt /\ loc' = loc /\ verdict' = verdict

Drops(r) ==
  /\ \A o \in DOMAIN heap' : o \in DOMAIN heap /\ heap'[o] = heap[o]
  /\ storedAt' = storedAt /\ loc' = [loc EXCEPT ![r] = None] /\ stage'[r] = "done"

\* A new object, which is run.
Makes(r, o, run) ==
  /\ o \in Api!Objects \ DOMAIN heap /\ heap'[o] = run
  /\ DOMAIN heap' = DOMAIN heap \cup {o}
  /\ \A p \in DOMAIN heap : heap'[p] = heap[p]
  /\ storedAt' = storedAt /\ loc' = [loc EXCEPT ![r] = o] /\ verdict' = verdict

\* Object o becomes run.
Turns(r, o, run) ==
  /\ o \in DOMAIN heap /\ DOMAIN heap' \subseteq DOMAIN heap /\ heap'[o] = run
  /\ \A p \in DOMAIN heap' \ {o} :
       heap'[p] = IF backend = "memory" THEN [heap[p] EXCEPT !.interrupts = run.interrupts]
                  ELSE heap[p]
  /\ storedAt' = storedAt /\ loc' = [loc EXCEPT ![r] = o] /\ verdict' = verdict

Stores(r) ==
  /\ storedAt' \in DOMAIN heap' \cap Api!Objects /\ heap'[storedAt'] = Api!Object(r)
  /\ loc[r] \in DOMAIN heap' /\ heap'[loc[r]] = Api!Object(r)
  /\ \A p \in DOMAIN heap' \ {storedAt'} : p \in DOMAIN heap /\ heap'[p] = heap[p]
  /\ loc' = loc /\ verdict' = verdict

LEMMA FinishDeed ==
  ASSUME Api!RequestAssumption, Api!TypeOK, InUse, NEW r \in Callers, Api!InFlight(r),
         NEW result \in Api!Outcomes, Api!Finish(r, result)
  PROVE  Goes(r) /\ Frames /\ Drops(r) /\ InUse' /\ verdict' = [verdict EXCEPT ![r] = result]
         /\ answered' = answered /\ snapshot' = snapshot /\ crashes' = crashes
         /\ discarded' = discarded
<1>1. /\ stage' = [stage EXCEPT ![r] = "done"] /\ verdict' = [verdict EXCEPT ![r] = result]
      /\ Api!Keep(heap, storedAt, [loc EXCEPT ![r] = None])
      /\ UNCHANGED <<backend, wants, snapshot, crashes, met, answered, discarded>>
  BY DEF Api!Finish, Api!Goto
<1>2. /\ DOMAIN heap' =
           ({storedAt} \cup {[loc EXCEPT ![r] = None][q] : q \in Callers}) \ {None}
      /\ \A o \in DOMAIN heap' : heap'[o] = heap[o]
      /\ storedAt' = storedAt /\ loc' = [loc EXCEPT ![r] = None]
  BY <1>1, Kept
<1>3. loc \in [Callers -> DOMAIN heap \cup {None}] /\ stage \in [Callers -> Api!Steps]
  BY DEF Api!TypeOK
<1>4. DOMAIN heap' \subseteq DOMAIN heap /\ InUse'
  BY <1>2, <1>3 DEF InUse
<1>5. Goes(r)
  BY <1>1, <1>2, <1>3 DEF Goes, Api!Steps, Api!TypeOK
<1>6. Frames
  BY <1>1 DEF Frames, Api!TypeOK, Api!Steps
<1> QED BY <1>1, <1>2, <1>3, <1>4, <1>5, <1>6 DEF Drops, Api!TypeOK

LEMMA CreateDeed ==
  ASSUME Api!RequestAssumption, Api!TypeOK, InUse, NEW r \in Callers, loc[r] = None, NEW run,
         Api!Keep(Api!Put(Api!Unused, run), storedAt, [loc EXCEPT ![r] = Api!Unused]),
         verdict' = verdict
  PROVE  Makes(r, Api!Unused, run) /\ InUse'
<1>1. Api!Unused \in Api!Objects /\ Api!Unused \notin DOMAIN heap /\ None \notin Api!Objects
  BY UnusedIsFree, Distinct
<1>2. /\ DOMAIN heap' =
           ({storedAt} \cup {[loc EXCEPT ![r] = Api!Unused][q] : q \in Callers}) \ {None}
      /\ \A o \in DOMAIN heap' : heap'[o] = Api!Put(Api!Unused, run)[o]
      /\ storedAt' = storedAt /\ loc' = [loc EXCEPT ![r] = Api!Unused]
  BY Kept
<1>3. loc \in [Callers -> DOMAIN heap \cup {None}]
  BY DEF Api!TypeOK
<1>4. DOMAIN heap' = DOMAIN heap \cup {Api!Unused} /\ InUse'
  BY <1>1, <1>2, <1>3 DEF InUse
<1>5. heap'[Api!Unused] = run /\ \A p \in DOMAIN heap : heap'[p] = heap[p]
  BY <1>1, <1>2, <1>4 DEF Api!Put
<1> QED BY <1>1, <1>2, <1>4, <1>5 DEF Makes

LEMMA TurnDeed ==
  ASSUME Api!RequestAssumption, Api!TypeOK, InUse, NEW r \in Callers, NEW o \in DOMAIN heap,
         NEW run,
         Api!Keep(Api!Spread(o, run), storedAt, [loc EXCEPT ![r] = o]), verdict' = verdict
  PROVE  Turns(r, o, run) /\ InUse'
<1>1. None \notin DOMAIN heap
  BY Distinct DEF Api!TypeOK
<1>2. /\ DOMAIN heap' = ({storedAt} \cup {[loc EXCEPT ![r] = o][q] : q \in Callers}) \ {None}
      /\ \A p \in DOMAIN heap' : heap'[p] = Api!Spread(o, run)[p]
      /\ storedAt' = storedAt /\ loc' = [loc EXCEPT ![r] = o]
  BY Kept
<1>3. loc \in [Callers -> DOMAIN heap \cup {None}]
  BY DEF Api!TypeOK
<1>4. DOMAIN heap' \subseteq DOMAIN heap /\ o \in DOMAIN heap' /\ InUse'
  BY <1>1, <1>2, <1>3 DEF InUse
<1> QED BY <1>2, <1>4 DEF Turns, Api!Spread

LEMMA StoreDeed ==
  ASSUME Api!RequestAssumption, Api!TypeOK, InUse, NEW r \in Callers, loc[r] # None, Api!Save(r),
         verdict' = verdict
  PROVE  Stores(r) /\ InUse'
<1>. DEFINE place == IF backend = "postgres" /\ storedAt # None THEN storedAt ELSE Api!Unused
<1>1. Api!Unused \in Api!Objects /\ Api!Unused \notin DOMAIN heap /\ None \notin Api!Objects
  BY UnusedIsFree, Distinct
<1>2. place \in Api!Objects /\ place # None /\ (place \in DOMAIN heap => place = storedAt)
  BY <1>1 DEF Api!TypeOK
<1>3. Api!Keep(Api!Put(place, Api!Object(r)), place, loc)
  BY DEF Api!Save
<1>. HIDE DEF place
<1>4. /\ DOMAIN heap' = ({place} \cup {loc[q] : q \in Callers}) \ {None}
      /\ \A o \in DOMAIN heap' : heap'[o] = Api!Put(place, Api!Object(r))[o]
      /\ storedAt' = place /\ loc' = loc
  BY <1>3, Kept
<1>5. loc \in [Callers -> DOMAIN heap \cup {None}]
  BY DEF Api!TypeOK
<1>6. InUse' /\ place \in DOMAIN heap' /\ loc[r] \in DOMAIN heap'
  BY <1>2, <1>4 DEF InUse
<1>7. heap'[place] = Api!Object(r)
  BY <1>4, <1>6 DEF Api!Put
<1>8. \A p \in DOMAIN heap' \ {place} : p \in DOMAIN heap /\ heap'[p] = heap[p]
  <2>1. DOMAIN heap' \ {place} \subseteq DOMAIN heap
    BY <1>4, <1>5
  <2> QED BY <1>4, <2>1 DEF Api!Put
<1>9. heap'[loc[r]] = Api!Object(r)
  BY <1>6, <1>7, <1>8 DEF Api!Object
<1> QED BY <1>2, <1>4, <1>6, <1>7, <1>8, <1>9 DEF Stores

\* Where a request goes without a change to any object.
Moves(r) ==
  /\ Walks(r) /\ answered' = answered
  /\ \/ stage[r] = "lookup" /\ stage'[r] = "load" /\ Api!Asks(r) # "start_run"
     \/ stage[r] = "check" /\ stage'[r] = "resolve" /\ Api!MayAnswer(r)
     \/ stage[r] = "rerun" /\ stage'[r] \in {"engine", "hook"}
     \/ stage[r] = "snapshot" /\ stage'[r] = IF Api!Cancels(r) THEN "hook" ELSE "save"

Ends(r) ==
  /\ Drops(r) /\ answered' = answered
  /\ \/ stage[r] = "reply" /\ verdict'[r] = "ok"
     \/ stage[r] \in {"lookup", "load", "torn", "check"} /\ verdict'[r] \in {"replayed", "refused"}
     \/ stage[r] \in {"engine", "hook", "snapshot", "save"} /\ verdict'[r] = "failed"

Starts(r, o) ==
  /\ stage[r] = "lookup" /\ stage'[r] = "engine" /\ Api!Asks(r) = "start_run"
  /\ Makes(r, o, Api!NewRun) /\ answered' = answered

Copies(r, o) ==
  /\ stage[r] = "load" /\ stage'[r] = "torn" /\ storedAt # None /\ backend = "postgres"
  /\ Makes(r, o, Api!Stored) /\ answered' = answered

\* The row with the interrupts that are read later.
Mended(r) == [Api!Object(r) EXCEPT !.interrupts = Api!Stored.interrupts]

Loads(r, o, run) ==
  /\ \/ stage[r] = "load" /\ backend = "memory" /\ o = storedAt /\ run = Api!Stored
     \/ stage[r] = "torn" /\ o = loc[r] /\ run = Mended(r)
  /\ storedAt # None /\ Api!Asks(r) # "start_run"
  /\ stage'[r] = CASE Api!Asks(r) = "resume_interrupt" -> "check"
                   [] Api!Reruns(r)                    -> "rerun"
                   [] OTHER                        -> "snapshot"
  /\ Turns(r, o, Api!Changed(r, run)) /\ answered' = answered

Answers(r) ==
  /\ stage[r] = "resolve" /\ stage'[r] = "engine"
  /\ Turns(r, loc[r], Api!Resolved(r)) /\ answered' = answered \cup {<<r, Api!Its(r)>>}

\* A pass keeps what was answered or takes it out of the state for all to see, and what it
\* waits for can be answered.
Passes(r, run) ==
  /\ stage[r] = "engine" /\ stage'[r] = "hook"
  /\ run \in Api!Runs /\ Api!Object(r).answers \subseteq run.answers \cup discarded'
  /\ Closed(Api!Object(r)) \subseteq Closed(run)
  /\ Waits(Api!Object(r)) => Waits(run)
  /\ Turns(r, loc[r], run) /\ answered' = answered

Saves(r) ==
  /\ \/ stage[r] = "hook" /\ stage'[r] = IF Api!Cancels(r) THEN "save" ELSE "snapshot"
     \/ stage[r] = "save" /\ stage'[r] = "reply"
  /\ Stores(r) /\ answered' = answered

Does(r) ==
  /\ Goes(r) /\ Frames /\ InUse'
  /\ crashes' = crashes /\ cached' \in [Api!Scopes -> Callers \cup {None}]
  /\ snapshot' \in Api!Statuses \cup {None}
  /\ discarded \subseteq discarded' /\ discarded' \subseteq Interrupts
  /\ \/ Moves(r) \/ Ends(r) \/ Answers(r) \/ Saves(r)
     \/ \E o \in Api!Objects : Starts(r, o) \/ Copies(r, o)
     \/ \E o \in DOMAIN heap : \E run \in Api!Runs : Loads(r, o, run)
     \/ \E run \in Api!Runs : Passes(r, run)

\* A request has an object, and what it asks for, when it is at work.
LEMMA AtWork ==
  ASSUME Api!RequestAssumption, Api!TypeOK, InUse, NEW r \in Callers, Where(r)
  PROVE  /\ stage[r] \notin {"off", "lookup", "load", "done"} =>
              loc[r] \in DOMAIN heap /\ Api!Object(r) \in Api!Runs
         /\ storedAt # None => storedAt \in DOMAIN heap /\ Api!Stored \in Api!Runs
         /\ stage[r] # "off" => wants[r] \in Api!Asked /\ wants[r].scope \in Api!Scopes
<1>1. \A o \in DOMAIN heap : heap[o] \in Api!Runs
  BY DEF Api!TypeOK
<1>2. loc[r] \in DOMAIN heap \cup {None} /\ storedAt \in DOMAIN heap \cup {None}
  BY DEF Api!TypeOK
<1> QED BY <1>1, <1>2 DEF Where, Api!Object, Api!Stored, Api!Asked

LEMMA EndsDeed ==
  ASSUME Api!RequestAssumption, Api!TypeOK, InUse, NEW r \in Callers, Api!InFlight(r),
         NEW result \in Api!Outcomes, Api!Finish(r, result),
         cached' \in [Api!Scopes -> Callers \cup {None}],
         \/ stage[r] = "reply" /\ result = "ok"
         \/ stage[r] \in {"lookup", "load", "torn", "check"} /\ result \in {"replayed", "refused"}
         \/ stage[r] \in {"engine", "hook", "snapshot", "save"} /\ result = "failed"
  PROVE  Does(r)
<1>1. Goes(r) /\ Frames /\ Drops(r) /\ InUse' /\ verdict' = [verdict EXCEPT ![r] = result]
         /\ answered' = answered /\ snapshot' = snapshot /\ crashes' = crashes
         /\ discarded' = discarded
  BY FinishDeed
<1>2. verdict'[r] = result
  BY <1>1 DEF Api!TypeOK
<1>3. Ends(r)
  BY <1>1, <1>2 DEF Ends
<1> QED BY <1>1, <1>3 DEF Does, Api!TypeOK

\* The steps that do not end a request.
LEMMA StepDeed ==
  ASSUME Api!RequestAssumption, Api!TypeOK, NEW r \in Callers, Api!InFlight(r),
         NEW to \in Api!Steps \ {"off", "lookup"}, Api!Goto(r, to),
         backend' = backend, wants' = wants, met' = met, verdict' = verdict,
         \A q \in Callers \ {r} : loc'[q] = loc[q]
  PROVE  Goes(r) /\ Frames /\ stage'[r] = to
  BY DEF Goes, Frames, Api!Goto, Api!TypeOK

LEMMA LoadsDeed ==
  ASSUME Api!RequestAssumption, Api!TypeOK, InUse, NEW r \in Callers, Where(r), storedAt # None,
         NEW o \in DOMAIN heap, NEW run \in Api!Runs, Api!Loaded(r, o, run), cached' = cached,
         \/ stage[r] = "load" /\ backend = "memory" /\ o = storedAt /\ run = Api!Stored
         \/ stage[r] = "torn" /\ o = loc[r] /\ run = Mended(r)
  PROVE  Does(r)
<1>. DEFINE to == CASE Api!Asks(r) = "resume_interrupt" -> "check"
                    [] Api!Reruns(r)                    -> "rerun"
                    [] OTHER                        -> "snapshot"
<1>1. Api!InFlight(r) /\ cached' \in [Api!Scopes -> Callers \cup {None}]
  BY DEF Api!InFlight, Api!TypeOK
<1>2. CASE Api!Finish(r, "refused")
  BY <1>1, <1>2, EndsDeed DEF Api!Outcomes
<1>3. CASE ~Api!Finish(r, "refused")
  <2>1. /\ Api!Keep(Api!Spread(o, Api!Changed(r, run)), storedAt, [loc EXCEPT ![r] = o])
        /\ Api!Goto(r, to)
        /\ UNCHANGED <<backend, wants, verdict, snapshot, crashes, met, answered, discarded>>
    BY <1>3 DEF Api!Loaded
  <2>2. to \in {"check", "rerun", "snapshot"}
    BY DEF Api!Reruns
  <2>. HIDE DEF to
  <2>3. Turns(r, o, Api!Changed(r, run)) /\ InUse'
    BY <2>1, TurnDeed
  <2>4. \A q \in Callers \ {r} : loc'[q] = loc[q]
    BY <2>3 DEF Turns, Api!TypeOK
  <2>5. Goes(r) /\ Frames /\ stage'[r] = to
    BY <1>1, <2>1, <2>2, <2>4, StepDeed DEF Api!Steps
  <2>6. Api!Asks(r) # "start_run"
    BY DEF Where
  <2>7. Loads(r, o, run)
    BY <2>1, <2>3, <2>5, <2>6 DEF Loads, to
  <2> QED BY <1>1, <2>1, <2>3, <2>5, <2>7 DEF Does, Api!TypeOK
<1> QED BY <1>2, <1>3

LEMMA WalksDeed ==
  ASSUME Api!RequestAssumption, Api!TypeOK, InUse, NEW r \in Callers, Api!InFlight(r),
         NEW to \in Api!Steps \ {"off", "lookup"}, Api!Goto(r, to),
         UNCHANGED <<backend, Api!runVars, wants, verdict, met, answered>>
  PROVE  Goes(r) /\ Frames /\ InUse' /\ Walks(r) /\ stage'[r] = to
<1>1. Goes(r) /\ Frames /\ stage'[r] = to
  BY StepDeed DEF Api!runVars
<1> QED BY <1>1 DEF InUse, Walks, Api!runVars

\* The pass ends with the interrupts that were, or one more.
LEMMA PassEnds ==
  ASSUME Api!RequestAssumption, NEW old \in Api!Runs,
         NEW run \in Api!Blocked(old)
                       \cup {[old EXCEPT !.status = final] : final \in {"COMPLETED", "FAILED"}}
                       \cup (IF old.status = "RUNNING" THEN {} ELSE {old})
  PROVE  /\ run \in Api!Runs /\ run.answers = old.answers /\ Closed(old) \subseteq Closed(run)
         /\ Waits(old) => Waits(run)
<1>1. CASE run \in Api!Blocked(old)
  <2>1. PICK i \in Interrupts :
          /\ old.interrupts[i] = "NONE"
          /\ run = [old EXCEPT !.status = "WAITING_FOR_INPUT", !.interrupts[i] = "OPEN"]
    BY <1>1 DEF Api!Blocked
  <2>2. run \in Api!Runs /\ run.answers = old.answers
    BY <2>1 DEF Api!Runs, Api!Statuses
  <2>3. run.interrupts = [old.interrupts EXCEPT ![i] = "OPEN"]
    BY <2>1 DEF Api!Runs
  <2>4. old.interrupts \in [Interrupts -> {"NONE", "OPEN", "RESOLVED", "CANCELLED"}]
    BY DEF Api!Runs
  <2> QED BY <2>1, <2>2, <2>3, <2>4 DEF Closed, Waits
<1>2. CASE run \in {[old EXCEPT !.status = final] : final \in {"COMPLETED", "FAILED"}}
  BY <1>2 DEF Api!Runs, Api!Statuses, Closed, Waits
<1>3. CASE run = old
  BY <1>3
<1> QED BY <1>1, <1>2, <1>3

LEMMA HandleDoes ==
  ASSUME Api!RequestAssumption, Api!TypeOK, InUse, NEW r \in Callers, Where(r),
         Api!Handle(r) \/ Api!RequestFails(r)
  PROVE  Does(r)
<1>0. /\ cached \in [Api!Scopes -> Callers \cup {None}] /\ snapshot \in Api!Statuses \cup {None}
      /\ discarded \subseteq Interrupts
  BY DEF Api!TypeOK
<1>1. CASE Api!Replay(r)
  BY <1>0, <1>1, EndsDeed DEF Api!Replay, Api!InFlight, Api!Outcomes
<1>2. CASE Api!StartRun(r)
  <2>1. Makes(r, Api!Unused, Api!NewRun) /\ InUse' /\ Api!Unused \in Api!Objects
    BY <1>2, CreateDeed, UnusedIsFree DEF Api!StartRun, Where
  <2>2. Goes(r) /\ Frames /\ stage'[r] = "engine"
    BY <1>2, <2>1, StepDeed DEF Api!StartRun, Makes, Api!TypeOK, Api!InFlight, Api!Steps,
      Api!history
  <2>3. Starts(r, Api!Unused)
    BY <1>2, <2>1, <2>2 DEF Starts, Api!StartRun, Api!history
  <2> QED BY <1>0, <1>2, <2>1, <2>2, <2>3 DEF Does, Api!StartRun, Api!history
<1>3. CASE Api!Miss(r)
  <2>1. Goes(r) /\ Frames /\ InUse' /\ Walks(r) /\ stage'[r] = "load"
    BY <1>3, WalksDeed DEF Api!Miss, Api!InFlight, Api!Steps, Api!history
  <2> QED BY <1>0, <1>3, <2>1 DEF Does, Api!Miss, Moves, Api!history
<1>4. CASE Api!NotFound(r)
  BY <1>0, <1>4, EndsDeed DEF Api!NotFound, Api!InFlight, Api!Outcomes
<1>5. CASE Api!LoadObject(r)
  BY <1>5, AtWork, LoadsDeed DEF Api!LoadObject, Api!Stored
<1>6. CASE Api!LoadRow(r)
  <2>1. Makes(r, Api!Unused, Api!Stored) /\ InUse' /\ Api!Unused \in Api!Objects
    BY <1>6, CreateDeed, UnusedIsFree DEF Api!LoadRow, Where, Api!Stored
  <2>2. Goes(r) /\ Frames /\ stage'[r] = "torn"
    BY <1>6, <2>1, StepDeed DEF Api!LoadRow, Makes, Api!TypeOK, Api!InFlight, Api!Steps, Api!history
  <2>3. Copies(r, Api!Unused)
    BY <1>6, <2>1, <2>2 DEF Copies, Api!LoadRow, Api!history
  <2> QED BY <1>0, <1>6, <2>1, <2>2, <2>3 DEF Does, Api!LoadRow, Api!history
<1>7. CASE Api!LoadInterrupts(r)
  <2>1. stage[r] = "torn" /\ loc[r] \in DOMAIN heap /\ Api!Object(r) \in Api!Runs
    BY <1>7, AtWork DEF Api!LoadInterrupts
  <2>2. storedAt # None /\ Api!Stored \in Api!Runs
    BY <2>1, AtWork DEF Where
  <2>3. Mended(r) \in Api!Runs
    BY <2>1, <2>2 DEF Mended, Api!Runs
  <2> QED BY <1>7, <2>1, <2>2, <2>3, LoadsDeed DEF Api!LoadInterrupts, Api!Stored, Mended
<1>8. CASE Api!Check(r)
  <2>1. CASE Api!MayAnswer(r)
    <3>1. Goes(r) /\ Frames /\ InUse' /\ Walks(r) /\ stage'[r] = "resolve"
      BY <1>8, <2>1, WalksDeed DEF Api!Check, Api!InFlight, Api!Steps
    <3> QED BY <1>0, <1>8, <2>1, <3>1 DEF Does, Api!Check, Moves
  <2>2. CASE ~Api!MayAnswer(r)
    BY <1>0, <1>8, <2>2, EndsDeed DEF Api!Check, Api!InFlight, Api!Outcomes
  <2> QED BY <2>1, <2>2
<1>9. CASE Api!Resolve(r)
  <2>1. loc[r] \in DOMAIN heap /\ loc = [loc EXCEPT ![r] = loc[r]]
    BY <1>9, AtWork DEF Api!Resolve, Api!TypeOK
  <2>2. Turns(r, loc[r], Api!Resolved(r)) /\ InUse'
    BY <1>9, <2>1, TurnDeed DEF Api!Resolve, Api!Becomes
  <2>3. Goes(r) /\ Frames /\ stage'[r] = "engine"
    BY <1>9, <2>1, <2>2, StepDeed DEF Api!Resolve, Turns, Api!InFlight, Api!Steps
  <2> QED BY <1>0, <1>9, <2>2, <2>3 DEF Does, Api!Resolve, Answers
<1>10. CASE Api!RerunNode(r)
  <2>. DEFINE to == IF Api!Object(r).status = "RUNNING" THEN "engine" ELSE "hook"
  <2>1. Goes(r) /\ Frames /\ InUse' /\ Walks(r) /\ stage'[r] = to
    BY <1>10, WalksDeed DEF Api!RerunNode, Api!InFlight, Api!Steps, Api!history
  <2> QED BY <1>0, <1>10, <2>1 DEF Does, Api!RerunNode, Moves, Api!history
<1>11. CASE Api!ExecuteUntilBlocked(r)
  <2>1. /\ loc[r] \in DOMAIN heap /\ Api!Object(r) \in Api!Runs
        /\ loc = [loc EXCEPT ![r] = loc[r]]
    BY <1>11, AtWork DEF Api!ExecuteUntilBlocked, Api!TypeOK
  <2>2. PICK before \in {Api!Object(r), Api!StateReplaced(Api!Object(r))} :
          /\ \E run \in Api!Blocked(before)
                        \cup {[before EXCEPT !.status = final] : final \in {"COMPLETED", "FAILED"}}
                        \cup (IF before.status = "RUNNING" THEN {} ELSE {before}) :
               Api!Becomes(r, run)
          /\ discarded' = discarded \cup (Api!Object(r).answers \ before.answers)
    BY <1>11 DEF Api!ExecuteUntilBlocked
  <2>3. PICK run \in Api!Blocked(before)
                        \cup {[before EXCEPT !.status = final] : final \in {"COMPLETED", "FAILED"}}
                        \cup (IF before.status = "RUNNING" THEN {} ELSE {before}) :
               Api!Becomes(r, run)
    BY <2>2
  <2>4. /\ before \in Api!Runs /\ before.interrupts = Api!Object(r).interrupts
        /\ before.status = Api!Object(r).status /\ before.answers \subseteq Interrupts
        /\ Api!Object(r).answers \subseteq Interrupts
    BY <2>1 DEF Api!Runs, Api!StateReplaced
  <2>5. run \in Api!Runs /\ run.answers = before.answers /\ Closed(before) \subseteq Closed(run)
        /\ (Waits(before) => Waits(run))
    BY <2>3, <2>4, PassEnds
  <2>6. /\ Api!Object(r).answers \subseteq run.answers \cup discarded'
        /\ discarded \subseteq discarded' /\ discarded' \subseteq Interrupts
    BY <1>0, <2>2, <2>4, <2>5
  <2>7. /\ Closed(Api!Object(r)) \subseteq Closed(run)
        /\ Waits(Api!Object(r)) => Waits(run)
    BY <2>4, <2>5 DEF Closed, Waits
  <2>8. Turns(r, loc[r], run) /\ InUse'
    BY <1>11, <2>1, <2>3, TurnDeed DEF Api!ExecuteUntilBlocked, Api!Becomes
  <2>9. Goes(r) /\ Frames /\ stage'[r] = "hook"
    BY <1>11, <2>1, <2>8, StepDeed DEF Api!ExecuteUntilBlocked, Turns, Api!InFlight, Api!Steps
  <2>10. Passes(r, run)
    BY <1>11, <2>5, <2>6, <2>7, <2>8, <2>9 DEF Passes, Api!ExecuteUntilBlocked
  <2> QED BY <1>0, <1>11, <2>5, <2>6, <2>8, <2>9, <2>10 DEF Does, Api!ExecuteUntilBlocked
<1>12. CASE Api!NotifyHooks(r)
  <2>. DEFINE to == IF Api!Cancels(r) THEN "save" ELSE "snapshot"
  <2>1. Stores(r) /\ InUse'
    BY <1>12, StoreDeed DEF Api!NotifyHooks, Where
  <2>2. Goes(r) /\ Frames /\ stage'[r] = to
    BY <1>12, <2>1, StepDeed DEF Api!NotifyHooks, Stores, Api!InFlight, Api!Steps, Api!history
  <2>3. Saves(r)
    BY <1>12, <2>1, <2>2 DEF Saves, Api!NotifyHooks, Api!history
  <2> QED BY <1>0, <1>12, <2>1, <2>2, <2>3 DEF Does, Api!NotifyHooks, Api!history
<1>13. CASE Api!PublishWithSnapshot(r)
  <2>. DEFINE to == IF Api!Cancels(r) THEN "hook" ELSE "save"
  <2>1. Goes(r) /\ Frames /\ InUse' /\ Walks(r) /\ stage'[r] = to
    BY <1>13, WalksDeed DEF Api!PublishWithSnapshot, Api!InFlight, Api!Steps, Api!history
  <2>2. Api!Object(r).status \in Api!Statuses
    BY <1>13, AtWork DEF Api!PublishWithSnapshot, Api!Runs
  <2> QED BY <1>0, <1>13, <2>1, <2>2 DEF Does, Api!PublishWithSnapshot, Moves, Api!history
<1>14. CASE Api!FinalSave(r)
  <2>1. Stores(r) /\ InUse'
    BY <1>14, StoreDeed DEF Api!FinalSave, Where
  <2>2. Goes(r) /\ Frames /\ stage'[r] = "reply"
    BY <1>14, <2>1, StepDeed DEF Api!FinalSave, Stores, Api!InFlight, Api!Steps, Api!history
  <2>3. Saves(r)
    BY <1>14, <2>1, <2>2 DEF Saves, Api!FinalSave, Api!history
  <2> QED BY <1>0, <1>14, <2>1, <2>2, <2>3 DEF Does, Api!FinalSave, Api!history
<1>15. CASE Api!Reply(r)
  <2>1. cached' \in [Api!Scopes -> Callers \cup {None}]
    BY <1>0, <1>15 DEF Api!Reply, Api!Remembered
  <2> QED BY <1>15, <2>1, EndsDeed DEF Api!Reply, Api!InFlight, Api!Outcomes
<1>16. CASE Api!RequestFails(r)
  BY <1>0, <1>16, EndsDeed DEF Api!RequestFails, Api!InFlight, Api!Outcomes
<1> QED BY <1>1, <1>2, <1>3, <1>4, <1>5, <1>6, <1>7, <1>8, <1>9, <1>10, <1>11, <1>12, <1>13, <1>14,
           <1>15, <1>16 DEF Api!Handle

-----------------------------------------------------------------------------
(* The invariant is kept by what a request does.                           *)

\* What is asked of a run gives a run.
LEMMA ChangedIsRun ==
  ASSUME NEW r, NEW run \in Api!Runs
  PROVE  Api!Changed(r, run) \in Api!Runs
  BY DEF Api!Changed, Api!Runs, Api!Statuses

LEMMA ObjectsAreRuns ==
  ASSUME Api!RequestAssumption, Api!TypeOK, InUse, NEW r \in Callers, Where(r), Does(r)
  PROVE  DOMAIN heap' \subseteq Api!Objects /\ \A o \in DOMAIN heap' : heap'[o] \in Api!Runs
<1>1. DOMAIN heap \subseteq Api!Objects /\ \A o \in DOMAIN heap : heap[o] \in Api!Runs
  BY DEF Api!TypeOK
<1>2. CASE Moves(r)
  BY <1>1, <1>2 DEF Moves, Walks
<1>3. CASE Ends(r)
  BY <1>1, <1>3 DEF Ends, Drops
<1>4. ASSUME NEW o, NEW run \in Api!Runs, Turns(r, o, run)
      PROVE  DOMAIN heap' \subseteq Api!Objects /\ \A p \in DOMAIN heap' : heap'[p] \in Api!Runs
  <2>1. DOMAIN heap' \subseteq DOMAIN heap /\ heap'[o] = run
    BY <1>4 DEF Turns
  <2>2. ASSUME NEW p \in DOMAIN heap', p # o
        PROVE  heap'[p] \in Api!Runs
    <3>1. heap[p] \in Api!Runs /\ [heap[p] EXCEPT !.interrupts = run.interrupts] \in Api!Runs
      BY <1>1, <2>1, <2>2 DEF Api!Runs
    <3> QED BY <1>4, <2>2, <3>1 DEF Turns
  <2> QED BY <1>1, <1>4, <2>1, <2>2
<1>5. CASE Answers(r)
  <2>1. Api!Object(r) \in Api!Runs /\ Api!Its(r) \in Interrupts
    BY <1>5, AtWork DEF Answers, Where
  <2>2. Api!Resolved(r) \in Api!Runs
    BY <2>1 DEF Api!Resolved, Api!Runs, Api!Statuses
  <2> QED BY <1>4, <1>5, <2>2 DEF Answers
<1>6. CASE Saves(r)
  <2>1. Api!Object(r) \in Api!Runs
    BY <1>6, AtWork DEF Saves
  <2> QED BY <1>1, <1>6, <2>1 DEF Saves, Stores
<1>7. ASSUME NEW o \in Api!Objects, Starts(r, o)
      PROVE  DOMAIN heap' \subseteq Api!Objects /\ \A p \in DOMAIN heap' : heap'[p] \in Api!Runs
  <2>1. Api!NewRun \in Api!Runs
    BY DEF Api!NewRun, Api!Runs, Api!Statuses
  <2> QED BY <1>1, <1>7, <2>1 DEF Starts, Makes
<1>8. ASSUME NEW o \in Api!Objects, Copies(r, o)
      PROVE  DOMAIN heap' \subseteq Api!Objects /\ \A p \in DOMAIN heap' : heap'[p] \in Api!Runs
  <2>1. Api!Stored \in Api!Runs
    BY <1>8, AtWork DEF Copies
  <2> QED BY <1>1, <1>8, <2>1 DEF Copies, Makes
<1>9. ASSUME NEW o \in DOMAIN heap, NEW run \in Api!Runs, Loads(r, o, run)
      PROVE  DOMAIN heap' \subseteq Api!Objects /\ \A p \in DOMAIN heap' : heap'[p] \in Api!Runs
  BY <1>4, <1>9, ChangedIsRun DEF Loads
<1>10. ASSUME NEW run \in Api!Runs, Passes(r, run)
       PROVE  DOMAIN heap' \subseteq Api!Objects /\ \A p \in DOMAIN heap' : heap'[p] \in Api!Runs
  BY <1>4, <1>10 DEF Passes
<1> QED BY <1>2, <1>3, <1>5, <1>6, <1>7, <1>8, <1>9, <1>10 DEF Does

\* Where each object that a step leaves or makes is.
LEMMA LocsAre ==
  ASSUME Api!TypeOK, NEW r \in Callers, Does(r)
  PROVE  /\ loc' \in [Callers -> DOMAIN heap' \cup {None}]
         /\ storedAt' \in DOMAIN heap' \cup {None}
         /\ storedAt # None => storedAt' # None \/ Saves(r)
<1>1. InUse'
  BY DEF Does
<1>2. \/ loc' = loc
      \/ \E o : loc' = [loc EXCEPT ![r] = o]
  BY DEF Does, Moves, Walks, Ends, Drops, Answers, Turns, Saves, Stores, Starts, Copies, Makes,
    Loads, Passes
<1>3. \A q \in Callers : loc'[q] \in DOMAIN heap' \cup {None}
  BY <1>1 DEF InUse
<1>4. storedAt' = storedAt \/ Saves(r)
  BY DEF Does, Moves, Walks, Ends, Drops, Answers, Turns, Starts, Copies, Makes, Loads, Passes
<1> QED BY <1>1, <1>2, <1>3, <1>4 DEF InUse, Api!TypeOK

LEMMA TypeKept ==
  ASSUME Api!RequestAssumption, Api!TypeOK, InUse, NEW r \in Callers, Where(r), Does(r)
  PROVE  Api!TypeOK'
<1>1. DOMAIN heap' \subseteq Api!Objects /\ \A o \in DOMAIN heap' : heap'[o] \in Api!Runs
  BY ObjectsAreRuns
<1>2. loc' \in [Callers -> DOMAIN heap' \cup {None}] /\ storedAt' \in DOMAIN heap' \cup {None}
  BY LocsAre
<1>3. /\ backend' = backend /\ wants' = wants /\ met' = met /\ crashes' = crashes
      /\ stage' \in [Callers -> Api!Steps] /\ verdict' \in [Callers -> Api!Outcomes]
      /\ cached' \in [Api!Scopes -> Callers \cup {None}] /\ snapshot' \in Api!Statuses \cup {None}
      /\ discarded' \subseteq Interrupts
  BY DEF Does, Goes, Frames
<1>4. answered' \subseteq Callers \X Interrupts
  <2>1. CASE Answers(r)
    <3>1. Api!Its(r) \in Interrupts
      BY <2>1 DEF Answers, Where
    <3> QED BY <2>1, <3>1 DEF Answers, Api!TypeOK
  <2>2. CASE ~Answers(r)
    BY <2>2 DEF Does, Moves, Ends, Saves, Starts, Copies, Loads, Passes, Api!TypeOK
  <2> QED BY <2>1, <2>2
<1> QED BY <1>1, <1>2, <1>3, <1>4 DEF Api!TypeOK

LEMMA WhereKept ==
  ASSUME Api!RequestAssumption, Api!TypeOK, InUse, NEW r \in Callers, Where(r), Does(r),
         NEW q \in Callers, Where(q)
  PROVE  Where(q)'
<1>1. storedAt # None => storedAt' # None
  <2>1. CASE Saves(r)
    BY <2>1, Distinct DEF Saves, Stores
  <2> QED BY <2>1, LocsAre
<1>2. /\ backend' = backend /\ wants' = wants /\ stage[r] \notin {"off", "done"}
      /\ \A p \in Callers \ {r} :
           stage'[p] = stage[p] /\ verdict'[p] = verdict[p] /\ loc'[p] = loc[p]
  BY DEF Does, Goes, Api!InFlight
<1>3. CASE q # r
  BY <1>1, <1>2, <1>3 DEF Where, Api!Asks, Api!Its
<1>4. CASE q = r
  <2>1. /\ wants'[r] \in Api!Asked
        /\ Api!Asks(r)' \in {"resume_interrupt", "cancel_interrupt"} => Api!Its(r)' \in Interrupts
        /\ Api!Asks(r)' = Api!Asks(r)
    BY <1>2 DEF Where, Api!Asks, Api!Its
  <2>2. verdict[r] = "none"
    BY <1>2 DEF Where, Api!TypeOK
  <2>3. None \notin DOMAIN heap /\ None \notin Api!Objects
    BY Distinct DEF Api!TypeOK
  <2>4. /\ loc'[r] = None <=> stage'[r] \in {"off", "lookup", "load", "done"}
        /\ stage'[r] \in {"check", "resolve"} => Api!Asks(r) = "resume_interrupt"
        /\ stage'[r] \in {"load", "torn"} => Api!Asks(r) # "start_run"
        /\ stage'[r] = "rerun" => Api!Asks(r) = "rerun_node"
        /\ stage'[r] = "torn" => backend = "postgres"
        /\ loc'[r] # None /\ Api!Asks(r) # "start_run" => storedAt' # None
        /\ verdict'[r] # "none" => stage'[r] = "done"
    <3>1. CASE Moves(r)
      BY <1>1, <2>2, <3>1 DEF Moves, Walks, Where
    <3>2. CASE Ends(r)
      BY <3>2 DEF Ends, Drops, Api!TypeOK
    <3>3. CASE Answers(r)
      BY <1>1, <2>2, <2>3, <3>3 DEF Answers, Turns, Where, Api!TypeOK
    <3>4. CASE Saves(r)
      BY <1>1, <2>2, <3>4 DEF Saves, Stores, Where
    <3>5. ASSUME NEW o \in Api!Objects, Starts(r, o) \/ Copies(r, o)
          PROVE  <2>4
      BY <1>1, <2>2, <2>3, <3>5 DEF Starts, Copies, Makes, Where, Api!TypeOK
    <3>6. ASSUME NEW o \in DOMAIN heap, NEW run \in Api!Runs, Loads(r, o, run)
          PROVE  <2>4
      BY <1>1, <2>2, <2>3, <3>6 DEF Loads, Api!Reruns, Turns, Where, Api!TypeOK
    <3>7. ASSUME NEW run \in Api!Runs, Passes(r, run)
          PROVE  <2>4
      BY <1>1, <2>2, <2>3, <3>7 DEF Passes, Turns, Where, Api!TypeOK
    <3> QED BY <3>1, <3>2, <3>3, <3>4, <3>5, <3>6, <3>7 DEF Does
  <2> QED BY <1>2, <1>4, <2>1, <2>4 DEF Where
<1> QED BY <1>3, <1>4

LEMMA MeetingsKept ==
  ASSUME Api!TypeOK, Meetings, NEW r \in Callers, Does(r)
  PROVE  Meetings' /\ Begun'
<1>1. /\ wants' = wants /\ met' = met /\ Api!InFlight(r) /\ stage'[r] \notin {"off", "lookup"}
      /\ \A p \in Callers \ {r} : stage'[p] = stage[p]
  BY DEF Does, Goes, Api!Steps
<1>2. \A p \in Callers :
        (Api!InFlight(p)' => Api!InFlight(p)) /\ (stage'[p] # "off" => stage[p] # "off")
  BY <1>1 DEF Api!InFlight
<1>3. \A p \in Callers : Api!Asks(p)' = Api!Asks(p)
  BY <1>1 DEF Api!Asks
<1>4. Meetings'
  BY <1>1, <1>2, <1>3 DEF Meetings
<1> QED BY <1>1, <1>4 DEF Begun

\* An interrupt is closed for good in all objects.
LEMMA ChangedCloses ==
  ASSUME NEW r, NEW run \in Api!Runs
  PROVE  /\ Api!Changed(r, run).answers = run.answers
         /\ Closed(run) \subseteq Closed(Api!Changed(r, run))
<1>1. run.interrupts \in [Interrupts -> {"NONE", "OPEN", "RESOLVED", "CANCELLED"}]
  BY DEF Api!Runs
<1>2. CASE Api!Asks(r) = "cancel_run"
  BY <1>2 DEF Api!Changed, Api!Runs, Closed
<1>3. CASE Api!Asks(r) = "cancel_interrupt"
  <2>1. /\ Api!Changed(r, run).answers = run.answers
        /\ Api!Changed(r, run).interrupts = [run.interrupts EXCEPT ![Api!Its(r)] = "CANCELLED"]
    BY <1>3 DEF Api!Changed, Api!Runs
  <2> QED BY <1>1, <2>1 DEF Closed
<1>4. CASE Api!Asks(r) \notin {"cancel_run", "cancel_interrupt"}
  BY <1>4 DEF Api!Changed
<1> QED BY <1>2, <1>3, <1>4

LEMMA ResolvedCloses ==
  ASSUME NEW r, Api!Object(r) \in Api!Runs, Api!Its(r) \in Interrupts
  PROVE  /\ Api!Resolved(r).answers = Api!Object(r).answers \cup {Api!Its(r)}
         /\ Closed(Api!Object(r)) \cup {Api!Its(r)} \subseteq Closed(Api!Resolved(r))
<1>1. Api!Object(r).interrupts \in [Interrupts -> {"NONE", "OPEN", "RESOLVED", "CANCELLED"}]
  BY DEF Api!Runs
<1>2. /\ Api!Resolved(r).answers = Api!Object(r).answers \cup {Api!Its(r)}
      /\ Api!Resolved(r).interrupts = [Api!Object(r).interrupts EXCEPT ![Api!Its(r)] = "RESOLVED"]
  BY DEF Api!Resolved, Api!Runs
<1> QED BY <1>1, <1>2 DEF Closed

\* What is answered in all objects is answered in all of them after a step, unless that
\* is a start.
LEMMA StaysAnswered ==
  ASSUME Api!RequestAssumption, Api!TypeOK, InUse, NEW r \in Callers, Where(r), Does(r),
         Api!Asks(r) # "start_run", NEW i \in Interrupts, \A o \in DOMAIN heap : Has(heap[o], i, discarded)
  PROVE  \A o \in DOMAIN heap' : Has(heap'[o], i, discarded')
<1>0. \A o \in DOMAIN heap : heap[o] \in Api!Runs /\ Has(heap[o], i, discarded')
  BY DEF Api!TypeOK, Does, Has
<1>1. CASE Moves(r)
  BY <1>0, <1>1 DEF Moves, Walks
<1>2. CASE Ends(r)
  BY <1>0, <1>2 DEF Ends, Drops
<1>3. ASSUME NEW o, NEW run \in Api!Runs, Turns(r, o, run), Has(run, i, discarded')
      PROVE  \A p \in DOMAIN heap' : Has(heap'[p], i, discarded')
  <2>1. DOMAIN heap' \subseteq DOMAIN heap /\ heap'[o] = run
    BY <1>3 DEF Turns
  <2>2. ASSUME NEW p \in DOMAIN heap', p # o
        PROVE  Has(heap'[p], i, discarded')
    <3>1. heap[p] \in Api!Runs /\ Has(heap[p], i, discarded')
      BY <1>0, <2>1
    <3>2. /\ [heap[p] EXCEPT !.interrupts = run.interrupts].interrupts = run.interrupts
          /\ [heap[p] EXCEPT !.interrupts = run.interrupts].answers = heap[p].answers
      BY <3>1 DEF Api!Runs
    <3>3. Has([heap[p] EXCEPT !.interrupts = run.interrupts], i, discarded')
      BY <1>3, <3>1, <3>2 DEF Has, Closed
    <3> QED BY <1>3, <2>2, <3>1, <3>3 DEF Turns
  <2> QED BY <1>3, <2>1, <2>2
<1>4. CASE Answers(r)
  <2>1. Api!Object(r) \in Api!Runs /\ Api!Its(r) \in Interrupts /\ Has(Api!Object(r), i, discarded')
    BY <1>0, <1>4, AtWork DEF Answers, Where, Api!Object
  <2>2. Has(Api!Resolved(r), i, discarded')
    BY <2>1, ResolvedCloses DEF Has
  <2>3. Api!Resolved(r) \in Api!Runs
    BY <2>1 DEF Api!Resolved, Api!Runs, Api!Statuses
  <2> QED BY <1>3, <1>4, <2>2, <2>3 DEF Answers
<1>5. CASE Saves(r)
  <2>1. Has(Api!Object(r), i, discarded')
    BY <1>0, <1>5, AtWork DEF Saves, Api!Object
  <2> QED BY <1>0, <1>5, <2>1 DEF Saves, Stores
<1>6. ASSUME NEW o \in Api!Objects, Copies(r, o)
      PROVE  \A p \in DOMAIN heap' : Has(heap'[p], i, discarded')
  <2>1. Has(Api!Stored, i, discarded')
    BY <1>0, <1>6, AtWork DEF Copies, Api!Stored
  <2> QED BY <1>0, <1>6, <2>1 DEF Copies, Makes
<1>7. ASSUME NEW o \in DOMAIN heap, NEW run \in Api!Runs, Loads(r, o, run)
      PROVE  \A p \in DOMAIN heap' : Has(heap'[p], i, discarded')
  <2>1. Has(Api!Stored, i, discarded') /\ Api!Stored \in Api!Runs
    BY <1>0, <1>7, AtWork DEF Loads, Api!Stored
  <2>2. Has(run, i, discarded')
    <3>1. CASE stage[r] = "torn"
      <4>1. loc[r] \in DOMAIN heap /\ Api!Object(r) \in Api!Runs /\ Has(Api!Object(r), i, discarded')
        BY <1>0, <3>1, AtWork DEF Api!Object
      <4>2. run = Mended(r)
        BY <1>7, <3>1 DEF Loads, Mended
      <4> QED BY <2>1, <4>1, <4>2 DEF Has, Closed, Api!Runs, Mended
    <3>2. CASE stage[r] # "torn"
      BY <1>7, <2>1, <3>2 DEF Loads
    <3> QED BY <3>1, <3>2
  <2>3. Has(Api!Changed(r, run), i, discarded') /\ Api!Changed(r, run) \in Api!Runs
    BY <2>2, ChangedCloses, ChangedIsRun DEF Has
  <2> QED BY <1>3, <1>7, <2>3 DEF Loads
<1>8. ASSUME NEW run \in Api!Runs, Passes(r, run)
      PROVE  \A p \in DOMAIN heap' : Has(heap'[p], i, discarded')
  <2>1. Has(Api!Object(r), i, discarded')
    BY <1>0, <1>8, AtWork DEF Passes, Api!Object
  <2>2. Has(run, i, discarded')
    BY <1>8, <2>1 DEF Passes, Has
  <2> QED BY <1>3, <1>8, <2>2 DEF Passes
<1> QED BY <1>1, <1>2, <1>4, <1>5, <1>6, <1>7, <1>8 DEF Does, Starts

LEMMA AnswersKeptOn ==
  ASSUME Api!RequestAssumption, ApiIInv, NEW r \in Callers, Does(r)
  PROVE  AnswersKept'
<1>. USE DEF ApiIInv
<1>1. /\ wants' = wants /\ met' = met /\ Api!InFlight(r) /\ stage'[r] \notin {"off", "lookup"}
      /\ \A q \in Callers \ {r} :
           stage'[q] = stage[q] /\ verdict'[q] = verdict[q] /\ loc'[q] = loc[q]
  BY DEF Does, Goes
<1>2. Where(r)
  OBVIOUS
<1>3. SUFFICES ASSUME NEW x \in Callers, Resumes(x)'
               PROVE  /\ stage'[x] \in Underway =>
                           Has(Api!Object(x)', Api!Its(x), discarded')
                      /\ stage'[x] \in AfterHook => Has(Api!Stored', Api!Its(x), discarded')
                      /\ verdict'[x] = "ok" =>
                           /\ storedAt' # None
                           /\ \A o \in DOMAIN heap' : Has(heap'[o], Api!Its(x), discarded')
                           /\ \A q \in Callers \ {x} : stage'[q] = "resolve" =>
                                Api!Its(q) # Api!Its(x)
  BY <1>1 DEF AnswersKept, Api!Succeeded, Api!Its
<1>4. Resumes(x) /\ Where(x) /\ Api!Its(x) \in Interrupts /\ ~Api!Overlapped(x)
  BY <1>1, <1>3 DEF Resumes, Api!Asks, Api!Overlapped, Where, Api!InFlight
<1>5. CASE x # r
  <2>1. ~Api!InFlight(x)
    BY <1>1, <1>4, <1>5 DEF Meetings, Api!Overlapped
  <2>2. stage'[x] = "done"
    BY <1>1, <1>4, <1>5, <2>1 DEF Api!InFlight, Resumes
  <2>3. Api!Asks(r) # "start_run"
    BY <1>1, <1>4, <1>5 DEF Meetings, Api!Overlapped, Resumes
  <2>4. ASSUME verdict'[x] = "ok"
        PROVE  /\ storedAt' # None
               /\ \A o \in DOMAIN heap' : Has(heap'[o], Api!Its(x), discarded')
               /\ \A q \in Callers \ {x} : stage'[q] = "resolve" =>
                    Api!Its(q) # Api!Its(x)
    <3>1. /\ storedAt # None
          /\ \A o \in DOMAIN heap : Has(heap[o], Api!Its(x), discarded)
          /\ \A q \in Callers \ {x} : stage[q] = "resolve" => Api!Its(q) # Api!Its(x)
      BY <1>1, <1>4, <1>5, <2>4 DEF AnswersKept, Api!Succeeded
    <3>2. storedAt' # None
      BY <3>1, LocsAre, Distinct DEF Saves, Stores
    <3>3. \A o \in DOMAIN heap' : Has(heap'[o], Api!Its(x), discarded')
      BY <1>2, <1>4, <2>3, <3>1, StaysAnswered
    <3>4. stage'[r] = "resolve" => Api!Its(r) # Api!Its(x)
      <4>1. SUFFICES ASSUME stage'[r] = "resolve"
                     PROVE  Api!Its(r) # Api!Its(x)
        OBVIOUS
      <4>2. stage[r] = "check" /\ Api!MayAnswer(r)
        BY <4>1 DEF Does, Moves, Ends, Drops, Answers, Saves, Starts, Copies, Loads, Api!Reruns,
          Passes
      <4>3. loc[r] \in DOMAIN heap
        BY <1>2, <4>2, AtWork
      <4> QED BY <3>1, <4>2, <4>3 DEF Api!MayAnswer, Has, Closed, Api!Object
    <3> QED BY <1>1, <3>1, <3>2, <3>3, <3>4
  <2> QED BY <2>2, <2>4 DEF Underway, AfterHook
<1>6. CASE x = r
  <2>1. Api!Asks(r) = "resume_interrupt" /\ verdict[r] = "none"
    BY <1>1, <1>4, <1>6 DEF Resumes, Where, Api!InFlight, Api!TypeOK
  <2>2. /\ stage[r] \in Underway => Has(Api!Object(r), Api!Its(r), discarded')
        /\ stage[r] \in AfterHook => Has(Api!Stored, Api!Its(r), discarded')
    BY <1>4, <1>6 DEF AnswersKept, Does, Has
  <2>3. CASE Moves(r)
    BY <1>6, <2>1, <2>2, <2>3 DEF Moves, Walks, Api!Cancels, Where, Api!Object, Api!Stored,
      Underway, AfterHook
  <2>4. CASE Ends(r)
    <3>1. stage'[r] = "done"
      BY <2>4 DEF Ends, Drops
    <3>2. ASSUME verdict'[r] = "ok"
          PROVE  /\ storedAt' # None
                 /\ \A o \in DOMAIN heap' : Has(heap'[o], Api!Its(r), discarded')
                 /\ \A q \in Callers \ {r} : stage'[q] = "resolve" => Api!Its(q) # Api!Its(r)
      <4>1. stage[r] = "reply"
        BY <2>4, <3>2 DEF Ends
      <4>2. storedAt # None /\ Has(Api!Stored, Api!Its(r), discarded')
        BY <2>1, <2>2, <4>1 DEF Where, Underway, AfterHook
      <4>3. \A q \in Callers \ {r} : stage[q] \in {"off", "done"} /\ loc[q] = None
        BY <1>1, <1>4, <1>6 DEF Meetings, Api!Overlapped, Api!InFlight, Where
      <4>4. \A q \in Callers : loc'[q] = None
        BY <1>1, <2>4, <4>3 DEF Ends, Drops, Api!TypeOK
      <4>5. DOMAIN heap' \subseteq {storedAt} /\ \A o \in DOMAIN heap' : heap'[o] = heap[o]
        BY <2>4, <4>4 DEF Does, InUse, Ends, Drops
      <4> QED BY <1>1, <2>4, <4>2, <4>3, <4>5 DEF Ends, Drops, Api!Stored
    <3> QED BY <1>6, <3>1, <3>2 DEF Underway, AfterHook
  <2>5. CASE Answers(r)
    <3>1. stage'[r] = "engine" /\ verdict' = verdict /\ Api!Object(r)' = Api!Resolved(r)
      BY <2>5 DEF Answers, Turns, Api!Object, Api!TypeOK
    <3>2. Has(Api!Resolved(r), Api!Its(r), discarded')
      BY <1>4, <1>6, <2>5, AtWork, ResolvedCloses DEF Answers, Has
    <3> QED BY <1>6, <2>1, <3>1, <3>2 DEF Underway, AfterHook
  <2>6. CASE Saves(r)
    <3>1. /\ Api!Object(r)' = Api!Object(r) /\ Api!Stored' = Api!Object(r) /\ verdict' = verdict
          /\ stage[r] \in {"hook", "save"}
      BY <2>6 DEF Saves, Stores, Api!Object, Api!Stored
    <3> QED BY <1>6, <2>1, <2>2, <3>1 DEF Underway, AfterHook
  <2>7. ASSUME NEW o \in Api!Objects, Starts(r, o) \/ Copies(r, o)
        PROVE  stage'[r] = "torn" /\ verdict' = verdict
    BY <2>1, <2>7 DEF Starts, Copies, Makes
  <2>8. ASSUME NEW o \in DOMAIN heap, NEW run \in Api!Runs, Loads(r, o, run)
        PROVE  stage'[r] = "check" /\ verdict' = verdict
    BY <2>1, <2>8 DEF Loads, Turns, Api!Reruns
  <2>9. ASSUME NEW run \in Api!Runs, Passes(r, run)
        PROVE  stage'[r] = "hook" /\ verdict' = verdict /\ Has(Api!Object(r)', Api!Its(r), discarded')
    <3>1. Has(run, Api!Its(r), discarded')
      BY <2>2, <2>9 DEF Passes, Has, Underway, AfterHook
    <3>2. Api!Object(r)' = run
      BY <2>9 DEF Passes, Turns, Api!Object, Api!TypeOK
    <3> QED BY <2>9, <3>1, <3>2 DEF Passes, Turns
  <2> QED BY <1>6, <2>1, <2>3, <2>4, <2>5, <2>6, <2>7, <2>8, <2>9 DEF Does, Underway, AfterHook
<1> QED BY <1>5, <1>6

LEMMA AnswerersKept ==
  ASSUME Api!RequestAssumption, ApiIInv, NEW r \in Callers, Does(r)
  PROVE  Answerers' /\ Api!AnsweredOnce'
<1>. USE DEF ApiIInv
<1>1. /\ wants' = wants /\ met' = met /\ Api!InFlight(r) /\ stage'[r] \notin {"off", "lookup"}
      /\ \A q \in Callers \ {r} : stage'[q] = stage[q] /\ verdict'[q] = verdict[q]
      /\ verdict[r] = "none"
  BY DEF Does, Goes, Where, Api!InFlight, Api!TypeOK
<1>2. \A a \in answered : a[1] \in Callers /\ a[2] \in Interrupts /\ a = <<a[1], a[2]>>
  BY DEF Api!TypeOK
<1>3. \A a \in answered' : a \in answered \/ (Answers(r) /\ a = <<r, Api!Its(r)>>)
  BY DEF Does, Moves, Ends, Answers, Saves, Starts, Copies, Loads, Passes
<1>4. stage[r] \in Underway => stage'[r] \in Underway \/ verdict'[r] \in {"ok", "failed"}
  BY DEF Does, Moves, Ends, Answers, Saves, Starts, Copies, Loads, Passes, Underway, AfterHook
<1>5. Answerers'
  <2>1. SUFFICES ASSUME NEW a \in answered'
                 PROVE  /\ stage'[a[1]] # "off"
                        /\ Api!Asks(a[1]) = "resume_interrupt" /\ a[2] = Api!Its(a[1])
                        /\ stage'[a[1]] \notin Underway => verdict'[a[1]] \in {"ok", "failed"}
    BY <1>1 DEF Answerers, Api!Asks, Api!Its
  <2>2. CASE a \in answered /\ a[1] # r
    BY <1>1, <1>2, <2>2 DEF Answerers
  <2>3. CASE a \in answered /\ a[1] = r
    BY <1>1, <1>4, <2>3 DEF Answerers
  <2>4. CASE Answers(r) /\ a = <<r, Api!Its(r)>>
    BY <2>4 DEF Answers, Where, Underway, AfterHook
  <2> QED BY <1>3, <2>2, <2>3, <2>4
<1>6. \A q \in Callers : Api!Overlapped(q) \/ verdict[q] = "failed" =>
                          Api!Overlapped(q)' \/ verdict'[q] = "failed"
  BY <1>1 DEF Api!Overlapped
\* Who gives an answer again, or gave it before, has met another or has failed.
<1>7. ASSUME NEW b \in answered, Answers(r), b[2] = Api!Its(r), b[1] # r
      PROVE  \E q \in {b[1], r} : Api!Overlapped(q) \/ verdict[q] = "failed"
  <2>1. /\ b[1] \in Callers /\ stage[b[1]] # "off" /\ Api!Asks(b[1]) = "resume_interrupt"
        /\ Api!Its(b[1]) = Api!Its(r)
    BY <1>2, <1>7 DEF Answerers
  <2>2. SUFFICES ASSUME ~Api!Overlapped(b[1]), verdict[b[1]] # "failed"
                 PROVE  FALSE
    OBVIOUS
  <2>3. stage[b[1]] = "done"
    BY <1>1, <1>7, <2>1, <2>2 DEF Meetings, Api!Overlapped, Api!InFlight
  <2>4. Api!Succeeded(b[1])
    BY <1>7, <2>2, <2>3 DEF Answerers, Api!Succeeded, Underway, AfterHook
  <2>5. stage[r] # "resolve"
    BY <1>7, <2>1, <2>2, <2>4 DEF AnswersKept, Resumes
  <2> QED BY <1>7, <2>5 DEF Answers
<1>8. Api!AnsweredOnce'
  <2>1. SUFFICES ASSUME NEW a \in answered', NEW b \in answered', a[2] = b[2], a[1] # b[1]
                 PROVE  \E q \in {a[1], b[1]} : Api!Overlapped(q)' \/ verdict'[q] = "failed"
    BY DEF Api!AnsweredOnce
  <2>2. a[1] \in Callers /\ b[1] \in Callers
    BY <1>2, <1>3
  <2>3. \E q \in {a[1], b[1]} : Api!Overlapped(q) \/ verdict[q] = "failed"
    <3>1. CASE a \in answered /\ b \in answered
      BY <2>1, <3>1 DEF Api!AnsweredOnce
    <3>2. CASE a \in answered /\ Answers(r) /\ b = <<r, Api!Its(r)>>
      BY <1>7, <2>1, <3>2
    <3>3. CASE b \in answered /\ Answers(r) /\ a = <<r, Api!Its(r)>>
      BY <1>7, <2>1, <3>3
    <3> QED BY <1>3, <2>1, <3>1, <3>2, <3>3
  <2> QED BY <1>6, <2>2, <2>3
<1> QED BY <1>5, <1>8

\* While requests come one by one a request at work has the stored run and its own object.
LEMMA OneByOneKept ==
  ASSUME Api!RequestAssumption, ApiIInv, NEW r \in Callers, Does(r)
  PROVE  OneByOne'
<1>. USE DEF ApiIInv
<1>. DEFINE Fits ==
              /\ \A o \in DOMAIN heap' : Waits(heap'[o])
              /\ stage'[r] = "torn" => Api!Object(r)'.interrupts = Api!Stored'.interrupts
              /\ stage'[r] \in {"check", "resolve", "rerun", "engine"} /\ backend = "memory" =>
                   DOMAIN heap' = {loc'[r]}
<1>1. /\ backend' = backend /\ met' = met /\ Api!InFlight(r)
      /\ \A q \in Callers \ {r} : stage'[q] = stage[q] /\ loc'[q] = loc[q]
  BY DEF Does, Goes
<1>2. SUFFICES ASSUME met = {}
               PROVE  Fits
  <2>1. met = {} => \A q \in Callers \ {r} : stage'[q] \in {"off", "done"}
    BY <1>1 DEF Meetings, Api!InFlight
  <2> QED BY <1>1, <1>2, <2>1 DEF OneByOne
<1>3. /\ \A o \in DOMAIN heap : Waits(heap[o])
      /\ stage[r] = "torn" => Api!Object(r).interrupts = Api!Stored.interrupts
      /\ stage[r] \in {"check", "resolve", "rerun", "engine"} /\ backend = "memory" =>
           DOMAIN heap = {loc[r]}
  BY <1>2 DEF OneByOne
<1>4. \A q \in Callers \ {r} : loc[q] = None
  BY <1>1, <1>2 DEF Meetings, Api!InFlight, Where
<1>5. /\ DOMAIN heap' = {storedAt', loc'[r]} \ {None}
      /\ DOMAIN heap = {storedAt, loc[r]} \ {None}
  BY <1>1, <1>4 DEF Does, InUse
<1>6. Where(r) /\ None \notin DOMAIN heap
  BY Distinct DEF Api!TypeOK
<1>7. CASE Moves(r)
  BY <1>3, <1>7 DEF Moves, Walks
<1>8. CASE Ends(r)
  BY <1>3, <1>8 DEF Ends, Drops
<1>9. CASE Answers(r)
  <2>1. loc[r] \in DOMAIN heap /\ Api!Object(r) \in Api!Runs
    BY <1>6, <1>9, AtWork DEF Answers
  <2>2. Waits(Api!Resolved(r))
    BY <2>1 DEF Waits, Api!Resolved, Api!Runs
  <2>3. /\ DOMAIN heap' \subseteq DOMAIN heap /\ heap'[loc[r]] = Api!Resolved(r)
        /\ loc'[r] = loc[r] /\ loc[r] \in DOMAIN heap'
        /\ backend = "postgres" => \A p \in DOMAIN heap' \ {loc[r]} : heap'[p] = heap[p]
    BY <1>5, <1>9, <2>1 DEF Answers, Turns, Api!TypeOK
  <2>4. stage'[r] = "engine" /\ stage[r] = "resolve" /\ backend \in {"memory", "postgres"}
    BY <1>9 DEF Answers, Api!TypeOK
  <2>5. backend = "memory" => DOMAIN heap' = {loc'[r]}
    BY <1>3, <2>3, <2>4
  <2>6. \A o \in DOMAIN heap' : Waits(heap'[o])
    BY <1>3, <2>2, <2>3, <2>4, <2>5
  <2> QED BY <2>4, <2>5, <2>6
<1>10. CASE Saves(r)
  <2>1. loc[r] \in DOMAIN heap
    BY <1>6, <1>10, AtWork DEF Saves
  <2> QED BY <1>3, <1>10, <2>1 DEF Saves, Stores, Api!Object
<1>11. ASSUME NEW o \in Api!Objects, Starts(r, o)
       PROVE  Fits
  <2>1. storedAt = None
    <3>1. \A q \in Callers \ {r} : stage[q] = "off"
      BY <1>1, <1>2, <1>11 DEF Starts, Meetings
    <3> QED BY <1>11, <3>1 DEF Starts, Begun
  <2>2. Waits(Api!NewRun)
    BY DEF Waits, Api!NewRun
  <2> QED BY <1>3, <1>5, <1>11, <2>1, <2>2 DEF Starts, Makes, Api!TypeOK
<1>12. ASSUME NEW o \in Api!Objects, Copies(r, o)
       PROVE  Fits
  <2>1. storedAt \in DOMAIN heap
    BY <1>6, <1>12, AtWork DEF Copies
  <2>2. /\ loc'[r] = o /\ storedAt' = storedAt
        /\ heap'[o] = Api!Stored /\ heap'[storedAt] = Api!Stored
        /\ DOMAIN heap' = DOMAIN heap \cup {o} /\ \A p \in DOMAIN heap : heap'[p] = heap[p]
        /\ stage'[r] = "torn"
    BY <1>12, <2>1 DEF Copies, Makes, Api!Stored, Api!TypeOK
  <2>3. Api!Object(r)' = Api!Stored /\ Api!Stored' = Api!Stored
    BY <2>2 DEF Api!Object, Api!Stored
  <2> QED BY <1>3, <2>1, <2>2, <2>3 DEF Api!Stored
<1>13. ASSUME NEW o \in DOMAIN heap, NEW run \in Api!Runs, Loads(r, o, run)
       PROVE  Fits
  <2>1. /\ heap'[o] = Api!Changed(r, run) /\ storedAt' = storedAt
        /\ loc'[r] = o /\ o \in DOMAIN heap'
        /\ DOMAIN heap' \subseteq DOMAIN heap
        /\ backend = "postgres" => \A p \in DOMAIN heap' \ {o} : heap'[p] = heap[p]
        /\ stage'[r] # "torn"
    BY <1>5, <1>6, <1>13 DEF Loads, Api!Reruns, Turns, Api!TypeOK
  <2>2. Api!Stored \in Api!Runs /\ storedAt \in DOMAIN heap
    BY <1>6, <1>13, AtWork DEF Loads
  <2>3. run = heap[o]
    <3>1. CASE stage[r] = "torn"
      <4>1. Api!Object(r) \in Api!Runs /\ Api!Object(r).interrupts = Api!Stored.interrupts
        BY <1>3, <1>6, <3>1, AtWork
      <4>2. run = [Api!Object(r) EXCEPT !.interrupts = Api!Object(r).interrupts] /\ o = loc[r]
        BY <1>13, <3>1, <4>1 DEF Loads, Mended
      <4> QED BY <4>1, <4>2 DEF Api!Runs, Api!Object
    <3>2. CASE stage[r] # "torn"
      BY <1>13, <3>2 DEF Loads, Api!Stored
    <3> QED BY <3>1, <3>2
  <2>4. Waits(Api!Changed(r, run))
    <3>1. Waits(run)
      BY <1>3, <2>3
    <3>2. CASE Api!Asks(r) \in {"cancel_run", "cancel_interrupt"}
      <4>1. Api!Changed(r, run).status # "WAITING_FOR_INPUT"
        BY <3>2 DEF Api!Changed, Api!Runs
      <4> QED BY <4>1 DEF Waits
    <3>3. CASE Api!Asks(r) \notin {"cancel_run", "cancel_interrupt"}
      BY <3>1, <3>3 DEF Api!Changed
    <3> QED BY <3>2, <3>3
  <2>5. backend = "memory" => o = storedAt
    BY <1>6, <1>13 DEF Loads, Where
  <2>6. backend = "memory" => DOMAIN heap' = {o}
    BY <1>5, <1>6, <2>1, <2>2, <2>5
  <2> QED BY <1>3, <2>1, <2>4, <2>6 DEF Api!TypeOK
<1>14. ASSUME NEW run \in Api!Runs, Passes(r, run)
       PROVE  Fits
  <2>1. loc[r] \in DOMAIN heap /\ Waits(Api!Object(r))
    BY <1>3, <1>6, <1>14, AtWork DEF Passes, Api!Object
  <2>2. /\ DOMAIN heap' \subseteq DOMAIN heap /\ heap'[loc[r]] = run /\ Waits(run)
        /\ backend = "postgres" => \A p \in DOMAIN heap' \ {loc[r]} : heap'[p] = heap[p]
    BY <1>14, <2>1 DEF Passes, Turns
  <2> QED BY <1>3, <1>14, <2>2 DEF Passes, Api!TypeOK
<1> QED BY <1>7, <1>8, <1>9, <1>10, <1>11, <1>12, <1>13, <1>14 DEF Does

LEMMA HandleIInv ==
  ASSUME Api!RequestAssumption, ApiIInv, NEW r \in Callers, Api!Handle(r) \/ Api!RequestFails(r)
  PROVE  ApiIInv'
<1>1. Api!TypeOK /\ InUse /\ Meetings /\ Where(r)
  BY DEF ApiIInv
<1>2. Does(r)
  BY <1>1, HandleDoes
<1>3. Api!TypeOK' /\ InUse'
  BY <1>1, <1>2, TypeKept DEF Does
<1>4. \A q \in Callers : Where(q)'
  BY <1>1, <1>2, WhereKept DEF ApiIInv
<1>5. Meetings' /\ Begun'
  BY <1>1, <1>2, MeetingsKept
<1>6. AnswersKept' /\ Answerers' /\ Api!AnsweredOnce' /\ OneByOne'
  BY <1>2, AnswersKeptOn, AnswerersKept, OneByOneKept
<1> QED BY <1>3, <1>4, <1>5, <1>6 DEF ApiIInv

-----------------------------------------------------------------------------
(* What happens beside the requests at work.                               *)

LEMMA ArriveIInv ==
  ASSUME Api!RequestAssumption, ApiIInv, NEW r \in Callers, Api!Arrive(r)
  PROVE  ApiIInv'
<1>. USE DEF ApiIInv
<1>1. PICK asked \in Api!Asked :
        /\ (asked.scope[2] = None) <=>
             (asked.scope[1] \in {"start_run", "cancel_run", "rerun_node"})
        /\ asked.scope[1] = "start_run" <=> \A q \in Callers : stage[q] = "off"
        /\ wants' = [wants EXCEPT ![r] = asked]
  BY DEF Api!Arrive
<1>2. /\ stage[r] = "off" /\ stage' = [stage EXCEPT ![r] = "lookup"]
      /\ met' = met \cup {<<r, q>> : q \in Api!Others(r)} \cup {<<q, r>> : q \in Api!Others(r)}
      /\ heap' = heap /\ storedAt' = storedAt /\ loc' = loc /\ verdict' = verdict
      /\ backend' = backend /\ answered' = answered /\ discarded' = discarded
      /\ cached' = cached /\ snapshot' = snapshot /\ crashes' = crashes
  BY DEF Api!Arrive, Api!Goto, Api!runVars
<1>3. Api!TypeOK'
  <2>1. stage' \in [Callers -> Api!Steps] /\ wants' \in [Callers -> Api!Asked \cup {None}]
    BY <1>1, <1>2 DEF Api!TypeOK, Api!Steps
  <2>2. met' \subseteq Callers \X Callers
    BY <1>2 DEF Api!TypeOK, Api!Others
  <2> QED BY <1>2, <2>1, <2>2 DEF Api!TypeOK
<1>4. InUse'
  BY <1>2 DEF InUse
<1>5. /\ \A q \in Callers \ {r} : stage'[q] = stage[q] /\ wants'[q] = wants[q]
      /\ stage'[r] = "lookup" /\ wants'[r] = asked
      /\ verdict[r] = "none"
  BY <1>1, <1>2 DEF Api!TypeOK, Where
<1>6. ASSUME NEW q \in Callers
      PROVE  Where(q)'
  <2>1. CASE q = r
    <3>1. asked.scope \in Operations \X (Interrupts \cup {None})
      BY DEF Api!Asked, Api!Scopes
    <3>2. asked.scope[1] \in {"resume_interrupt", "cancel_interrupt"} =>
            asked.scope[2] \in Interrupts
      BY <1>1, <3>1
    <3> QED BY <1>2, <1>5, <2>1, <3>2 DEF Where, Api!Asks, Api!Its
  <2>2. CASE q # r
    BY <1>2, <1>5, <2>2 DEF Where, Api!Asks, Api!Its
  <2> QED BY <2>1, <2>2
<1>7. Meetings'
  <2>1. /\ met \subseteq met'
        /\ \A q \in Callers \ {r} : Api!InFlight(q) => <<r, q>> \in met' /\ <<q, r>> \in met'
    BY <1>2 DEF Api!Others
  <2>2. \A q \in Callers \ {r} :
          (Api!InFlight(q)' <=> Api!InFlight(q)) /\ Api!Asks(q)' = Api!Asks(q)
    BY <1>5 DEF Api!InFlight, Api!Asks
  <2>3. ASSUME NEW x \in Callers, NEW q \in Callers, x # q, Api!InFlight(x)', Api!InFlight(q)'
        PROVE  <<x, q>> \in met'
    BY <2>1, <2>2, <2>3 DEF Meetings
  <2>4. ASSUME NEW x \in Callers, NEW q \in Callers, x # q, Api!InFlight(q)',
               Api!Asks(q)' = "start_run",
               stage'[x] # "off"
        PROVE  <<x, q>> \in met'
    <3>1. CASE q = r
      BY <1>1, <1>5, <2>4, <3>1 DEF Api!Asks
    <3>2. CASE q # r
      BY <1>5, <2>1, <2>2, <2>4, <3>2 DEF Meetings, Api!Asks
    <3> QED BY <3>1, <3>2
  <2> QED BY <2>3, <2>4 DEF Meetings
<1>8. Begun'
  BY <1>2, <1>5 DEF Begun
<1>9. \A q \in Callers : Api!Overlapped(q) => Api!Overlapped(q)'
  BY <1>2 DEF Api!Overlapped
<1>10. AnswersKept'
  <2>1. SUFFICES ASSUME NEW x \in Callers, Resumes(x)'
                 PROVE  /\ stage'[x] \in Underway =>
                             Has(Api!Object(x)', Api!Its(x)', discarded')
                        /\ stage'[x] \in AfterHook => Has(Api!Stored', Api!Its(x)', discarded')
                        /\ verdict'[x] = "ok" =>
                             /\ storedAt' # None
                             /\ \A o \in DOMAIN heap' : Has(heap'[o], Api!Its(x)', discarded')
                             /\ \A q \in Callers \ {x} : stage'[q] = "resolve" =>
                                  Api!Its(q)' # Api!Its(x)'
    BY DEF AnswersKept, Api!Succeeded
  <2>2. CASE x = r
    BY <1>2, <1>5, <2>2 DEF Underway, AfterHook
  <2>3. CASE x # r
    <3>1. Resumes(x) /\ Api!Its(x)' = Api!Its(x)
      BY <1>5, <1>9, <2>1, <2>3 DEF Resumes, Api!Asks, Api!Its
    <3>2. Api!Object(x)' = Api!Object(x) /\ Api!Stored' = Api!Stored
      BY <1>2 DEF Api!Object, Api!Stored
    <3>3. \A q \in Callers :
            stage'[q] = "resolve" => stage[q] = "resolve" /\ Api!Its(q)' = Api!Its(q)
      BY <1>5 DEF Api!Its
    <3> QED BY <1>2, <1>5, <2>3, <3>1, <3>2, <3>3 DEF AnswersKept, Api!Succeeded
  <2> QED BY <2>2, <2>3
<1>11. Answerers'
  <2>1. \A a \in answered : a[1] \in Callers /\ a[1] # r
    BY <1>2 DEF Answerers, Api!TypeOK
  <2> QED BY <1>2, <1>5, <2>1 DEF Answerers, Api!Asks, Api!Its
<1>12. Api!AnsweredOnce'
  <2>1. \A a \in answered : a[1] \in Callers
    BY DEF Api!TypeOK
  <2> QED BY <1>2, <1>9, <2>1 DEF Api!AnsweredOnce
<1>13. OneByOne'
  <2>1. met' = {} => met = {}
    BY <1>2
  <2>2. \A q \in Callers : Api!Object(q)' = Api!Object(q) /\ Api!Stored' = Api!Stored
    BY <1>2 DEF Api!Object, Api!Stored
  <2> QED BY <1>2, <1>5, <2>1, <2>2 DEF OneByOne
<1> QED BY <1>3, <1>4, <1>6, <1>7, <1>8, <1>10, <1>11, <1>12, <1>13

\* Nothing of the invariant is about what is remembered or published.
LEMMA IdleIInv ==
  ASSUME ApiIInv, UNCHANGED <<backend, Api!runVars, wants, stage, verdict, met, answered, discarded>>,
         cached' \in [Api!Scopes -> Callers \cup {None}], snapshot' = snapshot, crashes' = crashes
  PROVE  ApiIInv'
<1>1. UNCHANGED <<heap, storedAt, loc>>
  BY DEF Api!runVars
<1>2. Api!TypeOK' /\ InUse' /\ \A r \in Callers : Where(r)'
  BY <1>1 DEF ApiIInv, Api!TypeOK, InUse, Where, Api!Asks, Api!Its
<1>3. Begun' /\ Meetings' /\ Answerers' /\ Api!AnsweredOnce'
  BY <1>1 DEF ApiIInv, Begun, Meetings, Api!InFlight, Api!Asks, Api!Its, Answerers,
    Api!AnsweredOnce, Api!Overlapped
<1>4. AnswersKept' /\ OneByOne'
  BY <1>1 DEF ApiIInv, AnswersKept, Resumes, Api!Overlapped, Api!Asks, Api!Its, Api!Object,
    Api!Stored, Api!Succeeded, OneByOne
<1> QED BY <1>2, <1>3, <1>4 DEF ApiIInv

LEMMA CrashIInv ==
  ASSUME Api!RequestAssumption, ApiIInv, Api!Crash
  PROVE  ApiIInv'
<1>. USE DEF ApiIInv
<1>1. /\ backend' = backend /\ crashes' \in 0 .. MaxCrashes
      /\ stage' = [r \in Callers |-> IF Api!InFlight(r) THEN "done" ELSE stage[r]]
      /\ verdict' = [r \in Callers |-> IF Api!InFlight(r) THEN "failed" ELSE verdict[r]]
      /\ wants' = wants /\ cached' = cached /\ snapshot' = snapshot
      /\ met' = met /\ answered' = answered /\ discarded' = discarded
  BY DEF Api!Crash, Api!history, Api!TypeOK, Api!RequestAssumption
<1>2. /\ DOMAIN heap' = ({storedAt} \cup {[q \in Callers |-> None][r] : r \in Callers}) \ {None}
      /\ \A o \in DOMAIN heap' : heap'[o] = heap[o]
      /\ storedAt' = storedAt /\ loc' = [r \in Callers |-> None]
  BY Kept DEF Api!Crash
<1>3. DOMAIN heap' = {storedAt} \ {None} /\ DOMAIN heap' \subseteq DOMAIN heap
  BY <1>2 DEF Api!TypeOK
<1>4. \A r \in Callers :
        /\ stage'[r] \in {"off", "done"} /\ (stage'[r] # "off" <=> stage[r] # "off")
        /\ Api!InFlight(r) => stage'[r] = "done" /\ verdict'[r] = "failed"
        /\ ~Api!InFlight(r) => stage'[r] = stage[r] /\ verdict'[r] = verdict[r]
        /\ Api!Asks(r)' = Api!Asks(r) /\ Api!Its(r)' = Api!Its(r) /\ loc'[r] = None
  BY <1>1, <1>2 DEF Api!InFlight, Api!Asks, Api!Its
<1>5. Api!TypeOK'
  <2>1. stage' \in [Callers -> Api!Steps] /\ verdict' \in [Callers -> Api!Outcomes]
    BY <1>1 DEF Api!TypeOK, Api!Steps, Api!Outcomes
  <2> QED BY <1>1, <1>2, <1>3, <2>1 DEF Api!TypeOK
<1>6. InUse'
  BY <1>2, <1>3 DEF InUse
<1>7. ASSUME NEW r \in Callers
      PROVE  Where(r)'
  BY <1>1, <1>4 DEF Where, Api!InFlight
<1>8. Begun' /\ Meetings'
  BY <1>1, <1>2, <1>4 DEF Begun, Meetings, Api!InFlight
<1>9. AnswersKept'
  <2>1. ASSUME NEW x \in Callers, Resumes(x)', Api!Succeeded(x)'
        PROVE  /\ storedAt' # None
               /\ \A o \in DOMAIN heap' : Has(heap'[o], Api!Its(x)', discarded')
    <3>1. Resumes(x) /\ Api!Succeeded(x)
      BY <1>1, <1>4, <2>1 DEF Resumes, Api!Succeeded, Api!Overlapped
    <3> QED BY <1>1, <1>2, <1>3, <1>4, <3>1 DEF AnswersKept
  <2> QED BY <1>4, <2>1 DEF AnswersKept, Underway, AfterHook
<1>10. Answerers'
  <2>1. \A a \in answered : a[1] \in Callers
    BY DEF Api!TypeOK
  <2> QED BY <1>1, <1>4, <2>1 DEF Answerers, Api!InFlight
<1>11. Api!AnsweredOnce'
  <2>1. \A a \in answered : a[1] \in Callers
    BY DEF Api!TypeOK
  <2>2. \A q \in Callers : Api!Overlapped(q) \/ verdict[q] = "failed" =>
                           Api!Overlapped(q)' \/ verdict'[q] = "failed"
    BY <1>1, <1>4 DEF Api!Overlapped
  <2> QED BY <1>1, <2>1, <2>2 DEF Api!AnsweredOnce
<1>12. OneByOne'
  BY <1>1, <1>2, <1>3, <1>4 DEF OneByOne
<1> QED BY <1>5, <1>6, <1>7, <1>8, <1>9, <1>10, <1>11, <1>12

LEMMA ApiInit == Api!RequestAssumption /\ Api!Init => ApiIInv
<1>. SUFFICES ASSUME Api!RequestAssumption, Api!Init
              PROVE  ApiIInv
  OBVIOUS
<1>1. DOMAIN heap = {} /\ 0 \in 0 .. MaxCrashes
  BY DEF Api!Init, Api!RequestAssumption
<1>2. Api!TypeOK /\ InUse
  BY <1>1 DEF Api!Init, Api!TypeOK, InUse, Api!Steps, Api!Outcomes
<1>3. Begun /\ Meetings /\ AnswersKept /\ Answerers /\ Api!AnsweredOnce /\ OneByOne
  BY <1>1 DEF Api!Init, Begun, Meetings, Api!InFlight, AnswersKept, Resumes, Answerers,
    Api!AnsweredOnce, OneByOne
<1>4. \A r \in Callers : Where(r)
  BY DEF Api!Init, Where
<1> QED BY <1>2, <1>3, <1>4 DEF ApiIInv

LEMMA ApiNext == Api!RequestAssumption /\ ApiIInv /\ [Api!Next]_Api!vars => ApiIInv'
<1>. SUFFICES ASSUME Api!RequestAssumption, ApiIInv, [Api!Next]_Api!vars
              PROVE  ApiIInv'
  OBVIOUS
<1>1. ASSUME NEW r \in Callers, Api!Arrive(r) \/ Api!Handle(r) \/ Api!RequestFails(r)
      PROVE  ApiIInv'
  BY <1>1, ArriveIInv, HandleIInv
<1>2. ASSUME NEW s \in Api!Scopes, Api!Expire(s)
      PROVE  ApiIInv'
  <2>1. cached' \in [Api!Scopes -> Callers \cup {None}]
    BY <1>2 DEF Api!Expire, ApiIInv, Api!TypeOK
  <2> QED BY <1>2, <2>1, IdleIInv DEF Api!Expire
<1>3. CASE Api!Crash
  BY <1>3, CrashIInv
<1>4. CASE UNCHANGED Api!vars
  <2>1. cached' \in [Api!Scopes -> Callers \cup {None}]
    BY <1>4 DEF Api!vars, ApiIInv, Api!TypeOK
  <2> QED BY <1>4, <2>1, IdleIInv DEF Api!vars, Api!history
<1> QED BY <1>1, <1>2, <1>3, <1>4 DEF Api!Next

LEMMA ApiAlways == ASSUME Api!RequestAssumption PROVE Api!Spec => []ApiIInv
  BY ApiInit, ApiNext, PTL DEF Api!Spec

\* The stores keep runs, whatever requests do to the objects that they share, and a request
\* has the stored run, an object of its own or none: there are never more than can be told
\* apart.
THEOREM ApiTyping == ASSUME Api!RequestAssumption PROVE Api!Spec => []Api!TypeOK
<1>1. ApiIInv => Api!TypeOK
  BY DEF ApiIInv
<1> QED BY <1>1, ApiAlways, PTL

\* The input that resume_interrupt has told its client is accepted stays in the stored run,
\* whatever other requests do to the run later and wherever the process stops, unless a
\* request was in flight together with it or a pass executed a start node over it; and
\* the interrupt stays closed.
THEOREM AnswersStay == ASSUME Api!RequestAssumption PROVE Api!Spec => []Api!StoresKeepAnswers
<1>1. ApiIInv => Api!StoresKeepAnswers
  <2>1. SUFFICES ASSUME ApiIInv, NEW r \in Callers, Api!Succeeded(r),
                        Api!Asks(r) = "resume_interrupt",
                        ~Api!Overlapped(r)
                 PROVE  /\ Api!Stored.interrupts[Api!Its(r)] \in {"RESOLVED", "CANCELLED"}
                        /\ Api!Its(r) \in Api!Stored.answers \cup discarded
    BY DEF Api!StoresKeepAnswers
  <2>2. Resumes(r)
    BY <2>1 DEF Resumes, Api!Succeeded, ApiIInv, Where
  <2>3. storedAt \in DOMAIN heap /\ \A o \in DOMAIN heap : Has(heap[o], Api!Its(r), discarded)
    BY <2>1, <2>2 DEF ApiIInv, AnswersKept, Api!TypeOK
  <2> QED BY <2>3 DEF Has, Closed, Api!Stored
<1> QED BY <1>1, ApiAlways, PTL

\* _resolve_interrupt takes an interrupt twice only for requests of which one met another or
\* failed before its reply.
THEOREM OneAnswer == ASSUME Api!RequestAssumption PROVE Api!Spec => []Api!AnsweredOnce
<1>1. ApiIInv => Api!AnsweredOnce
  BY DEF ApiIInv
<1> QED BY <1>1, ApiAlways, PTL

\* While requests come one by one, what the stores keep as WAITING_FOR_INPUT has an OPEN
\* interrupt, wherever a request failed or the process stopped between its saves.
THEOREM WaitIsAnswerable ==
  ASSUME Api!RequestAssumption PROVE Api!Spec => []Api!StoredWaitIsAnswerable
<1>1. ApiIInv => Api!StoredWaitIsAnswerable
  BY DEF ApiIInv, OneByOne, Api!TypeOK, Waits, Api!Stored, Api!StoredWaitIsAnswerable
<1> QED BY <1>1, ApiAlways, PTL
=============================================================================
