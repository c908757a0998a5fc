----------------------- MODULE WorkflowVersionsProofs -----------------------
(***************************************************************************)
(* Theorems about WorkflowVersions, for any number of requests, graphs,    *)
(* capabilities and edits: type correctness, dense version numbers, that   *)
(* what is published was valid when it was read, that the newest version   *)
(* is active and that runs are pinned to a version that was active, and,   *)
(* over the database, the implementation of VersionLog.                    *)
(***************************************************************************)
EXTENDS WorkflowVersions, TLAPS

\* What the locals of a request refer to is there, as long as the workflow is, and the
\* number it is about to take is not beyond the next one.
Refers(q) ==
  /\ req[q].step \in {"number", "insert", "restore"} => req[q].body \in DOMAIN bodies
  /\ exists /\ req[q].step \in {"activate", "content", "load", "run"}
       => req[q].version \in DOMAIN versions
  /\ exists /\ req[q].step = "insert" => req[q].number \in 1 .. Len(versions) + 1
  /\ exists /\ req[q].step = "restore"
       => \E v \in DOMAIN versions : req[q].body = versions[v].body

IInv == TypeOK /\ NumbersAreDense /\ \A q \in Requests : Refers(q)

-----------------------------------------------------------------------------
LEMMA InitIInv == Init => IInv
  BY VersionsAssumption DEF Init, IInv, TypeOK, NumbersAreDense, Refers, Bodies, Versions, Steps,
    Locals, Idle

\* With dense numbers the greatest is the number of versions.
LEMMA MaxIsLen == IInv => MaxNumber = Len(versions)
<1> SUFFICES ASSUME IInv PROVE MaxNumber = Len(versions)
  OBVIOUS
<1> USE DEF IInv, TypeOK, NumbersAreDense, MaxNumber
<1>1. CASE versions = <<>>
  BY <1>1
<1>2. CASE versions # <<>>
  <2> DEFINE S == {versions[i].number : i \in DOMAIN versions}
  <2>1. DOMAIN versions = 1 .. Len(versions) /\ Len(versions) \in Nat \ {0}
    BY <1>2
  <2>2. Len(versions) \in S /\ \A i \in DOMAIN versions : versions[i].number <= Len(versions)
    BY <2>1
  <2>3. \A n \in S : n \in 1 .. Len(versions)
    BY <2>1
  <2>4. \A n \in S : (\A i \in DOMAIN versions : versions[i].number <= n) => n = Len(versions)
    BY <2>1, <2>3
  <2>5. MaxNumber = CHOOSE n \in S : \A i \in DOMAIN versions : versions[i].number <= n
    BY <1>2
  <2> QED BY <2>2, <2>4, <2>5
<1> QED BY <1>1, <1>2

-----------------------------------------------------------------------------
(* The steps.                                                              *)

\* A request that changes only its own locals, to ones that are typed and that refer to
\* things which exist, keeps the invariant.
LEMMA OwnLocals ==
  ASSUME IInv, NEW q \in Requests, NEW locals \in Locals, Set(q, locals),
         UNCHANGED <<row, registry, runs>>,
         met' \subseteq Requests, late' \subseteq Requests,
         window' \in [Requests -> SUBSET Nat],
         locals.step \in {"number", "insert", "restore"} => locals.body \in DOMAIN bodies,
         exists /\ locals.step \in {"activate", "content", "load", "run"}
           => locals.version \in DOMAIN versions,
         exists /\ locals.step = "insert" => locals.number \in 1 .. Len(versions) + 1,
         exists /\ locals.step = "restore"
           => \E v \in DOMAIN versions : locals.body = versions[v].body
  PROVE  IInv'
<1> USE DEF IInv, row
<1>1. req' \in [Requests -> Locals] /\ \A p \in Requests : req'[p] = IF p = q THEN locals ELSE req[p]
  BY DEF Set, TypeOK
<1>2. TypeOK'
  BY <1>1 DEF TypeOK
<1>3. NumbersAreDense'
  BY DEF NumbersAreDense
<1>4. ASSUME NEW p \in Requests PROVE Refers(p)'
  BY <1>1, <1>4 DEF Refers
<1> QED BY <1>2, <1>3, <1>4

\* A request that leaves refers to nothing.
LEMMA Leaving ==
  ASSUME IInv, NEW q \in Requests, NEW step \in {"done", "failed"}
  PROVE  LET left == [Idle EXCEPT !.step = step, !.named = req[q].named]
         IN  left \in Locals /\ left.step = step
  BY DEF IInv, TypeOK, Locals, Steps, Idle

LEMMA Moving ==
  ASSUME IInv, NEW q \in Requests, NEW step \in Steps
  PROVE  LET there == [req[q] EXCEPT !.step = step]
         IN  /\ there \in Locals /\ there.step = step
             /\ there.body = req[q].body /\ there.version = req[q].version
             /\ there.number = req[q].number
  BY DEF IInv, TypeOK, Locals

\* Steps that change nothing but the locals.
LEMMA ReadingSteps ==
  ASSUME IInv, NEW q \in Requests,
         \/ Receive(q) \/ Validate(q) \/ ReadDraft(q) \/ ReadNumber(q) \/ ReadActive(q)
         \/ ReadContent(q) \/ Resolve(q) \/ RequestFails(q)
  PROVE  IInv'
<1> USE DEF history, row
<1>0. req[q] \in Locals /\ met \subseteq Requests /\ late \subseteq Requests
      /\ window \in [Requests -> SUBSET Nat] /\ active \in Nat /\ draft \in DOMAIN bodies
      /\ bodies \in Seq(Bodies) /\ versions \in Seq(Versions) /\ active \in 0 .. Len(versions)
      /\ Len(versions) \in Nat /\ Len(bodies) \in Nat /\ draft \in Nat
  BY DEF IInv, TypeOK
<1>1. CASE Receive(q)
  <2>1. PICK step \in {"validate", "active", "resolve"}, named \in BOOLEAN :
          Arrive(q, step, named)
    BY <1>1 DEF Receive, ReceivePublish, ReceiveRollback, ReceiveStart
  <2> DEFINE locals == [Idle EXCEPT !.step = step, !.named = named]
  <2>2. locals \in Locals /\ locals.step = step
    BY DEF Locals, Steps, Idle
  <2>3. met' \subseteq Requests
    BY <1>0, <2>1 DEF Arrive, Busy
  <2>4. window' \in [Requests -> SUBSET Nat]
    BY <1>0, <2>1 DEF Arrive
  <2>5. UNCHANGED <<row, registry, runs, late>>
    BY <2>1 DEF Arrive
  <2>6. Set(q, locals)
    BY <2>1 DEF Arrive
  <2> HIDE DEF locals
  <2> QED BY <1>0, <2>2, <2>3, <2>4, <2>5, <2>6, OwnLocals
<1>2. CASE Validate(q)
  <2>1. CASE Goto(q, "draft")
    BY <1>0, <1>2, <2>1, Moving, OwnLocals DEF Validate, Goto, Steps
  <2>2. CASE Leave(q, "done")
    BY <1>0, <1>2, <2>2, Leaving, OwnLocals DEF Validate, Leave
  <2> QED BY <1>2, <2>1, <2>2 DEF Validate
<1>3. CASE ReadDraft(q)
  <2> DEFINE locals == [req[q] EXCEPT !.step = "number", !.body = draft]
  <2>1. locals \in Locals /\ locals.step = "number" /\ locals.body = draft
    BY <1>0 DEF Locals, Steps
  <2> QED BY <1>0, <1>3, <2>1, OwnLocals DEF ReadDraft
<1>4. CASE ReadNumber(q)
  <2> DEFINE locals == [req[q] EXCEPT !.step = "insert", !.number = MaxNumber + 1]
  <2>1. locals \in Locals /\ locals.step = "insert" /\ locals.body = req[q].body
        /\ locals.number = Len(versions) + 1
    <3>1. MaxNumber + 1 \in Nat /\ MaxNumber = Len(versions)
      BY <1>0, MaxIsLen
    <3>2. "insert" \in Steps
      BY DEF Steps
    <3> QED BY <1>0, <3>1, <3>2 DEF Locals
  <2>2. locals.body \in DOMAIN bodies
    BY <1>4, <2>1 DEF ReadNumber, IInv, Refers, At
  <2>3. locals.number \in 1 .. Len(versions) + 1
    BY <1>0, <2>1
  <2>4. Set(q, locals) /\ UNCHANGED <<row, registry, runs, history>>
    BY <1>4 DEF ReadNumber
  <2> HIDE DEF locals
  <2> QED BY <1>0, <2>1, <2>2, <2>3, <2>4, OwnLocals
<1>5. CASE ReadActive(q)
  <2>1. CASE active = 0
    BY <1>0, <1>5, <2>1, Leaving, OwnLocals DEF ReadActive, Leave
  <2>2. CASE active # 0
    <3> DEFINE locals == [req[q] EXCEPT !.step = "content", !.version = active]
    <3>1. locals \in Locals /\ locals.step = "content" /\ locals.version = active
      BY <1>0 DEF Locals, Steps
    <3>2. active \in DOMAIN versions
      BY <1>0, <2>2
    <3> QED BY <1>0, <1>5, <2>2, <3>1, <3>2, OwnLocals DEF ReadActive
  <2> QED BY <2>1, <2>2
<1>6. CASE ReadContent(q)
  <2> DEFINE locals == [req[q] EXCEPT !.step = "restore",
                                      !.body = versions[req[q].version].body]
  <2>1. req[q].version \in DOMAIN versions
    BY <1>6 DEF ReadContent, IInv, Refers, At
  <2>2. versions[req[q].version].body \in DOMAIN bodies /\ DOMAIN bodies \subseteq Nat
    BY <1>0, <2>1 DEF IInv, TypeOK
  <2>3. locals \in Locals /\ locals.step = "restore"
        /\ locals.body = versions[req[q].version].body
    BY <1>0, <2>2 DEF Locals, Steps
  <2>4. Set(q, locals) /\ UNCHANGED <<row, registry, runs, history>>
    BY <1>6 DEF ReadContent, BodyOf
  <2> HIDE DEF locals
  <2> QED BY <1>0, <2>1, <2>2, <2>3, <2>4, OwnLocals
<1>7. CASE Resolve(q)
  <2>1. CASE Leave(q, "done")
    BY <1>0, <1>7, <2>1, Leaving, OwnLocals DEF Resolve, Leave
  <2>2. ASSUME NEW v \in DOMAIN versions, Set(q, [req[q] EXCEPT !.step = "load", !.version = v])
        PROVE  IInv'
    <3> DEFINE locals == [req[q] EXCEPT !.step = "load", !.version = v]
    <3>1. locals \in Locals /\ locals.step = "load" /\ locals.version = v
      <4>1. v \in Nat
        BY <1>0
      <4> QED BY <1>0, <4>1 DEF Locals, Steps
    <3> QED BY <1>0, <1>7, <2>2, <3>1, OwnLocals DEF Resolve
  <2>3. active # 0 => active \in DOMAIN versions
    BY <1>0
  <2> QED BY <1>7, <2>1, <2>2, <2>3 DEF Resolve
<1>8. CASE RequestFails(q)
  BY <1>0, <1>8, Leaving, OwnLocals DEF RequestFails, Leave
<1> QED BY <1>1, <1>2, <1>3, <1>4, <1>5, <1>6, <1>7, <1>8

\* The locals of the other requests still refer to what is there when bodies and
\* versions have only grown.
LEMMA StillRefers ==
  ASSUME NEW p \in Requests, Refers(p), req'[p] = req[p], exists' => exists,
         DOMAIN bodies \subseteq DOMAIN bodies',
         exists' => Len(versions) \in Nat /\ Len(versions') \in Nat
                    /\ Len(versions) <= Len(versions') /\ DOMAIN versions \subseteq DOMAIN versions'
                    /\ \A i \in DOMAIN versions : versions'[i] = versions[i]
  PROVE  Refers(p)'
<1>1. exists' => 1 .. Len(versions) + 1 \subseteq 1 .. Len(versions') + 1
  OBVIOUS
<1> QED BY <1>1 DEF Refers

\* A request that leaves refers to nothing.
LEMMA LeftRefersNot ==
  ASSUME IInv, NEW q \in Requests, NEW step \in {"done", "failed"}, Leave(q, step)
  PROVE  /\ req' \in [Requests -> Locals]
         /\ Refers(q)'
         /\ \A p \in Requests : p # q => req'[p] = req[p]
<1> DEFINE left == [Idle EXCEPT !.step = step, !.named = req[q].named]
<1>1. left \in Locals /\ left.step = step
  BY Leaving
<1>2. req' = [req EXCEPT ![q] = left] /\ req \in [Requests -> Locals]
  BY DEF Leave, Set, IInv, TypeOK
<1> HIDE DEF left
<1> QED BY <1>1, <1>2 DEF Refers

\* A published version has the next number.
LEMMA InsertStep == ASSUME IInv, NEW q \in Requests, Insert(q) PROVE IInv'
<1> DEFINE v == [number |-> req[q].number, body |-> req[q].body, by |-> q]
           locals == [req[q] EXCEPT !.step = "activate", !.version = Len(versions')]
<1>0. /\ versions \in Seq(Versions) /\ Len(versions) \in Nat
      /\ DOMAIN versions = 1 .. Len(versions)
      /\ req[q] \in Locals /\ bodies \in Seq(Bodies)
  BY DEF IInv, TypeOK
<1>1. req[q].number = Len(versions) + 1
  <2>1. req[q].number \in 1 .. Len(versions) + 1
    BY DEF Insert, At, IInv, Refers
  <2>2. \A i \in 1 .. Len(versions) : req[q].number # i
    BY <1>0 DEF Insert, IsTaken, IInv, NumbersAreDense
  <2> QED BY <1>0, <2>1, <2>2
<1>2. req[q].body \in DOMAIN bodies
  BY DEF Insert, At, IInv, Refers
<1>3. v \in Versions
  <2>1. req[q].body \in Nat \ {0}
    BY <1>0, <1>2
  <2> QED BY <1>0, <1>1, <2>1 DEF Versions
<1>4. /\ versions' = Append(versions, v)
      /\ versions' \in Seq(Versions)
      /\ Len(versions') = Len(versions) + 1
      /\ DOMAIN versions' = 1 .. Len(versions) + 1
      /\ \A i \in 1 .. Len(versions) : versions'[i] = versions[i]
      /\ versions'[Len(versions) + 1] = v
  <2>1. versions' = Append(versions, v)
    BY DEF Insert
  <2> HIDE DEF v
  <2> QED BY <1>0, <1>3, <2>1
<1>5. locals \in Locals /\ locals.step = "activate" /\ locals.version = Len(versions) + 1
  <2>1. Len(versions') \in Nat
    BY <1>0, <1>4
  <2> QED BY <1>0, <1>4, <2>1 DEF Locals, Steps
<1>6. /\ req' = [req EXCEPT ![q] = locals]
      /\ UNCHANGED <<exists, bodies, draft, active, registry, runs, met, late, window>>
  BY DEF Insert, Set, history
<1> HIDE DEF locals
<1>7. TypeOK'
  <2>1. \A i \in DOMAIN versions' : versions'[i].body \in DOMAIN bodies
    BY <1>0, <1>2, <1>4 DEF IInv, TypeOK
  <2>2. active \in 0 .. Len(versions') /\ runs \in [Requests -> 0 .. Len(versions')]
    <3>1. 0 .. Len(versions) \subseteq 0 .. Len(versions')
      BY <1>0, <1>4
    <3> QED BY <3>1 DEF IInv, TypeOK
  <2> QED BY <1>4, <1>5, <1>6, <2>1, <2>2 DEF IInv, TypeOK
<1>8. NumbersAreDense'
  BY <1>0, <1>1, <1>4 DEF NumbersAreDense, IInv
<1>9. ASSUME NEW p \in Requests PROVE Refers(p)'
  <2>1. CASE p = q
    BY <1>0, <1>4, <1>5, <1>6, <2>1 DEF Refers, IInv, TypeOK
  <2>2. CASE p # q
    <3>1. req'[p] = req[p]
      BY <1>6, <2>2 DEF IInv, TypeOK
    <3>2. Len(versions') \in Nat /\ Len(versions) <= Len(versions')
          /\ DOMAIN versions \subseteq DOMAIN versions'
          /\ \A i \in DOMAIN versions : versions'[i] = versions[i]
      BY <1>0, <1>4
    <3> QED BY <1>0, <1>6, <3>1, <3>2, StillRefers DEF IInv
  <2> QED BY <2>1, <2>2
<1> QED BY <1>7, <1>8, <1>9 DEF IInv

\* Steps after which their request refers to nothing, and which may move the pointer,
\* the draft or the pin of a run.
LEMMA LeavingSteps ==
  ASSUME IInv, NEW q \in Requests, Activate(q) \/ Restore(q) \/ SaveRun(q)
  PROVE  IInv'
<1>1. /\ Leave(q, "done") /\ UNCHANGED <<exists, bodies, versions, registry, met>>
  BY DEF Activate, Restore, SaveRun, row, history
<1>2. /\ req' \in [Requests -> Locals] /\ Refers(q)'
      /\ \A p \in Requests : p # q => req'[p] = req[p]
  BY <1>1, LeftRefersNot
<1>3. active' \in 0 .. Len(versions)
  <2>1. At(q, "activate") /\ exists => req[q].version \in DOMAIN versions
    BY DEF IInv, Refers, At
  <2>2. versions \in Seq(Versions) /\ active \in 0 .. Len(versions)
    BY DEF IInv, TypeOK
  <2> QED BY <2>1, <2>2 DEF Activate, Restore, SaveRun, row
<1>4. draft' \in DOMAIN bodies
  <2>1. At(q, "restore") => req[q].body \in DOMAIN bodies
    BY DEF IInv, Refers, At
  <2> QED BY <2>1 DEF Activate, Restore, SaveRun, row, IInv, TypeOK
<1>5. runs' \in [Requests -> 0 .. Len(versions)]
  <2>1. At(q, "run") /\ exists => req[q].version \in DOMAIN versions
    BY DEF IInv, Refers, At
  <2>2. versions \in Seq(Versions) /\ runs \in [Requests -> 0 .. Len(versions)]
    BY DEF IInv, TypeOK
  <2> QED BY <2>1, <2>2 DEF Activate, Restore, SaveRun
<1>6. late' \subseteq Requests
  BY DEF Activate, Restore, SaveRun, history, Validated, IInv, TypeOK
<1>7. window' \in [Requests -> SUBSET Nat]
  <2>1. window \in [Requests -> SUBSET Nat] /\ 0 .. Len(versions) \subseteq Nat
    BY DEF IInv, TypeOK
  <2>2. CASE Activate(q)
    <3>1. window' = [p \in Requests |-> IF InFlight(p) THEN window[p] \cup {active'} ELSE window[p]]
      BY <2>2 DEF Activate
    <3>2. active' \in Nat
      BY <1>3, <2>1
    <3> QED BY <2>1, <3>1, <3>2
  <2> QED BY <2>1, <2>2 DEF Restore, SaveRun, history
<1>8. TypeOK'
  BY <1>1, <1>2, <1>3, <1>4, <1>5, <1>6, <1>7 DEF IInv, TypeOK
<1>9. \A p \in Requests : p # q => Refers(p)'
  BY <1>1, <1>2 DEF IInv, Refers
<1>10. NumbersAreDense'
  BY <1>1 DEF IInv, NumbersAreDense
<1> QED BY <1>2, <1>8, <1>9, <1>10 DEF IInv

\* Loading may fill a body in; nothing else of it changes.
LEMMA FillKeeps ==
  ASSUME IInv, NEW i \in DOMAIN bodies, Fill(i) \/ UNCHANGED bodies
  PROVE  bodies' \in Seq(Bodies) /\ DOMAIN bodies' = DOMAIN bodies
<1>1. bodies \in Seq(Bodies) /\ bodies[i] \in Bodies
  BY DEF IInv, TypeOK
<1>2. CASE bodies' = [bodies EXCEPT ![i].filled = TRUE]
  <2>1. [bodies[i] EXCEPT !.filled = TRUE] \in Bodies
    BY <1>1 DEF Bodies
  <2> QED BY <1>1, <1>2, <2>1
<1> QED BY <1>1, <1>2 DEF Fill

LEMMA LoadStep == ASSUME IInv, NEW q \in Requests, LoadVersion(q) PROVE IInv'
<1> DEFINE i == versions[req[q].version].body
<1>1. req[q].version \in DOMAIN versions /\ i \in DOMAIN bodies
  <2>1. req[q].version \in DOMAIN versions
    BY DEF LoadVersion, At, IInv, Refers
  <2> QED BY <2>1 DEF IInv, TypeOK
<1>2. bodies' \in Seq(Bodies) /\ DOMAIN bodies' = DOMAIN bodies
  <2>1. Fill(i) \/ UNCHANGED bodies
    BY DEF LoadVersion, Refuse, BodyOf
  <2> QED BY <1>1, <2>1, FillKeeps
<1>3. UNCHANGED <<exists, draft, versions, active, registry, runs, met, late, window>>
  BY DEF LoadVersion, history
<1>4. /\ req' \in [Requests -> Locals] /\ Refers(q)'
      /\ \A p \in Requests : p # q => req'[p] = req[p]
  <2>1. CASE Leave(q, "done")
    BY <2>1, LeftRefersNot
  <2>2. CASE Goto(q, "run")
    <3> DEFINE there == [req[q] EXCEPT !.step = "run"]
    <3>1. there \in Locals /\ there.step = "run" /\ there.version = req[q].version
      BY Moving DEF Steps
    <3>2. req' = [req EXCEPT ![q] = there] /\ req \in [Requests -> Locals]
      BY <2>2 DEF Goto, Set, IInv, TypeOK
    <3> HIDE DEF there
    <3>3. req'[q] = there
      BY <3>2
    <3> QED BY <1>1, <1>3, <3>1, <3>2, <3>3 DEF Refers
  <2> QED BY <2>1, <2>2 DEF LoadVersion, Refuse
<1>5. TypeOK'
  BY <1>2, <1>3, <1>4 DEF IInv, TypeOK
<1>6. NumbersAreDense' /\ \A p \in Requests : p # q => Refers(p)'
  BY <1>2, <1>3, <1>4 DEF IInv, NumbersAreDense, Refers
<1> QED BY <1>4, <1>5, <1>6 DEF IInv

\* Steps that are not a request's.
LEMMA OtherSteps ==
  ASSUME IInv, EditDraft \/ RegisterCapability \/ DeleteWorkflow
  PROVE  IInv'
<1>1. CASE EditDraft
  <2>1. PICK g \in Graphs : bodies' = Append(bodies, [graph |-> g, filled |-> FALSE])
    BY <1>1 DEF EditDraft, UpdateDraft
  <2>2. bodies \in Seq(Bodies) /\ [graph |-> g, filled |-> FALSE] \in Bodies
    BY DEF IInv, TypeOK, Bodies
  <2>3. /\ bodies' \in Seq(Bodies)
        /\ DOMAIN bodies = 1 .. Len(bodies) /\ DOMAIN bodies' = 1 .. Len(bodies) + 1
        /\ Len(bodies') = Len(bodies) + 1 /\ Len(bodies) \in Nat
    BY <2>1, <2>2
  <2>4. DOMAIN bodies \subseteq DOMAIN bodies' /\ Len(bodies') \in DOMAIN bodies'
    BY <2>3
  <2>5. /\ draft' = Len(bodies') /\ late' = late \cup Validated
        /\ UNCHANGED <<exists, versions, active, registry, runs, req, met, window>>
    BY <1>1 DEF EditDraft, UpdateDraft
  <2>6. TypeOK'
    BY <2>3, <2>4, <2>5 DEF IInv, TypeOK, Validated
  <2>7. NumbersAreDense' /\ \A p \in Requests : Refers(p)'
    BY <2>4, <2>5 DEF IInv, NumbersAreDense, Refers
  <2> QED BY <2>6, <2>7 DEF IInv
<1>2. CASE RegisterCapability
  BY <1>2 DEF RegisterCapability, InsertCapability, IInv, TypeOK, NumbersAreDense, Refers, row,
      history
<1>3. CASE DeleteWorkflow
  <2>1. /\ exists' = FALSE /\ versions' = <<>> /\ active' = 0
        /\ runs' = [q \in Requests |-> 0]
        /\ UNCHANGED <<bodies, draft, registry, req, met, late, window>>
    BY <1>3 DEF DeleteWorkflow, history
  <2>2. versions' \in Seq(Versions) /\ Len(versions') = 0 /\ DOMAIN versions' = {}
    BY <2>1
  <2>3. TypeOK'
    <3>1. runs' \in [Requests -> 0 .. Len(versions')] /\ active' \in 0 .. Len(versions')
      BY <2>1, <2>2
    <3>2. \A i \in DOMAIN versions' : versions'[i].body \in DOMAIN bodies'
      BY <2>2
    <3>3. /\ exists' \in BOOLEAN /\ bodies' \in Seq(Bodies) /\ draft' \in DOMAIN bodies'
          /\ registry' \subseteq Capabilities /\ req' \in [Requests -> Locals]
          /\ met' \subseteq Requests /\ late' \subseteq Requests
          /\ window' \in [Requests -> SUBSET Nat]
      BY <2>1 DEF IInv, TypeOK
    <3> QED BY <2>2, <3>1, <3>2, <3>3 DEF TypeOK
  <2>4. NumbersAreDense' /\ \A p \in Requests : Refers(p)'
    BY <2>1, <2>2 DEF IInv, NumbersAreDense, Refers
  <2> QED BY <2>3, <2>4 DEF IInv
<1> QED BY <1>1, <1>2, <1>3

LEMMA NextIInv == IInv /\ [Next]_vars => IInv'
<1> SUFFICES ASSUME IInv, [Next]_vars PROVE IInv'
  OBVIOUS
<1>1. CASE UNCHANGED vars
  BY <1>1 DEF vars, row, history, IInv, TypeOK, NumbersAreDense, Refers
<1>2. ASSUME NEW q \in Requests, Handle(q) PROVE IInv'
  BY <1>2, ReadingSteps, InsertStep, LeavingSteps, LoadStep DEF Handle
<1> QED BY <1>1, <1>2, OtherSteps DEF Next

-----------------------------------------------------------------------------
(* The theorems.                                                           *)

THEOREM Invariance == Spec => []IInv
  BY InitIInv, NextIInv, PTL DEF Spec

\* Whatever overlaps, fails or is deleted, requests only ever refer to drafts and
\* versions that exist, and the pointer and the runs to versions.
THEOREM Typed == Spec => []TypeOK
<1>1. IInv => TypeOK
  BY DEF IInv
<1> QED BY <1>1, Invariance, PTL

\* The numbers of the versions are 1, 2, ... without a gap, although a publish reads the
\* next number in one statement and takes it in another.
THEOREM DenseNumbers == Spec => []NumbersAreDense
<1>1. IInv => NumbersAreDense
  BY DEF IInv
<1> QED BY <1>1, Invariance, PTL

-----------------------------------------------------------------------------
(* What is published, what is active and what a run is pinned to, over     *)
(* either store.                                                           *)

\* What a publish is going to insert is valid, unless the draft has changed since.
Validity ==
  /\ PublishedIsValid
  /\ \A q \in Requests : At(q, "draft") => Publishable(DraftGraph) \/ q \in late
  /\ \A q \in Requests : req[q].step \in {"number", "insert"}
       => Publishable(bodies[req[q].body].graph) \/ q \in late

\* Two requests that are at work have met.
Overlaps == \A q, r \in Requests : q # r /\ InFlight(q) /\ InFlight(r) => q \in met

\* A request inserts one version and is at work on it until it has activated it; what is
\* inserted meanwhile is another's.
Order ==
  /\ ~exists => versions = <<>>
  /\ \A i \in DOMAIN versions :
       LET q == versions[i].by IN
       /\ ~At(q, "off")
       /\ InFlight(q) => At(q, "activate") /\ req[q].version = i
  /\ \A q \in Requests : At(q, "activate") =>
       \A i \in DOMAIN versions : i > req[q].version => versions[i].by \in met
  /\ NewestIsActive

\* A request knows which versions have been active since it came in, the one it has
\* resolved among them.
Pinned ==
  /\ PinnedToActive
  /\ \A q \in Requests : runs[q] # 0 => At(q, "done")
  /\ \A q \in Requests : exists /\ InFlight(q) => active \in window[q]
  /\ \A q \in Requests : exists /\ req[q].step \in {"load", "run"} /\ ~req[q].named
       => req[q].version \in window[q]

\* A step of a request leaves the locals of the others and the registry alone.
LEMMA OthersStay ==
  ASSUME IInv, NEW q \in Requests, Handle(q)
  PROVE  /\ \A p \in Requests : p # q => req'[p] = req[p]
         /\ registry' = registry /\ exists' = exists
<1>1. req \in [Requests -> Locals]
  BY DEF IInv, TypeOK
<1>2. \E locals : req' = [req EXCEPT ![q] = locals]
  BY DEF Handle, Receive, ReceivePublish, ReceiveRollback, ReceiveStart, Arrive, Validate,
     ReadDraft, ReadNumber, Insert, Activate, ReadActive, ReadContent, Restore, Resolve,
     LoadVersion, Refuse, SaveRun, RequestFails, Goto, Leave, Set
<1>3. registry' = registry /\ exists' = exists
  BY DEF Handle, Receive, ReceivePublish, ReceiveRollback, ReceiveStart, Arrive, Validate,
     ReadDraft, ReadNumber, Insert, Activate, ReadActive, ReadContent, Restore, Resolve,
     LoadVersion, SaveRun, RequestFails, row
<1> QED BY <1>1, <1>2, <1>3

\* Where a request is after a step tells which step it was and what it has noted.
LEMMA WhereFrom ==
  ASSUME IInv, NEW q \in Requests, Handle(q)
  PROVE  LET now == req'[q] IN
         \/ Receive(q) /\ now.step \in {"validate", "active", "resolve"}
         \/ Validate(q) /\ now.step = "draft" /\ Publishable(DraftGraph)
         \/ ReadDraft(q) /\ now.step = "number" /\ now.body = draft
         \/ ReadNumber(q) /\ now.step = "insert" /\ now.body = req[q].body
         \/ Insert(q) /\ now.step = "activate" /\ now.version = Len(versions')
         \/ ReadActive(q) /\ now.step = "content"
         \/ ReadContent(q) /\ now.step = "restore"
         \/ /\ Resolve(q) /\ now.step = "load" /\ now.named = req[q].named
            /\ now.named \/ now.version = active
         \/ /\ LoadVersion(q) /\ now.step = "run" /\ now.named = req[q].named
            /\ now.version = req[q].version
         \/ Activate(q) /\ now.step = "done" /\ now.named = req[q].named
         \/ SaveRun(q) /\ now.step = "done" /\ now.named = req[q].named
         \/ /\ now.step \in {"done", "failed"}
            /\ \/ RequestFails(q) /\ now.step = "failed"
               \/ Validate(q) \/ ReadActive(q) \/ Restore(q) \/ Resolve(q) \/ LoadVersion(q)
<1>1. req \in [Requests -> Locals] /\ req[q] \in Locals
  BY DEF IInv, TypeOK
<1>2. ASSUME NEW step \in {"done", "failed"}, Leave(q, step)
      PROVE  req'[q].step = step /\ req'[q].named = req[q].named
  BY <1>1, <1>2 DEF Leave, Set, Idle
<1>3. ASSUME NEW step \in Steps, Goto(q, step)
      PROVE  /\ req'[q].step = step /\ req'[q].named = req[q].named
             /\ req'[q].version = req[q].version
  BY <1>1, <1>3 DEF Goto, Set, Locals
<1>4. CASE Receive(q)
  <2>1. PICK step \in {"validate", "active", "resolve"}, named \in BOOLEAN :
          Arrive(q, step, named)
    BY <1>4 DEF Receive, ReceivePublish, ReceiveRollback, ReceiveStart
  <2>2. req'[q].step = step
    BY <1>1, <2>1 DEF Arrive, Set, Idle
  <2> QED BY <1>4, <2>1, <2>2
<1>5. CASE Validate(q)
  BY <1>2, <1>3, <1>5 DEF Validate, Steps
<1>6. CASE ReadDraft(q) \/ ReadNumber(q) \/ Insert(q) \/ ReadContent(q)
  BY <1>1, <1>6 DEF ReadDraft, ReadNumber, Insert, ReadContent, Set, Locals
<1>7. CASE ReadActive(q)
  BY <1>1, <1>2, <1>7 DEF ReadActive, Set, Locals
<1>8. CASE Resolve(q)
  <2>1. CASE Leave(q, "done")
    BY <1>2, <1>8, <2>1
  <2>2. ASSUME NEW v, Set(q, [req[q] EXCEPT !.step = "load", !.version = v])
        PROVE  /\ req'[q].step = "load" /\ req'[q].version = v
               /\ req'[q].named = req[q].named
    BY <1>1, <2>2 DEF Set, Locals
  <2> QED BY <1>8, <2>1, <2>2 DEF Resolve
<1>9. CASE LoadVersion(q)
  BY <1>2, <1>3, <1>9 DEF LoadVersion, Refuse, Steps
<1>10. CASE Activate(q) \/ SaveRun(q) \/ RequestFails(q) \/ Restore(q)
  BY <1>2, <1>10 DEF Activate, SaveRun, RequestFails, Restore
<1> QED BY <1>4, <1>5, <1>6, <1>7, <1>8, <1>9, <1>10 DEF Handle

\* The registry and the histories only grow, and the graph of a body never changes.
LEMMA Growing ==
  ASSUME IInv, [Next]_vars
  PROVE  /\ registry \subseteq registry' /\ late \subseteq late' /\ met \subseteq met'
         /\ \A i \in DOMAIN bodies : i \in DOMAIN bodies' /\ bodies'[i].graph = bodies[i].graph
<1>1. bodies \in Seq(Bodies)
  BY DEF IInv, TypeOK
<1>2. ASSUME NEW i \in DOMAIN bodies, Fill(i) \/ UNCHANGED bodies
      PROVE  \A j \in DOMAIN bodies : j \in DOMAIN bodies' /\ bodies'[j].graph = bodies[j].graph
  <2>1. bodies[i] \in Bodies
    BY <1>1
  <2> QED BY <1>1, <1>2, <2>1 DEF Fill, Bodies
<1>3. ASSUME NEW q \in Requests, Handle(q)
      PROVE  /\ registry \subseteq registry' /\ late \subseteq late' /\ met \subseteq met'
             /\ \A i \in DOMAIN bodies :
                  i \in DOMAIN bodies' /\ bodies'[i].graph = bodies[i].graph
  <2>1. registry' = registry /\ late \subseteq late' /\ met \subseteq met'
    BY <1>3 DEF Handle, Receive, ReceivePublish, ReceiveRollback, ReceiveStart, Arrive, Validate,
       ReadDraft, ReadNumber, Insert, Activate, ReadActive, ReadContent, Restore, Resolve,
       LoadVersion, SaveRun, RequestFails, row, history
  <2>2. CASE LoadVersion(q)
    <3>1. versions[req[q].version].body \in DOMAIN bodies
      BY <2>2 DEF LoadVersion, At, IInv, Refers, TypeOK
    <3>2. Fill(versions[req[q].version].body) \/ UNCHANGED bodies
      BY <2>2 DEF LoadVersion, Refuse, BodyOf
    <3> QED BY <1>2, <2>1, <3>1, <3>2
  <2>3. CASE ~LoadVersion(q)
    <3>1. UNCHANGED bodies
      BY <1>3, <2>3 DEF Handle, Receive, ReceivePublish, ReceiveRollback, ReceiveStart, Arrive,
         Validate, ReadDraft, ReadNumber, Insert, Activate, ReadActive, ReadContent, Restore,
         Resolve, SaveRun, RequestFails, row
    <3> QED BY <2>1, <3>1
  <2> QED BY <2>2, <2>3
<1>4. CASE EditDraft
  BY <1>1, <1>4 DEF EditDraft, UpdateDraft
<1>5. CASE RegisterCapability \/ DeleteWorkflow \/ UNCHANGED vars
  BY <1>5 DEF RegisterCapability, InsertCapability, DeleteWorkflow, vars, row, history
<1> QED BY <1>3, <1>4, <1>5 DEF Next

\* Versions are only appended to, by Insert, until they go with the workflow.
LEMMA VersionsStay ==
  ASSUME IInv, [Next]_vars
  PROVE  \/ versions' = versions /\ exists' = exists
         \/ versions' = <<>> /\ DeleteWorkflow /\ exists' = FALSE
         \/ \E q \in Requests : Insert(q) /\ exists' = exists
  BY DEF Next, vars, Handle, Receive, ReceivePublish, ReceiveRollback, ReceiveStart, Arrive,
     Validate, ReadDraft, ReadNumber, Activate, ReadActive, ReadContent, Restore, Resolve,
     LoadVersion, SaveRun, RequestFails, EditDraft, RegisterCapability, DeleteWorkflow, row,
     Insert

\* What an insert appends.
LEMMA Appended ==
  ASSUME IInv, NEW q \in Requests, Insert(q)
  PROVE  /\ Len(versions) \in Nat /\ DOMAIN versions = 1 .. Len(versions)
         /\ Len(versions') = Len(versions) + 1
         /\ DOMAIN versions' = 1 .. Len(versions) + 1
         /\ \A i \in DOMAIN versions : versions'[i] = versions[i]
         /\ versions'[Len(versions) + 1].by = q
         /\ versions'[Len(versions) + 1].body = req[q].body
<1> DEFINE v == [number |-> req[q].number, body |-> req[q].body, by |-> q]
<1>1. versions \in Seq(Versions)
  BY DEF IInv, TypeOK
<1>2. versions' = Append(versions, v) /\ v.by = q /\ v.body = req[q].body
  BY DEF Insert
<1> HIDE DEF v
<1> QED BY <1>1, <1>2

LEMMA ValidityStep ==
  ASSUME IInv, Validity, [Next]_vars
  PROVE  Validity'
<1> USE DEF Publishable, Registered
<1>1. registry \subseteq registry' /\ late \subseteq late'
  BY Growing
<1>2. ASSUME NEW i \in DOMAIN bodies, NEW q \in Requests,
             Publishable(bodies[i].graph) \/ q \in late
      PROVE  Publishable(bodies[i].graph)' \/ q \in late'
  <2>1. bodies'[i].graph = bodies[i].graph
    BY Growing
  <2> QED BY <1>1, <1>2, <2>1
<1>3. PublishedIsValid'
  <2>1. ASSUME NEW i \in DOMAIN versions, i \in DOMAIN versions', versions'[i] = versions[i]
        PROVE  (Publishable(bodies[versions[i].body].graph) \/ versions[i].by \in late)'
    <3>1. versions[i].body \in DOMAIN bodies
      BY DEF IInv, TypeOK
    <3>2. Publishable(bodies[versions[i].body].graph) \/ versions[i].by \in late
      BY DEF Validity, PublishedIsValid
    <3>3. bodies'[versions[i].body].graph = bodies[versions[i].body].graph
      BY <3>1, Growing
    <3> QED BY <1>1, <2>1, <3>2, <3>3
  <2>2. CASE versions' = versions \/ versions' = <<>>
    BY <2>1, <2>2 DEF PublishedIsValid
  <2>3. ASSUME NEW q \in Requests, Insert(q) PROVE PublishedIsValid'
    <3>1. Publishable(bodies[req[q].body].graph) \/ q \in late
      BY <2>3 DEF Insert, At, Validity
    <3>2. bodies' = bodies /\ late' = late /\ registry' = registry
      BY <2>3 DEF Insert, history
    <3>3. \A i \in DOMAIN versions' :
            \/ i \in DOMAIN versions /\ versions'[i] = versions[i]
            \/ versions'[i].by = q /\ versions'[i].body = req[q].body
      BY <2>3, Appended
    <3> QED BY <2>1, <3>1, <3>2, <3>3 DEF PublishedIsValid
  <2> QED BY <2>2, <2>3, VersionsStay
<1>4. ASSUME NEW q \in Requests, At(q, "draft"), draft' = draft
      PROVE  Publishable(DraftGraph)' \/ q \in late'
  BY <1>2, <1>4 DEF Validity, DraftGraph, IInv, TypeOK
<1>5. ASSUME NEW q \in Requests, At(q, "draft"), late' = late \cup Validated
      PROVE  q \in late'
  BY <1>5 DEF Validated
<1> DEFINE Holds(q) ==
      /\ At(q, "draft") => Publishable(DraftGraph) \/ q \in late
      /\ req[q].step \in {"number", "insert"}
           => Publishable(bodies[req[q].body].graph) \/ q \in late
<1>6. ASSUME NEW q \in Requests, req'[q] = req[q],
             draft' = draft \/ late' = late \cup Validated
      PROVE  Holds(q)'
  <2>1. At(q, "draft") => Publishable(DraftGraph)' \/ q \in late'
    BY <1>4, <1>5, <1>6
  <2>2. ASSUME req[q].step \in {"number", "insert"}
        PROVE  (Publishable(bodies[req[q].body].graph) \/ q \in late)'
    <3>1. req[q].body \in DOMAIN bodies
      BY <2>2 DEF IInv, Refers
    <3>2. Publishable(bodies[req[q].body].graph) \/ q \in late
      BY <2>2 DEF Validity
    <3>3. bodies'[req[q].body].graph = bodies[req[q].body].graph
      BY <3>1, Growing
    <3> QED BY <1>1, <1>6, <3>2, <3>3
  <2> QED BY <1>6, <2>1, <2>2 DEF At
<1>7. CASE UNCHANGED vars \/ EditDraft \/ RegisterCapability \/ DeleteWorkflow
  <2>1. req' = req /\ (draft' = draft \/ late' = late \cup Validated)
    BY <1>7 DEF vars, row, EditDraft, RegisterCapability, DeleteWorkflow
  <2>2. \A q \in Requests : Holds(q)'
    BY <1>6, <2>1
  <2> QED BY <1>3, <2>2 DEF Validity
<1>8. ASSUME NEW r \in Requests, Handle(r) PROVE Validity'
  <2>1. draft' = draft \/ late' = late \cup Validated
    BY <1>8 DEF Handle, Receive, ReceivePublish, ReceiveRollback, ReceiveStart, Arrive, Validate,
       ReadDraft, ReadNumber, Insert, Activate, ReadActive, ReadContent, Restore, Resolve,
       LoadVersion, SaveRun, RequestFails, row
  <2>2. ASSUME NEW q \in Requests PROVE Holds(q)'
    <3>1. CASE q # r
      BY <1>6, <1>8, <2>1, <3>1, OthersStay
    <3>2. CASE q = r /\ Validate(q) /\ req'[q].step = "draft" /\ Publishable(DraftGraph)
      BY <3>2 DEF At, Validate, row, DraftGraph
    <3>3. CASE q = r /\ ReadDraft(q) /\ req'[q].step = "number" /\ req'[q].body = draft
      <4>1. Publishable(DraftGraph)' \/ q \in late'
        BY <1>4, <3>3 DEF ReadDraft, row
      <4>2. req'[q].body = draft'
        BY <3>3 DEF ReadDraft, row
      <4> QED BY <3>3, <4>1, <4>2 DEF At, DraftGraph
    <3>4. CASE q = r /\ ReadNumber(q) /\ req'[q].step = "insert" /\ req'[q].body = req[q].body
      <4>1. Publishable(bodies[req[q].body].graph) \/ q \in late
        BY <3>4 DEF ReadNumber, At, Validity
      <4>2. UNCHANGED <<bodies, registry, late>>
        BY <3>4 DEF ReadNumber, row, history
      <4> QED BY <3>4, <4>1, <4>2 DEF At
    <3>5. CASE q = r /\ req'[q].step \notin {"draft", "number", "insert"}
      BY <3>5 DEF At
    <3> QED BY <1>8, <3>1, <3>2, <3>3, <3>4, <3>5, WhereFrom
  <2> QED BY <1>3, <2>2 DEF Validity
<1> QED BY <1>7, <1>8 DEF Next

LEMMA OverlapsStep ==
  ASSUME IInv, Overlaps, [Next]_vars
  PROVE  Overlaps'
<1>1. met \subseteq met'
  BY Growing
<1>2. CASE req' = req
  BY <1>1, <1>2 DEF Overlaps, InFlight
<1>3. ASSUME NEW q \in Requests, Handle(q) PROVE Overlaps'
  <2>1. \A p \in Requests : p # q => req'[p] = req[p]
    BY <1>3, OthersStay
  <2>2. CASE InFlight(q)
    BY <1>1, <2>1, <2>2 DEF Overlaps, InFlight
  <2>3. CASE Receive(q)
    <3>1. met' = IF Busy = {} THEN met ELSE met \cup {q} \cup Busy
      BY <2>3 DEF Receive, ReceivePublish, ReceiveRollback, ReceiveStart, Arrive
    <3> QED BY <1>1, <2>1, <3>1 DEF Overlaps, InFlight, Busy
  <2>4. InFlight(q) \/ Receive(q)
    BY <1>3 DEF Handle, At, InFlight, Validate, ReadDraft, ReadNumber, Insert, Activate,
       ReadActive, ReadContent, Restore, Resolve, LoadVersion, SaveRun, RequestFails
  <2> QED BY <2>2, <2>3, <2>4
<1> QED BY <1>2, <1>3 DEF Next, vars, EditDraft, RegisterCapability, DeleteWorkflow

LEMMA OrderStep ==
  ASSUME IInv, Overlaps, Order, [Next]_vars
  PROVE  Order'
<1>1. met \subseteq met'
  BY Growing
<1>2. versions \in Seq(Versions) /\ active \in 0 .. Len(versions) /\ req \in [Requests -> Locals]
  BY DEF IInv, TypeOK
<1>3. \A i \in DOMAIN versions : versions[i].by \in Requests
  <2>1. \A i \in DOMAIN versions : versions[i] \in Versions
    BY <1>2
  <2> QED BY <2>1 DEF Versions
<1>4. CASE DeleteWorkflow
  <2>1. /\ DOMAIN versions' = {} /\ Len(versions') = 0 /\ versions' = <<>> /\ active' = 0
        /\ exists' = FALSE /\ req' = req
    BY <1>4 DEF DeleteWorkflow
  <2>2. \A i \in DOMAIN versions' : FALSE
    BY <2>1
  <2>3. \A i \in active' + 1 .. Len(versions') : FALSE
    BY <2>1
  <2> QED BY <2>1, <2>2, <2>3 DEF Order, NewestIsActive
<1>5. CASE UNCHANGED <<exists, versions, active, req>>
  BY <1>1, <1>5 DEF Order, NewestIsActive, InFlight, At
<1>6. ASSUME NEW q \in Requests, Insert(q) PROVE Order'
  <2> DEFINE n == Len(versions) + 1
  <2>1. /\ req[q].step = "insert" /\ InFlight(q) /\ exists /\ exists' /\ active' = active
        /\ met' = met
    BY <1>6 DEF Insert, At, InFlight, history
  <2>2. /\ Len(versions) \in Nat /\ DOMAIN versions = 1 .. Len(versions)
        /\ Len(versions') = n /\ DOMAIN versions' = 1 .. n
        /\ \A i \in DOMAIN versions : versions'[i] = versions[i]
        /\ versions'[n].by = q
    BY <1>6, Appended
  <2>3. /\ req'[q].step = "activate" /\ req'[q].version = n
        /\ \A p \in Requests : p # q => req'[p] = req[p]
    BY <1>2, <1>6, <2>2 DEF Insert, Set, Locals
  <2>4. \A i \in DOMAIN versions : versions[i].by # q
    BY <2>1 DEF Order, At
  <2>5. ASSUME NEW i \in DOMAIN versions'
        PROVE  (/\ ~At(versions[i].by, "off")
                /\ InFlight(versions[i].by)
                     => At(versions[i].by, "activate") /\ req[versions[i].by].version = i)'
    <3>1. CASE i = n
      BY <2>2, <2>3, <3>1 DEF At
    <3>2. CASE i \in DOMAIN versions
      <4>1. versions'[i] = versions[i] /\ req'[versions[i].by] = req[versions[i].by]
        BY <1>3, <2>2, <2>3, <2>4, <3>2
      <4> QED BY <3>2, <4>1 DEF Order, At, InFlight
    <3> QED BY <2>2, <3>1, <3>2
  <2>6. ASSUME NEW p \in Requests, req'[p].step = "activate",
               NEW i \in DOMAIN versions', i > req'[p].version
        PROVE  versions'[i].by \in met'
    <3>1. p # q /\ req[p].step = "activate" /\ req[p].version = req'[p].version
      BY <2>2, <2>3, <2>6
    <3>2. CASE i = n
      BY <2>1, <2>2, <3>1, <3>2 DEF Overlaps, InFlight
    <3>3. CASE i \in DOMAIN versions
      BY <2>1, <2>2, <2>6, <3>1, <3>3 DEF Order, At
    <3> QED BY <2>2, <3>2, <3>3
  <2>7. NewestIsActive'
    <3>1. ASSUME NEW i \in active + 1 .. n
          PROVE  (InFlight(versions[i].by) \/ At(versions[i].by, "failed")
                  \/ versions[i].by \in met)'
      <4>1. CASE i = n
        BY <2>2, <2>3, <4>1 DEF InFlight
      <4>2. CASE i \in DOMAIN versions
        <5>1. i \in active + 1 .. Len(versions)
          BY <1>2, <2>2, <3>1, <4>2
        <5>2. versions[i].by # q /\ versions[i].by \in Requests
          BY <1>3, <2>4, <4>2
        <5>3. versions'[i] = versions[i] /\ req'[versions[i].by] = req[versions[i].by]
          BY <2>2, <2>3, <4>2, <5>2
        <5> QED BY <2>1, <5>1, <5>3 DEF Order, NewestIsActive, InFlight, At
      <4> QED BY <1>2, <2>2, <3>1, <4>1, <4>2
    <3> QED BY <2>1, <2>2, <3>1 DEF NewestIsActive
  <2> QED BY <2>1, <2>5, <2>6, <2>7 DEF Order, At
<1>7. ASSUME NEW q \in Requests, Handle(q), ~Insert(q) PROVE Order'
  <2>1. versions' = versions /\ exists' = exists
    BY <1>7 DEF Handle, Receive, ReceivePublish, ReceiveRollback, ReceiveStart, Arrive, Validate,
       ReadDraft, ReadNumber, Activate, ReadActive, ReadContent, Restore, Resolve, LoadVersion,
       SaveRun, RequestFails, row
  <2>2. \A p \in Requests : p # q => req'[p] = req[p]
    BY <1>7, OthersStay
  <2>3. /\ req'[q].step \notin {"off", "activate"}
        /\ Receive(q) \/ Activate(q) \/ RequestFails(q) \/ req[q].step \notin {"off", "activate"}
        /\ Receive(q) => req[q].step = "off"
        /\ Activate(q) => req[q].step = "activate" /\ req'[q].step = "done"
        /\ RequestFails(q) => req'[q].step = "failed"
        /\ req[q].step \notin {"done", "failed"}
    <3>1. /\ Receive(q) => req[q].step = "off"
          /\ Activate(q) => req[q].step = "activate"
          /\ RequestFails(q) => req[q].step \notin {"off", "done", "failed"}
          /\ \/ Validate(q) \/ ReadDraft(q) \/ ReadNumber(q) \/ ReadActive(q) \/ ReadContent(q)
             \/ Restore(q) \/ Resolve(q) \/ LoadVersion(q) \/ SaveRun(q)
             => req[q].step \notin {"off", "activate", "done", "failed"}
      BY DEF Receive, ReceivePublish, ReceiveRollback, ReceiveStart, Arrive, At, Validate,
         ReadDraft, ReadNumber, Activate, ReadActive, ReadContent, Restore, Resolve, LoadVersion,
         SaveRun, RequestFails, InFlight
    <3>2. \/ Receive(q) \/ Activate(q) \/ RequestFails(q)
          \/ Validate(q) \/ ReadDraft(q) \/ ReadNumber(q) \/ ReadActive(q) \/ ReadContent(q)
          \/ Restore(q) \/ Resolve(q) \/ LoadVersion(q) \/ SaveRun(q)
      BY <1>7 DEF Handle
    <3>3. (Activate(q) => req'[q].step = "done") /\ (RequestFails(q) => req'[q].step = "failed")
      BY <1>2, <3>1 DEF Activate, RequestFails, Leave, Set, Idle
    <3> QED BY <1>7, <3>1, <3>2, <3>3, WhereFrom
  <2>4. ASSUME NEW i \in DOMAIN versions, versions[i].by = q
        PROVE  /\ req[q].step = "activate" /\ req[q].version = i
               /\ Activate(q) \/ RequestFails(q)
    BY <2>3, <2>4 DEF Order, At, InFlight
  <2>5. ASSUME NEW i \in DOMAIN versions
        PROVE  (/\ ~At(versions[i].by, "off")
                /\ InFlight(versions[i].by)
                     => At(versions[i].by, "activate") /\ req[versions[i].by].version = i)'
    <3>1. CASE versions[i].by = q
      BY <2>1, <2>3, <2>4, <3>1 DEF At, InFlight
    <3>2. CASE versions[i].by # q
      <4>1. req'[versions[i].by] = req[versions[i].by]
        BY <1>3, <2>2, <3>2
      <4> QED BY <2>1, <4>1 DEF Order, At, InFlight
    <3> QED BY <3>1, <3>2
  <2>6. ASSUME NEW p \in Requests, req'[p].step = "activate",
               NEW i \in DOMAIN versions, i > req'[p].version
        PROVE  versions[i].by \in met'
    BY <1>1, <2>2, <2>3, <2>6 DEF Order, At
  <2>7. NewestIsActive'
    <3>1. CASE Activate(q) /\ exists
      <4>1. active' = req[q].version /\ req[q].step = "activate"
        BY <2>3, <3>1 DEF Activate
      <4>2. req[q].version \in DOMAIN versions
        BY <3>1, <4>1 DEF IInv, Refers
      <4>3. \A i \in req[q].version + 1 .. Len(versions) :
              i \in DOMAIN versions /\ i > req[q].version
        BY <1>2, <4>2
      <4> QED BY <1>1, <2>1, <4>1, <4>3 DEF Order, At, NewestIsActive
    <3>2. CASE ~exists
      BY <2>1, <3>2, NextIInv DEF Order, NewestIsActive, IInv, TypeOK
    <3>3. CASE exists /\ ~Activate(q)
      <4>1. active' = active
        BY <1>7, <3>3 DEF Handle, Receive, ReceivePublish, ReceiveRollback, ReceiveStart, Arrive,
           Validate, ReadDraft, ReadNumber, ReadActive, ReadContent, Restore, Resolve,
           LoadVersion, SaveRun, RequestFails, row
      <4>2. ASSUME NEW i \in active + 1 .. Len(versions)
            PROVE  (InFlight(versions[i].by) \/ At(versions[i].by, "failed")
                    \/ versions[i].by \in met)'
        <5>1. i \in DOMAIN versions
          BY <1>2
        <5>2. CASE versions[i].by = q
          BY <2>1, <2>3, <2>4, <3>3, <5>1, <5>2 DEF At
        <5>3. CASE versions[i].by # q
          <6>1. req'[versions[i].by] = req[versions[i].by]
            BY <1>3, <2>2, <5>1, <5>3
          <6> QED BY <1>1, <2>1, <6>1 DEF Order, NewestIsActive, InFlight, At
        <5> QED BY <5>2, <5>3
      <4> QED BY <2>1, <4>1, <4>2 DEF NewestIsActive
    <3> QED BY <3>1, <3>2, <3>3
  <2> QED BY <2>1, <2>5, <2>6, <2>7 DEF Order, At
<1> QED BY <1>4, <1>5, <1>6, <1>7 DEF Next, vars, row, EditDraft, RegisterCapability, DeleteWorkflow

LEMMA PinnedStep ==
  ASSUME IInv, Pinned, [Next]_vars
  PROVE  Pinned'
<1>1. window \in [Requests -> SUBSET Nat] /\ runs \in [Requests -> 0 .. Len(versions)]
      /\ req \in [Requests -> Locals]
  BY DEF IInv, TypeOK
<1>2. CASE UNCHANGED <<exists, active, runs, req, window>>
  BY <1>2 DEF Pinned, PinnedToActive, InFlight, At
<1>3. CASE DeleteWorkflow
  BY <1>3 DEF DeleteWorkflow, Pinned, PinnedToActive, InFlight, At, history
<1>4. ASSUME NEW q \in Requests, Handle(q) PROVE Pinned'
  <2>1. exists' = exists /\ \A p \in Requests : p # q => req'[p] = req[p]
    BY <1>4, OthersStay
  <2>2. req[q].step \notin {"done", "failed"}
    BY <1>4 DEF Handle, Receive, ReceivePublish, ReceiveRollback, ReceiveStart, Arrive, At,
       Validate, ReadDraft, ReadNumber, Insert, Activate, ReadActive, ReadContent, Restore,
       Resolve, LoadVersion, SaveRun, RequestFails, InFlight
  <2>3. Receive(q) \/ InFlight(q)
    BY <1>4 DEF Handle, At, InFlight, Validate, ReadDraft, ReadNumber, Insert, Activate,
       ReadActive, ReadContent, Restore, Resolve, LoadVersion, SaveRun, RequestFails
  <2>4. runs[q] = 0
    BY <1>1, <2>2 DEF Pinned, At
  <2>5. /\ \A p \in Requests : p # q \/ ~Receive(q) => window[p] \subseteq window'[p]
        /\ Receive(q) => window'[q] = {active}
    <3>1. CASE Receive(q)
      BY <1>1, <3>1 DEF Receive, ReceivePublish, ReceiveRollback, ReceiveStart, Arrive
    <3>2. CASE Activate(q)
      BY <1>1, <3>2 DEF Activate, Receive, ReceivePublish, ReceiveRollback, ReceiveStart, Arrive,
         At
    <3>3. CASE ~Receive(q) /\ ~Activate(q)
      BY <1>4, <3>3 DEF Handle, Validate, ReadDraft, ReadNumber, Insert, ReadActive, ReadContent,
         Restore, Resolve, LoadVersion, SaveRun, RequestFails, history
    <3> QED BY <3>1, <3>2, <3>3
  <2>6. ASSUME NEW p \in Requests, exists, InFlight(p)' PROVE active' \in window'[p]
    <3>1. CASE Activate(q)
      <4>1. InFlight(p)
        BY <1>4, <2>1, <2>3, <2>6, <3>1 DEF InFlight, Activate, At
      <4> QED BY <3>1, <4>1 DEF Activate
    <3>2. CASE ~Activate(q)
      <4>1. active' = active
        BY <1>4, <3>2 DEF Handle, Receive, ReceivePublish, ReceiveRollback, ReceiveStart, Arrive,
           Validate, ReadDraft, ReadNumber, Insert, ReadActive, ReadContent, Restore, Resolve,
           LoadVersion, SaveRun, RequestFails, row
      <4>2. p # q => InFlight(p)
        BY <2>1, <2>6 DEF InFlight
      <4> QED BY <2>3, <2>5, <2>6, <4>1, <4>2 DEF Pinned
    <3> QED BY <3>1, <3>2
  <2>7. ASSUME NEW p \in Requests, exists, req'[p].step \in {"load", "run"}, ~req'[p].named
        PROVE  req'[p].version \in window'[p]
    <3>1. CASE p # q
      BY <2>1, <2>5, <2>7, <3>1 DEF Pinned
    <3>2. CASE p = q /\ Resolve(q) /\ (req'[q].named \/ req'[q].version = active)
      <4>1. InFlight(q) /\ ~Receive(q)
        BY <3>2 DEF Resolve, Receive, ReceivePublish, ReceiveRollback, ReceiveStart, Arrive, At,
           InFlight
      <4> QED BY <2>5, <2>7, <3>2, <4>1 DEF Pinned
    <3>3. CASE /\ p = q /\ LoadVersion(q) /\ req'[q].named = req[q].named
               /\ req'[q].version = req[q].version
      <4>1. req[q].step = "load" /\ ~Receive(q)
        BY <3>3 DEF LoadVersion, Receive, ReceivePublish, ReceiveRollback, ReceiveStart, Arrive,
           At
      <4> QED BY <2>5, <2>7, <3>3, <4>1 DEF Pinned
    <3> QED BY <1>4, <2>7, <3>1, <3>2, <3>3, WhereFrom
  <2>8. ASSUME NEW p \in Requests, runs'[p] # 0
        PROVE  /\ req'[p].step = "done"
               /\ ~req'[p].named => runs'[p] \in window'[p]
    <3>1. CASE SaveRun(q)
      <4>1. /\ req[q].step = "run" /\ exists /\ ~Receive(q)
            /\ runs' = [runs EXCEPT ![q] = req[q].version]
        BY <3>1 DEF SaveRun, Receive, ReceivePublish, ReceiveRollback, ReceiveStart, Arrive, At
      <4>2. req'[q].step = "done" /\ req'[q].named = req[q].named
        BY <1>1, <3>1 DEF SaveRun, Leave, Set, Idle
      <4>3. CASE p = q
        BY <1>1, <2>5, <4>1, <4>2, <4>3 DEF Pinned
      <4>4. CASE p # q
        BY <1>1, <2>1, <2>5, <2>8, <4>1, <4>4 DEF Pinned, PinnedToActive, At
      <4> QED BY <4>3, <4>4
    <3>2. CASE ~SaveRun(q)
      <4>1. runs' = runs
        BY <1>4, <3>2 DEF Handle, Receive, ReceivePublish, ReceiveRollback, ReceiveStart, Arrive,
           Validate, ReadDraft, ReadNumber, Insert, Activate, ReadActive, ReadContent, Restore,
           Resolve, LoadVersion, RequestFails
      <4> QED BY <2>1, <2>4, <2>5, <2>8, <4>1 DEF Pinned, PinnedToActive, At
    <3> QED BY <3>1, <3>2
  <2> QED BY <2>1, <2>6, <2>7, <2>8 DEF Pinned, PinnedToActive, At
<1> QED BY <1>2, <1>3, <1>4 DEF Next, vars, row, history, EditDraft, RegisterCapability

\* A version that was published is valid and its capabilities are registered, for good,
\* unless the draft changed between publish_workflow's validation and the store's second
\* look at the draft.
THEOREM ValidWhenPublished == Spec => []PublishedIsValid
<1>1. Init => Validity
  BY DEF Init, Validity, PublishedIsValid, At, Idle
<1>2. IInv /\ Validity /\ [Next]_vars => Validity'
  BY ValidityStep
<1>3. Validity => PublishedIsValid
  BY DEF Validity
<1> QED BY <1>1, <1>2, <1>3, Invariance, PTL DEF Spec

\* The active version is the newest, but for those whose publish is at work, has failed
\* after its insert, or has met another request: activating is last-writer-wins, and only
\* requests that overlap can set the pointer back.
THEOREM ActiveIsNewest == Spec => []NewestIsActive
<1>1. Init => Overlaps /\ Order
  BY DEF Init, Overlaps, Order, NewestIsActive, InFlight, At, Idle
<1>2. IInv /\ Overlaps /\ Order /\ [Next]_vars => Overlaps' /\ Order'
  BY OverlapsStep, OrderStep
<1>3. Order => NewestIsActive
  BY DEF Order
<1> QED BY <1>1, <1>2, <1>3, Invariance, PTL DEF Spec

\* A run whose request named no version is pinned to one that was active at some time
\* since the request came in, although start_run resolves, loads and saves in three steps.
THEOREM PinnedWhileActive == Spec => []PinnedToActive
<1>1. Init => Pinned
  BY DEF Init, Pinned, PinnedToActive, InFlight, At, Idle
<1>2. IInv /\ Pinned /\ [Next]_vars => Pinned'
  BY PinnedStep
<1>3. Pinned => PinnedToActive
  BY DEF Pinned
<1> QED BY <1>1, <1>2, <1>3, Invariance, PTL DEF Spec

-----------------------------------------------------------------------------
(* The refinement, over the database.  Bodies are then written once.       *)

\* The log that the versions show.
Shown == [i \in DOMAIN versions |-> bodies[versions[i].body]]
Past  == {bodies[i] : i \in DOMAIN bodies}

\* What the abstract log cannot see.
LEMMA SameShown ==
  ASSUME UNCHANGED <<exists, bodies, draft, versions, active>>
  PROVE  UNCHANGED Log!logVars
  BY DEF Log!logVars

LEMMA InsertPublishes ==
  ASSUME IInv, NEW q \in Requests, Insert(q)
  PROVE  Log!Publish
<1> DEFINE v == [number |-> req[q].number, body |-> req[q].body, by |-> q]
<1>0. /\ versions \in Seq(Versions) /\ Len(versions) \in Nat
      /\ DOMAIN versions = 1 .. Len(versions)
  BY DEF IInv, TypeOK
<1>1. req[q].body \in DOMAIN bodies
  BY DEF Insert, At, IInv, Refers
<1>2. versions' = Append(versions, v) /\ UNCHANGED <<exists, bodies, draft, active>>
  BY DEF Insert
<1>3. v.body = req[q].body
  OBVIOUS
<1> HIDE DEF v
<1>4. /\ DOMAIN versions' = 1 .. Len(versions) + 1
      /\ \A i \in 1 .. Len(versions) : versions'[i] = versions[i]
      /\ versions'[Len(versions) + 1] = v
  BY <1>0, <1>2
<1>5. Shown' = [i \in DOMAIN versions' |-> bodies[versions'[i].body]]
  BY <1>2 DEF Shown
<1>6. /\ Len(Shown) = Len(versions) /\ DOMAIN Shown = 1 .. Len(versions)
  BY <1>0 DEF Shown
<1>7. Append(Shown, bodies[v.body])
        = [i \in 1 .. Len(versions) + 1 |->
             IF i = Len(versions) + 1 THEN bodies[v.body] ELSE Shown[i]]
  <2>1. Append(Shown, bodies[v.body])
          = [i \in 1 .. Len(Shown) + 1 |->
               IF i = Len(Shown) + 1 THEN bodies[v.body] ELSE Shown[i]]
    OBVIOUS
  <2> QED BY <1>6, <2>1
<1>8. Shown' = Append(Shown, bodies[v.body])
  <2>1. \A i \in 1 .. Len(versions) + 1 :
          bodies[versions'[i].body]
            = (IF i = Len(versions) + 1 THEN bodies[v.body] ELSE Shown[i])
    BY <1>0, <1>4 DEF Shown
  <2> QED BY <1>4, <1>5, <1>7, <2>1
<1>9. bodies[v.body] \in Past
  BY <1>1, <1>3 DEF Past
<1> QED BY <1>2, <1>8, <1>9 DEF Log!Publish, Shown, Past

\* The content that is restored is a version's.
LEMMA RestoreRestores ==
  ASSUME IInv, NEW q \in Requests, Restore(q)
  PROVE  [Log!LogNext]_(Log!logVars)
<1>1. UNCHANGED <<exists, bodies, versions, active>>
  BY DEF Restore
<1>2. CASE exists
  <2>1. PICK v \in DOMAIN versions : req[q].body = versions[v].body
    BY <1>2 DEF Restore, At, IInv, Refers
  <2>2. draft' = versions[v].body
    BY <1>2, <2>1 DEF Restore
  <2>3. v \in DOMAIN Shown /\ bodies'[draft'] = Shown[v]
    BY <1>1, <2>1, <2>2 DEF Shown
  <2>4. UNCHANGED Shown /\ UNCHANGED Past
    BY <1>1 DEF Shown, Past
  <2> QED BY <1>1, <1>2, <2>3, <2>4 DEF Log!LogNext, Log!Restore, Shown, Past
<1>3. CASE ~exists
  BY <1>1, <1>3, SameShown DEF Restore
<1> QED BY <1>2, <1>3

LEMMA EditEdits == ASSUME IInv, EditDraft PROVE Log!Edit
<1>1. PICK g \in Graphs : bodies' = Append(bodies, [graph |-> g, filled |-> FALSE])
  BY DEF EditDraft, UpdateDraft
<1> DEFINE b == [graph |-> g, filled |-> FALSE]
<1>2. bodies \in Seq(Bodies) /\ b \in Bodies
  BY DEF IInv, TypeOK, Bodies
<1> HIDE DEF b
<1>3. /\ DOMAIN bodies = 1 .. Len(bodies) /\ Len(bodies) \in Nat
      /\ DOMAIN bodies' = 1 .. Len(bodies) + 1 /\ Len(bodies') = Len(bodies) + 1
      /\ \A i \in 1 .. Len(bodies) : bodies'[i] = bodies[i]
      /\ bodies'[Len(bodies) + 1] = b
  BY <1>1, <1>2 DEF b
<1>4. draft' = Len(bodies) + 1 /\ UNCHANGED <<exists, versions, active>>
  BY <1>3 DEF EditDraft, UpdateDraft
<1>5. bodies'[draft'] = b
  BY <1>3, <1>4
<1>6. Past' = Past \cup {b}
  BY <1>3 DEF Past
<1>7. UNCHANGED Shown
  <2>1. \A i \in DOMAIN versions : bodies'[versions[i].body] = bodies[versions[i].body]
    BY <1>3 DEF IInv, TypeOK
  <2> QED BY <1>4, <2>1 DEF Shown
<1> QED BY <1>2, <1>4, <1>5, <1>6, <1>7 DEF Log!Edit, Shown, Past

\* A step of the store over the database is a step of the log or cannot be seen in it.
LEMMA StepRefines ==
  ASSUME InMemory = FALSE, IInv, [Next]_vars
  PROVE  [Log!LogNext]_(Log!logVars)
<1>1. CASE UNCHANGED vars
  BY <1>1, SameShown DEF vars, row
<1>2. ASSUME NEW q \in Requests, Handle(q) PROVE [Log!LogNext]_(Log!logVars)
  <2>1. CASE \/ Receive(q) \/ Validate(q) \/ ReadDraft(q) \/ ReadNumber(q) \/ ReadActive(q)
             \/ ReadContent(q) \/ Resolve(q) \/ SaveRun(q) \/ RequestFails(q)
    BY <2>1, SameShown DEF Receive, ReceivePublish, ReceiveRollback, ReceiveStart, Arrive,
         Validate, ReadDraft, ReadNumber, ReadActive, ReadContent, Resolve, SaveRun,
         RequestFails, row
  <2>2. CASE LoadVersion(q)
    BY <2>2, SameShown DEF LoadVersion, Refuse, Fill
  <2>3. CASE Insert(q)
    BY <2>3, InsertPublishes DEF Insert, Log!LogNext
  <2>4. CASE Activate(q)
    <3>1. CASE exists
      <4>1. req[q].version \in DOMAIN versions
        BY <2>4, <3>1 DEF Activate, At, IInv, Refers
      <4>2. active' \in DOMAIN Shown /\ UNCHANGED <<exists, bodies, draft, versions>>
        BY <2>4, <3>1, <4>1 DEF Activate, Shown
      <4>3. UNCHANGED Shown /\ UNCHANGED Past
        BY <4>2 DEF Shown, Past
      <4> QED BY <3>1, <4>2, <4>3 DEF Log!LogNext, Log!Activate, Shown, Past
    <3>2. CASE ~exists
      BY <2>4, <3>2, SameShown DEF Activate
    <3> QED BY <3>1, <3>2
  <2>5. CASE Restore(q)
    BY <2>5, RestoreRestores
  <2> QED BY <1>2, <2>1, <2>2, <2>3, <2>4, <2>5 DEF Handle
<1>3. CASE EditDraft
  BY <1>3, EditEdits DEF EditDraft, Log!LogNext
<1>4. CASE RegisterCapability
  BY <1>4, SameShown DEF RegisterCapability, row
<1>5. CASE DeleteWorkflow
  <2>1. /\ exists /\ exists' = FALSE /\ versions' = <<>> /\ active' = 0
        /\ UNCHANGED <<bodies, draft>>
    BY <1>5 DEF DeleteWorkflow
  <2>2. Shown' = <<>> /\ UNCHANGED Past
    BY <2>1 DEF Shown, Past
  <2> QED BY <2>1, <2>2 DEF Log!LogNext, Log!Delete, Shown, Past
<1> QED BY <1>1, <1>2, <1>3, <1>4, <1>5 DEF Next

LEMMA InitRefines == Init => Log!LogInit
<1> SUFFICES ASSUME Init PROVE Log!LogInit
  OBVIOUS
<1>1. bodies = <<[graph |-> FirstGraph, filled |-> FALSE]>> /\ draft = 1 /\ versions = <<>>
  BY DEF Init
<1>2. Past = {bodies[draft]} /\ Shown = <<>> /\ bodies[draft] \in Bodies
  <2>1. DOMAIN bodies = {1} /\ bodies[1] = [graph |-> FirstGraph, filled |-> FALSE]
    BY <1>1
  <2>2. DOMAIN versions = {}
    BY <1>1
  <2>3. Shown = <<>>
    BY <2>2 DEF Shown
  <2>4. bodies[draft] \in Bodies
    BY <1>1, <2>1, VersionsAssumption DEF Bodies
  <2> QED BY <1>1, <2>1, <2>3, <2>4 DEF Past
<1> QED BY <1>2 DEF Init, Log!LogInit, Past, Shown

\* Over the database, published versions never change and never go before the workflow
\* does, the pointer points at one of them, and the draft changes only by edits or to the
\* content of a version, for any number of requests that interleave and fail.
THEOREM Refinement ==
  ASSUME InMemory = FALSE
  PROVE  Spec => ImplementsVersionLog
<1>1. IInv /\ [Next]_vars => [Log!LogNext]_(Log!logVars)
  BY StepRefines
<1> QED BY <1>1, InitRefines, Invariance, PTL DEF Spec, ImplementsVersionLog, Log!LogSpec
=============================================================================
