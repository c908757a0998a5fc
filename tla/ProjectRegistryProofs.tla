----------------------- MODULE ProjectRegistryProofs ------------------------
(***************************************************************************)
(* Theorems about ProjectRegistry, for any number of requests, of          *)
(* orchestrators and of keys, over either store: type correctness, that    *)
(* nothing outlives what it refers to, that a default is configured, that  *)
(* nothing accepted is lost, and that the deletion of a project orphans    *)
(* only workflows that are created while it runs.                          *)
(***************************************************************************)
EXTENDS ProjectRegistry, TLAPS

\* What a request has read is there when it is used, and the memory stores need no
\* statements.
Placed(q) ==
  /\ pc[q] = "handle" => backend = "memory"
  /\ pc[q] \in {"write", "choose"} => copy[q] # Nothing
  /\ pc[q] = "choose" => Kind(q) = "route"
  /\ pc[q] = "default" => Kind(q) = "configure"

\* Who was over when a request came in is over still.  A deletion that has seen no
\* workflow sees at most those that newer requests create.
Clear(q) ==
  /\ after[q] \subseteq Over
  /\ pc[q] = "delete" /\ Kind(q) = "delete" => db.workflows \cap (after[q] \cup {Seed}) = {}

IInv == TypeOK /\ IndexIsBacked /\ \A q \in Requests : Placed(q) /\ Clear(q)

-----------------------------------------------------------------------------
(* What requests ask for.                                                  *)

LEMMA AskedFor ==
  ASSUME NEW a \in Asking
  PROVE  /\ a # Nothing
         /\ a.id \in Configs \cup {Nothing}
         /\ a.workflow \in Workflows \cup {Nothing}
         /\ a.keys \in SUBSET Keys
         /\ a.asDefault \in BOOLEAN
         /\ a.kind = "configure" => a.id \in Configs
         /\ a.kind = "index" => a.workflow \in Workflows
<1>1. a # Nothing
  BY RegistryAssumption
<1> USE <1>1 DEF Asked
<1>2. CASE a \in CreateProject \cup Message
  BY <1>2 DEF CreateProject, Message
<1>3. CASE a \in UpdateProject
  BY <1>3 DEF UpdateProject
<1>4. CASE a \in UpsertOrchestrator
  BY <1>4 DEF UpsertOrchestrator
<1>5. CASE a \in UpsertDefinition
  BY <1>5 DEF UpsertDefinition
<1>6. CASE a = Asked("new")
  BY <1>6
<1>7. CASE a = Asked("delete")
  BY <1>7
<1>8. CASE a \in DeleteWorkflow
  BY <1>8 DEF DeleteWorkflow
<1>9. CASE a \in SetContext \cup UnsetContext
  BY <1>9 DEF SetContext, UnsetContext
<1> QED BY <1>2, <1>3, <1>4, <1>5, <1>6, <1>7, <1>8, <1>9 DEF Asking, CreateWorkflow

LEMMA InitIInv == Init => IInv
  BY RegistryAssumption
  DEF Init, IInv, TypeOK, IndexIsBacked, Placed, Clear, Over, At, Databases, Projects,
      Values, Blank, Workflows, Steps, Outcomes

-----------------------------------------------------------------------------
(* The steps.                                                              *)

\* What every step of a request but the first one is: the request goes on, what the stores
\* hold is sound, and the only new workflow is its own.
LEMMA GoesOn ==
  ASSUME IInv, NEW q \in Requests, InFlight(q), NEW step \in Steps \ {"off", "handle"},
         Goto(q, step), UNCHANGED <<backend, ask, after>>,
         copy' \in [Requests -> Projects \cup {Nothing}],
         found' \in [Requests -> Configs \cup {Nothing}],
         todo' \in [Requests -> SUBSET Keys],
         outcome' \in [Requests -> Outcomes],
         \A r \in Requests \ {q} : copy'[r] = copy[r],
         db' \in Databases, IndexIsBacked',
         db'.workflows \subseteq db.workflows \cup {q},
         step \in {"write", "choose"} => copy'[q] # Nothing,
         step = "choose" => Kind(q) = "route",
         step = "default" => Kind(q) = "configure",
         step = "delete" /\ Kind(q) = "delete"
           => db'.workflows \cap (after[q] \cup {Seed}) = {}
  PROVE  IInv'
<1> USE DEF Goto
<1>1. TypeOK'
  BY DEF IInv, TypeOK, InFlight, Steps
<1>2. \A r \in Requests : Placed(r)'
  BY DEF IInv, TypeOK, Placed, Kind
<1>3. ASSUME NEW r \in Requests PROVE Clear(r)'
  <2>1. after'[r] \subseteq Over'
    BY DEF IInv, TypeOK, Clear, Over, At, InFlight
  <2>2. q \notin after[r] /\ q # Seed
    BY RegistryAssumption DEF IInv, TypeOK, Clear, Over, At, InFlight
  <2>3. pc'[r] = "delete" /\ Kind(r)' = "delete"
          => db'.workflows \cap (after'[r] \cup {Seed}) = {}
    <3>1. CASE r = q
      BY <3>1 DEF IInv, TypeOK, Kind
    <3>2. CASE r # q
      BY <3>2, <2>2 DEF IInv, TypeOK, Clear, Kind
    <3> QED BY <3>1, <3>2
  <2> QED BY <2>1, <2>3 DEF Clear
<1> QED BY <1>1, <1>2, <1>3 DEF IInv

\* A request comes in: whoever is over is over, and it has not looked for workflows.
LEMMA ReceiveStep ==
  ASSUME IInv, NEW q \in Requests, Receive(q) PROVE IInv'
<1>1. PICK asked \in Asking :
        /\ ask' = [ask EXCEPT ![q] = asked]
        /\ todo' = [todo EXCEPT ![q] = IF asked.kind \in {"set", "unset"} THEN asked.keys ELSE {}]
        /\ Goto(q, IF backend = "memory" THEN "handle" ELSE FirstStep(asked.kind))
  BY DEF Receive
<1>2. /\ pc[q] = "off" /\ after' = [after EXCEPT ![q] = Over]
      /\ UNCHANGED <<backend, db, copy, found, outcome>>
  BY DEF Receive, At
<1>3. pc'[q] \in {"handle", "insert", "delete", "each", "read"}
  BY <1>1 DEF Goto, FirstStep, IInv, TypeOK
<1>4. /\ pc'[q] = "handle" => backend = "memory"
      /\ pc'[q] = "delete" => asked.kind # "delete"
  BY <1>1 DEF Goto, FirstStep, IInv, TypeOK
<1>5. /\ \A r \in Requests \ {q} : pc'[r] = pc[r] /\ ask'[r] = ask[r]
      /\ pc' \in [Requests -> Steps] /\ ask'[q] = asked
  BY <1>1, <1>3 DEF Goto, IInv, TypeOK, Steps
<1>6. Over' = Over
  BY <1>2, <1>3, <1>5 DEF Over, At
<1>7. TypeOK'
  <2>1. asked # Nothing /\ asked.keys \in SUBSET Keys
    BY AskedFor
  <2>2. ask' \in [Requests -> Asking \cup {Nothing}] /\ todo' \in [Requests -> SUBSET Keys]
    BY <1>1, <2>1 DEF IInv, TypeOK
  <2>3. after' \in [Requests -> SUBSET Requests]
    BY <1>2 DEF IInv, TypeOK, Over
  <2>4. \A r \in Requests : (pc'[r] = "off") = (ask'[r] = Nothing)
    BY <1>3, <1>5, <2>1 DEF IInv, TypeOK
  <2> QED BY <1>2, <1>5, <2>2, <2>3, <2>4 DEF IInv, TypeOK
<1>8. IndexIsBacked'
  BY <1>2 DEF IInv, IndexIsBacked
<1>9. ASSUME NEW r \in Requests PROVE Placed(r)' /\ Clear(r)'
  <2>1. CASE r = q
    BY <2>1, <1>2, <1>3, <1>4, <1>5, <1>6 DEF Placed, Clear, Kind, IInv, TypeOK
  <2>2. CASE r # q
    BY <2>2, <1>2, <1>5, <1>6 DEF Placed, Clear, Kind, IInv, TypeOK
  <2> QED BY <2>1, <2>2
<1> QED BY <1>7, <1>8, <1>9 DEF IInv

\* What a request in flight asks for.
LEMMA InHand ==
  ASSUME IInv, NEW q \in Requests, pc[q] # "off"
  PROVE  /\ ask[q].id \in Configs \cup {Nothing}
         /\ ask[q].workflow \in Workflows \cup {Nothing}
         /\ ask[q].keys \in SUBSET Keys
         /\ ask[q].asDefault \in BOOLEAN
         /\ ask[q].kind = "configure" => ask[q].id \in Configs
         /\ ask[q].kind = "index" => ask[q].workflow \in Workflows
<1>1. ask[q] \in Asking
  BY DEF IInv, TypeOK
<1> QED BY <1>1, AskedFor

LEMMA MergedType ==
  ASSUME NEW q \in Requests, NEW settings \in [Keys -> Values]
  PROVE  Merged(settings, q) \in [Keys -> Values]
  BY DEF Merged, Values

\* What the memory stores make of a request is sound; they never wait.
LEMMA HandleStep ==
  ASSUME IInv, NEW q \in Requests, Handle(q) PROVE IInv'
<1> USE DEF Kind, Done, Refused, End
<1>1. pc[q] = "handle" /\ backend = "memory"
  BY DEF Handle, At, IInv, Placed
<1>2. db \in Databases /\ IndexIsBacked
  BY DEF IInv, TypeOK
<1>3. /\ Goto(q, "done") /\ outcome' \in [Requests -> Outcomes]
      /\ UNCHANGED <<backend, ask, found, after>>
  BY DEF Handle, MemoryCreate, MemoryUpdate, MemoryDelete, MemoryConfigure, MemoryIndex,
         MemoryRoute, MemoryNewWorkflow, MemoryDropWorkflow, MemorySet, MemoryUnset,
         IInv, TypeOK, Outcomes
<1>4. /\ copy' \in [Requests -> Projects \cup {Nothing}]
      /\ todo' \in [Requests -> SUBSET Keys]
      /\ \A r \in Requests \ {q} : copy'[r] = copy[r]
  BY <1>2 DEF Handle, IInv, TypeOK, Databases
<1> DEFINE Sound == /\ db' \in Databases
                    /\ db'.project = Nothing => db'.configs = {} /\ db'.index = {}
                    /\ db'.workflows \subseteq db.workflows \cup {q}
<1>5. db' = db => Sound
  BY <1>2 DEF IndexIsBacked
<1>6. Sound
  <2>1. CASE MemoryCreate(q)
    BY <1>1, <1>2, <1>5, <2>1, InHand, RegistryAssumption
    DEF MemoryCreate, NewProject, Blank, Databases, Projects, Values
  <2>2. CASE MemoryUpdate(q)
    BY <1>2, <1>5, <2>2, MergedType, RegistryAssumption DEF MemoryUpdate, Databases, Projects
  <2>3. CASE MemoryDelete(q)
    <3>1. Blank \in [Keys -> Values]
      BY DEF Blank, Values
    <3>2. db' = db \/ db' = [db EXCEPT !.project = Nothing, !.configs = {}, !.index = {},
                                     !.context = Blank]
      BY <2>3 DEF MemoryDelete
    <3> QED BY <1>2, <1>5, <3>1, <3>2 DEF Databases
  <2>4. CASE MemoryConfigure(q)
    <3> DEFINE new == [db EXCEPT !.configs = @ \cup {ask[q].id}]
               new2 == [new EXCEPT !.project.default = ask[q].id, !.project.by = q]
    <3>1. db' = db \/ (db.project # Nothing /\ db' \in {new, new2})
      BY <2>4 DEF MemoryConfigure
    <3>2. ask[q].id \in Configs
      BY <1>1, <2>4, InHand DEF MemoryConfigure
    <3>3. CASE db.project # Nothing
      <4>1. new \in Databases /\ new.project = db.project /\ new.workflows = db.workflows
        BY <1>2, <3>2 DEF Databases
      <4>2. db.project \in Projects
        BY <1>2, <3>3 DEF Databases
      <4>3. new2 \in Databases /\ new2.project \in Projects /\ new2.workflows = db.workflows
        <5> HIDE DEF new
        <5> QED BY <3>2, <4>1, <4>2 DEF Databases, Projects
      <4> QED BY <1>5, <3>1, <3>3, <4>1, <4>3, RegistryAssumption
    <3> QED BY <1>5, <3>1, <3>3
  <2>5. CASE MemoryIndex(q)
    BY <1>1, <1>2, <1>5, <2>5, InHand DEF MemoryIndex, Databases
  <2>6. CASE MemoryRoute(q)
    BY <1>5, <2>6 DEF MemoryRoute
  <2>7. CASE MemoryNewWorkflow(q)
    BY <1>2, <2>7 DEF MemoryNewWorkflow, Databases, Workflows, IndexIsBacked
  <2>8. CASE MemoryDropWorkflow(q)
    BY <1>2, <1>5, <2>8 DEF MemoryDropWorkflow, Databases, IndexIsBacked
  <2>9. CASE MemorySet(q)
    BY <1>2, <2>9, MergedType DEF MemorySet, Databases, IndexIsBacked
  <2>10. CASE MemoryUnset(q)
    BY <1>2, <2>10 DEF MemoryUnset, Databases, Values, IndexIsBacked
  <2> QED BY <2>1, <2>2, <2>3, <2>4, <2>5, <2>6, <2>7, <2>8, <2>9, <2>10 DEF Handle
<1> HIDE DEF Sound
<1>7. IndexIsBacked'
  BY <1>1, <1>3, <1>6 DEF Sound, IndexIsBacked
<1> QED BY <1>1, <1>3, <1>4, <1>6, <1>7, GoesOn DEF Sound, InFlight, Steps, IInv, TypeOK

\* The statements that change nothing but what their request has read.
LEMMA ReadStep ==
  ASSUME IInv, NEW q \in Requests,
         ReadProject(q) \/ ListWorkflows(q) \/ CheckWorkflow(q) \/ Reload(q)
           \/ ChooseConfig(q) \/ GetConfig(q) \/ RequestFails(q)
  PROVE  IInv'
<1> USE DEF At, End, Proceed
<1>1. InFlight(q) /\ UNCHANGED <<backend, db, ask, todo, after>>
  BY DEF ReadProject, ListWorkflows, CheckWorkflow, Reload, ChooseConfig, GetConfig,
         RequestFails, InFlight, locals
<1>2. /\ db' \in Databases /\ db'.workflows \subseteq db.workflows \cup {q}
      /\ todo' \in [Requests -> SUBSET Keys] /\ IndexIsBacked'
  BY <1>1 DEF IInv, TypeOK, IndexIsBacked
<1>3. outcome' \in [Requests -> Outcomes]
  BY DEF ReadProject, ListWorkflows, CheckWorkflow, Reload, ChooseConfig, GetConfig,
         RequestFails, IInv, TypeOK, Outcomes
<1>4. /\ copy' \in [Requests -> Projects \cup {Nothing}]
      /\ \A r \in Requests \ {q} : copy'[r] = copy[r]
  BY DEF ReadProject, ListWorkflows, CheckWorkflow, Reload, ChooseConfig, GetConfig,
         RequestFails, locals, IInv, TypeOK, Databases
<1>5. found' \in [Requests -> Configs \cup {Nothing}]
  <2>1. CASE ChooseConfig(q)
    <3>1. ask[q].id \in Configs \cup {Nothing}
      BY <1>1, InHand DEF InFlight
    <3>2. copy[q] \in Projects /\ db.configs \subseteq Configs
      BY <2>1 DEF ChooseConfig, IInv, TypeOK, Placed, Databases
    <3> QED BY <2>1, <3>1, <3>2 DEF ChooseConfig, IInv, TypeOK, Projects
  <2>2. CASE ~ChooseConfig(q)
    BY <2>2 DEF ReadProject, ListWorkflows, CheckWorkflow, Reload, GetConfig, RequestFails,
                locals, IInv, TypeOK
  <2> QED BY <2>1, <2>2
<1>6. \E step \in Steps \ {"off", "handle"} :
        /\ Goto(q, step)
        /\ step \in {"write", "choose"} => copy'[q] # Nothing
        /\ step = "choose" => Kind(q) = "route"
        /\ step = "default" => Kind(q) = "configure"
        /\ step = "delete" => db.workflows = {}
  <2>1. CASE Goto(q, "done")
    BY <2>1 DEF Steps
  <2>2. CASE ReadProject(q) /\ ~Goto(q, "done")
    BY <2>2 DEF ReadProject, AfterRead, IInv, TypeOK, Steps
  <2>3. CASE ListWorkflows(q) /\ ~Goto(q, "done")
    BY <2>3 DEF ListWorkflows, Steps
  <2>4. CASE (CheckWorkflow(q) \/ ChooseConfig(q)) /\ ~Goto(q, "done")
    BY <2>4 DEF CheckWorkflow, ChooseConfig, Steps
  <2> QED BY <2>1, <2>2, <2>3, <2>4 DEF Reload, GetConfig, RequestFails
<1> QED BY <1>1, <1>2, <1>3, <1>4, <1>5, <1>6, GoesOn

\* The statements that write: what the row refers to is there when it is written, and
\* what goes takes along what refers to it.
LEMMA WriteStep ==
  ASSUME IInv, NEW q \in Requests,
         InsertProject(q) \/ WriteProject(q) \/ DeleteProject(q) \/ UpsertConfig(q)
           \/ WriteDefault(q) \/ UpsertIndex(q) \/ InsertWorkflow(q) \/ DropWorkflow(q)
           \/ WriteKey(q) \/ RemoveKey(q)
  PROVE  IInv'
<1> USE DEF At, End, Done, Refused, Kind
<1>1. InFlight(q) /\ UNCHANGED <<backend, ask, found, after>>
  BY DEF InsertProject, WriteProject, DeleteProject, UpsertConfig, WriteDefault, UpsertIndex,
         InsertWorkflow, DropWorkflow, WriteKey, RemoveKey, EachKey, InFlight, locals
<1>2. /\ db \in Databases /\ IndexIsBacked /\ pc[q] # "handle"
      /\ db.project # Nothing => db.project \in Projects
  BY DEF InsertProject, WriteProject, DeleteProject, UpsertConfig, WriteDefault, UpsertIndex,
         InsertWorkflow, DropWorkflow, WriteKey, RemoveKey, IInv, TypeOK, Databases
<1>3. \E step \in {"done", "default", "reload", "each"} :
        Goto(q, step) /\ (step = "default" => Kind(q) = "configure")
  BY DEF InsertProject, WriteProject, DeleteProject, UpsertConfig, WriteDefault, UpsertIndex,
         InsertWorkflow, DropWorkflow, WriteKey, RemoveKey, EachKey
<1>4. /\ outcome' \in [Requests -> Outcomes]
      /\ copy' \in [Requests -> Projects \cup {Nothing}]
      /\ todo' \in [Requests -> SUBSET Keys]
      /\ \A r \in Requests \ {q} : copy'[r] = copy[r]
  BY DEF InsertProject, WriteProject, DeleteProject, UpsertConfig, WriteDefault, UpsertIndex,
         InsertWorkflow, DropWorkflow, WriteKey, RemoveKey, EachKey, locals, IInv, TypeOK, Outcomes
<1> DEFINE Sound == /\ db' \in Databases
                    /\ db'.workflows \subseteq db.workflows \cup {q}
                    /\ db'.project = Nothing => db'.configs = {} /\ db'.index = {}
                    /\ backend = "postgres" => db'.index \subseteq db'.workflows
<1>5. db' = db => Sound
  BY <1>2 DEF IndexIsBacked
<1>6. Sound
  <2>1. CASE InsertProject(q)
    <3>1. ask[q].id \in Configs \cup {Nothing}
      BY <1>1, InHand DEF InFlight
    <3>2. NewProject(q) \in Projects
      BY <3>1 DEF NewProject, Projects, Blank, Values
    <3> QED BY <1>2, <1>5, <2>1, <3>2, RegistryAssumption DEF InsertProject, Databases,
        IndexIsBacked
  <2>2. CASE WriteProject(q)
    <3>1. copy[q] \in Projects
      BY <2>2 DEF WriteProject, IInv, TypeOK, Placed
    <3>2. Merged(copy[q].settings, q) \in [Keys -> Values]
      BY <3>1, MergedType DEF Projects
    <3>3. CASE db' = [db EXCEPT !.project.settings = Merged(copy[q].settings, q)]
               /\ db.project # Nothing
      BY <1>2, <3>2, <3>3, RegistryAssumption DEF Databases, Projects, IndexIsBacked
    <3> QED BY <1>5, <2>2, <3>3 DEF WriteProject
  <2>3. CASE DeleteProject(q)
    BY <1>2, <1>5, <2>3 DEF DeleteProject, Databases
  <2>4. CASE UpsertConfig(q)
    <3>1. ask[q].id \in Configs
      BY <1>1, <2>4, InHand DEF UpsertConfig, InFlight
    <3> QED BY <1>2, <2>4, <3>1 DEF UpsertConfig, Databases, IndexIsBacked
  <2>5. CASE WriteDefault(q)
    <3>1. ask[q].id \in Configs
      BY <1>1, <2>5, InHand DEF WriteDefault, IInv, Placed, InFlight
    <3>2. CASE db.project # Nothing
               /\ db' = [db EXCEPT !.project.default = ask[q].id, !.project.by = q]
      <4> DEFINE new == [db.project EXCEPT !.default = ask[q].id, !.by = q]
      <4>1. new \in Projects
        BY <1>2, <3>1, <3>2 DEF Projects
      <4>2. db' = [db EXCEPT !.project = new]
        BY <1>2, <3>2 DEF Databases, Projects
      <4> HIDE DEF new
      <4> QED BY <1>2, <4>1, <4>2, RegistryAssumption DEF Databases, IndexIsBacked
    <3> QED BY <1>5, <2>5, <3>2 DEF WriteDefault
  <2>6. CASE UpsertIndex(q)
    BY <1>2, <2>6 DEF UpsertIndex, Databases, IndexIsBacked
  <2>7. CASE InsertWorkflow(q)
    BY <1>2, <2>7 DEF InsertWorkflow, Databases, Workflows, IndexIsBacked
  <2>8. CASE DropWorkflow(q)
    BY <1>2, <1>5, <2>8 DEF DropWorkflow, Databases, IndexIsBacked
  <2>9. CASE WriteKey(q) \/ RemoveKey(q)
    BY <1>2, <2>9 DEF WriteKey, RemoveKey, Databases, Values, IndexIsBacked
  <2> QED BY <2>1, <2>2, <2>3, <2>4, <2>5, <2>6, <2>7, <2>8, <2>9
<1> HIDE DEF Sound
<1>7. IndexIsBacked'
  BY <1>1, <1>6 DEF Sound, IndexIsBacked
<1>8. found' \in [Requests -> Configs \cup {Nothing}]
  BY <1>1 DEF IInv, TypeOK
<1>9. PICK step \in {"done", "default", "reload", "each"} :
        Goto(q, step) /\ (step = "default" => Kind(q) = "configure")
  BY <1>3
<1>10. step \in Steps \ {"off", "handle"} /\ step \notin {"write", "choose", "delete"}
  BY <1>9 DEF Steps
<1> QED BY <1>1, <1>4, <1>6, <1>7, <1>8, <1>9, <1>10, GoesOn DEF Sound

-----------------------------------------------------------------------------
(* The theorems.                                                           *)

LEMMA NextIInv == IInv /\ [Next]_vars => IInv'
<1> SUFFICES ASSUME IInv, [Next]_vars PROVE IInv'
  OBVIOUS
<1>1. CASE Next
  <2>1. PICK q \in Requests : Receive(q) \/ Handle(q) \/ Statement(q)
    BY <1>1 DEF Next
  <2> QED BY <2>1, ReceiveStep, HandleStep, ReadStep, WriteStep DEF Statement
<1>2. CASE UNCHANGED vars
  BY <1>2 DEF vars, locals, IInv, TypeOK, IndexIsBacked, Placed, Clear, Over, At, Kind
<1> QED BY <1>1, <1>2

LEMMA Invariance == Spec => []IInv
  BY InitIInv, NextIInv, PTL DEF Spec

\* Every variable of the registry has its type, and a request that has not come in asks
\* for nothing.
THEOREM Typed == Spec => []TypeOK
<1>1. IInv => TypeOK
  BY DEF IInv
<1> QED BY <1>1, Invariance, PTL

\* A project that is gone has taken its orchestrators and its index along, and the
\* database's index names existing workflows only, whatever statements fail or interleave.
THEOREM NothingDangles == Spec => []IndexIsBacked
<1>1. IInv => IndexIsBacked
  BY DEF IInv
<1> QED BY <1>1, Invariance, PTL

\* A project is deleted only by a request that has seen no workflow: those it leaves
\* behind were created by requests that were not over when it came in.
THEOREM OrphansAreNew == Spec => OnlyNewWorkflowsAreOrphaned
<1> DEFINE Deletion == db.project # Nothing /\ db'.project = Nothing =>
       \E q \in Of("delete") :
         pc'[q] # pc[q] /\ db.workflows \cap (after[q] \cup {Seed}) = {}
<1>1. ASSUME IInv, Next, db.project # Nothing, db'.project = Nothing
      PROVE  \E q \in Of("delete") :
               pc'[q] # pc[q] /\ db.workflows \cap (after[q] \cup {Seed}) = {}
  <2>1. PICK q \in Requests : Receive(q) \/ Handle(q) \/ Statement(q)
    BY <1>1 DEF Next
  <2>2. pc[q] \in {"handle", "delete"} /\ Kind(q) = "delete" /\ pc'[q] = "done"
        /\ (pc[q] = "handle" => db.workflows = {})
    <3> USE <1>1, RegistryAssumption DEF At, End, Done, Refused, Goto
    <3>1. db \in Databases /\ pc \in [Requests -> Steps] /\ db' # db
      BY DEF IInv, TypeOK
    <3>2. \A s \in [Keys -> Values] : Merged(s, q) \in [Keys -> Values]
      BY MergedType
    <3>3. db.project \in Projects
      BY <3>1 DEF Databases
    <3>4. CASE Handle(q)
      <4>1. ~MemoryCreate(q) /\ ~MemoryRoute(q) /\ ~MemoryIndex(q)
        BY <3>1 DEF MemoryCreate, MemoryRoute, MemoryIndex, Databases
      <4>2. ~MemoryNewWorkflow(q) /\ ~MemoryDropWorkflow(q) /\ ~MemorySet(q) /\ ~MemoryUnset(q)
        BY <3>1 DEF MemoryNewWorkflow, MemoryDropWorkflow, MemorySet, MemoryUnset, Databases
      <4>3. ~MemoryUpdate(q)
        BY <3>1, <3>2, <3>3 DEF MemoryUpdate, Databases, Projects
      <4>4. ~MemoryConfigure(q)
        <5> SUFFICES ASSUME MemoryConfigure(q) PROVE FALSE
          OBVIOUS
        <5>1. ask[q].id \in Configs
          BY <3>4, InHand DEF Handle, MemoryConfigure, Kind
        <5>2. /\ [db.project EXCEPT !.default = ask[q].id, !.by = q] \in Projects
              /\ db.project \in Projects
          BY <3>3, <5>1 DEF Projects
        <5>3. \/ db'.project = db.project
              \/ db'.project = [db.project EXCEPT !.default = ask[q].id, !.by = q]
          <6> DEFINE new == [db EXCEPT !.configs = @ \cup {ask[q].id}]
          <6>1. /\ new.project = db.project
                /\ DOMAIN new = DOMAIN db
            BY <3>1 DEF Databases
          <6>2. \/ db' = db \/ db' = new
                \/ db' = [new EXCEPT !.project.default = ask[q].id, !.project.by = q]
            BY DEF MemoryConfigure
          <6>3. [new EXCEPT !.project.default = ask[q].id, !.project.by = q].project
                  = [new.project EXCEPT !.default = ask[q].id, !.by = q]
            BY <3>1, <3>3, <6>1 DEF Databases, Projects
          <6> HIDE DEF new
          <6> QED BY <6>1, <6>2, <6>3
        <5> QED BY <5>2, <5>3
      <4>5. MemoryDelete(q)
        BY <3>4, <4>1, <4>2, <4>3, <4>4 DEF Handle
      <4> QED BY <3>1, <3>4, <4>5 DEF Handle, MemoryDelete, Steps
    <3>5. CASE Statement(q)
      <4>1. ~ReadProject(q) /\ ~ListWorkflows(q) /\ ~CheckWorkflow(q) /\ ~Reload(q)
            /\ ~ChooseConfig(q) /\ ~GetConfig(q) /\ ~RequestFails(q)
        BY <3>1 DEF ReadProject, ListWorkflows, CheckWorkflow, Reload, ChooseConfig, GetConfig,
                    RequestFails
      <4>2. ~InsertWorkflow(q) /\ ~DropWorkflow(q) /\ ~WriteKey(q) /\ ~RemoveKey(q)
            /\ ~UpsertConfig(q) /\ ~UpsertIndex(q)
        BY <3>1 DEF InsertWorkflow, DropWorkflow, WriteKey, RemoveKey, UpsertConfig,
                    UpsertIndex, Databases
      <4>3. ~InsertProject(q)
        BY <3>1 DEF InsertProject
      <4>4. ~WriteDefault(q)
        <5> SUFFICES ASSUME WriteDefault(q) PROVE FALSE
          OBVIOUS
        <5>1. ask[q].id \in Configs
          BY InHand DEF WriteDefault, IInv, Placed, Kind
        <5>2. [db.project EXCEPT !.default = ask[q].id, !.by = q] \in Projects
          BY <3>3, <5>1 DEF Projects
        <5>3. db'.project = [db.project EXCEPT !.default = ask[q].id, !.by = q]
          BY <3>1, <3>3 DEF WriteDefault, Databases, Projects
        <5> QED BY <5>2, <5>3
      <4>5. ~WriteProject(q)
        <5> SUFFICES ASSUME WriteProject(q) PROVE FALSE
          OBVIOUS
        <5> DEFINE merged == Merged(copy[q].settings, q)
        <5>1. copy[q] \in Projects
          BY DEF WriteProject, IInv, TypeOK, Placed
        <5>2. merged \in [Keys -> Values]
          BY <3>2, <5>1 DEF Projects
        <5>3. db'.project = [db.project EXCEPT !.settings = merged]
          BY <3>1, <3>3 DEF WriteProject, Databases, Projects
        <5>4. [db.project EXCEPT !.settings = merged] \in Projects
          <6> HIDE DEF merged
          <6> QED BY <3>3, <5>2 DEF Projects
        <5> QED BY <5>3, <5>4
      <4>6. DeleteProject(q)
        BY <3>5, <4>1, <4>2, <4>3, <4>4, <4>5 DEF Statement
      <4> QED BY <3>1, <4>6 DEF DeleteProject, Steps
    <3> QED BY <2>1, <3>1, <3>4, <3>5 DEF Receive
  <2>3. db.workflows \cap (after[q] \cup {Seed}) = {}
    BY <1>1, <2>2 DEF IInv, Clear
  <2>4. q \in Of("delete")
    BY <1>1, <2>2 DEF Of, IInv, TypeOK
  <2> QED BY <2>2, <2>3, <2>4
<1>2. IInv /\ [Next]_vars => [Deletion]_vars
  BY <1>1
<1> QED BY <1>2, Invariance, PTL DEF Spec, OnlyNewWorkflowsAreOrphaned
-----------------------------------------------------------------------------
(* The default orchestrator, settings and context values.                  *)

\* Neither came in after the other was over.
Met(q, r)  == q \notin after[r] /\ r \notin after[q]
Crossed(q) == \E d \in Of("delete"), c \in Of("create") : Met(q, d) /\ Met(q, c)

\* A default that nobody has checked is a new project's, or was stored by a request that
\* the project was deleted and created under, before or after its orchestrator was stored.
Chosen ==
  /\ db.project # Nothing /\ db.project.default \notin db.configs \cup {Nothing} =>
       \/ db.project.by \in Of("create")
       \/ db.project.by \in Requests /\ ask[db.project.by] # Nothing /\ Crossed(db.project.by)
  /\ \A q \in Requests : pc[q] = "default" =>
       /\ db.project = Nothing => \E d \in Of("delete") : Met(q, d)
       /\ db.project # Nothing /\ ask[q].id \notin db.configs => Crossed(q)

\* Which requests get where.
Kinded(q) ==
  /\ pc[q] = "write" => Kind(q) = "update"
  /\ pc[q] = "get" => Kind(q) = "route"
  /\ pc[q] = "reload" => Kind(q) \in {"configure", "index", "new", "set", "unset"}
  /\ outcome[q] # "none" => pc[q] = "done"
  /\ todo[q] # {} => pc[q] # "off" /\ todo[q] \subseteq ask[q].keys
  /\ pc[q] = "reload" /\ Kind(q) \in {"set", "unset"} => todo[q] = {}

\* A request that replaces the setting may have come after q, or writes back what it read
\* before q was over.
Excused(q, k) ==
  \E r \in NotBefore(q) :
    \/ Kind(r) = "create"
    \/ Kind(r) = "update" /\ (k \in ask[r].keys \/ q \notin after[r])

\* An accepted setting is in the project and in every copy that was read later.
Settled ==
  \A q \in Of("update") : outcome[q] = "ok" => \A k \in ask[q].keys :
    /\ db.project # Nothing => db.project.settings[k] = q \/ Excused(q, k)
    /\ \A r \in Requests : pc[r] = "write" /\ q \in after[r] =>
         copy[r].settings[k] = q \/ Excused(q, k)

Value(q) == IF Kind(q) = "set" THEN q ELSE Nothing

Overwritten(q, k) ==
  \E r \in NotBefore(q) :
    \/ Kind(r) \in {"set", "unset"} /\ k \in ask[r].keys
    \/ Kind(r) = "delete" /\ backend = "memory"

\* A value is there once it has been written, though its call is not over.
Noted ==
  \A q \in Of("set") \cup Of("unset") : \A k \in ask[q].keys :
    outcome[q] = "ok" \/ (pc[q] \in {"each", "reload"} /\ k \notin todo[q]) =>
      db.context[k] = Value(q) \/ Overwritten(q, k)

\* A step of a request leaves what is the others' alone.
LEMMA Others ==
  ASSUME IInv, NEW q \in Requests, Receive(q) \/ Handle(q) \/ Statement(q)
  PROVE  /\ backend' = backend
         /\ \A r \in Requests \ {q} :
              /\ pc'[r] = pc[r] /\ ask'[r] = ask[r] /\ after'[r] = after[r]
              /\ copy'[r] = copy[r] /\ todo'[r] = todo[r] /\ outcome'[r] = outcome[r]
         /\ pc[q] # "done"
         /\ \/ /\ Receive(q) /\ pc[q] = "off" /\ ask[q] = Nothing /\ after'[q] = Over
               /\ UNCHANGED <<db, copy, outcome>>
            \/ pc[q] # "off" /\ ask' = ask /\ after' = after
<1> USE DEF IInv, TypeOK, At, Goto, End, Proceed, Done, Refused
<1>1. CASE Receive(q)
  BY <1>1 DEF Receive
<1>2. CASE Handle(q)
  BY <1>2 DEF Handle, MemoryCreate, MemoryUpdate, MemoryDelete, MemoryConfigure, MemoryIndex,
     MemoryRoute, MemoryNewWorkflow, MemoryDropWorkflow, MemorySet, MemoryUnset
<1>3. CASE InsertProject(q) \/ ReadProject(q) \/ WriteProject(q) \/ ListWorkflows(q)
           \/ DeleteProject(q) \/ CheckWorkflow(q)
  BY <1>3 DEF InsertProject, ReadProject, WriteProject, ListWorkflows, DeleteProject,
     CheckWorkflow, locals
<1>4. CASE UpsertConfig(q) \/ WriteDefault(q) \/ UpsertIndex(q) \/ Reload(q) \/ ChooseConfig(q)
           \/ GetConfig(q)
  BY <1>4 DEF UpsertConfig, WriteDefault, UpsertIndex, Reload, ChooseConfig, GetConfig, locals
<1>5. CASE InsertWorkflow(q) \/ DropWorkflow(q) \/ WriteKey(q) \/ RemoveKey(q) \/ RequestFails(q)
  BY <1>5 DEF InsertWorkflow, DropWorkflow, WriteKey, RemoveKey, EachKey, RequestFails, InFlight,
     locals
<1> QED BY <1>1, <1>2, <1>3, <1>4, <1>5 DEF Statement

\* Whoever is not over is not over before another.
LEMMA NotOver ==
  ASSUME IInv, NEW q \in Requests, pc[q] # "done", NEW r \in Requests
  PROVE  q \notin after[r]
  BY DEF IInv, Clear, Over, At

\* What has come in stays as it was when it came in.
LEMMA Steady ==
  ASSUME IInv, NEW q \in Requests, Receive(q) \/ Handle(q) \/ Statement(q)
  PROVE  /\ \A r \in Requests : ask[r] # Nothing => ask'[r] = ask[r] /\ after'[r] = after[r]
         /\ \A kind \in {"create", "delete", "update", "set", "unset"} :
              /\ Of(kind) \subseteq Of(kind)'
              /\ Of(kind)' \subseteq Of(kind) \cup {q}
              /\ q \in Of(kind) => pc[q] # "off"
         /\ \A r \in Requests : ask[r] # Nothing => NotBefore(r) \subseteq NotBefore(r)'
<1>1. /\ \A r \in Requests \ {q} : ask'[r] = ask[r] /\ after'[r] = after[r]
      /\ ask[q] # Nothing => ask' = ask /\ after' = after
      /\ ask[q] # Nothing <=> pc[q] # "off"
  BY Others DEF IInv, TypeOK
<1>2. \A r \in Requests : ask[r] # Nothing => ask'[r] = ask[r] /\ after'[r] = after[r]
  BY <1>1
<1> QED BY <1>1, <1>2 DEF Of, NotBefore, Kind

\* The projects that steps write are projects.
LEMMA NewProjects ==
  ASSUME IInv, NEW q \in Requests, pc[q] # "off"
  PROVE  /\ NewProject(q) \in Projects
         /\ db.project # Nothing =>
              /\ [db.project EXCEPT !.settings = Merged(@, q)] \in Projects
              /\ copy[q] # Nothing =>
                   [db.project EXCEPT !.settings = Merged(copy[q].settings, q)] \in Projects
              /\ ask[q].kind = "configure" =>
                   [db.project EXCEPT !.default = ask[q].id, !.by = q] \in Projects
<1>1. /\ db.project # Nothing => db.project \in Projects
      /\ copy[q] # Nothing => copy[q] \in Projects
  BY DEF IInv, TypeOK, Databases
<1>2. /\ ask[q].id \in Configs \cup {Nothing}
      /\ ask[q].kind = "configure" => ask[q].id \in Configs
  BY InHand
<1>3. NewProject(q) \in Projects
  BY <1>2 DEF NewProject, Projects, Blank, Values
<1>4. \A s \in [Keys -> Values] : Merged(s, q) \in [Keys -> Values]
  BY MergedType
<1>5. \A p \in Projects : p.settings \in [Keys -> Values]
  BY DEF Projects
<1>6. ASSUME NEW p \in Projects, NEW s \in [Keys -> Values]
      PROVE  [p EXCEPT !.settings = s] \in Projects
  BY DEF Projects
<1>7. ASSUME NEW p \in Projects, ask[q].id \in Configs
      PROVE  [p EXCEPT !.default = ask[q].id, !.by = q] \in Projects
  BY <1>7 DEF Projects
<1> QED BY <1>1, <1>2, <1>3, <1>4, <1>5, <1>6, <1>7

\* What a step does to the project and its orchestrators.
LEMMA ProjectStep ==
  ASSUME IInv, NEW q \in Requests, Kinded(q), Receive(q) \/ Handle(q) \/ Statement(q)
  PROVE  \/ db'.project = db.project /\ db.configs \subseteq db'.configs
         \/ /\ db.project # Nothing /\ Kind(q) = "update" /\ db'.project \in Projects
            /\ \/ /\ pc[q] = "handle"
                  /\ db'.project = [db.project EXCEPT !.settings = Merged(@, q)]
               \/ /\ pc[q] = "write" /\ copy[q] # Nothing
                  /\ db'.project = [db.project EXCEPT !.settings = Merged(copy[q].settings, q)]
            /\ db'.configs = db.configs
         \/ Kind(q) = "delete" /\ db'.project = Nothing
         \/ /\ Kind(q) = "create" /\ db.project = Nothing
            /\ db'.project = NewProject(q) /\ db'.project \in Projects
         \/ /\ Kind(q) = "configure" /\ db.project # Nothing /\ db'.project \in Projects
            /\ db'.project = [db.project EXCEPT !.default = ask[q].id, !.by = q]
            /\ db.configs \subseteq db'.configs
            /\ pc[q] = "default" \/ ask[q].id \in db'.configs
<1>1. db \in Databases /\ (db.project # Nothing => db.project \in Projects)
  BY DEF IInv, TypeOK, Databases
<1> USE DEF Done, Refused, At, Kind
<1>2. CASE Handle(q)
  <2>0. pc[q] = "handle"
    BY <1>2 DEF Handle
  <2>1. CASE MemoryCreate(q) \/ MemoryIndex(q) \/ MemoryRoute(q) \/ MemoryDelete(q)
    BY <1>1, <2>0, <2>1, NewProjects
       DEF MemoryCreate, MemoryIndex, MemoryRoute, MemoryDelete, Databases
  <2>2. CASE MemoryUpdate(q)
    <3>1. \/ db' = db
          \/ /\ db.project # Nothing /\ db'.configs = db.configs
             /\ db'.project = [db.project EXCEPT !.settings = Merged(@, q)]
      BY <1>1, <2>2 DEF MemoryUpdate, Databases, Projects
    <3> QED BY <2>0, <2>2, <3>1, NewProjects DEF MemoryUpdate
  <2>3. CASE MemoryConfigure(q)
    <3> DEFINE new == [db EXCEPT !.configs = @ \cup {ask[q].id}]
    <3>1. /\ new.project = db.project /\ new.configs = db.configs \cup {ask[q].id}
          /\ DOMAIN new = DOMAIN db
      BY <1>1 DEF Databases
    <3>2. \/ db' = db
          \/ db.project # Nothing /\ db' = new
          \/ /\ db.project # Nothing
             /\ db' = [new EXCEPT !.project.default = ask[q].id, !.project.by = q]
      BY <2>3 DEF MemoryConfigure
    <3>3. db.project # Nothing =>
            /\ [new EXCEPT !.project.default = ask[q].id, !.project.by = q].project
                 = [db.project EXCEPT !.default = ask[q].id, !.by = q]
            /\ [new EXCEPT !.project.default = ask[q].id, !.project.by = q].configs = new.configs
      BY <1>1, <3>1 DEF Databases, Projects
    <3>4. Kind(q) = "configure"
      BY <2>3 DEF MemoryConfigure
    <3> HIDE DEF new
    <3> QED BY <2>0, <3>1, <3>2, <3>3, <3>4, NewProjects
  <2>4. CASE MemoryNewWorkflow(q) \/ MemoryDropWorkflow(q) \/ MemorySet(q) \/ MemoryUnset(q)
    BY <1>1, <2>4 DEF MemoryNewWorkflow, MemoryDropWorkflow, MemorySet, MemoryUnset, Databases
  <2> QED BY <1>2, <2>1, <2>2, <2>3, <2>4 DEF Handle
<1>3. CASE InsertProject(q) \/ DeleteProject(q)
  BY <1>1, <1>3, NewProjects DEF InsertProject, DeleteProject, Databases
<1>4. CASE WriteProject(q)
  <2>1. Kind(q) = "update" /\ pc[q] = "write" /\ copy[q] # Nothing
    BY <1>4 DEF WriteProject, Kinded, IInv, Placed
  <2>2. \/ db' = db
        \/ /\ db.project # Nothing /\ db'.configs = db.configs
           /\ db'.project = [db.project EXCEPT !.settings = Merged(copy[q].settings, q)]
    BY <1>1, <1>4 DEF WriteProject, Databases, Projects
  <2> QED BY <2>1, <2>2, NewProjects
<1>5. CASE UpsertConfig(q) \/ UpsertIndex(q) \/ InsertWorkflow(q) \/ DropWorkflow(q)
           \/ WriteKey(q) \/ RemoveKey(q)
  BY <1>1, <1>5 DEF UpsertConfig, UpsertIndex, InsertWorkflow, DropWorkflow, WriteKey, RemoveKey,
     Databases
<1>6. CASE WriteDefault(q)
  <2>1. Kind(q) = "configure" /\ pc[q] = "default"
    BY <1>6 DEF WriteDefault, IInv, Placed
  <2>2. \/ db' = db
        \/ /\ db.project # Nothing /\ db'.configs = db.configs
           /\ db'.project = [db.project EXCEPT !.default = ask[q].id, !.by = q]
    BY <1>1, <1>6 DEF WriteDefault, Databases, Projects
  <2> QED BY <2>1, <2>2, NewProjects
<1>7. CASE db' = db
  BY <1>7
<1> QED BY <1>2, <1>3, <1>4, <1>5, <1>6, <1>7
     DEF Receive, Statement, ReadProject, ListWorkflows, CheckWorkflow, Reload, ChooseConfig,
         GetConfig, RequestFails

LEMMA KindedStep ==
  ASSUME IInv, NEW q \in Requests, \A r \in Requests : Kinded(r),
         Receive(q) \/ Handle(q) \/ Statement(q)
  PROVE  \A r \in Requests : Kinded(r)'
<1>1. ASSUME NEW r \in Requests \ {q} PROVE Kinded(r)'
  BY Others DEF Kinded, Kind
<1>2. Kinded(q)'
  <2> USE DEF IInv, TypeOK, At, Goto, End, Proceed, Done, Refused, Kind, Kinded, locals
  <2>1. CASE Receive(q)
    <3>1. PICK asked \in Asking :
            /\ ask' = [ask EXCEPT ![q] = asked]
            /\ todo' = [todo EXCEPT ![q] =
                 IF asked.kind \in {"set", "unset"} THEN asked.keys ELSE {}]
            /\ Goto(q, IF backend = "memory" THEN "handle" ELSE FirstStep(asked.kind))
      BY <2>1 DEF Receive
    <3>2. pc'[q] \in {"handle", "insert", "delete", "each", "read"}
      BY <3>1 DEF FirstStep
    <3> QED BY <2>1, <3>1, <3>2 DEF Receive
  <2>2. pc[q] # "done" /\ (~Receive(q) => ask' = ask)
    BY Others
  <2>3. CASE Handle(q)
    <3>1. pc'[q] = "done" /\ todo'[q] = {}
      BY <2>3 DEF Handle, MemoryCreate, MemoryUpdate, MemoryDelete, MemoryConfigure, MemoryIndex,
         MemoryRoute, MemoryNewWorkflow, MemoryDropWorkflow, MemorySet, MemoryUnset
    <3> QED BY <2>2, <3>1
  <2>4. CASE InsertProject(q) \/ WriteProject(q) \/ ListWorkflows(q) \/ DeleteProject(q)
             \/ CheckWorkflow(q) \/ Reload(q) \/ GetConfig(q) \/ DropWorkflow(q)
    BY <2>2, <2>4 DEF InsertProject, WriteProject, ListWorkflows, DeleteProject, CheckWorkflow,
       Reload, GetConfig, DropWorkflow
  <2>5. CASE ReadProject(q)
    BY <2>2, <2>5 DEF ReadProject, AfterRead
  <2>6. CASE UpsertConfig(q) \/ WriteDefault(q) \/ UpsertIndex(q) \/ InsertWorkflow(q)
    BY <2>2, <2>6 DEF UpsertConfig, WriteDefault, UpsertIndex, InsertWorkflow, Placed
  <2>7. CASE ChooseConfig(q)
    BY <2>2, <2>7 DEF ChooseConfig, Placed
  <2>8. CASE WriteKey(q) \/ RemoveKey(q)
    BY <2>2, <2>8 DEF WriteKey, RemoveKey, EachKey
  <2>9. CASE RequestFails(q)
    BY <2>2, <2>9 DEF RequestFails
  <2> QED BY <2>1, <2>3, <2>4, <2>5, <2>6, <2>7, <2>8, <2>9 DEF Statement
<1> QED BY <1>1, <1>2

LEMMA ChosenStep ==
  ASSUME IInv, NEW q \in Requests, \A r \in Requests : Kinded(r), Chosen,
         Receive(q) \/ Handle(q) \/ Statement(q)
  PROVE  Chosen'
<1>1. /\ pc[q] # "done" /\ \A r \in Requests : q \notin after[r]
      /\ \A r \in Requests \ {q} : pc'[r] = pc[r] /\ ask'[r] = ask[r] /\ after'[r] = after[r]
      /\ ask[q] # Nothing <=> pc[q] # "off"
  BY Others, NotOver DEF IInv, TypeOK
<1>2. \A r \in Requests : ask[r] # Nothing => ask'[r] = ask[r] /\ after'[r] = after[r]
  BY Steady
<1>3. /\ Of("delete") \subseteq Of("delete")' /\ Of("create") \subseteq Of("create")'
      /\ \A r \in Of("delete") \cup Of("create") : r \in Requests /\ ask[r] # Nothing
  BY Steady DEF Of
<1>4. ASSUME NEW r \in Requests, ask[r] # Nothing, Crossed(r) PROVE Crossed(r)'
  BY <1>2, <1>3, <1>4 DEF Crossed, Met
<1>5. ASSUME NEW r \in Requests, ask[r] # Nothing, \E d \in Of("delete") : Met(r, d)
      PROVE  \E d \in Of("delete")' : Met(r, d)'
  BY <1>2, <1>3, <1>5 DEF Met
<1>6. ASSUME NEW r \in Requests, pc[r] = "default" PROVE Met(r, q) /\ ask[r] # Nothing
  BY <1>1, <1>6, NotOver DEF Met, IInv, TypeOK
<1>7. \A r \in Requests : pc'[r] = "default" =>
        \/ pc[r] = "default"
        \/ r = q /\ db'.project # Nothing /\ ask'[r].id \in db'.configs
  <2>1. CASE UpsertConfig(q)
    BY <1>1, <2>1 DEF UpsertConfig, IInv, TypeOK, Databases, Goto
  <2>2. CASE ~UpsertConfig(q)
    <3>1. pc'[q] # "default"
      BY <2>2 DEF Receive, Handle, MemoryCreate, MemoryUpdate, MemoryDelete, MemoryConfigure,
         MemoryIndex, MemoryRoute, MemoryNewWorkflow, MemoryDropWorkflow, MemorySet, MemoryUnset,
         Statement, InsertProject, ReadProject, WriteProject, ListWorkflows, DeleteProject,
         CheckWorkflow, WriteDefault, UpsertIndex, Reload, ChooseConfig, GetConfig,
         InsertWorkflow, DropWorkflow, WriteKey, RemoveKey, EachKey, RequestFails, Goto, End,
         Proceed, Done, Refused, FirstStep, AfterRead, IInv, TypeOK
    <3> QED BY <1>1, <3>1
  <2> QED BY <2>1, <2>2
<1> DEFINE Sound ==
      db.project # Nothing /\ db.project.default \notin db.configs \cup {Nothing} =>
        \/ db.project.by \in Of("create")
        \/ db.project.by \in Requests /\ ask[db.project.by] # Nothing /\ Crossed(db.project.by)
    Waits(r) ==
      /\ db.project = Nothing => \E d \in Of("delete") : Met(r, d)
      /\ db.project # Nothing /\ ask[r].id \notin db.configs => Crossed(r)
<1>8. Sound /\ \A r \in Requests : pc[r] = "default" => Waits(r)
  BY DEF Chosen
<1>9. /\ db.project # Nothing => db.project \in Projects
      /\ db'.project # Nothing => db'.project \in Projects
  BY NextIInv DEF IInv, TypeOK, Databases, Next
<1>10. ask[q] = Nothing => db' = db
  BY Others DEF IInv, TypeOK
<1>11. CASE db'.project = db.project /\ db.configs \subseteq db'.configs
  <2>1. Sound'
    BY <1>2, <1>3, <1>4, <1>8, <1>11
  <2>2. \A r \in Requests : pc'[r] = "default" => Waits(r)'
    BY <1>2, <1>4, <1>5, <1>6, <1>7, <1>8, <1>11
  <2> QED BY <2>1, <2>2 DEF Chosen
<1>12. ASSUME db.project # Nothing, NEW s,
              db'.project = [db.project EXCEPT !.settings = s], db'.configs = db.configs,
              db'.project \in Projects
       PROVE  Chosen'
  <2>1. /\ db'.project # Nothing /\ db'.project.default = db.project.default
        /\ db'.project.by = db.project.by
    BY <1>9, <1>12, RegistryAssumption DEF Projects
  <2>2. Sound'
    BY <1>2, <1>3, <1>4, <1>8, <1>12, <2>1
  <2>3. \A r \in Requests : pc'[r] = "default" => Waits(r)'
    BY <1>2, <1>4, <1>6, <1>7, <1>8, <1>12, <2>1
  <2> QED BY <2>2, <2>3 DEF Chosen
<1>13. CASE Kind(q) = "delete" /\ db'.project = Nothing /\ ask[q] # Nothing
  <2>1. q \in Of("delete")
    BY <1>13 DEF Of
  <2>2. ASSUME NEW r \in Requests, pc'[r] = "default" PROVE Waits(r)'
    <3>1. ask[r] # Nothing /\ Met(r, q)
      BY <1>6, <1>7, <1>13, <2>2
    <3> QED BY <1>5, <1>13, <2>1, <3>1
  <2> QED BY <1>13, <2>2 DEF Chosen
<1>14. CASE /\ Kind(q) = "create" /\ db'.project = NewProject(q) /\ db'.project \in Projects
            /\ db.project = Nothing /\ ask[q] # Nothing
  <2>1. q \in Of("create") /\ db'.project.by = q /\ db'.project # Nothing
    BY <1>14, RegistryAssumption DEF Of, NewProject
  <2>2. Sound'
    BY <1>3, <2>1
  <2>3. ASSUME NEW r \in Requests, pc'[r] = "default" PROVE Waits(r)'
    <3>1. CASE pc[r] = "default"
      <4>1. ask[r] # Nothing /\ Met(r, q) /\ \E d \in Of("delete") : Met(r, d)
        BY <1>6, <1>8, <1>14, <3>1
      <4>2. Crossed(r)
        BY <2>1, <4>1 DEF Crossed
      <4> QED BY <1>4, <2>1, <4>1, <4>2
    <3>2. CASE pc[r] # "default"
      BY <1>7, <2>1, <2>3, <3>2
    <3> QED BY <3>1, <3>2
  <2> QED BY <2>2, <2>3 DEF Chosen
<1>15. CASE /\ Kind(q) = "configure" /\ db.project # Nothing
            /\ db'.project = [db.project EXCEPT !.default = ask[q].id, !.by = q]
            /\ db.configs \subseteq db'.configs
            /\ pc[q] = "default" \/ ask[q].id \in db'.configs
            /\ db'.project \in Projects /\ ask[q] # Nothing
  <2>1. /\ db'.project # Nothing /\ db'.project.default = ask[q].id /\ db'.project.by = q
    BY <1>9, <1>15, RegistryAssumption DEF Projects
  <2>2. Sound'
    <3>1. CASE ask[q].id \in db'.configs
      BY <2>1, <3>1
    <3>2. CASE pc[q] = "default" /\ ask[q].id \notin db'.configs
      <4>1. Crossed(q)
        BY <1>8, <1>15, <3>2
      <4> QED BY <1>2, <1>4, <1>15, <2>1, <4>1
    <3> QED BY <1>15, <3>1, <3>2
  <2>3. ASSUME NEW r \in Requests, pc'[r] = "default" PROVE Waits(r)'
    <3>1. CASE pc[r] = "default"
      <4>1. ask[r] # Nothing /\ (ask[r].id \notin db.configs => Crossed(r))
        BY <1>6, <1>8, <1>15, <3>1
      <4> QED BY <1>2, <1>4, <1>15, <2>1, <4>1
    <3>2. CASE pc[r] # "default"
      BY <1>7, <2>1, <2>3, <3>2
    <3> QED BY <3>1, <3>2
  <2> QED BY <2>2, <2>3 DEF Chosen
<1>16. CASE ask[q] = Nothing
  BY <1>10, <1>11, <1>16
<1>17. CASE ask[q] # Nothing
  BY <1>11, <1>12, <1>13, <1>14, <1>15, <1>17, ProjectStep
<1> QED BY <1>16, <1>17

\* Excuses stay.
LEMMA ExcusesStay ==
  ASSUME IInv, NEW a \in Requests, Receive(a) \/ Handle(a) \/ Statement(a),
         NEW q \in Requests, ask[q] # Nothing, NEW k
  PROVE  /\ Excused(q, k) => Excused(q, k)'
         /\ Overwritten(q, k) => Overwritten(q, k)'
         /\ pc[q] = "done" /\ ask[a] # Nothing => a \in NotBefore(q)'
<1>1. /\ \A r \in Requests : ask[r] # Nothing => ask'[r] = ask[r] /\ after'[r] = after[r]
      /\ NotBefore(q) \subseteq NotBefore(q)'
  BY Steady
<1>2. backend' = backend
  BY Others
<1>3. \A r \in NotBefore(q) : r \in Requests /\ ask'[r] = ask[r] /\ after'[r] = after[r]
  BY <1>1 DEF NotBefore
<1>4. pc[a] # "done" /\ a \notin after[q]
  BY Others, NotOver
<1> QED BY <1>1, <1>2, <1>3, <1>4 DEF Excused, Overwritten, Kind, NotBefore

LEMMA SettledStep ==
  ASSUME IInv, NEW a \in Requests, \A r \in Requests : Kinded(r), Settled,
         Receive(a) \/ Handle(a) \/ Statement(a)
  PROVE  Settled'
<1>1. /\ pc[a] # "done" /\ outcome[a] = "none" /\ \A r \in Requests : a \notin after[r]
      /\ \A r \in Requests \ {a} : /\ pc'[r] = pc[r] /\ ask'[r] = ask[r] /\ after'[r] = after[r]
                                   /\ copy'[r] = copy[r] /\ outcome'[r] = outcome[r]
  BY Others, NotOver DEF Kinded
<1>2. CASE Receive(a)
  <2>1. UNCHANGED <<db, copy, outcome>> /\ pc'[a] # "write"
    BY <1>2 DEF Receive, Goto, FirstStep, IInv, TypeOK
  <2>2. \A q \in Of("update")' : outcome'[q] = "ok" =>
          q \in Of("update") /\ q # a /\ ask'[q] = ask[q]
    BY <1>1, <2>1 DEF Of, Kind
  <2>3. ASSUME NEW q \in Of("update")', outcome'[q] = "ok", NEW k \in ask'[q].keys
        PROVE  /\ db'.project # Nothing => db'.project.settings[k] = q \/ Excused(q, k)'
               /\ \A r \in Requests : pc'[r] = "write" /\ q \in after'[r] =>
                    copy'[r].settings[k] = q \/ Excused(q, k)'
    <3>1. q \in Requests /\ ask[q] # Nothing /\ (Excused(q, k) => Excused(q, k)')
      BY <2>2, <2>3, ExcusesStay DEF Of
    <3> QED BY <1>1, <2>1, <2>2, <2>3, <3>1 DEF Settled
  <2> QED BY <2>3 DEF Settled
<1>3. CASE ~Receive(a)
  <2>1. ask' = ask /\ after' = after /\ ask[a] # Nothing /\ pc[a] # "off"
    BY <1>3, Others DEF IInv, TypeOK
  <2>2. ASSUME outcome'[a] = "ok", Kind(a) = "update", NEW k \in ask[a].keys
        PROVE  db'.project # Nothing => db'.project.settings[k] = a
    <3>1. MemoryUpdate(a) \/ WriteProject(a)
      BY <1>1, <1>3, <2>2 DEF Handle, MemoryCreate, MemoryDelete, MemoryConfigure, MemoryIndex,
         MemoryRoute, MemoryNewWorkflow, MemoryDropWorkflow, MemorySet, MemoryUnset, Statement,
         InsertProject, ReadProject, ListWorkflows, DeleteProject, CheckWorkflow, UpsertConfig,
         WriteDefault, UpsertIndex, Reload, ChooseConfig, GetConfig, InsertWorkflow,
         DropWorkflow, WriteKey, RemoveKey, EachKey, RequestFails, Goto, End, Proceed, Done,
         Refused, At, IInv, TypeOK, Kinded, Placed
    <3>2. PICK settings : db' = [db EXCEPT !.project.settings = Merged(settings, a)]
      <4>1. CASE MemoryUpdate(a)
        <5>1. ~Refused(a, "error")
          BY <2>2 DEF Refused, End, IInv, TypeOK
        <5> QED BY <4>1, <5>1 DEF MemoryUpdate, Done
      <4>2. CASE WriteProject(a)
        <5>1. ~Refused(a, "error")
          BY <2>2 DEF Refused, End, IInv, TypeOK
        <5> QED BY <4>2, <5>1 DEF WriteProject, Done
      <4> QED BY <3>1, <4>1, <4>2
    <3>3. k \in Keys /\ db \in Databases
      BY <2>1, InHand DEF IInv, TypeOK
    <3>4. db.project # Nothing
      <4>1. ~Refused(a, "error")
        BY <2>2 DEF Refused, End, IInv, TypeOK
      <4> QED BY <3>1, <4>1 DEF MemoryUpdate, WriteProject
    <3>5. db'.project.settings = Merged(settings, a)
      BY <3>2, <3>3, <3>4 DEF Databases, Projects
    <3> QED BY <2>2, <3>3, <3>5 DEF Merged
  <2>3. ASSUME NEW q \in Of("update"), q # a, outcome[q] = "ok", NEW k \in ask[q].keys
        PROVE  /\ db'.project # Nothing => db'.project.settings[k] = q \/ Excused(q, k)'
               /\ \A r \in Requests : pc'[r] = "write" /\ q \in after'[r] =>
                    copy'[r].settings[k] = q \/ Excused(q, k)'
    <3>1. /\ q \in Requests /\ ask[q] # Nothing /\ pc[q] = "done"
          /\ Excused(q, k) => Excused(q, k)'
          /\ a \in NotBefore(q)' /\ Kind(a)' = Kind(a) /\ ask'[a] = ask[a] /\ k \in Keys
      <4>1. q \in Requests /\ ask[q] # Nothing /\ pc[q] = "done"
        BY <2>3 DEF Of, Kinded
      <4> QED BY <2>1, <2>3, <4>1, ExcusesStay, InHand DEF Kind
    <3>2. /\ db.project # Nothing => db.project.settings[k] = q \/ Excused(q, k)
          /\ \A r \in Requests : pc[r] = "write" /\ q \in after[r] =>
               copy[r].settings[k] = q \/ Excused(q, k)
      BY <2>3 DEF Settled
    <3>3. ASSUME db'.project # Nothing PROVE db'.project.settings[k] = q \/ Excused(q, k)'
      <4>1. CASE db'.project = db.project
        BY <3>1, <3>2, <3>3, <4>1
      <4>2. CASE Kind(a) = "create"
        BY <3>1, <4>2 DEF Excused
      <4>3. CASE db.project # Nothing
                 /\ db'.project = [db.project EXCEPT !.default = ask[a].id, !.by = a]
        <5>1. db.project \in Projects
          BY <4>3 DEF IInv, TypeOK, Databases
        <5> QED BY <3>1, <3>2, <4>3, <5>1 DEF Projects
      <4>4. ASSUME db.project # Nothing, Kind(a) = "update", NEW settings,
                   db'.project = [db.project EXCEPT !.settings = Merged(settings, a)],
                   settings[k] = q \/ Excused(q, k)'
            PROVE  db'.project.settings[k] = q \/ Excused(q, k)'
        <5>1. CASE k \in ask[a].keys
          BY <3>1, <4>4, <5>1 DEF Excused
        <5>2. CASE k \notin ask[a].keys
          <6>1. db.project \in Projects
            BY <4>4 DEF IInv, TypeOK, Databases
          <6>2. db'.project.settings = Merged(settings, a)
            BY <4>4, <6>1 DEF Projects
          <6> QED BY <3>1, <4>4, <5>2, <6>2 DEF Merged
        <5> QED BY <5>1, <5>2
      <4>5. CASE /\ db.project # Nothing /\ Kind(a) = "update" /\ pc[a] = "handle"
                 /\ db'.project = [db.project EXCEPT !.settings = Merged(@, a)]
        BY <3>1, <3>2, <4>4, <4>5
      <4>6. CASE /\ db.project # Nothing /\ Kind(a) = "update" /\ pc[a] = "write"
                 /\ db'.project = [db.project EXCEPT !.settings = Merged(copy[a].settings, a)]
        <5>1. CASE q \in after[a]
          BY <3>1, <3>2, <4>4, <4>6, <5>1
        <5>2. CASE q \notin after[a]
          BY <2>1, <3>1, <4>6, <5>2 DEF Excused
        <5> QED BY <5>1, <5>2
      <4> QED BY <3>3, <4>1, <4>2, <4>3, <4>5, <4>6, ProjectStep
    <3>4. ASSUME NEW r \in Requests, pc'[r] = "write", q \in after'[r]
          PROVE  copy'[r].settings[k] = q \/ Excused(q, k)'
      <4>1. CASE r # a
        BY <1>1, <2>1, <3>1, <3>2, <3>4, <4>1
      <4>2. CASE r = a
        <5>1. ReadProject(a)
          BY <1>3, <3>4, <4>2 DEF Handle, MemoryCreate, MemoryUpdate, MemoryDelete,
             MemoryConfigure, MemoryIndex, MemoryRoute, MemoryNewWorkflow, MemoryDropWorkflow,
             MemorySet, MemoryUnset, Statement, InsertProject, WriteProject, ListWorkflows,
             DeleteProject, CheckWorkflow, UpsertConfig, WriteDefault, UpsertIndex, Reload,
             ChooseConfig, GetConfig, InsertWorkflow, DropWorkflow, WriteKey, RemoveKey,
             EachKey, RequestFails, Goto, End, Proceed, Done, Refused, IInv, TypeOK
        <5>2. Kind(a) = "update" /\ db.project # Nothing /\ copy'[a] = db.project
          BY <3>4, <4>2, <5>1
             DEF ReadProject, AfterRead, Goto, End, Proceed, IInv, TypeOK
        <5> QED BY <3>1, <3>2, <4>2, <5>2
      <4> QED BY <4>1, <4>2
    <3> QED BY <3>3, <3>4
  <2>4. ASSUME NEW q \in Of("update")', outcome'[q] = "ok", NEW k \in ask'[q].keys
        PROVE  /\ db'.project # Nothing => db'.project.settings[k] = q \/ Excused(q, k)'
               /\ \A r \in Requests : pc'[r] = "write" /\ q \in after'[r] =>
                    copy'[r].settings[k] = q \/ Excused(q, k)'
    <3>1. q \in Of("update") /\ k \in ask[q].keys
      BY <2>1, <2>4 DEF Of, Kind
    <3>2. CASE q = a
      BY <1>1, <2>1, <2>2, <2>4, <3>1, <3>2 DEF Of
    <3>3. CASE q # a
      BY <1>1, <2>3, <2>4, <3>1, <3>3 DEF Of
    <3> QED BY <3>2, <3>3
  <2> QED BY <2>4 DEF Settled
<1> QED BY <1>2, <1>3

\* What a step does to a context value.
LEMMA ContextStep ==
  ASSUME IInv, NEW a \in Requests, Kinded(a), Receive(a) \/ Handle(a) \/ Statement(a),
         NEW k \in Keys
  PROVE  \/ db'.context[k] = db.context[k]
         \/ Kind(a) \in {"set", "unset"} /\ k \in ask[a].keys /\ pc[a] # "off"
         \/ Kind(a) = "delete" /\ backend = "memory" /\ pc[a] # "off"
<1>1. db \in Databases /\ db.context \in [Keys -> Values]
  BY DEF IInv, TypeOK, Databases
<1> USE DEF Done, Refused, At, Kind
<1>2. CASE Handle(a)
  <2>1. pc[a] = "handle" /\ backend = "memory"
    BY <1>2 DEF Handle, IInv, Placed
  <2>2. CASE MemoryCreate(a) \/ MemoryUpdate(a) \/ MemoryIndex(a) \/ MemoryRoute(a)
             \/ MemoryNewWorkflow(a) \/ MemoryDropWorkflow(a)
    BY <1>1, <2>2 DEF MemoryCreate, MemoryUpdate, MemoryIndex, MemoryRoute, MemoryNewWorkflow,
       MemoryDropWorkflow, Databases
  <2>3. CASE MemoryConfigure(a)
    <3> DEFINE new == [db EXCEPT !.configs = @ \cup {ask[a].id}]
    <3>1. new.context = db.context /\ DOMAIN new = DOMAIN db
      BY <1>1 DEF Databases
    <3>2. \/ db' = db \/ db' = new
          \/ db' = [new EXCEPT !.project.default = ask[a].id, !.project.by = a]
      BY <2>3 DEF MemoryConfigure
    <3> HIDE DEF new
    <3> QED BY <1>1, <3>1, <3>2 DEF Databases
  <2>4. CASE MemoryDelete(a)
    BY <2>1, <2>4 DEF MemoryDelete
  <2>5. CASE MemorySet(a)
    BY <1>1, <2>1, <2>5 DEF MemorySet, Databases, Merged
  <2>6. CASE MemoryUnset(a)
    BY <1>1, <2>1, <2>6 DEF MemoryUnset, Databases
  <2> QED BY <1>2, <2>2, <2>3, <2>4, <2>5, <2>6 DEF Handle
<1>3. CASE WriteKey(a) \/ RemoveKey(a)
  <2>1. PICK l \in todo[a] : \E v : db' = [db EXCEPT !.context[l] = v]
    BY <1>3 DEF WriteKey, RemoveKey
  <2>2. /\ Kind(a) \in {"set", "unset"} /\ pc[a] # "off" /\ l \in ask[a].keys
    BY <1>3, <2>1 DEF WriteKey, RemoveKey, Kinded
  <2>3. CASE k # l
    BY <1>1, <2>1, <2>3 DEF Databases
  <2> QED BY <2>2, <2>3
<1>4. CASE InsertProject(a) \/ WriteProject(a) \/ DeleteProject(a) \/ UpsertConfig(a)
           \/ WriteDefault(a) \/ UpsertIndex(a) \/ InsertWorkflow(a) \/ DropWorkflow(a)
  BY <1>1, <1>4 DEF InsertProject, WriteProject, DeleteProject, UpsertConfig, WriteDefault,
     UpsertIndex, InsertWorkflow, DropWorkflow, Databases
<1>5. CASE db' = db
  BY <1>5
<1> QED BY <1>2, <1>3, <1>4, <1>5
     DEF Receive, Statement, ReadProject, ListWorkflows, CheckWorkflow, Reload, ChooseConfig,
         GetConfig, RequestFails

LEMMA NotedStep ==
  ASSUME IInv, NEW a \in Requests, \A r \in Requests : Kinded(r), Noted,
         Receive(a) \/ Handle(a) \/ Statement(a)
  PROVE  Noted'
<1> DEFINE Wrote(q, k) == outcome[q] = "ok" \/ (pc[q] \in {"each", "reload"} /\ k \notin todo[q])
<1>1. /\ pc[a] # "done" /\ outcome[a] = "none"
      /\ \A r \in Requests \ {a} : /\ pc'[r] = pc[r] /\ ask'[r] = ask[r] /\ todo'[r] = todo[r]
                                   /\ after'[r] = after[r] /\ outcome'[r] = outcome[r]
      /\ \A r \in Requests : ask[r] # Nothing => ask'[r] = ask[r]
  BY Others, Steady DEF Kinded
<1>2. ASSUME NEW q \in Requests, q # a, ask[q] # Nothing, Kind(q) \in {"set", "unset"},
             NEW k \in ask[q].keys, Wrote(q, k)
      PROVE  (db.context[k] = Value(q) \/ Overwritten(q, k))'
  <2>1. db.context[k] = Value(q) \/ Overwritten(q, k)
    BY <1>2 DEF Noted, Of
  <2>2. Overwritten(q, k) => Overwritten(q, k)'
    BY <1>2, ExcusesStay
  <2>3. k \in Keys /\ Value(q)' = Value(q)
    BY <1>1, <1>2, InHand DEF Value, Kind, IInv, TypeOK
  <2>4. CASE db'.context[k] = db.context[k]
    BY <2>1, <2>2, <2>3, <2>4
  <2>5. CASE /\ pc[a] # "off"
             /\ \/ Kind(a) \in {"set", "unset"} /\ k \in ask[a].keys
                \/ Kind(a) = "delete" /\ backend = "memory"
    <3>1. ask[a] # Nothing /\ ask'[a] = ask[a] /\ backend' = backend
      BY <1>1, <2>5, Others DEF IInv, TypeOK
    <3>2. a \notin after'[q]
      BY <1>1, <1>2, NotOver
    <3>3. a \in NotBefore(q)'
      BY <1>2, <3>1, <3>2 DEF NotBefore
    <3> QED BY <2>5, <3>1, <3>3 DEF Overwritten, Kind
  <2> QED BY <2>3, <2>4, <2>5, ContextStep
<1>3. ASSUME ask[a] # Nothing, Kind(a) \in {"set", "unset"}, NEW k \in ask[a].keys, Wrote(a, k)'
      PROVE  (db.context[k] = Value(a) \/ Overwritten(a, k))'
  <2>1. ~Receive(a) /\ ask' = ask /\ k \in Keys /\ Value(a)' = Value(a) /\ pc[a] # "off"
    <3>1. pc[a] # "off"
      BY <1>3 DEF IInv, TypeOK
    <3>2. ~Receive(a)
      BY <3>1 DEF Receive, At
    <3>3. ask' = ask
      BY <3>2, Others
    <3>4. Value(a)' = Value(a)
      BY <3>3 DEF Value, Kind
    <3>5. k \in Keys
      BY <1>3, <3>1, InHand
    <3> QED BY <3>1, <3>2, <3>3, <3>4, <3>5
  <2>2. Overwritten(a, k) => Overwritten(a, k)'
    BY <1>3, ExcusesStay
  <2>3. db \in Databases
    BY DEF IInv, TypeOK
  <2>4. CASE Handle(a)
    <3>1. MemorySet(a) \/ MemoryUnset(a)
      BY <1>3, <2>4 DEF Handle, MemoryCreate, MemoryUpdate, MemoryDelete, MemoryConfigure,
         MemoryIndex, MemoryRoute, MemoryNewWorkflow, MemoryDropWorkflow
    <3>2. db'.context[k] = Value(a)
      <4>1. CASE MemorySet(a)
        BY <1>3, <2>1, <2>3, <4>1 DEF MemorySet, Done, Databases, Value, Merged
      <4>2. CASE MemoryUnset(a)
        BY <1>3, <2>1, <2>3, <4>2 DEF MemoryUnset, Done, Databases, Value
      <4> QED BY <3>1, <4>1, <4>2
    <3> QED BY <2>1, <3>2
  <2>5. CASE Reload(a)
    <3>1. pc[a] = "reload" /\ db' = db
      BY <2>5 DEF Reload, At
    <3>2. Wrote(a, k)
      BY <1>3, <3>1 DEF Kinded
    <3> QED BY <1>3, <2>1, <2>2, <3>1, <3>2 DEF Noted, Of
  <2>6. CASE WriteKey(a) \/ RemoveKey(a)
    <3>1. PICK l \in todo[a] :
            /\ db' = [db EXCEPT !.context[l] = Value(a)]
            /\ todo' = [todo EXCEPT ![a] = @ \ {l}] /\ pc[a] = "each"
      BY <2>6 DEF WriteKey, RemoveKey, EachKey, At, Value
    <3>2. l \in Keys
      BY <3>1 DEF IInv, TypeOK
    <3>3. CASE k = l
      BY <2>1, <2>3, <3>1, <3>2, <3>3 DEF Databases
    <3>4. CASE k # l
      <4>1. db'.context[k] = db.context[k]
        BY <2>1, <2>3, <3>1, <3>2, <3>4 DEF Databases
      <4>2. pc[a] \in {"each", "reload"} /\ k \notin todo[a]
        <5>1. outcome'[a] # "ok"
          BY <1>1, <2>6 DEF WriteKey, RemoveKey, EachKey
        <5>2. k \notin todo'[a]
          BY <1>3, <5>1
        <5> QED BY <3>1, <3>4, <5>2 DEF IInv, TypeOK
      <4> QED BY <1>3, <2>1, <2>2, <4>1, <4>2 DEF Noted, Of
    <3> QED BY <3>3, <3>4
  <2>7. CASE ~(Handle(a) \/ Reload(a) \/ WriteKey(a) \/ RemoveKey(a))
    <3>1. outcome'[a] # "ok" /\ pc'[a] \notin {"each", "reload"}
      BY <1>1, <1>3, <2>1, <2>7 DEF Statement, InsertProject, ReadProject, WriteProject,
         ListWorkflows, DeleteProject, CheckWorkflow, UpsertConfig, WriteDefault, UpsertIndex,
         ChooseConfig, GetConfig, InsertWorkflow, DropWorkflow, RequestFails, Goto, End, Proceed,
         Done, Refused, At, AfterRead, IInv, TypeOK, Kinded, Placed, Kind
    <3> QED BY <1>3, <3>1
  <2> QED BY <2>4, <2>5, <2>6, <2>7
<1>4. ASSUME ask[a] = Nothing, ask'[a] # Nothing, Kind(a)' \in {"set", "unset"},
             NEW k \in ask'[a].keys
      PROVE  ~Wrote(a, k)'
  <2>1. PICK asked \in Asking :
          /\ ask' = [ask EXCEPT ![a] = asked]
          /\ todo' = [todo EXCEPT ![a] = IF asked.kind \in {"set", "unset"} THEN asked.keys ELSE {}]
    BY <1>4, Others DEF Receive
  <2>2. todo'[a] = ask'[a].keys
    BY <1>4, <2>1 DEF IInv, TypeOK, Kind
  <2>3. outcome'[a] # "ok"
    BY <1>1, <1>4, Others
  <2> QED BY <1>4, <2>2, <2>3
<1>5. ASSUME NEW q \in Of("set")' \cup Of("unset")', NEW k \in ask'[q].keys, Wrote(q, k)'
      PROVE  (db.context[k] = Value(q) \/ Overwritten(q, k))'
  <2>1. q \in Requests /\ ask'[q] # Nothing /\ Kind(q)' \in {"set", "unset"}
    BY <1>5 DEF Of
  <2>2. CASE q # a
    <3>1. ask'[q] = ask[q] /\ Wrote(q, k)
      BY <1>1, <1>5, <2>1, <2>2
    <3> QED BY <1>2, <1>5, <2>1, <2>2, <3>1 DEF Kind
  <2>3. CASE q = a /\ ask[a] # Nothing
    <3>1. ask'[a] = ask[a]
      BY <1>1, <2>3
    <3> QED BY <1>3, <1>5, <2>1, <2>3, <3>1 DEF Kind
  <2>4. CASE q = a /\ ask[a] = Nothing
    BY <1>4, <1>5, <2>1, <2>4
  <2> QED BY <2>2, <2>3, <2>4
<1> QED BY <1>5 DEF Noted

\* The inductive invariants together.
Registered == IInv /\ (\A q \in Requests : Kinded(q)) /\ Chosen /\ Settled /\ Noted

LEMMA RegisteredAlways == Spec => []Registered
<1>1. Init => Registered
  <2> SUFFICES ASSUME Init PROVE Registered
    OBVIOUS
  <2>1. IInv
    BY InitIInv
  <2>2. \A q \in Requests : ask[q] = Nothing /\ pc[q] = "off" /\ outcome[q] = "none" /\ todo[q] = {}
    BY DEF Init
  <2>3. db.project # Nothing => db.project.default \in db.configs
    BY DEF Init
  <2> QED BY <2>1, <2>2, <2>3 DEF Registered, Kinded, Chosen, Settled, Noted, Of
<1>2. Registered /\ [Next]_vars => Registered'
  <2> SUFFICES ASSUME Registered, [Next]_vars PROVE Registered'
    OBVIOUS
  <2>1. ASSUME NEW q \in Requests, Receive(q) \/ Handle(q) \/ Statement(q) PROVE Registered'
    <3>1. IInv'
      BY <2>1, NextIInv DEF Registered, Next
    <3> QED BY <2>1, <3>1, KindedStep, ChosenStep, SettledStep, NotedStep DEF Registered
  <2>2. CASE UNCHANGED vars
    <3>1. IInv'
      BY NextIInv DEF Registered
    <3> QED BY <2>2, <3>1 DEF Registered, vars, locals, Kinded, Chosen, Settled, Noted, Of, Kind,
               Crossed, Met, Excused, Overwritten, NotBefore, Value
  <2> QED BY <2>1, <2>2 DEF Next
<1> QED BY <1>1, <1>2, PTL DEF Spec

\* A project's default orchestrator is configured, whatever statements fail or interleave,
\* unless it is a new project's, or the project was deleted and created again while the
\* orchestrator was upserted (upsert_project_orchestrator).
THEOREM DefaultStays == Spec => []DefaultIsConfigured
<1>1. Registered => DefaultIsConfigured
  BY RegistryAssumption
     DEF Registered, Chosen, DefaultIsConfigured, Unchecked, Crossed, Met, Overlap
<1> QED BY <1>1, RegisteredAlways, PTL

\* An accepted setting or context value is there until a later request replaces it: a
\* setting is lost only to a patch at the same time, which writes back all it has read
\* (update_project), a context value to nothing, as each key is written on its own.
THEOREM NothingAcceptedIsLost == Spec => []AcceptedIsKept
<1>1. Registered => SettingsAreKept
  <2> SUFFICES ASSUME Registered, NEW q \in Of("update"), outcome[q] = "ok", db.project # Nothing,
                      NEW k \in ask[q].keys, db.project.settings[k] # q
               PROVE  \E r \in NotBefore(q) :
                        \/ Kind(r) = "create"
                        \/ Kind(r) = "update" /\ (k \in ask[r].keys \/ Overlap(q, r))
    BY DEF SettingsAreKept
  <2>1. Excused(q, k)
    BY DEF Registered, Settled
  <2> QED BY <2>1 DEF Excused, Overlap, NotBefore
<1>2. Registered => ContextIsKept
  BY DEF Registered, Noted, ContextIsKept, Overwritten, Value
<1> QED BY <1>1, <1>2, RegisteredAlways, PTL DEF AcceptedIsKept

=============================================================================
