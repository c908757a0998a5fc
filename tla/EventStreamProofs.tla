-------------------------- MODULE EventStreamProofs --------------------------
(***************************************************************************)
(* Theorems about EventStream, for any number of requests and clients:     *)
(* dense sequences, the ledger that keeps every event, and a replay that   *)
(* gives each client every event once.                                     *)
(***************************************************************************)
EXTENDS EventStream, FiniteSetTheorems, SequenceTheorems, TLAPS

Numbers == {r.sequence : r \in rows}

PublisherTypeOK ==
  /\ run \in {"new", "stored", "deleted"}
  /\ rows \subseteq [event : Events, sequence : Nat \ {0}]
  /\ lock \in Publishers \cup {NoPublisher}
  /\ at \in [Publishers -> PublisherSteps]
  /\ appended \in [Publishers -> Nat]
  /\ maxRead \in [Publishers -> Nat]

\* A transaction that has read the maximum, or is about to, holds the lock.
LockIsHeld == \A p \in Publishers : at[p] \in {"read", "insert"} => lock = p

\* What the transaction has read is still the maximum when it inserts, unless the run has
\* gone meanwhile: then nothing can be inserted.
Gone         == InDatabase /\ run = "deleted"
MaxIsCurrent == \A p \in Publishers : at[p] = "insert" => Gone \/ maxRead[p] = MaxSequence

Unique  == \A r, q \in rows : r.sequence = q.sequence => r = q
Initial == \E n \in Nat : Numbers = 1 .. n

IInv == PublisherTypeOK /\ LockIsHeld /\ MaxIsCurrent /\ Unique /\ Initial

-----------------------------------------------------------------------------
\* coalesce(max(sequence), 0) is the length of the log.
LEMMA MaxIsLength ==
  ASSUME NEW n \in Nat, Numbers = 1 .. n
  PROVE  MaxSequence = n
  <1>1. CASE n = 0
    <2>1. rows = {}
      BY <1>1 DEF Numbers
    <2> QED BY <1>1, <2>1 DEF MaxSequence
  <1>2. CASE n > 0
    <2>1. n \in Numbers /\ rows # {}
      BY <1>2 DEF Numbers
    <2>2. \A r \in rows : r.sequence <= n
      BY DEF Numbers
    <2>3. \A m \in Numbers : (\A r \in rows : r.sequence <= m) => m = n
      <3> SUFFICES ASSUME NEW m \in Numbers, \A r \in rows : r.sequence <= m
                   PROVE  m = n
        OBVIOUS
      <3>1. PICK q \in rows : q.sequence = n
        BY <2>1 DEF Numbers
      <3>2. n <= m
        BY <3>1
      <3> QED BY <3>2
    <2>4. MaxSequence = CHOOSE m \in Numbers : \A r \in rows : r.sequence <= m
      BY <2>1 DEF MaxSequence, Numbers
    <2> QED BY <2>1, <2>2, <2>3, <2>4
  <1> QED BY <1>1, <1>2

\* A run starts with an empty log.
LEMMA InitEstablishes == Init => IInv
  <1> SUFFICES ASSUME Init PROVE IInv
    OBVIOUS
  <1>1. PublisherTypeOK
    BY PublisherAssumption DEF Init, PublisherTypeOK, PublisherSteps
  <1>2. LockIsHeld /\ MaxIsCurrent /\ Unique
    BY DEF Init, LockIsHeld, MaxIsCurrent, Unique
  <1>3. Numbers = 1 .. 0
    BY DEF Init, Numbers
  <1> QED BY <1>1, <1>2, <1>3 DEF IInv, Initial

\* Nothing but InsertEvent and the deletion of the run changes the table.
LEMMA TableUnchanged ==
  ASSUME IInv, rows' = rows
  PROVE  Unique' /\ Initial' /\ MaxSequence' = MaxSequence
  BY DEF IInv, Unique, Initial, Numbers, MaxSequence

\* The insertion extends the log by its next number.
LEMMA InsertExtends ==
  ASSUME IInv, NEW p \in Publishers, InsertEvent(p)
  PROVE  Unique' /\ Initial'
  <1> DEFINE row == [event |-> <<p, appended[p] + 1>>, sequence |-> maxRead[p] + 1]
  <1>1. PICK n \in Nat : Numbers = 1 .. n
    BY DEF IInv, Initial
  <1>2. maxRead[p] = n
    BY <1>1, MaxIsLength DEF InsertEvent, Accepts, Gone, IInv, MaxIsCurrent
  <1>3. rows' = rows \cup {row} /\ row.sequence = n + 1
    BY <1>2 DEF InsertEvent
  <1>4. \A r \in rows : r.sequence \in 1 .. n
    BY <1>1 DEF Numbers
  <1>5. Unique'
    <2>1. \A r \in rows : r.sequence # n + 1
      BY <1>4
    <2> QED BY <2>1, <1>3 DEF Unique, IInv
  <1>6. Numbers' = Numbers \cup {n + 1}
    BY <1>3 DEF Numbers
  <1>7. Numbers' = 1 .. n + 1
    BY <1>6, <1>1
  <1> QED BY <1>5, <1>7 DEF Initial

\* The maximum is a natural number.
LEMMA MaxType == IInv => MaxSequence \in Nat
  BY MaxIsLength DEF IInv, Initial

\* When the run is deleted the table is emptied or stays as it is.
LEMMA DeletionKeeps == IInv /\ DeleteRun => IInv'
  <1> SUFFICES ASSUME IInv, DeleteRun PROVE IInv'
    OBVIOUS
  <1>1. /\ run' = "deleted" /\ UNCHANGED <<lock, at, appended, maxRead>>
        /\ IF InDatabase THEN rows' = {} ELSE rows' = rows
    BY DEF DeleteRun
  <1>2. PublisherTypeOK' /\ LockIsHeld'
    BY <1>1 DEF IInv, PublisherTypeOK, LockIsHeld
  <1>3. CASE InDatabase
    <2>1. Numbers' = 1 .. 0
      BY <1>1, <1>3 DEF Numbers
    <2>2. Unique' /\ Initial'
      BY <1>1, <1>3, <2>1 DEF Unique, Initial
    <2>3. MaxIsCurrent'
      BY <1>1, <1>3 DEF MaxIsCurrent, Gone
    <2> QED BY <1>2, <2>2, <2>3 DEF IInv
  <1>4. CASE ~InDatabase
    <2>1. rows' = rows
      BY <1>1, <1>4
    <2>2. MaxIsCurrent'
      BY <1>1, <1>4, <2>1, TableUnchanged DEF IInv, MaxIsCurrent, Gone
    <2> QED BY <1>2, <2>1, <2>2, TableUnchanged DEF IInv
  <1> QED BY <1>3, <1>4

\* Every step of a request or of a client keeps the invariant.
LEMMA StepPreserves == IInv /\ [Next]_vars => IInv'
  <1> SUFFICES ASSUME IInv, [Next]_vars PROVE IInv'
    OBVIOUS
  <1> USE DEF PublisherSteps, Goto, Gone
  <1>1. ASSUME UNCHANGED pubVars
        PROVE  IInv'
    <2>1. run' = run /\ rows' = rows /\ lock' = lock /\ at' = at /\ appended' = appended
          /\ maxRead' = maxRead
      BY <1>1 DEF pubVars
    <2>2. Unique' /\ Initial' /\ MaxSequence' = MaxSequence
      BY <2>1, TableUnchanged
    <2> QED BY <2>1, <2>2 DEF IInv, PublisherTypeOK, LockIsHeld, MaxIsCurrent
  <1>2. ASSUME NEW p \in Publishers, GetRun(p) \/ Publish(p) \/ PublishFails(p)
        PROVE  IInv'
    <2>0. CASE GetRun(p) \/ PersistRun(p) \/ WriteLedger(p)
      <3>0. at'[p] \notin {"read", "insert"} /\ \A q \in Publishers \ {p} : at'[q] = at[q]
        BY <2>0 DEF GetRun, PersistRun, WriteLedger, AppendEntries, AfterHooks, PublishStep, IInv,
           PublisherTypeOK
      <3>1. /\ rows' = rows /\ lock' = lock /\ appended' = appended /\ maxRead' = maxRead
            /\ run' \in {"new", "stored", "deleted"} /\ (run = "deleted" => run' = "deleted")
        BY <2>0 DEF GetRun, PersistRun, WriteLedger, AppendEntries, IInv, PublisherTypeOK
      <3>2. PublisherTypeOK'
        <4>1. at' \in [Publishers -> PublisherSteps]
          BY <2>0 DEF GetRun, PersistRun, WriteLedger, AfterHooks, PublishStep, IInv,
             PublisherTypeOK
        <4> QED BY <3>1, <4>1 DEF IInv, PublisherTypeOK
      <3>3. LockIsHeld'
        BY <3>0, <3>1 DEF IInv, LockIsHeld
      <3>4. MaxIsCurrent'
        BY <3>0, <3>1, TableUnchanged DEF IInv, MaxIsCurrent
      <3> QED BY <3>1, <3>2, <3>3, <3>4, TableUnchanged DEF IInv
    <2>1. CASE AcquireLock(p)
      <3>1. rows' = rows
        BY <2>1 DEF AcquireLock
      <3>2. PublisherTypeOK' /\ LockIsHeld'
        BY <2>1, PublisherAssumption
        DEF AcquireLock, IInv, PublisherTypeOK, LockIsHeld
      <3>3. MaxIsCurrent'
        BY <2>1, <3>1, TableUnchanged DEF AcquireLock, IInv, PublisherTypeOK, MaxIsCurrent
      <3> QED BY <3>1, <3>2, <3>3, TableUnchanged DEF IInv
    <2>2. CASE ReadMax(p)
      <3>1. rows' = rows
        BY <2>2 DEF ReadMax
      <3>2. PublisherTypeOK'
        BY <2>2, MaxType DEF ReadMax, IInv, PublisherTypeOK
      <3>3. LockIsHeld'
        BY <2>2 DEF ReadMax, IInv, PublisherTypeOK, LockIsHeld
      <3>4. MaxIsCurrent'
        BY <2>2, <3>1, TableUnchanged DEF ReadMax, IInv, PublisherTypeOK, MaxIsCurrent
      <3> QED BY <3>1, <3>2, <3>3, <3>4, TableUnchanged DEF IInv
    <2>3. CASE InsertEvent(p)
      <3>1. PublisherTypeOK'
        BY <2>3 DEF InsertEvent, IInv, PublisherTypeOK, Events
      <3>2. \A q \in Publishers : at'[q] \notin {"read", "insert"}
        BY <2>3 DEF InsertEvent, IInv, PublisherTypeOK, LockIsHeld
      <3>3. LockIsHeld' /\ MaxIsCurrent'
        BY <3>2 DEF LockIsHeld, MaxIsCurrent
      <3> QED BY <2>3, <3>1, <3>3, InsertExtends DEF IInv
    <2>4. CASE PublishToBus(p)
      <3>1. rows' = rows
        BY <2>4 DEF PublishToBus, AfterBus
      <3>2. PublisherTypeOK' /\ LockIsHeld'
        BY <2>4 DEF PublishToBus, AfterBus, IInv, PublisherTypeOK, LockIsHeld
      <3>3. MaxIsCurrent'
        BY <2>4, <3>1, TableUnchanged
        DEF PublishToBus, AfterBus, IInv, PublisherTypeOK, MaxIsCurrent
      <3> QED BY <3>1, <3>2, <3>3, TableUnchanged DEF IInv
    <2>5. CASE ReadLastEvent(p)
      <3>1. rows' = rows
        BY <2>5 DEF ReadLastEvent
      <3>2. PublisherTypeOK'
        BY <2>5, MaxType DEF ReadLastEvent, IInv, PublisherTypeOK
      <3>3. LockIsHeld'
        BY <2>5 DEF ReadLastEvent, IInv, PublisherTypeOK, LockIsHeld
      <3>4. MaxIsCurrent'
        BY <2>5, <3>1, TableUnchanged DEF ReadLastEvent, IInv, PublisherTypeOK, MaxIsCurrent
      <3> QED BY <3>1, <3>2, <3>3, <3>4, TableUnchanged DEF IInv
    <2>6. CASE SetSnapshot(p)
      <3>1. rows' = rows
        BY <2>6 DEF SetSnapshot
      <3>2. PublisherTypeOK' /\ LockIsHeld'
        BY <2>6 DEF SetSnapshot, AfterPublish, IInv, PublisherTypeOK, LockIsHeld
      <3>3. MaxIsCurrent'
        BY <2>6, <3>1, TableUnchanged DEF SetSnapshot, AfterPublish, IInv, PublisherTypeOK,
            MaxIsCurrent
      <3> QED BY <3>1, <3>2, <3>3, TableUnchanged DEF IInv
    <2>7. CASE PublishFails(p)
      <3>1. rows' = rows
        BY <2>7 DEF PublishFails
      <3>2. PublisherTypeOK' /\ LockIsHeld'
        BY <2>7 DEF PublishFails, IInv, PublisherTypeOK, LockIsHeld
      <3>3. MaxIsCurrent'
        BY <2>7, <3>1, TableUnchanged DEF PublishFails, IInv, PublisherTypeOK, MaxIsCurrent
      <3> QED BY <3>1, <3>2, <3>3, TableUnchanged DEF IInv
    <2> QED BY <1>2, <2>0, <2>1, <2>2, <2>3, <2>4, <2>5, <2>6, <2>7 DEF Publish
  <1>3. ASSUME NEW c \in Clients, Stream(c) \/ Connect(c) \/ Disconnect(c)
        PROVE  UNCHANGED pubVars
    BY <1>3
    DEF Stream, Connect, Disconnect, SendSnapshot, ReadReplay, SendReplayed, Subscribe,
        SendLive
  <1> QED BY <1>1, <1>2, <1>3, DeletionKeeps DEF Next, vars

\* The sequences of a run number its events without a gap and without a
\* collision, however many requests append at the same time and fail.
THEOREM DenseSequences == Spec => []SequencesAreDense
  <1>1. Spec => []IInv
    BY InitEstablishes, StepPreserves, PTL DEF Spec
  <1>2. IInv => SequencesAreDense
    <2> SUFFICES ASSUME IInv PROVE SequencesAreDense
      OBVIOUS
    <2>1. PICK n \in Nat : Numbers = 1 .. n
      BY DEF IInv, Initial
    <2>2. ASSUME NEW r \in rows, NEW m \in 1 .. r.sequence
          PROVE  \E q \in rows : q.sequence = m
      <3>1. r.sequence \in 1 .. n
        BY <2>1 DEF Numbers
      <3>2. m \in Numbers
        BY <3>1, <2>1
      <3> QED BY <3>2 DEF Numbers
    <2> QED BY <2>2 DEF SequencesAreDense, IInv, Unique
  <1> QED BY <1>1, <1>2, PTL
-----------------------------------------------------------------------------
(* The ledger.                                                             *)

\* The ledger has the event, or it is of a cancellation that is not over or has failed.
Kept(e) == e \in ledger \/ (e[1] \in Cancels /\ at[e[1]] # "done")

Published == Stored \cup onBus

\* Every request publishes the events that it has entries of.
OwnEvents == \A e \in Published : e[1] \in Publishers /\ e \in Entries(e[1])

\* How far a request is with its events.
Progress ==
  \A p \in Publishers :
    /\ at[p] = "off" => p \in Cancels
    /\ at[p] = "off" \/ (p \notin Cancels /\ at[p] \in {"persist", "ledger"}) => appended[p] = 0
    /\ at[p] \in {"lock", "read", "insert"} => appended[p] < Count[p]
    /\ at[p] = "bus" => appended[p] \in 1 .. Count[p]

\* But for cancellations the ledger is written before anything is published.
LedgerFirst ==
  run # "deleted" =>
    \A p \in Publishers \ Cancels :
      at[p] \in {"lock", "read", "insert", "bus"} => Entries(p) \subseteq ledger

AllKept == run # "deleted" => \A e \in Published : Kept(e)

NothingLeft == run = "deleted" => ledger = {} /\ (InDatabase => rows = {})

LInv == OwnEvents /\ Progress /\ LedgerFirst /\ AllKept /\ NothingLeft

LEMMA InitLInv == Init => LInv
  <1> SUFFICES ASSUME Init PROVE LInv
    OBVIOUS
  <1>1. Published = {}
    BY DEF Init, Published, Stored
  <1>2. Progress /\ LedgerFirst /\ NothingLeft
    BY PublisherAssumption DEF Init, Progress, LedgerFirst, NothingLeft
  <1> QED BY <1>1, <1>2 DEF LInv, OwnEvents, AllKept

\* A step that moves one request on, publishes nothing and forgets nothing.
LEMMA QuietStep ==
  ASSUME IInv, LInv, NEW p \in Publishers, at[p] # "done",
         NEW step \in PublisherSteps \ {"off"}, at' = [at EXCEPT ![p] = step],
         UNCHANGED <<rows, onBus, appended>>, ledger \subseteq ledger', run' # "new" \/ run = "new",
         run' = "deleted" <=> run = "deleted", run = "deleted" => ledger' = ledger,
         step = "done" /\ p \in Cancels => run = "deleted" \/ Entries(p) \subseteq ledger',
         step \in {"lock", "read", "insert"} => appended[p] < Count[p],
         step = "bus" => appended[p] \in 1 .. Count[p],
         p \notin Cancels /\ step \in {"persist", "ledger"} => appended[p] = 0,
         p \notin Cancels /\ step \in {"lock", "read", "insert", "bus"} /\ run # "deleted"
           => Entries(p) \subseteq ledger'
  PROVE  LInv'
  <1>1. at \in [Publishers -> PublisherSteps]
    BY DEF IInv, PublisherTypeOK
  <1>2. at'[p] = step /\ \A q \in Publishers : q # p => at'[q] = at[q]
    BY <1>1
  <1>3. Published' = Published /\ \A q : Entries(q)' = Entries(q)
    BY DEF Published, Stored, Entries
  <1>4. OwnEvents'
    BY <1>3 DEF LInv, OwnEvents
  <1>5. Progress'
    BY <1>2 DEF LInv, Progress
  <1>6. LedgerFirst'
    BY <1>2, <1>3 DEF LInv, LedgerFirst
  <1>7. AllKept'
    <2> SUFFICES ASSUME run' # "deleted", NEW e \in Published PROVE Kept(e)'
      BY <1>3 DEF AllKept
    <2>1. Kept(e) /\ e[1] \in Publishers /\ e \in Entries(e[1])
      BY DEF LInv, OwnEvents, AllKept
    <2> QED BY <1>2, <2>1 DEF Kept
  <1>8. NothingLeft'
    BY DEF LInv, NothingLeft
  <1> QED BY <1>4, <1>5, <1>6, <1>7, <1>8 DEF LInv

\* An event is appended or put on the bus by a request that has an entry for it.
LEMMA PublishingStep ==
  ASSUME IInv, LInv, NEW p \in Publishers, InsertEvent(p) \/ PublishToBus(p)
  PROVE  LInv'
  <1> DEFINE e == IF InsertEvent(p) THEN <<p, appended[p] + 1>> ELSE <<p, appended[p]>>
  <1>0. /\ at \in [Publishers -> PublisherSteps] /\ appended \in [Publishers -> Nat]
        /\ Count \in [Publishers -> Nat]
    BY PublisherAssumption DEF IInv, PublisherTypeOK
  <1>1. /\ UNCHANGED <<run, ledger>> /\ at[p] \in {"insert", "bus"}
        /\ \A q \in Publishers : q # p => at'[q] = at[q] /\ appended'[q] = appended[q]
    BY <1>0 DEF InsertEvent, PublishToBus, AfterBus, Goto
  <1>2. /\ Published' = Published \cup {e}
        /\ \A q : Entries(q)' = Entries(q)
    <2>1. CASE InsertEvent(p)
      <3> DEFINE new == [event |-> e, sequence |-> maxRead[p] + 1]
      <3>1. rows' = rows \cup {new} /\ onBus' = onBus
        BY <2>1 DEF InsertEvent
      <3>2. new.event = e
        OBVIOUS
      <3> HIDE DEF new, e
      <3>3. Stored' = Stored \cup {e}
        BY <3>1, <3>2 DEF Stored
      <3> QED BY <3>1, <3>3 DEF Published, Entries
    <2>2. CASE ~InsertEvent(p)
      BY <2>2 DEF PublishToBus, AfterBus, Published, Stored, Entries
    <2> QED BY <2>1, <2>2
  <1>3. e \in Entries(p) /\ e[1] = p
    BY <1>0 DEF InsertEvent, PublishToBus, LInv, Progress, Entries
  <1>4. /\ at'[p] \in {"bus", "lock", "snapshot"}
        /\ at'[p] = "bus" => appended'[p] \in 1 .. Count[p]
        /\ at'[p] = "lock" => appended'[p] < Count[p]
    BY <1>0 DEF InsertEvent, PublishToBus, AfterBus, Goto, LInv, Progress
  <1> HIDE DEF e
  <1>5. OwnEvents'
    BY <1>2, <1>3 DEF LInv, OwnEvents
  <1>6. Progress'
    BY <1>1, <1>4 DEF LInv, Progress
  <1>7. LedgerFirst'
    BY <1>1, <1>2, <1>4 DEF LInv, LedgerFirst
  <1>8. AllKept'
    <2> SUFFICES ASSUME run # "deleted", NEW d \in Published \cup {e} PROVE Kept(d)'
      BY <1>1, <1>2 DEF AllKept
    <2>1. CASE d[1] = p /\ p \in Cancels
      BY <1>4, <2>1 DEF Kept
    <2>2. CASE d = e /\ p \notin Cancels
      BY <1>1, <1>3, <2>2 DEF LInv, LedgerFirst, Kept
    <2>3. CASE d \in Published /\ (d[1] # p \/ p \notin Cancels)
      <3>1. Kept(d) /\ d[1] \in Publishers
        BY <2>3 DEF LInv, AllKept, OwnEvents
      <3> QED BY <1>1, <2>3, <3>1 DEF Kept
    <2> QED BY <1>3, <2>1, <2>2, <2>3
  <1>9. NothingLeft'
    BY <1>1 DEF LInv, NothingLeft, InsertEvent, PublishToBus, AfterBus, Accepts
  <1> QED BY <1>5, <1>6, <1>7, <1>8, <1>9 DEF LInv

LEMMA LedgerStep == IInv /\ LInv /\ [Next]_vars => LInv'
  <1> SUFFICES ASSUME IInv, LInv, [Next]_vars PROVE LInv'
    OBVIOUS
  <1>0. /\ at \in [Publishers -> PublisherSteps] /\ appended \in [Publishers -> Nat]
        /\ Count \in [Publishers -> Nat] /\ run \in {"new", "stored", "deleted"}
    BY PublisherAssumption DEF IInv, PublisherTypeOK
  <1>1. ASSUME UNCHANGED pubVars PROVE LInv'
    BY <1>1 DEF pubVars, LInv, OwnEvents, Progress, LedgerFirst, AllKept, NothingLeft, Published,
       Stored, Entries, Kept
  <1>2. ASSUME NEW p \in Publishers, GetRun(p) \/ Publish(p) \/ PublishFails(p) PROVE LInv'
    <2>1. CASE GetRun(p)
      <3>1. PublishStep(p) \in {"last", "lock"} /\ (PublishStep(p) = "lock" => 0 < Count[p])
        BY <1>0 DEF PublishStep
      <3>2. at[p] = "off" /\ run = "stored" /\ appended[p] = 0 /\ p \in Cancels
        BY <2>1 DEF GetRun, LInv, Progress
      <3> QED BY <2>1, <3>1, <3>2, QuietStep DEF GetRun, Goto, PublisherSteps
    <2>2. CASE PersistRun(p)
      <3> DEFINE step == IF Count[p] = 0 THEN AfterHooks(p) ELSE "ledger"
      <3>1. /\ step \in {"done", "last", "ledger"}
            /\ step = "done" /\ p \in Cancels => Entries(p) = {}
        BY <1>0 DEF AfterHooks, PublishStep, Entries
      <3>2. /\ at[p] = "persist" /\ at' = [at EXCEPT ![p] = step]
            /\ run # "deleted" /\ run' = "stored" /\ ledger' = ledger
            /\ UNCHANGED <<rows, onBus, appended>>
        BY <2>2 DEF PersistRun, Goto
      <3>3. p \notin Cancels => appended[p] = 0
        BY <3>2 DEF LInv, Progress
      <3> HIDE DEF step
      <3> QED BY <3>1, <3>2, <3>3, QuietStep DEF PublisherSteps
    <2>3. CASE WriteLedger(p)
      <3>1. /\ at[p] = "ledger" /\ at' = [at EXCEPT ![p] = AfterHooks(p)]
            /\ run = "stored" /\ run' = run /\ ledger' = ledger \cup Entries(p)
            /\ UNCHANGED <<rows, onBus, appended>>
        BY <2>3 DEF WriteLedger, AppendEntries, Goto
      <3>2. /\ AfterHooks(p) \in {"done", "last", "lock"}
            /\ AfterHooks(p) = "lock" => appended[p] < Count[p]
        BY <1>0, <3>1 DEF AfterHooks, PublishStep, LInv, Progress
      <3> QED BY <3>1, <3>2, QuietStep DEF PublisherSteps
    <2>4. CASE AcquireLock(p) \/ ReadMax(p)
      <3>1. PICK step \in {"read", "insert"} : at' = [at EXCEPT ![p] = step]
        BY <2>4 DEF AcquireLock, ReadMax, Goto
      <3>2. /\ at[p] \in {"lock", "read"}
            /\ UNCHANGED <<run, ledger, rows, onBus, appended>>
        BY <2>4 DEF AcquireLock, ReadMax
      <3>3. /\ appended[p] < Count[p]
            /\ p \notin Cancels /\ run # "deleted" => Entries(p) \subseteq ledger
        BY <3>2 DEF LInv, Progress, LedgerFirst
      <3> QED BY <3>1, <3>2, <3>3, QuietStep DEF PublisherSteps
    <2>5. CASE InsertEvent(p) \/ PublishToBus(p)
      BY <2>5, PublishingStep
    <2>6. CASE ReadLastEvent(p)
      BY <2>6, QuietStep DEF ReadLastEvent, Goto, PublisherSteps
    <2>7. CASE SetSnapshot(p)
      <3>1. AfterPublish(p) = IF p \in Cancels THEN "persist" ELSE "done"
        BY DEF AfterPublish
      <3> QED BY <2>7, <3>1, QuietStep DEF SetSnapshot, Goto, PublisherSteps
    <2>8. CASE PublishFails(p)
      BY <2>8, QuietStep DEF PublishFails, Goto, PublisherSteps
    <2> QED BY <1>2, <2>1, <2>2, <2>3, <2>4, <2>5, <2>6, <2>7, <2>8 DEF Publish
  <1>3. ASSUME NEW c \in Clients, Stream(c) \/ Connect(c) \/ Disconnect(c)
        PROVE  UNCHANGED pubVars
    BY <1>3
    DEF Stream, Connect, Disconnect, SendSnapshot, ReadReplay, SendReplayed, Subscribe,
        SendLive
  <1>4. CASE DeleteRun
    <2>1. /\ run' = "deleted" /\ ledger' = {} /\ UNCHANGED <<at, appended, onBus>>
          /\ IF InDatabase THEN rows' = {} ELSE rows' = rows
      BY <1>4 DEF DeleteRun
    <2>2. Published' \subseteq Published /\ \A q : Entries(q)' = Entries(q)
      BY <2>1 DEF Published, Stored, Entries
    <2> QED BY <2>1, <2>2 DEF LInv, OwnEvents, Progress, LedgerFirst, AllKept, NothingLeft
  <1> QED BY <1>1, <1>2, <1>3, <1>4 DEF Next, vars

\* Wherever requests fail, what is stored or was sent of a run's events is in the ledger,
\* but for cancellations, which publish first; and a deleted run leaves nothing behind.
THEOREM RecordKept == Spec => []RecordIsKept
  <1>1. IInv /\ LInv => RecordIsKept
    BY DEF LInv, AllKept, NothingLeft, RecordIsKept, Published, Kept, ListRun, Stored
  <1>2. Spec => [](IInv /\ LInv)
    BY InitEstablishes, StepPreserves, InitLInv, LedgerStep, PTL DEF Spec
  <1> QED BY <1>1, <1>2, PTL
-----------------------------------------------------------------------------
(* What a client is sent.                                                  *)

Distinct(s) == \A i, j \in DOMAIN s : s[i] = s[j] => i = j

\* What is sent, and what is taken from a queue.
LEMMA ContentAppend ==
  ASSUME NEW S, NEW s \in Seq(S), NEW e \in S
  PROVE  /\ Append(s, e) \in Seq(S)
         /\ Content(Append(s, e)) = Content(s) \cup {e}
         /\ Distinct(s) /\ e \notin Content(s) => Distinct(Append(s, e))
  <1>1. /\ Append(s, e) \in Seq(S) /\ Len(Append(s, e)) = Len(s) + 1 /\ Len(s) \in Nat
        /\ DOMAIN s = 1 .. Len(s) /\ DOMAIN Append(s, e) = 1 .. Len(s) + 1
        /\ \A i \in 1 .. Len(s) : Append(s, e)[i] = s[i]
        /\ Append(s, e)[Len(s) + 1] = e
    OBVIOUS
  <1>2. 1 .. Len(s) + 1 = (1 .. Len(s)) \cup {Len(s) + 1}
    BY <1>1
  <1>3. Content(Append(s, e)) = Content(s) \cup {e}
    BY <1>1, <1>2 DEF Content
  <1>4. ASSUME Distinct(s), e \notin Content(s) PROVE Distinct(Append(s, e))
    BY <1>1, <1>2, <1>4 DEF Distinct, Content
  <1> QED BY <1>1, <1>3, <1>4

LEMMA ContentTail ==
  ASSUME NEW S, NEW s \in Seq(S), s # << >>
  PROVE  /\ Head(s) \in S /\ Tail(s) \in Seq(S)
         /\ Content(s) = Content(Tail(s)) \cup {Head(s)}
         /\ Distinct(s) => Distinct(Tail(s)) /\ Head(s) \notin Content(Tail(s))
  <1>1. /\ Head(s) \in S /\ Tail(s) \in Seq(S) /\ Len(s) \in Nat \ {0}
        /\ DOMAIN s = 1 .. Len(s) /\ DOMAIN Tail(s) = 1 .. Len(s) - 1
        /\ Head(s) = s[1]
    BY EmptySeq
  <1>2. \A i \in 1 .. Len(s) - 1 : Tail(s)[i] = s[i + 1]
    BY <1>1, HeadTailProperties
  <1>3. Content(s) = Content(Tail(s)) \cup {Head(s)}
    <2>1. ASSUME NEW e \in Content(s) PROVE e \in Content(Tail(s)) \cup {Head(s)}
      <3>1. PICK i \in 1 .. Len(s) : e = s[i]
        BY <1>1, <2>1 DEF Content
      <3>2. CASE i = 1
        BY <1>1, <3>1, <3>2
      <3>3. CASE i # 1
        <4>1. i - 1 \in 1 .. Len(s) - 1 /\ Tail(s)[i - 1] = s[i]
          BY <1>1, <1>2, <3>1, <3>3
        <4> QED BY <1>1, <3>1, <4>1 DEF Content
      <3> QED BY <3>2, <3>3
    <2>2. ASSUME NEW e \in Content(Tail(s)) \cup {Head(s)} PROVE e \in Content(s)
      <3>1. CASE e = Head(s)
        BY <1>1, <3>1 DEF Content
      <3>2. CASE e \in Content(Tail(s))
        <4>1. PICK i \in 1 .. Len(s) - 1 : e = Tail(s)[i]
          BY <1>1, <3>2 DEF Content
        <4>2. e = s[i + 1] /\ i + 1 \in 1 .. Len(s)
          BY <1>1, <1>2, <4>1
        <4> QED BY <1>1, <4>2 DEF Content
      <3> QED BY <2>2, <3>1, <3>2
    <2> QED BY <2>1, <2>2
  <1>4. ASSUME Distinct(s) PROVE Distinct(Tail(s)) /\ Head(s) \notin Content(Tail(s))
    <2>1. ASSUME NEW i \in 1 .. Len(s) - 1, NEW j \in 1 .. Len(s) - 1, Tail(s)[i] = Tail(s)[j]
          PROVE  i = j
      <3>1. i + 1 \in DOMAIN s /\ j + 1 \in DOMAIN s /\ s[i + 1] = s[j + 1]
        BY <1>1, <1>2, <2>1
      <3> QED BY <1>4, <3>1 DEF Distinct
    <2>2. ASSUME NEW i \in 1 .. Len(s) - 1, Tail(s)[i] = s[1] PROVE FALSE
      <3>1. i + 1 \in DOMAIN s /\ 1 \in DOMAIN s /\ s[i + 1] = s[1] /\ i + 1 # 1
        BY <1>1, <1>2, <2>2
      <3> QED BY <1>4, <3>1 DEF Distinct
    <2> QED BY <1>1, <2>1, <2>2 DEF Distinct, Content
  <1> QED BY <1>1, <1>3, <1>4

\* Nothing is in an empty sequence.
LEMMA ContentEmpty == Content(<< >>) = {} /\ Distinct(<< >>)
  BY DEF Content, Distinct

Row(k) == CHOOSE r \in rows : r.sequence = k

\* Every row is the row with its sequence.
LEMMA RowOf ==
  ASSUME Unique
  PROVE  /\ \A k \in Numbers : Row(k) \in rows /\ Row(k).sequence = k
         /\ \A r \in rows : r = Row(r.sequence)
  <1>1. \A k \in Numbers : Row(k) \in rows /\ Row(k).sequence = k
    BY DEF Numbers, Row
  <1>2. \A r \in rows : r.sequence \in Numbers
    BY DEF Numbers
  <1> QED BY <1>1, <1>2 DEF Unique

\* A part of the log has as many rows as numbers.
LEMMA PartOfLog ==
  ASSUME IInv, NEW m \in Nat, Numbers = 1 .. m, NEW n \in Nat, NEW l \in Nat, n <= l, l <= m
  PROVE  Cardinality({r \in rows : r.sequence > n /\ r.sequence <= l}) = l - n
  <1> DEFINE part == {r \in rows : r.sequence > n /\ r.sequence <= l}
             f == [i \in 1 .. l - n |-> Row(n + i)]
  <1>1. Unique /\ \A r \in rows : r.sequence \in Nat
    BY DEF IInv, PublisherTypeOK
  <1>2. \A i \in 1 .. l - n : Row(n + i) \in part /\ Row(n + i).sequence = n + i
    BY <1>1, RowOf
  <1>3. f \in Injection(1 .. l - n, part)
    <2>1. f \in [1 .. l - n -> part]
      BY <1>2
    <2>2. \A i, j \in 1 .. l - n : f[i] = f[j] => i = j
      <3> SUFFICES ASSUME NEW i \in 1 .. l - n, NEW j \in 1 .. l - n, Row(n + i) = Row(n + j)
                   PROVE  i = j
        OBVIOUS
      <3>1. n + i = n + j
        BY <1>2
      <3> QED BY <3>1
    <2> QED BY <2>1, <2>2 DEF Injection, IsInjective
  <1>4. f \in Surjection(1 .. l - n, part)
    <2>1. ASSUME NEW r \in part PROVE \E i \in 1 .. l - n : f[i] = r
      <3>1. r.sequence - n \in 1 .. l - n /\ n + (r.sequence - n) = r.sequence
        BY <1>1
      <3>2. f[r.sequence - n] = r
        BY <1>1, <3>1, RowOf
      <3> QED BY <3>1, <3>2
    <2>2. f \in [1 .. l - n -> part]
      BY <1>2
    <2> QED BY <2>1, <2>2 DEF Surjection
  <1>5. ExistsBijection(1 .. l - n, part)
    BY <1>3, <1>4 DEF ExistsBijection, Bijection
  <1>6. l - n \in Nat
    OBVIOUS
  <1> QED BY <1>5, <1>6, FS_CountingElements

\* Every event is in one row.
OneRow == \A r, q \in rows : r.event = q.event => r = q

\* The replay has the later events, each of them once.
LEMMA ReplayIsWhole ==
  ASSUME IInv, OneRow, NEW n \in Nat
  PROVE  /\ EventsAfter(n) \in Seq(Events)
         /\ Distinct(EventsAfter(n))
         /\ Content(EventsAfter(n)) = {r.event : r \in {q \in rows : q.sequence > n}}
  <1> DEFINE later == {r \in rows : r.sequence > n}
             picked(i) ==
               CHOOSE r \in later : Cardinality({q \in later : q.sequence <= r.sequence}) = i
  <1>1. PICK m \in Nat : Numbers = 1 .. m
    BY DEF IInv, Initial
  <1>2. Unique /\ \A r \in rows : r.event \in Events /\ r.sequence \in 1 .. m
    BY <1>1 DEF IInv, PublisherTypeOK, Numbers
  <1>3. CASE m <= n
    <2>1. later = {}
      BY <1>2, <1>3
    <2>2. Cardinality(later) = 0
      BY <2>1, FS_EmptySet
    <2>3. EventsAfter(n) = [i \in 1 .. 0 |-> picked(i).event]
      BY <2>2, Zenon DEF EventsAfter
    <2> HIDE DEF picked
    <2>4. EventsAfter(n) = << >>
      BY <2>3
    <2> QED BY <2>1, <2>4, ContentEmpty
  <1>4. CASE n < m
    <2>1. Cardinality(later) = m - n
      <3>1. later = {r \in rows : r.sequence > n /\ r.sequence <= m}
        BY <1>2
      <3> QED BY <1>1, <1>4, <3>1, PartOfLog
    <2>2. \A r \in later : Cardinality({q \in later : q.sequence <= r.sequence}) = r.sequence - n
      <3> SUFFICES ASSUME NEW r \in later
                   PROVE  Cardinality({q \in later : q.sequence <= r.sequence}) = r.sequence - n
        OBVIOUS
      <3>1. {q \in later : q.sequence <= r.sequence} =
              {q \in rows : q.sequence > n /\ q.sequence <= r.sequence}
        OBVIOUS
      <3>2. r.sequence \in Nat /\ n <= r.sequence /\ r.sequence <= m
        BY <1>2
      <3> QED BY <1>1, <3>1, <3>2, PartOfLog
    <2>3. \A i \in 1 .. m - n : picked(i) = Row(n + i)
      <3> SUFFICES ASSUME NEW i \in 1 .. m - n
                   PROVE  picked(i) = Row(n + i)
        OBVIOUS
      <3>1. Row(n + i) \in later /\ Row(n + i).sequence = n + i
        BY <1>1, <1>2, RowOf
      <3>2. \A r \in later : r.sequence - n = i => r = Row(n + i)
        BY <1>1, <1>2, RowOf
      <3>3. \A r \in later :
              (Cardinality({q \in later : q.sequence <= r.sequence}) = i) <=> (r = Row(n + i))
        BY <1>2, <2>2, <3>1, <3>2
      <3> QED BY <3>1, <3>3
    <2>4. EventsAfter(n) = [i \in 1 .. m - n |-> Row(n + i).event]
      <3>1. EventsAfter(n) = [i \in 1 .. m - n |-> picked(i).event]
        BY <2>1, Zenon DEF EventsAfter
      <3> HIDE DEF picked
      <3> QED BY <2>3, <3>1
    <2>5. \A i \in 1 .. m - n : Row(n + i) \in later /\ Row(n + i).sequence = n + i
      BY <1>1, <1>2, RowOf
    <2>6. EventsAfter(n) \in Seq(Events)
      <3>1. EventsAfter(n) \in [1 .. m - n -> Events]
        BY <1>2, <2>4, <2>5
      <3>2. m - n \in Nat
        BY <1>4
      <3> QED BY <3>1, <3>2, SeqDef
    <2>7. Distinct(EventsAfter(n))
      <3> SUFFICES ASSUME NEW i \in 1 .. m - n, NEW j \in 1 .. m - n,
                          Row(n + i).event = Row(n + j).event
                   PROVE  i = j
        BY <2>4 DEF Distinct
      <3>1. Row(n + i) = Row(n + j)
        BY <2>5 DEF OneRow
      <3>2. n + i = n + j
        BY <2>5, <3>1
      <3> QED BY <3>2
    <2>8. Content(EventsAfter(n)) = {r.event : r \in later}
      <3>1. ASSUME NEW r \in later PROVE r.event \in Content(EventsAfter(n))
        <4>1. r.sequence - n \in 1 .. m - n /\ n + (r.sequence - n) = r.sequence
          BY <1>2
        <4>2. EventsAfter(n)[r.sequence - n] = r.event
          BY <1>2, <2>4, <4>1, RowOf
        <4> QED BY <2>4, <4>1, <4>2 DEF Content
      <3>2. Content(EventsAfter(n)) \subseteq {r.event : r \in later}
        BY <2>4, <2>5 DEF Content
      <3> QED BY <3>1, <3>2
    <2> QED BY <2>6, <2>7, <2>8
  <1> QED BY <1>3, <1>4
-----------------------------------------------------------------------------
\* The request has stored its snapshot, or never will.
Past(p) ==
  at[p] \in {"done", "failed"} \/ (p \in Cancels /\ at[p] \in {"persist", "ledger"})

IsAppended(e) == e[1] \in Publishers /\ e = <<e[1], e[2]>> /\ e[2] \in 1 .. appended[e[1]]
IsMark(e)     == e[1] \in Publishers /\ e = <<e[1], 0>> /\ Past(e[1])
KnownId(id)   == id = NoId \/ IsAppended(id) \/ IsMark(id)

\* The stores have what has been appended and nothing else, each event once.
StoresOK ==
  /\ OneRow
  /\ \A e \in Published : IsAppended(e)
  /\ \A p \in Publishers :
       /\ at[p] = "bus" => <<p, appended[p]>> \notin onBus
       /\ Gone \/ \A k \in 1 .. appended[p] : <<p, k>> \in Stored
       /\ Gone \/ maxRead[p] \in Numbers \cup {0}

\* The snapshot covers an event that is stored.
SnapshotOK ==
  /\ snapshot.id = NoId \/ IsMark(snapshot.id)
  /\ snapshot.last \in Stored \cup {NoId}
  /\ snapshot.id = NoId => snapshot.last = NoId

\* The replay starts no later than after what the client has.
StartsInTime(c) ==
  /\ KnownId(lastId[c]) /\ KnownId(after[c])
  /\ conn[c] = "snapshot" => after[c] = NoId
  /\ lastId[c] = snapshot.id /\ snapshot.last # NoId => SequenceOf(snapshot.last) <= base[c]
  /\ conn[c] = "replay" => SequenceAfter(after[c]) <= base[c]

\* What is to be sent has not been sent, or the generator remembers that it has.
Delivers(c) ==
  /\ \A e \in Content(sent[c]) \cup Content(pending[c]) \cup Content(queue[c]) : IsAppended(e)
  /\ Distinct(sent[c]) /\ Distinct(pending[c]) /\ Distinct(queue[c])
  /\ conn[c] \in {"off", "snapshot", "replay"} => sent[c] = << >>
  /\ conn[c] # "send" => pending[c] = << >>
  /\ conn[c] # "live" => queue[c] = << >>
  /\ Content(pending[c]) \cap Content(sent[c]) = {}
  /\ Content(queue[c]) \subseteq onBus
  /\ Content(sent[c]) \subseteq seen[c] \cup onBus
  /\ Content(queue[c]) \cap Content(sent[c]) \subseteq seen[c]
  /\ \A e \in seen[c] : e \in Content(sent[c]) \/ IsMark(e)

Missed(c) ==
  conn[c] \in {"send", "live"} =>
    \A r \in rows : r.sequence > base[c] =>
      Reaches(c, r) \/ r.event \notin onBus \/ r.event \in window[c]

ClientOK(c) == StartsInTime(c) /\ Delivers(c) /\ Missed(c)

ClientTypeOK ==
  /\ conn \in [Clients -> ClientSteps]
  /\ lastId \in [Clients -> Ids \cup {NoId}]
  /\ after \in [Clients -> Ids \cup {NoId}]
  /\ pending \in [Clients -> Seq(Events)]
  /\ seen \in [Clients -> SUBSET Ids]
  /\ queue \in [Clients -> Seq(Events)]
  /\ sent \in [Clients -> Seq(Events)]
  /\ base \in [Clients -> Nat]
  /\ window \in [Clients -> SUBSET Events]
  /\ connects \in [Clients -> Nat]

CInv == StoresOK /\ SnapshotOK /\ ClientTypeOK /\ \A c \in Clients : ClientOK(c)

-----------------------------------------------------------------------------
\* Where an event is in the log.
LEMMA SequenceOfRow ==
  ASSUME OneRow, NEW r \in rows
  PROVE  SequenceOf(r.event) = r.sequence
  BY DEF OneRow, SequenceOf

LEMMA Located ==
  ASSUME IInv, OneRow, NEW e \in Stored
  PROVE  SequenceOf(e) \in Nat /\ e \in Events
  <1>1. PICK r \in rows : e = r.event
    BY DEF Stored
  <1> QED BY <1>1, SequenceOfRow DEF IInv, PublisherTypeOK

\* NoId is the id of nothing.
LEMMA NoIdIsNone ==
  ASSUME IInv
  PROVE  NoId \notin Stored /\ NoId \notin Ids /\ ~IsMark(NoId) /\ ~IsAppended(NoId)
  <1>1. NoId[1] = NoPublisher
    BY DEF NoId
  <1> QED BY <1>1, PublisherAssumption
          DEF IInv, PublisherTypeOK, Stored, Events, Ids, IsMark, IsAppended

\* A request goes on, and has then one more event or none; nothing in its past is undone.
LEMMA RequestMoves ==
  ASSUME IInv, NEW p \in Publishers, GetRun(p) \/ Publish(p) \/ PublishFails(p)
  PROVE  /\ \A q \in Publishers : Past(q) => Past(q)'
         /\ \A q \in Publishers \ {p} : at'[q] = at[q]
         /\ \A q \in Publishers \ {p} : appended'[q] = appended[q]
         /\ appended'[p] = IF InsertEvent(p) THEN appended[p] + 1 ELSE appended[p]
         /\ (run' = "deleted") <=> (run = "deleted")
  <1>1. /\ at \in [Publishers -> PublisherSteps] /\ appended \in [Publishers -> Nat]
        /\ run \in {"new", "stored", "deleted"}
    BY DEF IInv, PublisherTypeOK
  <1>2. PICK step : at' = [at EXCEPT ![p] = step]
    BY DEF GetRun, Publish, PublishFails, PersistRun, WriteLedger, AcquireLock, ReadMax,
       InsertEvent, PublishToBus, AfterBus, ReadLastEvent, SetSnapshot, Goto
  <1>3. \A q \in Publishers \ {p} : at'[q] = at[q]
    BY <1>1, <1>2
  <1>4. Past(p) => Past(p)'
    <2>1. CASE PersistRun(p) \/ WriteLedger(p)
      BY <1>1, <2>1 DEF PersistRun, WriteLedger, Goto, AfterHooks, PublishStep, Past
    <2>2. CASE PublishFails(p)
      BY <1>1, <2>2 DEF PublishFails, Goto, Past
    <2>3. CASE GetRun(p) \/ AcquireLock(p) \/ ReadMax(p) \/ InsertEvent(p) \/ PublishToBus(p)
               \/ ReadLastEvent(p) \/ SetSnapshot(p)
      BY <2>3 DEF GetRun, AcquireLock, ReadMax, InsertEvent, PublishToBus, ReadLastEvent,
         SetSnapshot, Past
    <2> QED BY <2>1, <2>2, <2>3 DEF Publish
  <1>5. \A q \in Publishers : Past(q) => Past(q)'
    BY <1>3, <1>4 DEF Past
  <1>6. \/ appended' = appended /\ ~InsertEvent(p)
        \/ appended' = [appended EXCEPT ![p] = @ + 1] /\ InsertEvent(p)
    BY <1>1 DEF GetRun, Publish, PublishFails, PersistRun, WriteLedger, AcquireLock, ReadMax,
       InsertEvent, PublishToBus, AfterBus, ReadLastEvent, SetSnapshot, Goto
  <1>7. (run' = "deleted") <=> (run = "deleted")
    BY DEF GetRun, Publish, PublishFails, PersistRun, WriteLedger, AppendEntries, AcquireLock,
       ReadMax, InsertEvent, PublishToBus, AfterBus, ReadLastEvent, SetSnapshot
  <1> QED BY <1>1, <1>3, <1>5, <1>6, <1>7

LEMMA ClientsOnly ==
  ASSUME NEW c \in Clients, Stream(c) \/ Connect(c) \/ Disconnect(c)
  PROVE  UNCHANGED pubVars
  BY DEF Stream, Connect, Disconnect, SendSnapshot, ReadReplay, SendReplayed, Subscribe, SendLive

\* What is known stays known.
LEMMA KnownStays ==
  ASSUME IInv, [Next]_vars
  PROVE  \A e : (IsAppended(e) => IsAppended(e)') /\ (IsMark(e) => IsMark(e)')
  <1>1. appended \in [Publishers -> Nat]
    BY DEF IInv, PublisherTypeOK
  <1>2. CASE UNCHANGED <<at, appended>>
    BY <1>2 DEF IsAppended, IsMark, Past
  <1>3. ASSUME NEW p \in Publishers, GetRun(p) \/ Publish(p) \/ PublishFails(p)
        PROVE  \A e : (IsAppended(e) => IsAppended(e)') /\ (IsMark(e) => IsMark(e)')
    <2>1. \A q \in Publishers : appended'[q] = appended[q] \/ appended'[q] = appended[q] + 1
      BY <1>3, RequestMoves
    <2>2. \A q \in Publishers : Past(q) => Past(q)'
      BY <1>3, RequestMoves
    <2> QED BY <1>1, <2>1, <2>2 DEF IsAppended, IsMark
  <1> QED BY <1>2, <1>3, ClientsOnly DEF Next, vars, pubVars, DeleteRun

\* The insertion adds an event that nobody has known before.
LEMMA Inserted ==
  ASSUME IInv, StoresOK, NEW p \in Publishers, InsertEvent(p)
  PROVE  LET e == <<p, appended[p] + 1>> IN
         /\ ~IsAppended(e) /\ ~IsMark(e) /\ e # NoId /\ e \notin Published
         /\ Stored' = Stored \cup {e} /\ onBus' = onBus
         /\ \E n \in Nat : rows' = rows \cup {[event |-> e, sequence |-> n]}
         /\ OneRow'
  <1> DEFINE e == <<p, appended[p] + 1>>
             new == [event |-> e, sequence |-> maxRead[p] + 1]
  <1>1. appended[p] \in Nat /\ maxRead[p] \in Nat
    BY DEF IInv, PublisherTypeOK
  <1>2. ~IsAppended(e) /\ ~IsMark(e) /\ e # NoId
    BY <1>1, PublisherAssumption DEF IsAppended, IsMark, NoId
  <1>3. e \notin Published
    BY <1>2 DEF StoresOK
  <1>4. rows' = rows \cup {new} /\ onBus' = onBus
    BY DEF InsertEvent
  <1>5. new.event = e
    OBVIOUS
  <1>6. \E n \in Nat : rows' = rows \cup {[event |-> e, sequence |-> n]}
    BY <1>1, <1>4
  <1> HIDE DEF new, e
  <1>7. Stored' = Stored \cup {e}
    BY <1>4, <1>5 DEF Stored
  <1>8. \A r \in rows : r.event # e
    BY <1>3 DEF Published, Stored
  <1>9. OneRow'
    BY <1>4, <1>5, <1>8 DEF OneRow, StoresOK
  <1> QED BY <1>2, <1>3, <1>4, <1>6, <1>7, <1>9 DEF e

\* Whatever happens to the tables, what they have is what has been appended.
LEMMA StoresStep == IInv /\ LInv /\ StoresOK /\ [Next]_vars => StoresOK'
  <1> SUFFICES ASSUME IInv, LInv, StoresOK, [Next]_vars PROVE StoresOK'
    OBVIOUS
  <1>0. /\ at \in [Publishers -> PublisherSteps] /\ appended \in [Publishers -> Nat]
        /\ maxRead \in [Publishers -> Nat]
    BY DEF IInv, PublisherTypeOK
  <1>1. ASSUME UNCHANGED pubVars PROVE StoresOK'
    BY <1>1 DEF pubVars, StoresOK, OneRow, Published, Stored, Numbers, IsAppended, Gone
  <1>2. ASSUME NEW p \in Publishers, GetRun(p) \/ Publish(p) \/ PublishFails(p) PROVE StoresOK'
    <2>0. /\ \A q \in Publishers \ {p} : at'[q] = at[q] /\ appended'[q] = appended[q]
          /\ Gone' = Gone
          /\ \A e : IsAppended(e) => IsAppended(e)'
      BY <1>2, RequestMoves, KnownStays DEF Gone, Next
    <2>1. CASE InsertEvent(p)
      <3>1. PICK e : /\ e = <<p, appended[p] + 1>> /\ e \notin Published
                     /\ Stored' = Stored \cup {e} /\ onBus' = onBus /\ OneRow'
                     /\ rows \subseteq rows'
        BY <2>1, Inserted
      <3>2. appended'[p] = appended[p] + 1 /\ maxRead' = maxRead
        BY <1>0, <2>1 DEF InsertEvent
      <3>3. IsAppended(e)'
        BY <1>0, <3>1, <3>2 DEF IsAppended
      <3>4. \A d \in Published' : IsAppended(d)'
        BY <2>0, <3>1, <3>3 DEF Published, StoresOK
      <3>5. \A q \in Publishers : at'[q] = "bus" => <<q, appended'[q]>> \notin onBus'
        BY <2>0, <3>1, <3>2 DEF Published, StoresOK
      <3>6. \A q \in Publishers : Gone' \/ \A k \in 1 .. appended'[q] : <<q, k>> \in Stored'
        <4> SUFFICES ASSUME ~Gone, NEW q \in Publishers, NEW k \in 1 .. appended'[q]
                     PROVE  <<q, k>> \in Stored'
          BY <2>0
        <4>1. CASE q = p /\ k = appended[p] + 1
          BY <3>1, <4>1
        <4>2. CASE q # p \/ k # appended[p] + 1
          <5>1. k \in 1 .. appended[q]
            BY <1>0, <2>0, <3>2, <4>2
          <5> QED BY <3>1, <5>1 DEF StoresOK
        <4> QED BY <4>1, <4>2
      <3>7. \A q \in Publishers : Gone' \/ maxRead'[q] \in Numbers' \cup {0}
        BY <2>0, <3>1, <3>2 DEF StoresOK, Numbers
      <3> QED BY <3>1, <3>4, <3>5, <3>6, <3>7 DEF StoresOK
    <2>2. CASE PublishToBus(p)
      <3>1. /\ UNCHANGED <<rows, appended, maxRead>> /\ onBus' = onBus \cup {<<p, appended[p]>>}
            /\ at'[p] # "bus" /\ at[p] = "bus"
        BY <1>0, <2>2 DEF PublishToBus, AfterBus, Goto
      <3>2. IsAppended(<<p, appended[p]>>)
        BY <1>0, <3>1 DEF IsAppended, LInv, Progress
      <3>3. \A e \in Published' : IsAppended(e)'
        BY <2>0, <3>1, <3>2 DEF StoresOK, Published, Stored
      <3>4. \A q \in Publishers : at'[q] = "bus" => <<q, appended'[q]>> \notin onBus'
        BY <2>0, <3>1 DEF StoresOK
      <3> QED BY <2>0, <3>1, <3>3, <3>4 DEF StoresOK, OneRow, Stored, Numbers
    <2>3. CASE ~(InsertEvent(p) \/ PublishToBus(p))
      <3>1. UNCHANGED <<rows, onBus, appended>> /\ at'[p] # "bus"
        BY <1>0, <1>2, <2>3
        DEF GetRun, Publish, PublishFails, PersistRun, WriteLedger, AcquireLock, ReadMax,
            ReadLastEvent, SetSnapshot, Goto, AfterHooks, AfterPublish, PublishStep
      <3>2. \A q \in Publishers : maxRead'[q] \in {maxRead[q], MaxSequence}
        BY <1>0, <1>2, <2>3
        DEF GetRun, Publish, PublishFails, PersistRun, WriteLedger, AcquireLock, ReadMax,
            ReadLastEvent, SetSnapshot
      <3>3. MaxSequence \in Numbers \cup {0}
        <4>1. PICK n \in Nat : Numbers = 1 .. n
          BY DEF IInv, Initial
        <4>2. MaxSequence = n
          BY <4>1, MaxIsLength
        <4> QED BY <4>1, <4>2
      <3>4. \A q \in Publishers : Gone' \/ maxRead'[q] \in Numbers' \cup {0}
        BY <2>0, <3>1, <3>2, <3>3 DEF StoresOK, Numbers
      <3>5. \A e \in Published' : IsAppended(e)'
        BY <2>0, <3>1 DEF StoresOK, Published, Stored
      <3> QED BY <2>0, <3>1, <3>4, <3>5 DEF StoresOK, OneRow, Stored
    <2> QED BY <2>1, <2>2, <2>3
  <1>3. CASE DeleteRun
    <2>1. /\ UNCHANGED <<at, appended, maxRead, onBus>> /\ run' = "deleted"
          /\ IF InDatabase THEN rows' = {} ELSE rows' = rows
      BY <1>3 DEF DeleteRun
    <2>2. CASE InDatabase
      BY <2>1, <2>2 DEF StoresOK, OneRow, Published, Stored, IsAppended, Gone
    <2>3. CASE ~InDatabase
      BY <2>1, <2>3 DEF StoresOK, OneRow, Published, Stored, IsAppended, Gone, Numbers
    <2> QED BY <2>2, <2>3
  <1> QED BY <1>1, <1>2, <1>3, ClientsOnly DEF Next, vars

\* A snapshot is stored while the last event that it covers is, and goes with it.
LEMMA SnapshotStep == IInv /\ StoresOK /\ SnapshotOK /\ [Next]_vars => SnapshotOK'
  <1> SUFFICES ASSUME IInv, StoresOK, SnapshotOK, [Next]_vars PROVE SnapshotOK'
    OBVIOUS
  <1>0. /\ at \in [Publishers -> PublisherSteps] /\ appended \in [Publishers -> Nat]
    BY DEF IInv, PublisherTypeOK
  <1>1. \A e : IsMark(e) => IsMark(e)'
    BY KnownStays
  <1>2. CASE snapshot' = snapshot /\ Stored \subseteq Stored'
    BY <1>1, <1>2 DEF SnapshotOK
  <1>3. ASSUME NEW p \in Publishers, SetSnapshot(p) PROVE SnapshotOK'
    <2>1. /\ snapshot' = [id |-> <<p, 0>>, last |-> Covered(p)]
          /\ rows' = rows /\ ~Gone /\ at'[p] \in {"persist", "done"}
          /\ at'[p] = "persist" => p \in Cancels
      BY <1>0, <1>3
      DEF SetSnapshot, ReplaceSnapshot, Accepts, Gone, Goto, AfterPublish
    <2>2. IsMark(<<p, 0>>)'
      BY <2>1 DEF IsMark, Past
    <2>3. <<p, 0>> # NoId
      BY PublisherAssumption DEF NoId
    <2>4. Covered(p) \in Stored \cup {NoId}
      <3>1. CASE appended[p] > 0
        <4>1. Covered(p) = <<p, appended[p]>>
          BY <1>0, <3>1 DEF Covered
        <4> QED BY <1>0, <2>1, <3>1, <4>1 DEF StoresOK
      <3>2. CASE appended[p] = 0 /\ maxRead[p] = 0
        BY <3>2 DEF Covered
      <3>3. CASE appended[p] = 0 /\ maxRead[p] # 0
        <4>1. maxRead[p] \in Numbers
          BY <2>1, <3>3 DEF StoresOK
        <4>2. PICK r \in rows : r.sequence = maxRead[p]
          BY <4>1 DEF Numbers
        <4>3. (CHOOSE q \in rows : q.sequence = maxRead[p]) \in rows
          BY <4>2
        <4>4. Covered(p) = (CHOOSE q \in rows : q.sequence = maxRead[p]).event
          BY <3>3 DEF Covered
        <4> QED BY <4>3, <4>4 DEF Stored
      <3> QED BY <1>0, <3>1, <3>2, <3>3
    <2> QED BY <2>1, <2>2, <2>3, <2>4 DEF SnapshotOK, Stored
  <1>4. ASSUME NEW p \in Publishers, InsertEvent(p) PROVE SnapshotOK'
    BY <1>2, <1>4, Inserted DEF InsertEvent
  <1>5. ASSUME NEW p \in Publishers, GetRun(p) \/ Publish(p) \/ PublishFails(p),
               ~SetSnapshot(p), ~InsertEvent(p)
        PROVE  SnapshotOK'
    <2>1. UNCHANGED <<rows, snapshot>>
      BY <1>5
      DEF GetRun, Publish, PublishFails, PersistRun, WriteLedger, AcquireLock, ReadMax,
          PublishToBus, AfterBus, ReadLastEvent
    <2> QED BY <1>2, <2>1 DEF Stored
  <1>6. CASE DeleteRun
    <2>1. CASE InDatabase
      BY <1>6, <2>1 DEF DeleteRun, SnapshotOK
    <2>2. CASE ~InDatabase
      BY <1>2, <1>6, <2>2 DEF DeleteRun, Stored
    <2> QED BY <2>1, <2>2
  <1>7. CASE UNCHANGED pubVars
    BY <1>2, <1>7 DEF pubVars, Stored
  <1> QED BY <1>3, <1>4, <1>5, <1>6, <1>7, ClientsOnly DEF Next, vars

LEMMA AfterIsNumber ==
  ASSUME IInv, StoresOK, SnapshotOK, NEW id
  PROVE  SequenceAfter(id) \in Nat /\ SequenceAfter(NoId) = 0
  <1>1. SequenceAfter(NoId) = 0
    BY NoIdIsNone DEF SnapshotOK, SequenceAfter
  <1>2. snapshot.last # NoId => SequenceOf(snapshot.last) \in Nat
    BY Located DEF SnapshotOK, StoresOK
  <1>3. id \in Stored => SequenceOf(id) \in Nat
    BY Located DEF StoresOK
  <1> QED BY <1>1, <1>2, <1>3 DEF SequenceAfter

LEMMA ClientTypeStep == IInv /\ LInv /\ CInv /\ [Next]_vars => ClientTypeOK'
  <1> SUFFICES ASSUME IInv, LInv, CInv, [Next]_vars PROVE ClientTypeOK'
    OBVIOUS
  <1>0. ClientTypeOK /\ StoresOK /\ SnapshotOK
    BY DEF CInv
  <1> USE DEF ClientSteps
  <1>1. CASE UNCHANGED clientVars
    BY <1>0, <1>1 DEF clientVars, ClientTypeOK
  <1>2. ASSUME NEW p \in Publishers, PublishToBus(p), at[p] = "bus" PROVE ClientTypeOK'
    <2>1. <<p, appended[p]>> \in Events
      <3>1. appended[p] \in Nat
        BY DEF IInv, PublisherTypeOK
      <3>2. appended[p] # 0
        BY <1>2 DEF LInv, Progress
      <3> QED BY <3>1, <3>2 DEF Events
    <2>2. \A c \in Clients : Append(queue[c], <<p, appended[p]>>) \in Seq(Events)
      BY <1>0, <2>1 DEF ClientTypeOK
    <2>3. queue' \in [Clients -> Seq(Events)]
      BY <1>0, <1>2, <2>2 DEF PublishToBus, ClientTypeOK
    <2>4. window' \in [Clients -> SUBSET Events]
      BY <1>0, <1>2, <2>1 DEF PublishToBus, AfterBus, ClientTypeOK
    <2> QED BY <1>0, <1>2, <2>3, <2>4 DEF PublishToBus, AfterBus, ClientTypeOK
  <1>3. ASSUME NEW c \in Clients, Connect(c) PROVE ClientTypeOK'
    <2>1. lastId[c] \in Stored => SequenceOf(lastId[c]) \in Nat
      BY <1>0, Located DEF StoresOK
    <2> QED BY <1>0, <1>3, <2>1 DEF Connect, Reach, ClientTypeOK
  <1>4. ASSUME NEW c \in Clients, SendSnapshot(c) PROVE ClientTypeOK'
    <2>1. snapshot.last # NoId => SequenceOf(snapshot.last) \in Nat /\ snapshot.last \in Ids
      BY <1>0, Located DEF SnapshotOK, StoresOK, Events, Ids
    <2>2. snapshot.id # NoId => snapshot.id \in Ids
      BY <1>0 DEF SnapshotOK, IsMark, Ids
    <2>3. \/ UNCHANGED <<lastId, seen, after, base>>
          \/ \E n \in Nat, id \in Ids, last \in Ids \cup {NoId} :
               /\ lastId' = [lastId EXCEPT ![c] = id]
               /\ seen' = [seen EXCEPT ![c] = @ \cup {id}]
               /\ after' = [after EXCEPT ![c] = last]
               /\ base' = [base EXCEPT ![c] = n]
      <3>1. CASE snapshot.id = NoId
        BY <1>4, <3>1 DEF SendSnapshot, GetSnapshot
      <3>2. CASE snapshot.id # NoId
        <4> DEFINE n == IF snapshot.last = NoId THEN 0 ELSE SequenceOf(snapshot.last)
        <4>1. n \in Nat
          BY <2>1
        <4>2. /\ lastId' = [lastId EXCEPT ![c] = snapshot.id]
              /\ seen' = [seen EXCEPT ![c] = @ \cup {snapshot.id}]
              /\ after' = [after EXCEPT ![c] = snapshot.last]
              /\ base' = [base EXCEPT ![c] = n]
          BY <1>4, <3>2 DEF SendSnapshot, GetSnapshot
        <4> HIDE DEF n
        <4> QED BY <2>1, <2>2, <3>2, <4>1, <4>2
      <3> QED BY <3>1, <3>2
    <2>4. /\ lastId' \in [Clients -> Ids \cup {NoId}] /\ after' \in [Clients -> Ids \cup {NoId}]
          /\ seen' \in [Clients -> SUBSET Ids] /\ base' \in [Clients -> Nat]
      <3>1. CASE UNCHANGED <<lastId, seen, after, base>>
        BY <1>0, <3>1 DEF ClientTypeOK
      <3>2. ASSUME NEW n \in Nat, NEW id \in Ids, NEW last \in Ids \cup {NoId},
                   /\ lastId' = [lastId EXCEPT ![c] = id]
                   /\ seen' = [seen EXCEPT ![c] = @ \cup {id}]
                   /\ after' = [after EXCEPT ![c] = last]
                   /\ base' = [base EXCEPT ![c] = n]
            PROVE  /\ lastId' \in [Clients -> Ids \cup {NoId}]
                   /\ after' \in [Clients -> Ids \cup {NoId}]
                   /\ seen' \in [Clients -> SUBSET Ids] /\ base' \in [Clients -> Nat]
        <4>1. seen[c] \cup {id} \in SUBSET Ids
          BY <1>0 DEF ClientTypeOK
        <4>2. seen' \in [Clients -> SUBSET Ids]
          BY <1>0, <3>2, <4>1 DEF ClientTypeOK
        <4>3. lastId' \in [Clients -> Ids \cup {NoId}]
          BY <1>0, <3>2 DEF ClientTypeOK
        <4>4. after' \in [Clients -> Ids \cup {NoId}] /\ base' \in [Clients -> Nat]
          BY <1>0, <3>2 DEF ClientTypeOK
        <4> QED BY <4>2, <4>3, <4>4
      <3> QED BY <2>3, <3>1, <3>2
    <2> QED BY <1>0, <1>4, <2>4 DEF SendSnapshot, Reach, ClientTypeOK
  <1>5. ASSUME NEW c \in Clients, ReadReplay(c) PROVE ClientTypeOK'
    <2>1. EventsAfter(SequenceAfter(after[c])) \in Seq(Events)
      BY <1>0, AfterIsNumber, ReplayIsWhole DEF StoresOK
    <2> QED BY <1>0, <1>5, <2>1 DEF ReadReplay, Reach, ClientTypeOK
  <1>6. ASSUME NEW c \in Clients, SendReplayed(c) PROVE ClientTypeOK'
    <2>1. /\ pending[c] \in Seq(Events) /\ pending[c] # << >> /\ sent[c] \in Seq(Events)
      BY <1>0, <1>6 DEF SendReplayed, ClientTypeOK
    <2>2. /\ Head(pending[c]) \in Events /\ Head(pending[c]) \in Ids
          /\ Tail(pending[c]) \in Seq(Events) /\ Append(sent[c], Head(pending[c])) \in Seq(Events)
      BY <2>1, ContentTail, ContentAppend DEF Events, Ids
    <2> QED BY <1>0, <1>6, <2>2 DEF SendReplayed, Send, ClientTypeOK
  <1>7. ASSUME NEW c \in Clients, SendLive(c) PROVE ClientTypeOK'
    <2>1. /\ queue[c] \in Seq(Events) /\ queue[c] # << >> /\ sent[c] \in Seq(Events)
      BY <1>0, <1>7 DEF SendLive, ClientTypeOK
    <2>2. /\ Head(queue[c]) \in Events /\ Head(queue[c]) \in Ids
          /\ Tail(queue[c]) \in Seq(Events) /\ Append(sent[c], Head(queue[c])) \in Seq(Events)
      BY <2>1, ContentTail, ContentAppend DEF Events, Ids
    <2> QED BY <1>0, <1>7, <2>2 DEF SendLive, Send, ClientTypeOK
  <1>8. ASSUME NEW c \in Clients, Subscribe(c) \/ Disconnect(c) PROVE ClientTypeOK'
    <2>1. CASE Subscribe(c)
      BY <1>0, <2>1 DEF Subscribe, Reach, ClientTypeOK
    <2>2. CASE Disconnect(c)
      <3>1. << >> \in Seq(Events)
        OBVIOUS
      <3>2. NoId \in Ids \cup {NoId} /\ {} \in SUBSET Ids /\ {} \in SUBSET Events
        OBVIOUS
      <3>3. /\ pending' \in [Clients -> Seq(Events)] /\ queue' \in [Clients -> Seq(Events)]
            /\ sent' \in [Clients -> Seq(Events)]
        BY <1>0, <2>2, <3>1 DEF Disconnect, ClientTypeOK
      <3>4. /\ after' \in [Clients -> Ids \cup {NoId}] /\ seen' \in [Clients -> SUBSET Ids]
            /\ window' \in [Clients -> SUBSET Events]
        BY <1>0, <2>2, <3>2 DEF Disconnect, ClientTypeOK
      <3> QED BY <1>0, <2>2, <3>3, <3>4 DEF Disconnect, Reach, ClientTypeOK
    <2> QED BY <1>8, <2>1, <2>2
  <1>9. ASSUME NEW p \in Publishers, GetRun(p) \/ Publish(p) \/ PublishFails(p), ~PublishToBus(p)
        PROVE  UNCHANGED clientVars
    BY <1>9
    DEF GetRun, Publish, PublishFails, PersistRun, WriteLedger, AcquireLock, ReadMax,
        InsertEvent, ReadLastEvent, SetSnapshot
  <1>10. \A p \in Publishers : PublishToBus(p) => at[p] = "bus"
    BY DEF PublishToBus
  <1> QED
    BY <1>1, <1>2, <1>3, <1>4, <1>5, <1>6, <1>7, <1>8, <1>9, <1>10
    DEF Next, vars, Stream, Publish, DeleteRun

-----------------------------------------------------------------------------
\* What a request or the deletion of the run does to a client that it sends nothing.
LEMMA Undisturbed ==
  ASSUME IInv, CInv, [Next]_vars, NEW c \in Clients,
         UNCHANGED <<conn[c], lastId[c], after[c], pending[c], seen[c], queue[c], sent[c], base[c]>>,
         window[c] \subseteq window'[c],
         onBus \subseteq onBus',
         conn[c] = "live" => \A e \in onBus' \ onBus : e \notin Stored',
         conn[c] = "send" => \A e \in onBus' \ onBus : e \in window'[c],
         \A r \in rows' \ rows : r.event \notin onBus',
         snapshot'.last # NoId /\ lastId[c] = snapshot'.id =>
           snapshot' = snapshot /\ SequenceOf(snapshot.last)' = SequenceOf(snapshot.last),
         conn[c] = "replay" => SequenceAfter(after[c])' <= base[c]
  PROVE  ClientOK(c)'
  <1>0. ClientOK(c)
    BY DEF CInv
  <1>1. \A e : (IsAppended(e) => IsAppended(e)') /\ (IsMark(e) => IsMark(e)')
    BY KnownStays
  <1>2. StartsInTime(c)'
    BY <1>0, <1>1 DEF ClientOK, StartsInTime, KnownId
  <1>3. Delivers(c)'
    BY <1>0, <1>1 DEF ClientOK, Delivers
  <1>4. Missed(c)'
    <2> SUFFICES ASSUME conn[c] \in {"send", "live"}, NEW r \in rows', r.sequence > base[c]
                 PROVE  Reaches(c, r) \/ r.event \notin onBus' \/ r.event \in window'[c]
      BY DEF Missed, Reaches
    <2>1. r.event \in Stored'
      BY DEF Stored
    <2>2. CASE r \in rows
      <3>1. Reaches(c, r) \/ r.event \notin onBus \/ r.event \in window[c]
        BY <1>0, <2>2 DEF ClientOK, Missed
      <3> QED BY <2>1, <3>1
    <2>3. CASE r \notin rows
      BY <2>3
    <2> QED BY <2>2, <2>3
  <1> QED BY <1>2, <1>3, <1>4 DEF ClientOK

\* A step that leaves the tables and the snapshot alone.
LEMMA SameTables ==
  ASSUME rows' = rows, snapshot' = snapshot
  PROVE  /\ Stored' = Stored
         /\ \A id : SequenceOf(id)' = SequenceOf(id) /\ SequenceAfter(id)' = SequenceAfter(id)
  BY DEF Stored, SequenceOf, SequenceAfter

LEMMA InsertKeeps ==
  ASSUME IInv, CInv, [Next]_vars, NEW p \in Publishers, InsertEvent(p), NEW c \in Clients
  PROVE  ClientOK(c)'
  <1>1. UNCHANGED clientVars /\ snapshot' = snapshot
    BY DEF InsertEvent
  <1>2. PICK e :
          /\ ~IsAppended(e) /\ ~IsMark(e) /\ e # NoId /\ e \notin Published
          /\ Stored' = Stored \cup {e} /\ onBus' = onBus /\ OneRow'
          /\ \E n \in Nat : rows' = rows \cup {[event |-> e, sequence |-> n]}
    BY Inserted DEF CInv
  <1>3. \A id \in Stored : SequenceOf(id)' = SequenceOf(id)
    <2> SUFFICES ASSUME NEW id \in Stored PROVE SequenceOf(id)' = SequenceOf(id)
      OBVIOUS
    <2>1. PICK r \in rows : r.event = id
      BY DEF Stored
    <2>2. SequenceOf(id) = r.sequence
      BY <2>1, SequenceOfRow DEF CInv, StoresOK
    <2>3. OneRow' /\ r \in rows' => SequenceOf(id)' = r.sequence
      <3>1. ASSUME OneRow', r \in rows' PROVE \A q \in rows' : q.event = id => q = r
        BY <2>1, <3>1 DEF OneRow
      <3> QED BY <2>1, <3>1 DEF SequenceOf
    <2> QED BY <1>2, <2>2, <2>3
  <1>4. KnownId(after[c]) /\ after[c] # e
    <2>1. KnownId(after[c])
      BY DEF CInv, ClientOK, StartsInTime
    <2> QED BY <1>2, <2>1 DEF KnownId
  <1>5. snapshot.last # NoId => SequenceOf(snapshot.last)' = SequenceOf(snapshot.last)
    <2>1. snapshot.last \in Stored \cup {NoId}
      BY DEF CInv, SnapshotOK
    <2> QED BY <1>1, <1>3, <2>1
  <1>6. SequenceAfter(after[c])' = SequenceAfter(after[c])
    BY <1>1, <1>2, <1>3, <1>4, <1>5 DEF SequenceAfter, clientVars
  <1>7. conn[c] = "replay" => SequenceAfter(after[c])' <= base[c]
    BY <1>6 DEF CInv, ClientOK, StartsInTime
  <1>8. \A r \in rows' \ rows : r.event \notin onBus'
    BY <1>2 DEF Published
  <1> QED BY <1>1, <1>2, <1>5, <1>7, <1>8, Undisturbed DEF clientVars

LEMMA SnapshotKeeps ==
  ASSUME IInv, CInv, [Next]_vars, NEW p \in Publishers, SetSnapshot(p), NEW c \in Clients
  PROVE  ClientOK(c)'
  <1>1. /\ UNCHANGED clientVars /\ UNCHANGED <<rows, onBus>>
        /\ snapshot'.id = <<p, 0>> /\ at[p] = "snapshot"
    BY DEF SetSnapshot, ReplaceSnapshot
  <1>2. ~IsMark(<<p, 0>>) /\ ~IsAppended(<<p, 0>>) /\ <<p, 0>> # NoId
    BY <1>1, PublisherAssumption DEF IsMark, IsAppended, Past, NoId
  <1>3. KnownId(after[c]) /\ KnownId(lastId[c])
    BY DEF CInv, ClientOK, StartsInTime
  <1>4. after[c] # snapshot'.id /\ lastId[c] # snapshot'.id
    BY <1>1, <1>2, <1>3 DEF KnownId
  <1>5. /\ Stored' = Stored /\ \A id : SequenceOf(id)' = SequenceOf(id)
    BY <1>1 DEF Stored, SequenceOf
  <1>6. SequenceAfter(after[c])' = IF after[c] \in Stored THEN SequenceOf(after[c]) ELSE 0
    BY <1>1, <1>4, <1>5 DEF SequenceAfter, clientVars
  <1>7. SequenceAfter(after[c])' <= SequenceAfter(after[c]) /\ SequenceAfter(after[c]) \in Nat
    <2>1. SequenceAfter(after[c]) \in Nat
      BY AfterIsNumber DEF CInv
    <2>2. after[c] \in Stored => SequenceAfter(after[c]) = SequenceOf(after[c])
      <3>1. ASSUME after[c] \in Stored PROVE after[c] # snapshot.id
        <4>1. IsAppended(after[c])
          BY <3>1 DEF CInv, StoresOK, Published
        <4>2. after[c] # NoId /\ ~IsMark(after[c])
          BY <4>1, NoIdIsNone DEF IsAppended, IsMark
        <4> QED BY <4>2 DEF CInv, SnapshotOK
      <3> QED BY <3>1 DEF SequenceAfter
    <2> QED BY <1>6, <2>1, <2>2
  <1>8. conn[c] = "replay" => SequenceAfter(after[c])' <= base[c]
    <2>1. conn[c] = "replay" => SequenceAfter(after[c]) <= base[c]
      BY DEF CInv, ClientOK, StartsInTime
    <2>2. SequenceAfter(after[c])' \in Nat /\ base[c] \in Nat
      BY <1>6, Located DEF CInv, StoresOK, ClientTypeOK
    <2> QED BY <1>7, <2>1, <2>2
  <1> QED BY <1>1, <1>4, <1>8, Undisturbed DEF clientVars

LEMMA BusKeeps ==
  ASSUME IInv, LInv, CInv, [Next]_vars, NEW p \in Publishers, PublishToBus(p), NEW c \in Clients
  PROVE  ClientOK(c)'
  <1> DEFINE e == <<p, appended[p]>>
  <1>1. /\ at[p] = "bus" /\ onBus' = onBus \cup {e} /\ UNCHANGED <<rows, snapshot, appended>>
        /\ UNCHANGED <<conn, lastId, after, pending, seen, sent, base>>
    BY DEF PublishToBus, AfterBus
  <1>2. e \notin onBus /\ IsAppended(e)
    BY <1>1 DEF CInv, StoresOK, LInv, Progress, IsAppended
  <1>3. /\ Stored' = Stored /\ SequenceAfter(after[c])' = SequenceAfter(after[c])
        /\ SequenceOf(snapshot.last)' = SequenceOf(snapshot.last)
    BY <1>1, SameTables
  <1>4. conn[c] = "replay" => SequenceAfter(after[c])' <= base[c]
    BY <1>3 DEF CInv, ClientOK, StartsInTime
  <1>5. CASE conn[c] # "live"
    <2>1. queue'[c] = queue[c] /\ window[c] \subseteq window'[c]
          /\ (conn[c] = "send" => e \in window'[c])
      BY <1>5 DEF PublishToBus, AfterBus, CInv, ClientTypeOK
    <2> QED BY <1>1, <1>3, <1>4, <1>5, <2>1, Undisturbed
  <1>6. CASE conn[c] = "live"
    <2>1. queue'[c] = Append(queue[c], e) /\ window'[c] = window[c] /\ queue[c] \in Seq(Events)
      BY <1>6 DEF PublishToBus, AfterBus, CInv, ClientTypeOK
    <2>2. e \in Events
      <3>1. appended[p] \in Nat
        BY DEF IInv, PublisherTypeOK
      <3> QED BY <1>2, <3>1 DEF IsAppended, Events
    <2>3. ClientOK(c)
      BY DEF CInv
    <2>4. e \notin Content(queue[c])
      BY <1>2, <2>3 DEF ClientOK, Delivers
    <2>5. Content(queue'[c]) = Content(queue[c]) \cup {e} /\ Distinct(queue'[c])
      BY <2>1, <2>2, <2>3, <2>4, ContentAppend DEF ClientOK, Delivers
    <2>6. \A d : (IsAppended(d) => IsAppended(d)') /\ (IsMark(d) => IsMark(d)')
      BY KnownStays
    <2>7. StartsInTime(c)'
      BY <1>1, <1>3, <1>6, <2>3, <2>6 DEF ClientOK, StartsInTime, KnownId
    <2>8. Delivers(c)'
      <3>1. e \in Content(sent[c]) => e \in seen[c]
        BY <1>2, <2>3 DEF ClientOK, Delivers
      <3>2. IsAppended(e)'
        BY <1>1, <1>2 DEF IsAppended
      <3> QED BY <1>1, <1>6, <2>3, <2>5, <2>6, <3>1, <3>2 DEF ClientOK, Delivers
    <2>9. Missed(c)'
      BY <1>1, <1>6, <2>1, <2>3, <2>5 DEF ClientOK, Missed, Reaches
    <2> QED BY <2>7, <2>8, <2>9 DEF ClientOK
  <1> QED BY <1>5, <1>6

LEMMA RequestKeeps ==
  ASSUME IInv, LInv, CInv, [Next]_vars, NEW c \in Clients,
         DeleteRun \/ \E p \in Publishers : GetRun(p) \/ Publish(p) \/ PublishFails(p)
  PROVE  ClientOK(c)'
  <1>1. CASE \E p \in Publishers : InsertEvent(p) \/ SetSnapshot(p) \/ PublishToBus(p)
    BY <1>1, InsertKeeps, SnapshotKeeps, BusKeeps
  <1>2. CASE UNCHANGED <<clientVars, rows, onBus, snapshot>>
    <2>1. conn[c] = "replay" => SequenceAfter(after[c])' <= base[c]
      BY <1>2, SameTables DEF CInv, ClientOK, StartsInTime, clientVars
    <2> QED BY <1>2, <2>1, SameTables, Undisturbed DEF clientVars
  <1>3. CASE DeleteRun /\ InDatabase
    <2>1. rows' = {} /\ snapshot'.last = NoId /\ UNCHANGED <<clientVars, onBus>>
      BY <1>3 DEF DeleteRun
    <2>2. SequenceAfter(after[c])' = 0
      BY <2>1 DEF SequenceAfter, Stored
    <2>3. base[c] \in Nat
      BY DEF CInv, ClientTypeOK
    <2> QED BY <2>1, <2>2, <2>3, Undisturbed DEF clientVars
  <1>4. CASE DeleteRun /\ ~InDatabase
    BY <1>2, <1>4 DEF DeleteRun
  <1>5. ASSUME NEW p \in Publishers, GetRun(p) \/ Publish(p) \/ PublishFails(p),
               ~(InsertEvent(p) \/ SetSnapshot(p) \/ PublishToBus(p))
        PROVE  UNCHANGED <<clientVars, rows, onBus, snapshot>>
    BY <1>5
    DEF GetRun, Publish, PublishFails, PersistRun, WriteLedger, AcquireLock, ReadMax, ReadLastEvent
  <1> QED BY <1>1, <1>2, <1>3, <1>4, <1>5

-----------------------------------------------------------------------------
\* A client that does nothing while another one does.
LEMMA OthersKeep ==
  ASSUME IInv, CInv, NEW d \in Clients, Stream(d) \/ Connect(d) \/ Disconnect(d),
         NEW c \in Clients, c # d
  PROVE  ClientOK(c)'
  <1>1. UNCHANGED pubVars
    BY ClientsOnly
  <1>2. UNCHANGED <<conn[c], lastId[c], after[c], pending[c], seen[c]>>
    BY DEF CInv, ClientTypeOK, Stream, Connect, Disconnect, SendSnapshot, ReadReplay, SendReplayed,
       Subscribe, SendLive, Send, Reach
  <1>3. UNCHANGED <<queue[c], sent[c], base[c], window[c]>>
    BY DEF CInv, ClientTypeOK, Stream, Connect, Disconnect, SendSnapshot, ReadReplay, SendReplayed,
       Subscribe, SendLive, Send, Reach
  <1>4. /\ UNCHANGED <<at, appended, rows, snapshot, onBus>> /\ Stored' = Stored
        /\ \A id : SequenceOf(id)' = SequenceOf(id) /\ SequenceAfter(id)' = SequenceAfter(id)
    BY <1>1, SameTables DEF pubVars
  <1>5. ClientOK(c)
    BY DEF CInv
  <1>6. \A e : (IsAppended(e)' <=> IsAppended(e)) /\ (IsMark(e)' <=> IsMark(e))
    BY <1>4 DEF IsAppended, IsMark, Past
  <1>7. StartsInTime(c)'
    BY <1>2, <1>3, <1>4, <1>5, <1>6 DEF ClientOK, StartsInTime, KnownId
  <1>8. Delivers(c)'
    BY <1>2, <1>3, <1>4, <1>5, <1>6 DEF ClientOK, Delivers
  <1>9. Missed(c)'
    BY <1>2, <1>3, <1>4, <1>5 DEF ClientOK, Missed, Reaches
  <1> QED BY <1>7, <1>8, <1>9 DEF ClientOK

\* A connection begins where the client has got to, and has nothing to send at first.
LEMMA ConnectKeeps ==
  ASSUME IInv, CInv, NEW c \in Clients, Connect(c)
  PROVE  ClientOK(c)'
  <1>1. /\ UNCHANGED <<at, appended, rows, snapshot, onBus>> /\ conn[c] = "off"
        /\ \A id : SequenceOf(id)' = SequenceOf(id) /\ SequenceAfter(id)' = SequenceAfter(id)
    BY SameTables DEF Connect, pubVars
  <1>2. /\ conn'[c] = IF lastId[c] = NoId THEN "snapshot" ELSE "replay"
        /\ after'[c] = lastId[c]
        /\ base'[c] = IF lastId[c] \in Stored THEN SequenceOf(lastId[c]) ELSE base[c]
    BY DEF Connect, Reach, CInv, ClientTypeOK
  <1>3. UNCHANGED <<lastId, pending, seen, queue, sent>>
    BY DEF Connect
  <1>4. ClientOK(c)
    BY DEF CInv
  <1>5. \A e : (IsAppended(e)' <=> IsAppended(e)) /\ (IsMark(e)' <=> IsMark(e))
    BY <1>1 DEF IsAppended, IsMark, Past
  <1>6. lastId[c] \in Stored => lastId[c] # snapshot.id
    <2> SUFFICES ASSUME lastId[c] \in Stored PROVE lastId[c] # snapshot.id
      OBVIOUS
    <2>1. IsAppended(lastId[c])
      BY DEF CInv, StoresOK, Published
    <2>2. lastId[c] # NoId /\ ~IsMark(lastId[c])
      BY <2>1, NoIdIsNone DEF IsAppended, IsMark
    <2> QED BY <2>2 DEF CInv, SnapshotOK
  <1>7. SequenceAfter(lastId[c]) <= base'[c]
    <2>1. CASE lastId[c] \in Stored
      <3>1. SequenceAfter(lastId[c]) = SequenceOf(lastId[c]) /\ SequenceOf(lastId[c]) \in Nat
        BY <1>6, <2>1, Located DEF SequenceAfter, CInv, StoresOK
      <3> QED BY <1>2, <2>1, <3>1
    <2>2. CASE lastId[c] \notin Stored
      <3>1. base'[c] = base[c] /\ base[c] \in Nat
        BY <1>2, <2>2 DEF CInv, ClientTypeOK
      <3>2. lastId[c] = snapshot.id /\ snapshot.last # NoId => SequenceOf(snapshot.last) <= base[c]
        BY <1>4 DEF ClientOK, StartsInTime
      <3> QED BY <2>2, <3>1, <3>2 DEF SequenceAfter
    <2> QED BY <2>1, <2>2
  <1>8. StartsInTime(c)'
    <2>1. lastId[c] = snapshot.id /\ snapshot.last # NoId => SequenceOf(snapshot.last) <= base'[c]
      BY <1>2, <1>4, <1>6 DEF ClientOK, StartsInTime
    <2> QED BY <1>1, <1>2, <1>3, <1>4, <1>5, <1>7, <2>1 DEF ClientOK, StartsInTime, KnownId
  <1>9. Delivers(c)' /\ Missed(c)'
    BY <1>1, <1>2, <1>3, <1>4, <1>5 DEF ClientOK, Delivers, Missed
  <1> QED BY <1>8, <1>9 DEF ClientOK

LEMMA SnapshotSent ==
  ASSUME IInv, CInv, NEW c \in Clients, SendSnapshot(c)
  PROVE  ClientOK(c)'
  <1>1. /\ UNCHANGED <<at, appended, rows, snapshot, onBus>>
        /\ \A id : SequenceOf(id)' = SequenceOf(id) /\ SequenceAfter(id)' = SequenceAfter(id)
        /\ Stored' = Stored
    BY SameTables DEF SendSnapshot, pubVars
  <1>2. /\ conn[c] = "snapshot" /\ conn'[c] = "replay"
        /\ UNCHANGED <<pending, queue, sent>>
    BY DEF SendSnapshot, Reach, CInv, ClientTypeOK
  <1>3. ClientOK(c) /\ base[c] \in Nat
    BY DEF CInv, ClientTypeOK
  <1>4. \A e : (IsAppended(e)' <=> IsAppended(e)) /\ (IsMark(e)' <=> IsMark(e))
    BY <1>1 DEF IsAppended, IsMark, Past
  <1>5. sent[c] = << >> /\ pending[c] = << >> /\ queue[c] = << >> /\ after[c] = NoId
    BY <1>2, <1>3 DEF ClientOK, Delivers, StartsInTime
  <1>6. SequenceAfter(NoId) = 0
    BY AfterIsNumber DEF CInv
  <1>7. CASE snapshot.id = NoId
    <2>1. UNCHANGED <<lastId, seen, after, base>>
      BY <1>7 DEF SendSnapshot, GetSnapshot
    <2>2. StartsInTime(c)'
      BY <1>1, <1>2, <1>3, <1>4, <1>5, <1>6, <2>1 DEF ClientOK, StartsInTime, KnownId
    <2>3. Delivers(c)' /\ Missed(c)'
      BY <1>1, <1>2, <1>3, <1>4, <2>1 DEF ClientOK, Delivers, Missed
    <2> QED BY <2>2, <2>3 DEF ClientOK
  <1>8. CASE snapshot.id # NoId
    <2>1. /\ lastId'[c] = snapshot.id /\ seen'[c] = seen[c] \cup {snapshot.id}
          /\ after'[c] = snapshot.last
          /\ base'[c] = IF snapshot.last = NoId THEN 0 ELSE SequenceOf(snapshot.last)
      BY <1>8 DEF SendSnapshot, GetSnapshot, CInv, ClientTypeOK
    <2>2. IsMark(snapshot.id) /\ snapshot.last \in Stored \cup {NoId}
      BY <1>8 DEF CInv, SnapshotOK
    <2>3. snapshot.last = NoId \/ IsAppended(snapshot.last)
      BY <2>2 DEF CInv, StoresOK, Published
    <2>4. SequenceAfter(snapshot.last) <= base'[c] /\ base'[c] \in Nat
      <3>1. CASE snapshot.last = NoId
        BY <1>6, <2>1, <3>1
      <3>2. CASE snapshot.last # NoId
        <4>1. SequenceOf(snapshot.last) \in Nat
          BY <2>2, <3>2, Located DEF CInv, StoresOK
        <4>2. snapshot.last # snapshot.id
          BY <2>2, <2>3, <3>2 DEF IsMark, IsAppended
        <4>3. SequenceAfter(snapshot.last) = SequenceOf(snapshot.last)
          BY <2>2, <3>2, <4>2 DEF SequenceAfter
        <4> QED BY <2>1, <3>2, <4>1, <4>3
      <3> QED BY <3>1, <3>2
    <2>5. snapshot.last # NoId => SequenceOf(snapshot.last) <= base'[c]
      BY <2>1, <2>4
    <2>6. StartsInTime(c)'
      BY <1>1, <1>2, <1>4, <2>1, <2>2, <2>3, <2>4, <2>5 DEF StartsInTime, KnownId
    <2>7. Delivers(c)' /\ Missed(c)'
      BY <1>1, <1>2, <1>3, <1>4, <2>1, <2>2 DEF ClientOK, Delivers, Missed
    <2> QED BY <2>6, <2>7 DEF ClientOK
  <1> QED BY <1>7, <1>8

LEMMA ReplayKeeps ==
  ASSUME IInv, CInv, NEW c \in Clients, ReadReplay(c)
  PROVE  ClientOK(c)'
  <1> DEFINE n == SequenceAfter(after[c])
  <1>1. /\ UNCHANGED <<at, appended, rows, snapshot, onBus>>
        /\ \A id : SequenceOf(id)' = SequenceOf(id)
    BY SameTables DEF ReadReplay, pubVars
  <1>2. /\ conn[c] = "replay" /\ conn'[c] = "send" /\ pending'[c] = EventsAfter(n)
        /\ UNCHANGED <<lastId, after, seen, queue, sent, base, window>>
    BY DEF ReadReplay, Reach, CInv, ClientTypeOK
  <1>3. ClientOK(c) /\ base[c] \in Nat
    BY DEF CInv, ClientTypeOK
  <1>4. \A e : (IsAppended(e)' <=> IsAppended(e)) /\ (IsMark(e)' <=> IsMark(e))
    BY <1>1 DEF IsAppended, IsMark, Past
  <1>5. n \in Nat /\ n <= base[c]
    BY <1>2, <1>3, AfterIsNumber DEF CInv, ClientOK, StartsInTime
  <1>6. /\ Distinct(pending'[c])
        /\ Content(pending'[c]) = {r.event : r \in {q \in rows : q.sequence > n}}
    BY <1>2, <1>5, ReplayIsWhole DEF CInv, StoresOK
  <1>7. \A e \in Content(pending'[c]) : IsAppended(e)
    BY <1>6 DEF CInv, StoresOK, Published, Stored
  <1>8. sent[c] = << >> /\ queue[c] = << >>
    BY <1>2, <1>3 DEF ClientOK, Delivers
  <1>9. \A r \in rows : r.sequence \in Nat
    BY DEF IInv, PublisherTypeOK
  <1> HIDE DEF n
  <1>10. StartsInTime(c)'
    BY <1>1, <1>2, <1>3, <1>4 DEF ClientOK, StartsInTime, KnownId
  <1>11. Delivers(c)'
    BY <1>1, <1>2, <1>3, <1>4, <1>6, <1>7, <1>8, ContentEmpty DEF ClientOK, Delivers
  <1>12. \A r \in rows : r.sequence > base[c] => r.event \in Content(pending'[c])
    BY <1>3, <1>5, <1>6, <1>9
  <1>13. Missed(c)'
    BY <1>1, <1>2, <1>12 DEF Missed, Reaches
  <1> QED BY <1>10, <1>11, <1>13 DEF ClientOK

LEMMA ReplayedSent ==
  ASSUME IInv, CInv, NEW c \in Clients, SendReplayed(c)
  PROVE  ClientOK(c)'
  <1>1. /\ UNCHANGED <<at, appended, rows, snapshot, onBus>>
        /\ \A id : SequenceOf(id)' = SequenceOf(id)
    BY SameTables DEF SendReplayed, pubVars
  <1>2. PICK e : /\ e = Head(pending[c])
                 /\ conn[c] = "send" /\ pending[c] # << >>
                 /\ lastId'[c] = e /\ sent'[c] = Append(sent[c], e)
                 /\ seen'[c] = seen[c] \cup {e} /\ pending'[c] = Tail(pending[c])
                 /\ UNCHANGED <<conn, after, queue, base, window>>
    BY DEF SendReplayed, Send, CInv, ClientTypeOK
  <1>3. ClientOK(c) /\ sent[c] \in Seq(Events) /\ pending[c] \in Seq(Events)
    BY DEF CInv, ClientTypeOK
  <1>4. \A d : (IsAppended(d)' <=> IsAppended(d)) /\ (IsMark(d)' <=> IsMark(d))
    BY <1>1 DEF IsAppended, IsMark, Past
  <1>5. /\ e \in Events
        /\ Content(pending[c]) = Content(pending'[c]) \cup {e}
        /\ Distinct(pending'[c]) /\ e \notin Content(pending'[c])
    BY <1>2, <1>3, ContentTail DEF ClientOK, Delivers
  <1>6. e \notin Content(sent[c]) /\ IsAppended(e)
    BY <1>3, <1>5 DEF ClientOK, Delivers
  <1>7. Content(sent'[c]) = Content(sent[c]) \cup {e} /\ Distinct(sent'[c])
    BY <1>2, <1>3, <1>5, <1>6, ContentAppend DEF ClientOK, Delivers
  <1>8. queue[c] = << >>
    BY <1>2, <1>3 DEF ClientOK, Delivers
  <1>9. StartsInTime(c)'
    <2>1. e # snapshot.id
      <3>1. e # NoId /\ ~IsMark(e)
        BY <1>6, NoIdIsNone DEF IsAppended, IsMark
      <3> QED BY <3>1 DEF CInv, SnapshotOK
    <2> QED BY <1>1, <1>2, <1>3, <1>4, <1>6, <2>1 DEF ClientOK, StartsInTime, KnownId
  <1>10. Delivers(c)'
    BY <1>1, <1>2, <1>3, <1>4, <1>5, <1>6, <1>7, <1>8, ContentEmpty DEF ClientOK, Delivers
  <1>11. Missed(c)'
    BY <1>1, <1>2, <1>3, <1>5, <1>7 DEF ClientOK, Missed, Reaches
  <1> QED BY <1>9, <1>10, <1>11 DEF ClientOK

LEMMA LiveSent ==
  ASSUME IInv, CInv, NEW c \in Clients, SendLive(c)
  PROVE  ClientOK(c)'
  <1>1. /\ UNCHANGED <<at, appended, rows, snapshot, onBus>>
        /\ \A id : SequenceOf(id)' = SequenceOf(id)
    BY SameTables DEF SendLive, pubVars
  <1>2. PICK e : /\ e = Head(queue[c])
                 /\ conn[c] = "live" /\ queue[c] # << >>
                 /\ queue'[c] = Tail(queue[c])
                 /\ IF e \in seen[c] THEN UNCHANGED <<lastId, sent>>
                    ELSE lastId'[c] = e /\ sent'[c] = Append(sent[c], e)
                 /\ UNCHANGED <<conn, after, pending, seen, base, window>>
    BY DEF SendLive, Send, CInv, ClientTypeOK
  <1>3. ClientOK(c) /\ sent[c] \in Seq(Events) /\ queue[c] \in Seq(Events)
    BY DEF CInv, ClientTypeOK
  <1>4. \A d : (IsAppended(d)' <=> IsAppended(d)) /\ (IsMark(d)' <=> IsMark(d))
    BY <1>1 DEF IsAppended, IsMark, Past
  <1>5. /\ e \in Events
        /\ Content(queue[c]) = Content(queue'[c]) \cup {e}
        /\ Distinct(queue'[c]) /\ e \notin Content(queue'[c])
    BY <1>2, <1>3, ContentTail DEF ClientOK, Delivers
  <1>6. IsAppended(e) /\ e \in onBus /\ (e \notin seen[c] => e \notin Content(sent[c]))
    BY <1>3, <1>5 DEF ClientOK, Delivers
  <1>7. ~IsMark(e) /\ e # snapshot.id
    <2>1. e # NoId /\ ~IsMark(e)
      BY <1>6, NoIdIsNone DEF IsAppended, IsMark
    <2> QED BY <2>1 DEF CInv, SnapshotOK
  <1>8. CASE e \in seen[c]
    <2>1. e \in Content(sent[c])
      BY <1>3, <1>7, <1>8 DEF ClientOK, Delivers
    <2>2. StartsInTime(c)'
      BY <1>1, <1>2, <1>3, <1>4, <1>8 DEF ClientOK, StartsInTime, KnownId
    <2>3. Delivers(c)'
      BY <1>1, <1>2, <1>3, <1>4, <1>5, <1>8 DEF ClientOK, Delivers
    <2>4. Missed(c)'
      BY <1>1, <1>2, <1>3, <1>5, <1>8, <2>1 DEF ClientOK, Missed, Reaches
    <2> QED BY <2>2, <2>3, <2>4 DEF ClientOK
  <1>9. CASE e \notin seen[c]
    <2>1. Content(sent'[c]) = Content(sent[c]) \cup {e} /\ Distinct(sent'[c])
      <3>1. sent'[c] = Append(sent[c], e) /\ e \notin Content(sent[c])
        BY <1>2, <1>6, <1>9
      <3>2. Distinct(sent[c])
        BY <1>3 DEF ClientOK, Delivers
      <3> QED BY <1>3, <1>5, <3>1, <3>2, ContentAppend
    <2>2. StartsInTime(c)'
      BY <1>1, <1>2, <1>3, <1>4, <1>6, <1>7, <1>9 DEF ClientOK, StartsInTime, KnownId
    <2>3. pending[c] = << >>
      BY <1>2, <1>3 DEF ClientOK, Delivers
    <2>4. Delivers(c)'
      BY <1>1, <1>2, <1>3, <1>4, <1>5, <1>6, <2>1, <2>3, ContentEmpty DEF ClientOK, Delivers
    <2>5. Missed(c)'
      BY <1>1, <1>2, <1>3, <1>5, <2>1 DEF ClientOK, Missed, Reaches
    <2> QED BY <2>2, <2>4, <2>5 DEF ClientOK
  <1> QED BY <1>8, <1>9

LEMMA TurnKeeps ==
  ASSUME IInv, CInv, NEW c \in Clients, Subscribe(c) \/ Disconnect(c)
  PROVE  ClientOK(c)'
  <1>1. /\ UNCHANGED <<at, appended, rows, snapshot, onBus>>
        /\ \A id : SequenceOf(id)' = SequenceOf(id)
    BY SameTables DEF Subscribe, Disconnect, pubVars
  <1>2. ClientOK(c)
    BY DEF CInv
  <1>3. \A d : (IsAppended(d)' <=> IsAppended(d)) /\ (IsMark(d)' <=> IsMark(d))
    BY <1>1 DEF IsAppended, IsMark, Past
  <1>4. CASE Subscribe(c)
    <2>1. /\ conn[c] = "send" /\ conn'[c] = "live" /\ pending[c] = << >>
          /\ UNCHANGED <<lastId, after, pending, seen, queue, sent, base, window>>
      BY <1>4 DEF Subscribe, Reach, CInv, ClientTypeOK
    <2>2. StartsInTime(c)'
      BY <1>1, <1>2, <1>3, <2>1 DEF ClientOK, StartsInTime, KnownId
    <2>3. Delivers(c)' /\ Missed(c)'
      BY <1>1, <1>2, <1>3, <2>1 DEF ClientOK, Delivers, Missed, Reaches
    <2> QED BY <2>2, <2>3 DEF ClientOK
  <1>5. CASE Disconnect(c)
    <2>1. /\ conn'[c] = "off" /\ after'[c] = NoId /\ UNCHANGED <<lastId, base>>
          /\ pending'[c] = << >> /\ queue'[c] = << >> /\ sent'[c] = << >> /\ seen'[c] = {}
      BY <1>5 DEF Disconnect, Reach, CInv, ClientTypeOK
    <2>2. StartsInTime(c)'
      BY <1>1, <1>2, <1>3, <2>1 DEF ClientOK, StartsInTime, KnownId
    <2>3. Delivers(c)' /\ Missed(c)'
      BY <2>1, ContentEmpty DEF Delivers, Missed
    <2> QED BY <2>2, <2>3 DEF ClientOK
  <1> QED BY <1>4, <1>5

-----------------------------------------------------------------------------
LEMMA InitCInv == Init => CInv
  <1> SUFFICES ASSUME Init PROVE CInv
    OBVIOUS
  <1>1. Stored = {} /\ Published = {} /\ rows = {}
    BY DEF Init, Published, Stored
  <1>2. StoresOK
    BY <1>1 DEF Init, StoresOK, OneRow
  <1>3. SnapshotOK
    BY DEF Init, SnapshotOK
  <1>4. ClientTypeOK
    <2>1. << >> \in Seq(Events)
      OBVIOUS
    <2> QED BY <2>1 DEF Init, ClientTypeOK, ClientSteps
  <1>5. ASSUME NEW c \in Clients PROVE ClientOK(c)
    BY <1>1, ContentEmpty DEF Init, ClientOK, StartsInTime, KnownId, Delivers, Missed
  <1> QED BY <1>2, <1>3, <1>4, <1>5 DEF CInv

LEMMA ClientStep == IInv /\ LInv /\ CInv /\ [Next]_vars => CInv'
  <1> SUFFICES ASSUME IInv, LInv, CInv, [Next]_vars PROVE CInv'
    OBVIOUS
  <1>1. StoresOK' /\ SnapshotOK' /\ ClientTypeOK'
    BY StoresStep, SnapshotStep, ClientTypeStep DEF CInv
  <1>2. ASSUME NEW c \in Clients PROVE ClientOK(c)'
    <2>1. CASE DeleteRun \/ \E p \in Publishers : GetRun(p) \/ Publish(p) \/ PublishFails(p)
      BY <2>1, RequestKeeps
    <2>2. ASSUME NEW d \in Clients, Stream(d) \/ Connect(d) \/ Disconnect(d) PROVE ClientOK(c)'
      <3>1. CASE d # c
        BY <2>2, <3>1, OthersKeep
      <3>2. CASE d = c
        BY <2>2, <3>2, ConnectKeeps, SnapshotSent, ReplayKeeps, ReplayedSent, LiveSent, TurnKeeps
        DEF Stream
      <3> QED BY <3>1, <3>2
    <2>3. CASE UNCHANGED vars
      <3>1. conn[c] = "replay" => SequenceAfter(after[c])' <= base[c]
        BY <2>3, SameTables DEF vars, pubVars, clientVars, CInv, ClientOK, StartsInTime
      <3> QED BY <2>3, <3>1, SameTables, Undisturbed DEF vars, pubVars, clientVars
    <2> QED BY <2>1, <2>2, <2>3 DEF Next
  <1> QED BY <1>1, <1>2 DEF CInv

\* However requests, failures and connections interleave, a connection is sent each event
\* once, and misses only what was put on the bus while its replay was being sent, for any
\* number of requests, events and clients, with the events in the database or in memory.
THEOREM StreamIsWhole == Spec => []SentOnceEach
  <1>1. CInv => SentOnceEach
    BY DEF CInv, ClientOK, Delivers, Missed, Distinct, SentOnceEach, NoDuplicates,
       OnlyWindowIsMissed
  <1>2. Spec => [](IInv /\ LInv /\ CInv)
    BY InitEstablishes, StepPreserves, InitLInv, LedgerStep, InitCInv, ClientStep, PTL DEF Spec
  <1> QED BY <1>1, <1>2, PTL
=============================================================================
