---------------------------- MODULE EventStream ----------------------------
(***************************************************************************)
(* The record of ONE run (apps/orchestrator/streaming and                  *)
(* api/ledger_store.py): requests that save the run, write its events to   *)
(* the ledger, publish them to the store and the bus and then replace the  *)
(* snapshot, and clients of GET /runs/{run_id}/stream that get a snapshot, *)
(* a replay of the store and then what the bus delivers, and that come     *)
(* back with a Last-Event-ID when their connection breaks.  The run goes   *)
(* with its workflow, at any time.                                         *)
(*                                                                         *)
(* A publisher is what a request does after the engine's pass: the event   *)
(* hook and then _publish_with_snapshot, or the other way round when it    *)
(* cancels the run or an interrupt.  Its events are <<p, 1>>, <<p, 2>>,    *)
(* ..., its snapshot has the id <<p, 0>>.  The run and the ledger are kept *)
(* in the database, the events there or in the memory store.               *)
(***************************************************************************)
EXTENDS Integers, Sequences, FiniteSets

CONSTANTS
  Publishers,         \* requests that publish on the run
  Cancels,            \* those that cancel: cancel_run, cancel_interrupt
  NoPublisher,        \* nobody
  Count,              \* number of events of each publisher
  Clients,            \* SSE clients
  MaxConnects,        \* bound on the connections of a client
  InDatabase          \* the events are kept in the database

ASSUME PublisherAssumption ==
  /\ NoPublisher \notin Publishers /\ Cancels \subseteq Publishers
  /\ Count \in [Publishers -> Nat]
  /\ MaxConnects \in Nat
  /\ InDatabase \in BOOLEAN

VARIABLES
  run,        \* the row of the run: "new" until it is inserted, "deleted"
  ledger,     \* the events that the ledger has an entry of
  rows,       \* the events table: [event, sequence]
  lock,       \* holder of the advisory lock of the run
  snapshot,   \* the stored snapshot and the last event that it covers
  at,         \* where a publisher is: see PublisherSteps
  appended,   \* how many of its events a publisher has appended
  maxRead,    \* the highest sequence that a publisher has read
  onBus,      \* history: events put on the bus
  conn,       \* where a client's connection is: see ClientSteps
  lastId,     \* id of the last thing the client was sent
  after,      \* id after which the connection's replay starts
  pending,    \* events of the replay that are not sent yet
  seen,       \* ids that the generator remembers as sent
  queue,      \* bus queue of the connection
  sent,       \* events sent on the connection, in order
  base,       \* history: sequence up to which the client needs no event
  window,     \* history: put on the bus between the replay's query and subscribe
  connects    \* number of connections the client has made

pubVars    == <<run, ledger, rows, lock, snapshot, at, appended, maxRead, onBus>>
clientVars == <<conn, lastId, after, pending, seen, queue, sent, base, window, connects>>
vars       == <<pubVars, clientVars>>

Events == Publishers \X (Nat \ {0})
Ids    == Publishers \X Nat
NoId   == <<NoPublisher, 0>>

PublisherSteps == {"off", "persist", "ledger", "lock", "read", "insert", "bus", "last",
                   "snapshot", "done", "failed"}
ClientSteps    == {"off", "snapshot", "replay", "send", "live"}

TypeOK ==
  /\ run \in {"new", "stored", "deleted"}
  /\ ledger \subseteq Events
  /\ rows \subseteq [event : Events, sequence : Nat \ {0}]
  /\ lock \in Publishers \cup {NoPublisher}
  /\ snapshot \in [id : Ids \cup {NoId}, last : Events \cup {NoId}]
  /\ at \in [Publishers -> PublisherSteps]
  /\ appended \in [Publishers -> Nat]
  /\ maxRead \in [Publishers -> Nat]
  /\ onBus \subseteq Events
  /\ conn \in [Clients -> ClientSteps]
  /\ lastId \in [Clients -> Ids \cup {NoId}]
  /\ after \in [Clients -> Ids \cup {NoId}]
  /\ pending \in [Clients -> Seq(Events)]
  /\ seen \in [Clients -> SUBSET Ids]
  /\ queue \in [Clients -> Seq(Events)]
  /\ sent \in [Clients -> Seq(Events)]
  /\ base \in [Clients -> Nat]
  /\ window \in [Clients -> SUBSET Events]
  /\ connects \in [Clients -> Nat]

Init ==
  /\ run = "new" /\ ledger = {}
  /\ rows = {} /\ lock = NoPublisher
  /\ snapshot = [id |-> NoId, last |-> NoId]
  /\ at = [p \in Publishers |-> IF p \in Cancels THEN "off" ELSE "persist"]
  /\ appended = [p \in Publishers |-> 0]
  /\ maxRead = [p \in Publishers |-> 0]
  /\ onBus = {}
  /\ conn = [c \in Clients |-> "off"]
  /\ lastId = [c \in Clients |-> NoId]
  /\ after = [c \in Clients |-> NoId]
  /\ pending = [c \in Clients |-> << >>]
  /\ seen = [c \in Clients |-> {}]
  /\ queue = [c \in Clients |-> << >>]
  /\ sent = [c \in Clients |-> << >>]
  /\ base = [c \in Clients |-> 0]
  /\ window = [c \in Clients |-> {}]
  /\ connects = [c \in Clients |-> 0]

-----------------------------------------------------------------------------
(* The stores.                                                             *)

\* Whether rows that refer to the run can be inserted into the events table.
Accepts == InDatabase => run = "stored"

Stored == {r.event : r \in rows}

SequenceOf(e) == (CHOOSE r \in rows : r.event = e).sequence

\* coalesce(max(sequence), 0)
MaxSequence ==
  IF rows = {} THEN 0
  ELSE CHOOSE n \in {r.sequence : r \in rows} : \A r \in rows : r.sequence <= n

LastEvent ==
  IF rows = {} THEN NoId ELSE (CHOOSE r \in rows : r.sequence = MaxSequence).event

\* Where list_events starts.  The id of a snapshot that is no longer stored is
\* unknown, and an unknown id means all events.
SequenceAfter(id) ==
  CASE id \in Stored                             -> SequenceOf(id)
    [] InDatabase /\ id = snapshot.id
         /\ snapshot.last # NoId                 -> SequenceOf(snapshot.last)
    [] OTHER                                     -> 0

EventsAfter(n) ==
  LET later == {r \in rows : r.sequence > n}
  IN  [i \in 1 .. Cardinality(later) |->
         (CHOOSE r \in later : Cardinality({q \in later : q.sequence <= r.sequence}) = i).event]

\* list_run gives the entries up to a limit that no run of the model reaches.
ListRun == ledger

\* list_events knows the id of the snapshot only if the database keeps it.
GetSnapshot == snapshot

-----------------------------------------------------------------------------
(* _handle_runtime_events, the hook that is called with the run's events.  *)

Goto(p, step) == at' = [at EXCEPT ![p] = step]

PublishStep(p) == IF Count[p] = 0 THEN "last" ELSE "lock"
AfterHooks(p)  == IF p \in Cancels THEN "done" ELSE PublishStep(p)
AfterPublish(p) == IF p \in Cancels THEN "persist" ELSE "done"

\* A cancellation reads the run first.
GetRun(p) ==
  /\ at[p] = "off" /\ run = "stored"
  /\ Goto(p, PublishStep(p))
  /\ UNCHANGED <<run, ledger, rows, lock, snapshot, appended, maxRead, onBus, clientVars>>

\* The run is inserted or updated, unless its workflow is gone.  Without events there is
\* nothing to write to the ledger.
PersistRun(p) ==
  /\ at[p] = "persist" /\ run # "deleted"
  /\ run' = "stored"
  /\ Goto(p, IF Count[p] = 0 THEN AfterHooks(p) ELSE "ledger")
  /\ UNCHANGED <<ledger, rows, lock, snapshot, appended, maxRead, onBus, clientVars>>

\* runtime_events_to_ledger_entries: one entry for each event.
Entries(p) == {<<p, k>> : k \in 1 .. Count[p]}

\* All entries or none; they refer to the run.
AppendEntries(es) == run = "stored" /\ ledger' = ledger \cup es

\* Variant: an insertion that fails is given up, and the request goes on.
MutWriteLedger(p) ==
  /\ at[p] = "ledger"
  /\ AppendEntries(Entries(p)) \/ UNCHANGED ledger
  /\ Goto(p, AfterHooks(p))
  /\ UNCHANGED <<run, rows, lock, snapshot, appended, maxRead, onBus, clientVars>>

\* When the run is missing it is persisted again and the entries are tried again; but a
\* run that is missing has gone with its workflow, and then so does the request.
WriteLedger(p) ==
  /\ at[p] = "ledger"
  /\ AppendEntries(Entries(p))
  /\ Goto(p, AfterHooks(p))
  /\ UNCHANGED <<run, rows, lock, snapshot, appended, maxRead, onBus, clientVars>>

-----------------------------------------------------------------------------
(* EventPublisher.publish and _publish_with_snapshot.                      *)

\* Variant: the advisory lock is not waited for.
MutNoLock(p) ==
  /\ at[p] = "lock"
  /\ lock' = p
  /\ Goto(p, "read")
  /\ UNCHANGED <<run, ledger, rows, snapshot, appended, maxRead, onBus, clientVars>>

AcquireLock(p) ==
  /\ at[p] = "lock" /\ lock = NoPublisher
  /\ lock' = p
  /\ Goto(p, "read")
  /\ UNCHANGED <<run, ledger, rows, snapshot, appended, maxRead, onBus, clientVars>>

ReadMax(p) ==
  /\ at[p] = "read"
  /\ maxRead' = [maxRead EXCEPT ![p] = MaxSequence]
  /\ Goto(p, "insert")
  /\ UNCHANGED <<run, ledger, rows, lock, snapshot, appended, onBus, clientVars>>

\* The row is inserted, and the commit releases the lock.
InsertEvent(p) ==
  /\ at[p] = "insert" /\ Accepts
  /\ rows' = rows \cup {[event |-> <<p, appended[p] + 1>>, sequence |-> maxRead[p] + 1]}
  /\ appended' = [appended EXCEPT ![p] = @ + 1]
  /\ lock' = NoPublisher
  /\ Goto(p, "bus")
  /\ UNCHANGED <<run, ledger, snapshot, maxRead, onBus, clientVars>>

AfterBus(p) ==
  /\ onBus' = onBus \cup {<<p, appended[p]>>}
  /\ window' = [c \in Clients |->
       IF conn[c] = "send" THEN window[c] \cup {<<p, appended[p]>>} ELSE window[c]]
  /\ Goto(p, IF appended[p] < Count[p] THEN "lock" ELSE "snapshot")
  /\ UNCHANGED <<run, ledger, rows, lock, snapshot, appended, maxRead, conn, lastId, after, pending,
                 seen, sent, base, connects>>

\* Variant: a queue that is not empty drops the event.
MutFullQueue(p) ==
  /\ at[p] = "bus"
  /\ queue' = [c \in Clients |->
       IF conn[c] = "live" /\ queue[c] = << >> THEN <<<<p, appended[p]>>>> ELSE queue[c]]
  /\ AfterBus(p)

PublishToBus(p) ==
  /\ at[p] = "bus"
  /\ queue' = [c \in Clients |->
       IF conn[c] = "live" THEN Append(queue[c], <<p, appended[p]>>) ELSE queue[c]]
  /\ AfterBus(p)

\* A call without events reads the store's last event instead.
ReadLastEvent(p) ==
  /\ at[p] = "last"
  /\ maxRead' = [maxRead EXCEPT ![p] = MaxSequence]
  /\ Goto(p, "snapshot")
  /\ UNCHANGED <<run, ledger, rows, lock, snapshot, appended, onBus, clientVars>>

\* The event that a publisher's snapshot covers.
Covered(p) ==
  CASE appended[p] > 0                     -> <<p, appended[p]>>
    [] appended[p] = 0 /\ maxRead[p] = 0   -> NoId
    [] appended[p] = 0 /\ maxRead[p] # 0   -> (CHOOSE r \in rows : r.sequence = maxRead[p]).event

\* The snapshot is replaced, whatever the one there covers.
ReplaceSnapshot(id, last) == Accepts /\ snapshot' = [id |-> id, last |-> last]

SetSnapshot(p) ==
  /\ at[p] = "snapshot"
  /\ ReplaceSnapshot(<<p, 0>>, Covered(p))
  /\ Goto(p, AfterPublish(p))
  /\ UNCHANGED <<run, ledger, rows, lock, appended, maxRead, onBus, clientVars>>

\* A store, a webhook's registration or the bus raises: an open transaction is rolled
\* back, and what the request has not written and published yet it never will.
PublishFails(p) ==
  /\ at[p] \notin {"off", "done", "failed"}
  /\ lock' = IF lock = p THEN NoPublisher ELSE lock
  /\ Goto(p, "failed")
  /\ UNCHANGED <<run, ledger, rows, snapshot, appended, maxRead, onBus, clientVars>>

-----------------------------------------------------------------------------
(* _event_stream.                                                          *)

Reach(c, step) == conn' = [conn EXCEPT ![c] = step]

\* A connection, with the id of the last thing the client was sent; refused when there
\* is no such run.
Connect(c) ==
  /\ conn[c] = "off" /\ run = "stored" /\ connects[c] < MaxConnects
  /\ connects' = [connects EXCEPT ![c] = @ + 1]
  /\ Reach(c, IF lastId[c] = NoId THEN "snapshot" ELSE "replay")
  /\ after' = [after EXCEPT ![c] = lastId[c]]
  /\ base' = [base EXCEPT ![c] = IF lastId[c] \in Stored THEN SequenceOf(lastId[c]) ELSE @]
  /\ UNCHANGED <<pubVars, lastId, pending, seen, queue, sent, window>>

\* The snapshot, if there is one, is sent first; the replay will start after
\* the last event that it covers.
SendSnapshot(c) ==
  /\ conn[c] = "snapshot"
  /\ IF GetSnapshot.id = NoId THEN UNCHANGED <<lastId, seen, after, base>>
     ELSE /\ lastId' = [lastId EXCEPT ![c] = GetSnapshot.id]
          /\ seen' = [seen EXCEPT ![c] = @ \cup {GetSnapshot.id}]
          /\ after' = [after EXCEPT ![c] = GetSnapshot.last]
          /\ base' = [base EXCEPT ![c] =
               IF GetSnapshot.last = NoId THEN 0 ELSE SequenceOf(GetSnapshot.last)]
  /\ Reach(c, "replay")
  /\ UNCHANGED <<pubVars, pending, queue, sent, window, connects>>

ReadReplay(c) ==
  /\ conn[c] = "replay"
  /\ pending' = [pending EXCEPT ![c] = EventsAfter(SequenceAfter(after[c]))]
  /\ Reach(c, "send")
  /\ UNCHANGED <<pubVars, lastId, after, seen, queue, sent, base, window, connects>>

Send(c, e) ==
  /\ lastId' = [lastId EXCEPT ![c] = e]
  /\ sent' = [sent EXCEPT ![c] = Append(@, e)]

\* Variant: what is replayed is not remembered.
MutForgetReplayed(c) ==
  /\ conn[c] = "send" /\ pending[c] # << >>
  /\ Send(c, Head(pending[c]))
  /\ pending' = [pending EXCEPT ![c] = Tail(@)]
  /\ UNCHANGED <<pubVars, conn, after, seen, queue, base, window, connects>>

SendReplayed(c) ==
  /\ conn[c] = "send" /\ pending[c] # << >>
  /\ Send(c, Head(pending[c]))
  /\ seen' = [seen EXCEPT ![c] = @ \cup {Head(pending[c])}]
  /\ pending' = [pending EXCEPT ![c] = Tail(@)]
  /\ UNCHANGED <<pubVars, conn, after, queue, base, window, connects>>

\* bus.subscribe adds the queue only when the generator asks for the first
\* live event.
Subscribe(c) ==
  /\ conn[c] = "send" /\ pending[c] = << >>
  /\ Reach(c, "live")
  /\ UNCHANGED <<pubVars, lastId, after, pending, seen, queue, sent, base, window, connects>>

SendLive(c) ==
  /\ conn[c] = "live" /\ queue[c] # << >>
  /\ queue' = [queue EXCEPT ![c] = Tail(@)]
  /\ IF Head(queue[c]) \in seen[c] THEN UNCHANGED <<lastId, sent>>
     ELSE Send(c, Head(queue[c]))
  /\ UNCHANGED <<pubVars, conn, after, pending, seen, base, window, connects>>

\* The client goes away; the generator and its queue are gone.
Disconnect(c) ==
  /\ conn[c] # "off"
  /\ Reach(c, "off")
  /\ after' = [after EXCEPT ![c] = NoId]
  /\ pending' = [pending EXCEPT ![c] = << >>]
  /\ queue' = [queue EXCEPT ![c] = << >>]
  /\ seen' = [seen EXCEPT ![c] = {}]
  /\ sent' = [sent EXCEPT ![c] = << >>]
  /\ window' = [window EXCEPT ![c] = {}]
  /\ UNCHANGED <<pubVars, lastId, base, connects>>

-----------------------------------------------------------------------------
(* The workflow is deleted.                                                *)

\* What refers to the run goes with it; the memory store does not hear of it.
DeleteRun ==
  /\ run = "stored"
  /\ run' = "deleted" /\ ledger' = {}
  /\ IF InDatabase THEN rows' = {} /\ snapshot' = [id |-> NoId, last |-> NoId]
     ELSE UNCHANGED <<rows, snapshot>>
  /\ UNCHANGED <<lock, at, appended, maxRead, onBus, clientVars>>

-----------------------------------------------------------------------------
Publish(p) ==
  \/ PersistRun(p)
  \/ WriteLedger(p)
  \/ AcquireLock(p)
  \/ ReadMax(p)
  \/ InsertEvent(p)
  \/ PublishToBus(p)
  \/ ReadLastEvent(p)
  \/ SetSnapshot(p)

Stream(c) ==
  \/ SendSnapshot(c)
  \/ ReadReplay(c)
  \/ SendReplayed(c)
  \/ Subscribe(c)
  \/ SendLive(c)

Next ==
  \/ \E p \in Publishers : GetRun(p) \/ Publish(p) \/ PublishFails(p)
  \/ \E c \in Clients : Stream(c) \/ Connect(c) \/ Disconnect(c)
  \/ DeleteRun

\* The event loop resumes every coroutine that can go on; nobody has to fail,
\* to connect or to go away.
Spec ==
  /\ Init /\ [][Next]_vars
  /\ \A p \in Publishers : WF_vars(Publish(p))
  /\ \A c \in Clients : WF_vars(Stream(c))

-----------------------------------------------------------------------------
(* Properties.                                                             *)

Content(s) == {s[i] : i \in DOMAIN s}

\* The sequences of a run are 1, 2, 3, ..., each of one event, whichever
\* requests publish at the same time and wherever they fail.
SequencesAreDense ==
  /\ \A r, q \in rows : r.sequence = q.sequence => r = q
  /\ \A r \in rows : \A n \in 1 .. r.sequence : \E q \in rows : q.sequence = n

\* No event is sent twice on a connection, although an event that is stored
\* before the replay's query may reach the bus after the subscription.
NoDuplicates ==
  \A c \in Clients : \A i, j \in DOMAIN sent[c] : sent[c][i] = sent[c][j] => i = j

Reaches(c, r) == r.event \in Content(sent[c]) \cup Content(pending[c]) \cup Content(queue[c])

\* What follows the event or the snapshot that the client has, the connection
\* has sent or will send, unless it did not get to the bus (yet) or got there
\* while the replay was being sent.
OnlyWindowIsMissed ==
  \A c \in Clients : conn[c] \in {"send", "live"} =>
    \A r \in rows : r.sequence > base[c] =>
      Reaches(c, r) \/ r.event \notin onBus \/ r.event \in window[c]

\* A connection is sent each event once, and what it is not sent is known.
SentOnceEach == NoDuplicates /\ OnlyWindowIsMissed

\* As long as the run exists, whatever is stored or was sent of its events is in the
\* ledger, wherever requests fail, but for a cancellation that has failed or is not over:
\* it publishes first.  When the run has been deleted nothing of it comes back, though
\* requests are still writing.
RecordIsKept ==
  /\ run # "deleted" =>
       \A e \in Stored \cup onBus :
         e \in ListRun \/ (e[1] \in Cancels /\ at[e[1]] # "done")
  /\ run = "deleted" => ListRun = {} /\ (InDatabase => Stored = {})

\* An event that is about to be put on the bus while a client listens is sent to
\* it in the end, unless the bus raises or the client goes away.
LiveEventsAreSent ==
  \A c \in Clients, p \in Publishers : \A k \in 1 .. Count[p] :
    (at[p] = "bus" /\ appended[p] = k /\ conn[c] = "live")
      ~> \/ <<p, k>> \in Content(sent[c])
         \/ conn[c] = "off"
         \/ at[p] = "failed" /\ <<p, k>> \notin onBus
=============================================================================
