----------------------- MODULE WebhookDeliveryProofs -----------------------
(***************************************************************************)
(* Theorems about WebhookDelivery, for any number of requests, attempts    *)
(* and crashes: type correctness, that SUCCESS was acknowledged, and how   *)
(* often the receiver is called, over either store.                        *)
(***************************************************************************)
EXTENDS WebhookDelivery, TLAPS

USE DEF Workers

\* What the store, a worker or the dispatcher's list holds as SUCCESS the
\* receiver has answered.
Acknowledged ==
  /\ \A d \in Deliveries : store[d].status = "SUCCESS" => d \in acked
  /\ \A w \in Workers : mine[w].status = "SUCCESS" => On(w) \in acked
  /\ \A due \in batch : due[2].status = "SUCCESS" => due[1] \in acked

\* Nobody works on a delivery that is not in the store yet.
NotYet(d) ==
  /\ store[d] = Absent /\ calls[d] = 0
  /\ \A due \in batch : due[1] # d
  /\ pc[Dispatcher] \in {"attempt", "sending", "write"} => target # d

Fresh == \A d \in Deliveries : pc[d] \in {"off", "listed"} => NotYet(d)

\* The memory store counts every call.
EveryCallCounts == backend = "memory" => \A d \in Deliveries : calls[d] = store[d].attempts

\* Whoever is about to call has made no late call yet.
AtMostOneLate ==
  \A w \in Workers :
    /\ late[w] <= 1
    /\ subscription # "deleted" \/ pc[w] \in {"off", "listed", "attempt"} => late[w] = 0

\* The dispatcher attempts a delivery.
InHand(d) == pc[Dispatcher] \in {"attempt", "sending", "write"} /\ target = d

\* The dispatcher has one copy of a delivery: on its list, or in hand.
OneCopy ==
  /\ \A x, y \in batch : x[1] = y[1] => x = y
  /\ \A due \in batch : ~InHand(due[1])
  /\ pc[Dispatcher] \in {"poll", "dead"} => batch = {}

\* The dispatcher's copy has the attempts of the row, and the one it makes itself.
Tracks(d) ==
  /\ \A due \in batch : due[1] = d => due[2].attempts = store[d].attempts
  /\ InHand(d) => \/ mine[Dispatcher].attempts = store[d].attempts
                  \/ /\ pc[Dispatcher] # "attempt"
                     /\ mine[Dispatcher].attempts = store[d].attempts + 1

\* The calls are those that the dispatcher knows of, one for each crash, and some others;
\* a dispatcher that died has forgotten one for which no crash has been counted yet.
Known(d, others) ==
  IF pc[Dispatcher] = "dead"
  THEN /\ calls[d] <= others + crashes + store[d].attempts + 1
       /\ calls[d] <= others + crashes + MaxAttempts
  ELSE calls[d] <= others + crashes +
         IF InHand(d) THEN mine[Dispatcher].attempts ELSE store[d].attempts

\* The request has written its row over one that the dispatcher still has a copy of.
Behind(d) ==
  /\ store[d].attempts >= 1
  /\ calls[d] <= 1 + crashes + MaxAttempts
  /\ \A due \in batch : due[1] = d => calls[d] <= 1 + crashes + due[2].attempts
  /\ InHand(d) => calls[d] <= 1 + crashes + mine[Dispatcher].attempts

\* The call that a request has made.
Own(d) == IF pc[d] \in {"sending", "write"} THEN 1 ELSE 0

\* Until the request is over the dispatcher knows of all calls but the request's; after
\* it, it may have started again from the one attempt that the request has written.
CallsKnown(d) ==
  IF pc[d] # "done" THEN mine[d].attempts = Own(d) /\ Tracks(d) /\ Known(d, Own(d))
  ELSE Behind(d) \/ (Tracks(d) /\ Known(d, MaxAttempts))

CopiesCount == backend = "postgres" => \A d \in Deliveries : CallsKnown(d)

IInv ==
  /\ TypeOK /\ Acknowledged /\ Fresh /\ EveryCallCounts /\ AtMostOneLate
  /\ OneCopy /\ CopiesCount

-----------------------------------------------------------------------------
\* A worker holds a row, of a delivery.
LEMMA HeldType ==
  ASSUME TypeOK, NEW w \in Workers
  PROVE  On(w) \in Deliveries /\ Held(w) \in Rows
  BY DeliveryAssumption DEF TypeOK, On, Held

\* Neither an absent row nor a copy of one is out of type.
LEMMA CopyType ==
  /\ Absent \in Rows /\ Pending \in Rows
  /\ \A row \in Rows : Copy(row) \in Rows
  BY DeliveryAssumption DEF Absent, Pending, Rows, Statuses, Copy

\* What is assigned is a row if it was one before.
LEMMA AssignType ==
  ASSUME TypeOK, NEW w \in Workers, NEW row \in Rows, Assign(w, row)
  PROVE  store' \in [Deliveries -> Rows] /\ mine' \in [Workers -> Rows]
  <1>1. On(w) \in Deliveries
    BY HeldType
  <1> QED BY <1>1 DEF Assign, TypeOK

\* Every step keeps the types.
LEMMA TypeStep == TypeOK /\ [Next]_vars => TypeOK'
  <1> SUFFICES ASSUME TypeOK, [Next]_vars PROVE TypeOK'
    OBVIOUS
  <1> USE DeliveryAssumption, CopyType DEF Goto, Steps
  <1>1. CASE UNCHANGED vars
    BY <1>1 DEF vars, TypeOK
  <1>2. ASSUME NEW d \in Deliveries, ListSubscriptions(d) PROVE TypeOK'
    BY <1>2 DEF ListSubscriptions, TypeOK
  <1>3. ASSUME NEW d \in Deliveries, AddDelivery(d) PROVE TypeOK'
    BY <1>3 DEF AddDelivery, InsertDelivery, TypeOK
  <1>4. ASSUME NEW d \in Deliveries, BackoffElapses(d) PROVE TypeOK'
    <2>1. [store[d] EXCEPT !.due = TRUE] \in Rows
      BY DEF TypeOK, Rows
    <2> QED BY <1>4, <2>1 DEF BackoffElapses, TypeOK
  <1>5. CASE ListDueDeliveries
    BY <1>5 DEF ListDueDeliveries, TypeOK, Listed
  <1>6. ASSUME NEW due \in batch, GetSubscription(due) PROVE TypeOK'
    <2>1. due[1] \in Deliveries /\ due[2] \in Rows
      BY DEF TypeOK
    <2> QED BY <1>6, <2>1 DEF GetSubscription, Take, TypeOK
  <1>7. CASE Sleep
    BY <1>7 DEF Sleep, TypeOK
  <1>8. ASSUME NEW w \in Workers, Attempt(w) PROVE TypeOK'
    <2>1. CASE Call(w)
      <3>1. [Held(w) EXCEPT !.attempts = @ + 1] \in Rows
        BY <2>1, HeldType DEF Call, IsExhausted, Rows
      <3> QED BY <2>1, <3>1, AssignType, HeldType DEF Call, TypeOK
    <2>2. CASE GiveUp(w)
      <3>1. [Held(w) EXCEPT !.status = "FAILED"] \in Rows
        BY HeldType DEF Rows, Statuses
      <3> QED BY <2>2, <3>1, AssignType DEF GiveUp, TypeOK
    <2>3. CASE Succeed(w)
      <3>1. [Held(w) EXCEPT !.status = "SUCCESS"] \in Rows
        BY HeldType DEF Rows, Statuses
      <3> QED BY <2>3, <3>1, AssignType, HeldType DEF Succeed, TypeOK
    <2>4. CASE CallFails(w)
      <3>1. [status |-> "FAILED", attempts |-> Held(w).attempts, due |-> FALSE] \in Rows
        BY HeldType DEF Rows, Statuses
      <3> QED BY <2>4, <3>1, AssignType DEF CallFails, TypeOK
    <2>5. CASE UpdateDelivery(w)
      BY <2>5, HeldType DEF UpdateDelivery, TypeOK
    <2> QED BY <1>8, <2>1, <2>2, <2>3, <2>4, <2>5 DEF Attempt
  <1>9. CASE RegisterOutbound \/ DeleteSubscription
    BY <1>9 DEF RegisterOutbound, AddSubscription, DeleteSubscription, TypeOK
  <1>10. ASSUME NEW w \in Workers, StoreFails(w) PROVE TypeOK'
    BY <1>10 DEF StoreFails, TypeOK
  <1>11. CASE Crash
    BY <1>11 DEF Crash, TypeOK
  <1> QED
    BY <1>1, <1>2, <1>3, <1>4, <1>5, <1>6, <1>7, <1>8, <1>9, <1>10, <1>11
    DEF Next, Request, Dispatch

-----------------------------------------------------------------------------
\* A worker that records SUCCESS has the receiver's answer.
LEMMA AcknowledgedStep == TypeOK /\ Acknowledged /\ [Next]_vars => Acknowledged'
  <1> SUFFICES ASSUME TypeOK, Acknowledged, [Next]_vars PROVE Acknowledged'
    OBVIOUS
  <1> USE DeliveryAssumption
  <1>1. \A row \in Rows : Copy(row).status = "SUCCESS" => row.status = "SUCCESS"
    BY DEF Copy, Absent
  <1>2. ASSUME UNCHANGED <<store, target, mine, batch, acked>> PROVE Acknowledged'
    BY <1>2 DEF Acknowledged, On
  <1>3. ASSUME NEW d \in Deliveries, AddDelivery(d) PROVE Acknowledged'
    BY <1>3 DEF AddDelivery, InsertDelivery, Acknowledged, On, TypeOK, Pending, Absent, Copy
  <1>4. ASSUME NEW d \in Deliveries, BackoffElapses(d) PROVE Acknowledged'
    BY <1>4 DEF BackoffElapses, Acknowledged, On, TypeOK, Rows
  <1>5. CASE ListDueDeliveries
    <2>1. \A due \in batch' : due[2].status = "SUCCESS" => due[1] \in acked
      BY <1>1, <1>5 DEF ListDueDeliveries, Acknowledged, TypeOK, Listed
    <2> QED BY <1>5, <2>1 DEF ListDueDeliveries, Acknowledged, On
  <1>6. ASSUME NEW due \in batch, GetSubscription(due) PROVE Acknowledged'
    <2>1. batch' \subseteq batch /\ store' = store /\ acked' = acked
      BY <1>6 DEF GetSubscription
    <2>2. CASE IsActive
      <3>1. target' = due[1] /\ mine' = [mine EXCEPT ![Dispatcher] = due[2]]
        BY <1>6, <2>2 DEF GetSubscription, Take
      <3> QED BY <2>1, <3>1 DEF Acknowledged, On, TypeOK
    <2>3. CASE ~IsActive
      BY <1>6, <2>1, <2>3 DEF GetSubscription, Acknowledged, On
    <2> QED BY <2>2, <2>3
  <1>7. ASSUME NEW w \in Workers, NEW row \in Rows, Assign(w, row),
               UNCHANGED <<target, batch>>, acked \subseteq acked',
               row.status = "SUCCESS" => On(w) \in acked'
        PROVE  Acknowledged'
    <2>1. On(w) \in Deliveries /\ \A v \in Workers : On(v)' = On(v)
      BY <1>7, HeldType DEF On
    <2>2. CASE backend = "memory"
      BY <1>7, <2>1, <2>2 DEF Assign, Acknowledged, TypeOK
    <2>3. CASE backend # "memory"
      BY <1>7, <2>1, <2>3 DEF Assign, Acknowledged, TypeOK
    <2> QED BY <2>2, <2>3
  <1>8. ASSUME NEW w \in Workers PROVE Held(w).status = "SUCCESS" => On(w) \in acked
    BY HeldType DEF Held, Acknowledged
  <1>9. ASSUME NEW w \in Workers, Attempt(w) PROVE Acknowledged'
    <2>1. CASE Call(w)
      <3> DEFINE row == [Held(w) EXCEPT !.attempts = @ + 1]
      <3>1. row \in Rows /\ row.status = Held(w).status
        BY <2>1, HeldType DEF Call, IsExhausted, Rows
      <3>2. Assign(w, row) /\ UNCHANGED <<target, batch, acked>>
        BY <2>1 DEF Call
      <3> HIDE DEF row
      <3> QED BY <1>7, <1>8, <3>1, <3>2
    <2>2. CASE GiveUp(w)
      <3> DEFINE row == [Held(w) EXCEPT !.status = "FAILED"]
      <3>1. row \in Rows /\ row.status = "FAILED"
        BY HeldType DEF Rows, Statuses
      <3>2. Assign(w, row) /\ UNCHANGED <<target, batch, acked>>
        BY <2>2 DEF GiveUp
      <3> HIDE DEF row
      <3> QED BY <1>7, <3>1, <3>2
    <2>3. CASE Succeed(w)
      <3> DEFINE row == [Held(w) EXCEPT !.status = "SUCCESS"]
      <3>1. row \in Rows
        BY HeldType DEF Rows, Statuses
      <3>2. Assign(w, row) /\ UNCHANGED <<target, batch>> /\ acked' = acked \cup {On(w)}
        BY <2>3 DEF Succeed
      <3> HIDE DEF row
      <3> QED BY <1>7, <3>1, <3>2
    <2>4. CASE CallFails(w)
      <3> DEFINE row == [status |-> "FAILED", attempts |-> Held(w).attempts, due |-> FALSE]
      <3>1. row \in Rows /\ row.status = "FAILED"
        BY HeldType DEF Rows, Statuses
      <3>2. Assign(w, row) /\ UNCHANGED <<target, batch, acked>>
        BY <2>4 DEF CallFails
      <3> HIDE DEF row
      <3> QED BY <1>7, <3>1, <3>2
    <2>5. CASE UpdateDelivery(w)
      <3>1. store' = [store EXCEPT ![On(w)] = Held(w)]
            /\ mine' = [mine EXCEPT ![w] = Absent]
            /\ UNCHANGED <<target, batch, acked>>
        BY <2>5 DEF UpdateDelivery
      <3>2. Absent.status # "SUCCESS"
        BY DEF Absent
      <3> QED BY <1>8, <3>1, <3>2, HeldType DEF Acknowledged, On, TypeOK
    <2> QED BY <1>9, <2>1, <2>2, <2>3, <2>4, <2>5 DEF Attempt
  <1>10. ASSUME NEW w \in Workers, StoreFails(w) PROVE Acknowledged'
    BY <1>10 DEF StoreFails, Acknowledged, On, TypeOK, Absent
  <1>11. CASE Crash
    BY <1>11 DEF Crash, Acknowledged, On, TypeOK, Absent
  <1>12. ASSUME \/ \E d \in Deliveries : ListSubscriptions(d)
                \/ Sleep \/ RegisterOutbound \/ DeleteSubscription \/ UNCHANGED vars
         PROVE  Acknowledged'
    BY <1>2, <1>12 DEF ListSubscriptions, Sleep, RegisterOutbound, AddSubscription,
        DeleteSubscription, vars
  <1> QED
    BY <1>3, <1>4, <1>5, <1>6, <1>9, <1>10, <1>11, <1>12 DEF Next, Request, Dispatch

-----------------------------------------------------------------------------
\* The dispatcher works on what it has found in the store.
LEMMA FreshStep == TypeOK /\ Fresh /\ [Next]_vars => Fresh'
  <1> SUFFICES ASSUME TypeOK, Fresh, [Next]_vars,
                      NEW e \in Deliveries, pc'[e] \in {"off", "listed"}
               PROVE  NotYet(e)'
    BY DEF Fresh
  <1> USE DeliveryAssumption DEF Goto, NotYet
  <1>1. ASSUME NEW d \in Deliveries, AddDelivery(d) PROVE NotYet(e)'
    BY <1>1 DEF AddDelivery, InsertDelivery, TypeOK, Fresh
  <1>2. ASSUME NEW d \in Deliveries, BackoffElapses(d) PROVE NotYet(e)'
    <2>1. NotYet(e) /\ d # e
      BY <1>2 DEF BackoffElapses, Fresh, Absent
    <2> QED BY <1>2, <2>1 DEF BackoffElapses, TypeOK
  <1>3. CASE ListDueDeliveries
    <2>1. NotYet(e) /\ ~IsDue(store[e])
      BY <1>3 DEF ListDueDeliveries, TypeOK, Fresh, Absent, IsDue
    <2>2. \A due \in batch' : IsDue(store[due[1]])
      BY <1>3 DEF ListDueDeliveries
    <2>3. pc'[Dispatcher] = "lookup" /\ store' = store /\ calls' = calls
      BY <1>3 DEF ListDueDeliveries, TypeOK
    <2> QED BY <2>1, <2>2, <2>3
  <1>4. ASSUME NEW due \in batch, GetSubscription(due) PROVE NotYet(e)'
    BY <1>4 DEF GetSubscription, Take, TypeOK, Fresh
  <1>5. ASSUME NEW w \in Workers, Attempt(w) PROVE NotYet(e)'
    <2>1. pc[w] \in {"attempt", "sending", "write"} /\ batch' = batch /\ target' = target
      BY <1>5 DEF Attempt, Call, GiveUp, Succeed, CallFails, UpdateDelivery
    <2>2. w # e /\ pc[e] \in {"off", "listed"}
      BY <1>5, <2>1 DEF Attempt, Call, GiveUp, Succeed, CallFails, UpdateDelivery, TypeOK
    <2>3. NotYet(e) /\ On(w) # e
      BY <2>1, <2>2 DEF Fresh, On
    <2>4. store'[e] = store[e] /\ calls'[e] = calls[e]
      BY <1>5, <2>3, HeldType
      DEF Attempt, Call, GiveUp, Succeed, CallFails, UpdateDelivery, Assign, TypeOK
    <2>5. pc'[Dispatcher] \in {"attempt", "sending", "write"} =>
            pc[Dispatcher] \in {"attempt", "sending", "write"}
      BY <1>5, <2>1
      DEF Attempt, Call, GiveUp, Succeed, CallFails, UpdateDelivery, TypeOK
    <2> QED BY <2>1, <2>3, <2>4, <2>5
  <1>6. ASSUME NEW w \in Workers, StoreFails(w) PROVE NotYet(e)'
    BY <1>6 DEF StoreFails, TypeOK, Fresh
  <1>7. CASE Crash
    BY <1>7 DEF Crash, TypeOK, Fresh
  <1>8. ASSUME \/ \E d \in Deliveries : ListSubscriptions(d)
               \/ Sleep \/ RegisterOutbound \/ DeleteSubscription \/ UNCHANGED vars
        PROVE  NotYet(e)'
    BY <1>8 DEF ListSubscriptions, Sleep, RegisterOutbound, AddSubscription, DeleteSubscription,
        vars, TypeOK, Fresh
  <1> QED
    BY <1>1, <1>2, <1>3, <1>4, <1>5, <1>6, <1>7, <1>8 DEF Next, Request, Dispatch

\* In the memory store an attempt is counted where every worker reads it.
LEMMA CountStep == TypeOK /\ Fresh /\ EveryCallCounts /\ [Next]_vars => EveryCallCounts'
  <1> SUFFICES ASSUME TypeOK, Fresh, EveryCallCounts, [Next]_vars, backend' = "memory",
                      NEW e \in Deliveries
               PROVE  calls'[e] = store'[e].attempts
    BY DEF EveryCallCounts
  <1> USE DeliveryAssumption
  <1>1. backend' = backend
    BY DEF Next, vars, Request, Dispatch, Attempt, ListSubscriptions, AddDelivery,
           BackoffElapses, ListDueDeliveries, GetSubscription, Sleep, Call, GiveUp,
           Succeed, CallFails, UpdateDelivery, RegisterOutbound, DeleteSubscription, StoreFails, Crash
  <1>2. backend = "memory" /\ calls[e] = store[e].attempts
    BY <1>1 DEF EveryCallCounts
  <1>3. CASE UNCHANGED <<store, calls>>
    BY <1>2, <1>3
  <1>4. ASSUME NEW d \in Deliveries, AddDelivery(d) PROVE calls'[e] = store'[e].attempts
    BY <1>2, <1>4 DEF AddDelivery, InsertDelivery, Fresh, NotYet, Pending, TypeOK
  <1>5. ASSUME NEW d \in Deliveries, BackoffElapses(d) PROVE calls'[e] = store'[e].attempts
    BY <1>2, <1>5 DEF BackoffElapses, TypeOK, Rows
  <1>6. ASSUME NEW w \in Workers, Attempt(w) PROVE calls'[e] = store'[e].attempts
    <2>1. On(w) \in Deliveries /\ Held(w) = store[On(w)] /\ store[On(w)] \in Rows
      BY <1>2, HeldType DEF Held
    <2>2. CASE Call(w)
      <3>1. store' = [store EXCEPT ![On(w)] = [Held(w) EXCEPT !.attempts = @ + 1]]
            /\ calls' = [calls EXCEPT ![On(w)] = @ + 1]
        BY <1>2, <2>2 DEF Call, Assign
      <3>2. [Held(w) EXCEPT !.attempts = @ + 1].attempts = store[On(w)].attempts + 1
        BY <2>1 DEF Rows
      <3>3. CASE e = On(w)
        BY <1>2, <2>1, <3>1, <3>2, <3>3 DEF TypeOK
      <3>4. CASE e # On(w)
        BY <1>2, <3>1, <3>4 DEF TypeOK
      <3> QED BY <3>3, <3>4
    <2>3. ASSUME NEW row, Assign(w, row), row.attempts = store[On(w)].attempts,
                 calls' = calls
          PROVE  calls'[e] = store'[e].attempts
      BY <1>2, <2>1, <2>3 DEF Assign, TypeOK
    <2>4. CASE GiveUp(w)
      <3> DEFINE row == [Held(w) EXCEPT !.status = "FAILED"]
      <3>1. row.attempts = store[On(w)].attempts
        BY <2>1 DEF Rows
      <3>2. Assign(w, row) /\ calls' = calls
        BY <2>4 DEF GiveUp
      <3> HIDE DEF row
      <3> QED BY <2>3, <3>1, <3>2
    <2>5. CASE Succeed(w)
      <3> DEFINE row == [Held(w) EXCEPT !.status = "SUCCESS"]
      <3>1. row.attempts = store[On(w)].attempts
        BY <2>1 DEF Rows
      <3>2. Assign(w, row) /\ calls' = calls
        BY <2>5 DEF Succeed
      <3> HIDE DEF row
      <3> QED BY <2>3, <3>1, <3>2
    <2>6. CASE CallFails(w)
      <3> DEFINE row == [status |-> "FAILED", attempts |-> Held(w).attempts, due |-> FALSE]
      <3>1. row.attempts = store[On(w)].attempts
        BY <2>1
      <3>2. Assign(w, row) /\ calls' = calls
        BY <2>6 DEF CallFails
      <3> HIDE DEF row
      <3> QED BY <2>3, <3>1, <3>2
    <2>7. CASE UpdateDelivery(w)
      BY <1>2, <2>1, <2>7 DEF UpdateDelivery, TypeOK
    <2> QED BY <1>6, <2>2, <2>4, <2>5, <2>6, <2>7 DEF Attempt
  <1>7. ASSUME \/ \E d \in Deliveries : ListSubscriptions(d)
               \/ ListDueDeliveries
               \/ \E due \in batch : GetSubscription(due)
               \/ Sleep \/ RegisterOutbound \/ DeleteSubscription \/ UNCHANGED vars
               \/ \E w \in Workers : StoreFails(w)
               \/ Crash
        PROVE  UNCHANGED <<store, calls>>
    BY <1>7 DEF ListSubscriptions, ListDueDeliveries, GetSubscription, Sleep,
                RegisterOutbound, AddSubscription, DeleteSubscription, vars, StoreFails, Crash
  <1> QED
    BY <1>3, <1>4, <1>5, <1>6, <1>7 DEF Next, Request, Dispatch

\* After the deletion a worker calls only if it had looked the subscription up
\* before, and then it looks it up again.
LEMMA LateStep == TypeOK /\ AtMostOneLate /\ [Next]_vars => AtMostOneLate'
  <1> SUFFICES ASSUME TypeOK, AtMostOneLate, [Next]_vars, NEW v \in Workers
               PROVE  /\ late'[v] <= 1
                      /\ subscription' # "deleted" \/ pc'[v] \in {"off", "listed", "attempt"} => late'[v] = 0
    BY DEF AtMostOneLate
  <1> USE DeliveryAssumption DEF Goto, AtMostOneLate
  <1>1. ASSUME NEW d \in Deliveries, ListSubscriptions(d) \/ AddDelivery(d)
        PROVE  /\ late'[v] <= 1
               /\ subscription' # "deleted" \/ pc'[v] \in {"off", "listed", "attempt"} => late'[v] = 0
    BY <1>1 DEF ListSubscriptions, AddDelivery, InsertDelivery, TypeOK
  <1>2. ASSUME NEW due \in batch, GetSubscription(due)
        PROVE  /\ late'[v] <= 1
               /\ subscription' # "deleted" \/ pc'[v] \in {"off", "listed", "attempt"} => late'[v] = 0
    BY <1>2 DEF GetSubscription, IsActive, Take, TypeOK
  <1>3. ASSUME NEW w \in Workers, Attempt(w)
        PROVE  /\ late'[v] <= 1
               /\ subscription' # "deleted" \/ pc'[v] \in {"off", "listed", "attempt"} => late'[v] = 0
    <2>1. CASE Call(w)
      BY <2>1 DEF Call, TypeOK
    <2>2. CASE GiveUp(w) \/ Succeed(w) \/ CallFails(w) \/ UpdateDelivery(w)
      BY <2>2 DEF GiveUp, Succeed, CallFails, UpdateDelivery, TypeOK
    <2> QED BY <1>3, <2>1, <2>2 DEF Attempt
  <1>4. ASSUME \/ \E d \in Deliveries : BackoffElapses(d)
               \/ ListDueDeliveries \/ Sleep
               \/ RegisterOutbound \/ DeleteSubscription \/ UNCHANGED vars
               \/ \E w \in Workers : StoreFails(w)
               \/ Crash
        PROVE  /\ late'[v] <= 1
               /\ subscription' # "deleted" \/ pc'[v] \in {"off", "listed", "attempt"} => late'[v] = 0
    BY <1>4 DEF BackoffElapses, ListDueDeliveries, Sleep, RegisterOutbound, AddSubscription,
                DeleteSubscription, vars, StoreFails, Crash, TypeOK
  <1> QED
    BY <1>1, <1>2, <1>3, <1>4 DEF Next, Request, Dispatch

-----------------------------------------------------------------------------
\* The list has one entry for each delivery, and none for the one that was taken from it.
LEMMA OneCopyStep == TypeOK /\ OneCopy /\ [Next]_vars => OneCopy'
  <1> SUFFICES ASSUME TypeOK, OneCopy, [Next]_vars PROVE OneCopy'
    OBVIOUS
  <1> USE DeliveryAssumption DEF Goto, OneCopy, InHand
  <1>1. CASE ListDueDeliveries
    <2>1. pc'[Dispatcher] = "lookup"
      BY <1>1 DEF ListDueDeliveries, TypeOK
    <2>2. \A x, y \in batch' : x[1] = y[1] => x = y
      BY <1>1 DEF ListDueDeliveries
    <2> QED BY <2>1, <2>2
  <1>2. ASSUME NEW due \in batch, GetSubscription(due) PROVE OneCopy'
    BY <1>2 DEF GetSubscription, Take, TypeOK
  <1>3. ASSUME NEW w \in Workers, Attempt(w) PROVE OneCopy'
    <2>1. pc[w] \in {"attempt", "sending", "write"} /\ batch' = batch /\ target' = target
      BY <1>3 DEF Attempt, Call, GiveUp, Succeed, CallFails, UpdateDelivery
    <2>2. \/ pc'[Dispatcher] = pc[Dispatcher]
          \/ w = Dispatcher /\ pc'[Dispatcher] \in {"sending", "write", "lookup"}
      <3>1. CASE w = Dispatcher
        BY <1>3, <3>1 DEF Attempt, Call, GiveUp, Succeed, CallFails, UpdateDelivery, TypeOK
      <3>2. CASE w # Dispatcher
        <4>1. PICK step : pc' = [pc EXCEPT ![w] = step]
          BY <1>3 DEF Attempt, Call, GiveUp, Succeed, CallFails, UpdateDelivery
        <4>2. pc'[Dispatcher] = pc[Dispatcher]
          BY <3>2, <4>1 DEF TypeOK
        <4> QED BY <4>2
      <3> QED BY <3>1, <3>2
    <2> QED BY <2>1, <2>2
  <1>4. ASSUME NEW w \in Workers, StoreFails(w) PROVE OneCopy'
    BY <1>4 DEF StoreFails, TypeOK
  <1>5. CASE Crash
    BY <1>5 DEF Crash, TypeOK
  <1>6. ASSUME NEW d \in Deliveries,
               ListSubscriptions(d) \/ AddDelivery(d) \/ BackoffElapses(d)
        PROVE  OneCopy'
    BY <1>6 DEF ListSubscriptions, AddDelivery, BackoffElapses, TypeOK
  <1>7. CASE Sleep \/ RegisterOutbound \/ DeleteSubscription \/ UNCHANGED vars
    BY <1>7 DEF Sleep, RegisterOutbound, AddSubscription, DeleteSubscription, vars, TypeOK
  <1> QED
    BY <1>1, <1>2, <1>3, <1>4, <1>5, <1>6, <1>7 DEF Next, Request, Dispatch

\* What the dispatcher and the request do to one delivery, and to the copies of it.
LEMMA DispatcherStep ==
  ASSUME TypeOK, OneCopy, backend = "postgres", NEW d \in Deliveries, CallsKnown(d),
         Attempt(Dispatcher)
  PROVE  CallsKnown(d)'
  <1> USE DeliveryAssumption DEF Goto, TypeOK, Rows
  <1>1. /\ batch' = batch /\ target' = target /\ crashes' = crashes
        /\ mine'[d] = mine[d] /\ pc'[d] = pc[d] /\ pc[Dispatcher] # "dead"
        /\ pc'[Dispatcher] \in {"sending", "write", "lookup"}
    BY DEF Attempt, Call, GiveUp, Succeed, CallFails, UpdateDelivery, Assign
  <1>2. CASE target # d
    <2>1. store'[d] = store[d] /\ calls'[d] = calls[d] /\ ~InHand(d) /\ ~InHand(d)'
      BY <1>1, <1>2 DEF Attempt, Call, GiveUp, Succeed, CallFails, UpdateDelivery, Assign,
         On, InHand
    <2> QED BY <1>1, <2>1 DEF CallsKnown, Tracks, Known, Behind, Own
  <1>3. CASE target = d
    <2>1. InHand(d) /\ \A due \in batch : due[1] # d
      BY <1>3 DEF Attempt, Call, GiveUp, Succeed, CallFails, UpdateDelivery, InHand, OneCopy
    <2>2. mine[Dispatcher].attempts \in 0 .. MaxAttempts /\ store[d].attempts \in Nat
      OBVIOUS
    <2>3. CASE Call(Dispatcher)
      <3>1. /\ store' = store /\ calls'[d] = calls[d] + 1 /\ InHand(d)'
            /\ mine'[Dispatcher].attempts = mine[Dispatcher].attempts + 1
        BY <1>3, <2>3 DEF Call, Assign, On, Held, InHand
      <3>2. pc[Dispatcher] = "attempt" /\ mine'[Dispatcher].attempts <= MaxAttempts
        BY <2>3, <3>1 DEF Call, IsExhausted, Held
      <3> QED BY <1>1, <2>1, <2>2, <3>1, <3>2 DEF CallsKnown, Tracks, Known, Behind, Own
    <2>4. CASE GiveUp(Dispatcher) \/ Succeed(Dispatcher) \/ CallFails(Dispatcher)
      <3>1. /\ store' = store /\ calls' = calls /\ InHand(d)'
            /\ mine'[Dispatcher].attempts = mine[Dispatcher].attempts
        BY <1>3, <2>4 DEF GiveUp, Succeed, CallFails, Assign, On, Held, InHand
      <3> QED BY <1>1, <2>1, <3>1 DEF CallsKnown, Tracks, Known, Behind, Own
    <2>5. CASE UpdateDelivery(Dispatcher)
      <3>1. /\ store'[d].attempts = mine[Dispatcher].attempts /\ calls' = calls
            /\ pc'[Dispatcher] = "lookup" /\ ~InHand(d)'
        BY <1>3, <2>5 DEF UpdateDelivery, On, Held, InHand
      <3> QED BY <1>1, <2>1, <2>2, <3>1 DEF CallsKnown, Tracks, Known, Behind, Own
    <2> QED BY <2>3, <2>4, <2>5 DEF Attempt
  <1> QED BY <1>2, <1>3

LEMMA RequestStep ==
  ASSUME TypeOK, OneCopy, backend = "postgres", NEW d \in Deliveries, CallsKnown(d), Attempt(d)
  PROVE  CallsKnown(d)'
  <1> USE DeliveryAssumption DEF Goto, TypeOK, Rows
  <1>1. /\ batch' = batch /\ target' = target /\ crashes' = crashes
        /\ mine'[Dispatcher] = mine[Dispatcher] /\ pc'[Dispatcher] = pc[Dispatcher]
        /\ pc[d] \in {"attempt", "sending", "write"} /\ pc'[d] \in {"sending", "write", "done"}
    BY DEF Attempt, Call, GiveUp, Succeed, CallFails, UpdateDelivery, Assign
  <1>2. On(d) = d /\ Held(d) = mine[d] /\ (InHand(d)' = InHand(d))
    BY <1>1 DEF On, Held, InHand
  <1>3. mine[d].attempts = Own(d) /\ Tracks(d) /\ Known(d, Own(d))
    BY <1>1 DEF CallsKnown
  <1>4. CASE Call(d)
    <2>1. /\ store' = store /\ calls'[d] = calls[d] + 1
          /\ mine'[d].attempts = mine[d].attempts + 1
          /\ pc[d] = "attempt" /\ pc'[d] = "sending"
      BY <1>2, <1>4 DEF Call, Assign
    <2> QED BY <1>1, <1>2, <1>3, <2>1 DEF CallsKnown, Tracks, Known, Own
  <1>5. CASE GiveUp(d)
    BY <1>2, <1>3, <1>5 DEF GiveUp, IsExhausted, Own
  <1>6. CASE Succeed(d) \/ CallFails(d)
    <2>1. /\ store' = store /\ calls' = calls /\ mine'[d].attempts = mine[d].attempts
          /\ pc[d] = "sending" /\ pc'[d] = "write"
      BY <1>2, <1>6 DEF Succeed, CallFails, Assign
    <2> QED BY <1>1, <1>2, <1>3, <2>1 DEF CallsKnown, Tracks, Known, Own
  <1>7. CASE UpdateDelivery(d)
    <2>1. store'[d].attempts = 1 /\ calls' = calls /\ pc[d] = "write" /\ pc'[d] = "done"
      BY <1>2, <1>3, <1>7 DEF UpdateDelivery, Own
    <2>2. /\ mine[Dispatcher].attempts \in 0 .. MaxAttempts
          /\ store[d].attempts \in 0 .. MaxAttempts
      OBVIOUS
    <2>3. Behind(d)'
      <3>1. calls[d] <= 1 + crashes + MaxAttempts
        BY <1>3, <2>1, <2>2 DEF Known, Own
      <3>2. \A due \in batch : due[1] = d => calls[d] <= 1 + crashes + due[2].attempts
        BY <1>3, <2>1, <2>2 DEF Known, Own, Tracks, OneCopy
      <3>3. InHand(d) => calls[d] <= 1 + crashes + mine[Dispatcher].attempts
        BY <1>3, <2>1 DEF Known, Own, InHand
      <3> QED BY <1>1, <1>2, <2>1, <3>1, <3>2, <3>3 DEF Behind
    <2> QED BY <2>1, <2>3 DEF CallsKnown
  <1> QED BY <1>4, <1>5, <1>6, <1>7 DEF Attempt

\* Whatever happens, all calls of a delivery are known.
LEMMA CopiesCountStep == TypeOK /\ Fresh /\ OneCopy /\ CopiesCount /\ [Next]_vars => CopiesCount'
  <1> SUFFICES ASSUME TypeOK, Fresh, OneCopy, CopiesCount, [Next]_vars, backend' = "postgres",
                      NEW e \in Deliveries
               PROVE  CallsKnown(e)'
    BY DEF CopiesCount
  <1>1. backend = "postgres" /\ CallsKnown(e)
    BY DEF CopiesCount, Next, vars, Request, Dispatch, Attempt, ListSubscriptions, AddDelivery,
           BackoffElapses, ListDueDeliveries, GetSubscription, Sleep, Call, GiveUp,
           Succeed, CallFails, UpdateDelivery, RegisterOutbound, DeleteSubscription, StoreFails, Crash
  <1> USE DeliveryAssumption DEF Goto, TypeOK, Rows
  <1>2. ASSUME UNCHANGED <<batch, target, crashes, mine[Dispatcher], pc[Dispatcher]>>,
               UNCHANGED <<store[e].attempts, mine[e], pc[e], calls[e]>>
        PROVE  CallsKnown(e)'
    BY <1>1, <1>2 DEF CallsKnown, Tracks, Known, Behind, Own, InHand
  <1>3. ASSUME NEW d \in Deliveries, Attempt(d) PROVE CallsKnown(e)'
    <2>1. CASE d = e
      BY <1>1, <1>3, <2>1, RequestStep
    <2>2. CASE d # e
      BY <1>2, <1>3, <2>2
      DEF Attempt, Call, GiveUp, Succeed, CallFails, UpdateDelivery, Assign, On
    <2> QED BY <2>1, <2>2
  <1>4. ASSUME NEW d \in Deliveries, ListSubscriptions(d) PROVE CallsKnown(e)'
    <2>1. CASE d = e
      <3>1. Known(e, 0) /\ Tracks(e) /\ mine[e].attempts = 0
        BY <1>1, <1>4, <2>1 DEF ListSubscriptions, CallsKnown, Own
      <3> QED BY <1>4, <2>1, <3>1
              DEF ListSubscriptions, CallsKnown, Tracks, Known, Own, InHand
    <2>2. CASE d # e
      BY <1>2, <1>4, <2>2 DEF ListSubscriptions
    <2> QED BY <2>1, <2>2
  <1>5. ASSUME NEW d \in Deliveries, AddDelivery(d) PROVE CallsKnown(e)'
    <2>1. CASE d = e
      <3>1. /\ NotYet(e) /\ store'[e] = Pending /\ mine'[e] = Pending /\ pc'[e] = "attempt"
            /\ UNCHANGED <<batch, target, crashes, calls, pc[Dispatcher], mine[Dispatcher]>>
        BY <1>1, <1>5, <2>1 DEF AddDelivery, InsertDelivery, Copy, Fresh
      <3> QED BY <3>1 DEF NotYet, Pending, Absent, CallsKnown, Tracks, Known, Own, InHand
    <2>2. CASE d # e
      BY <1>2, <1>5, <2>2 DEF AddDelivery, InsertDelivery
    <2> QED BY <2>1, <2>2
  <1>6. ASSUME NEW d \in Deliveries, BackoffElapses(d) PROVE CallsKnown(e)'
    BY <1>2, <1>6 DEF BackoffElapses
  <1>7. CASE ListDueDeliveries
    <2>1. /\ UNCHANGED <<store, calls, crashes, mine, pc[e]>> /\ ~InHand(e) /\ ~InHand(e)'
          /\ pc[Dispatcher] = "poll" /\ pc'[Dispatcher] = "lookup"
      BY <1>7 DEF ListDueDeliveries, InHand
    <2>2. \A due \in batch' : due[1] = e => due[2].attempts = store[e].attempts
      BY <1>1, <1>7 DEF ListDueDeliveries, Listed, Copy
    <2> QED BY <1>1, <2>1, <2>2 DEF CallsKnown, Tracks, Known, Behind, Own
  <1>8. ASSUME NEW due \in batch, GetSubscription(due) PROVE CallsKnown(e)'
    <2>1. /\ UNCHANGED <<store, calls, crashes, pc[e], mine[e]>> /\ ~InHand(e)
          /\ pc[Dispatcher] = "lookup" /\ pc'[Dispatcher] \in {"lookup", "attempt"}
          /\ batch' \subseteq batch
          /\ InHand(e)' => /\ due[1] = e /\ mine'[Dispatcher] = due[2]
                           /\ pc'[Dispatcher] = "attempt"
      BY <1>8 DEF GetSubscription, Take, InHand
    <2> QED BY <1>1, <2>1 DEF CallsKnown, Tracks, Known, Behind, Own
  <1>9. CASE Attempt(Dispatcher)
    BY <1>1, <1>9, DispatcherStep
  <1>10. ASSUME NEW w \in Workers, StoreFails(w) PROVE CallsKnown(e)'
    <2>1. CASE w = Dispatcher
      <3>1. /\ UNCHANGED <<store, calls, crashes, pc[e], mine[e]>> /\ batch' = {}
            /\ pc'[Dispatcher] = "dead" /\ pc[Dispatcher] # "dead" /\ ~InHand(e)'
        BY <1>10, <2>1 DEF StoreFails, InHand
      <3> QED BY <1>1, <3>1 DEF CallsKnown, Tracks, Known, Behind, Own
    <2>2. CASE w = e
      <3>1. /\ UNCHANGED <<store, calls, crashes, batch, target>> /\ pc'[e] = "done"
            /\ UNCHANGED <<pc[Dispatcher], mine[Dispatcher]>> /\ pc[e] # "done"
        BY <1>10, <2>2 DEF StoreFails
      <3> QED BY <1>1, <3>1 DEF CallsKnown, Tracks, Known, Own, InHand
    <2>3. CASE w \notin {Dispatcher, e}
      BY <1>2, <1>10, <2>3 DEF StoreFails
    <2> QED BY <2>1, <2>2, <2>3
  <1>11. CASE Crash
    <2>1. /\ UNCHANGED <<store, calls>> /\ batch' = {} /\ crashes' = crashes + 1
          /\ pc'[Dispatcher] = "poll" /\ ~InHand(e)' /\ mine'[e].attempts = 0
          /\ pc'[e] = IF pc[e] = "off" THEN "off" ELSE "done"
      BY <1>11 DEF Crash, InHand, Absent
    <2> QED BY <1>1, <2>1 DEF CallsKnown, Tracks, Known, Behind, Own
  <1>12. CASE Sleep
    <2>1. /\ UNCHANGED <<store, calls, crashes, batch, mine, pc[e]>> /\ ~InHand(e) /\ ~InHand(e)'
          /\ pc[Dispatcher] = "lookup" /\ pc'[Dispatcher] = "poll"
      BY <1>12 DEF Sleep, InHand
    <2> QED BY <1>1, <2>1 DEF CallsKnown, Tracks, Known, Behind, Own
  <1>13. CASE RegisterOutbound \/ DeleteSubscription \/ UNCHANGED vars
    BY <1>2, <1>13 DEF RegisterOutbound, AddSubscription, DeleteSubscription, vars
  <1> QED
    BY <1>3, <1>4, <1>5, <1>6, <1>7, <1>8, <1>9, <1>10, <1>11, <1>12, <1>13
    DEF Next, Request, Dispatch

-----------------------------------------------------------------------------
\* The process starts with an empty store.
LEMMA InitEstablishes == Init => IInv
  <1> SUFFICES ASSUME Init PROVE IInv
    OBVIOUS
  <1> USE DeliveryAssumption
  <1>1. TypeOK
    BY CopyType DEF Init, TypeOK, Steps
  <1>2. Acknowledged /\ Fresh /\ EveryCallCounts
    BY DEF Init, Acknowledged, Fresh, NotYet, EveryCallCounts, Absent
  <1>3. AtMostOneLate
    BY DEF Init, AtMostOneLate
  <1>4. OneCopy /\ CopiesCount
    BY <1>1 DEF Init, OneCopy, InHand, CopiesCount, CallsKnown, Tracks, Known, Own, Absent, TypeOK
  <1> QED BY <1>1, <1>2, <1>3, <1>4 DEF IInv

LEMMA Invariance == Spec => []IInv
  <1>1. IInv /\ [Next]_vars => IInv'
    BY TypeStep, AcknowledgedStep, FreshStep, CountStep, LateStep, OneCopyStep, CopiesCountStep
    DEF IInv
  <1> QED BY InitEstablishes, <1>1, PTL DEF Spec

\* Every variable keeps its type, however long the dispatcher runs.
THEOREM TypeCorrect == Spec => []TypeOK
  <1>1. IInv => TypeOK
    BY DEF IInv
  <1> QED BY <1>1, Invariance, PTL

\* No delivery is recorded as SUCCESS that the receiver has not answered, for
\* both stores, any number of requests and every place a crash can happen.
THEOREM SuccessIsReal == Spec => []SuccessIsAcknowledged
  <1>1. IInv => SuccessIsAcknowledged
    BY DEF IInv, Acknowledged, SuccessIsAcknowledged
  <1> QED BY <1>1, Invariance, PTL

\* A deleted subscription gets at most one more call from each worker.
THEOREM LateCalls == Spec => []LateCallsBounded
  <1>1. IInv => LateCallsBounded
    BY DEF IInv, AtMostOneLate, LateCallsBounded
  <1> QED BY <1>1, Invariance, PTL

\* With the memory store max_attempts bounds the calls of a delivery, although
\* a request and the dispatcher attempt it at the same time.
THEOREM MemoryAttempts == Spec => [](backend = "memory" => AtMostMaxAttempts)
  <1>1. IInv => (backend = "memory" => AtMostMaxAttempts)
    BY DEF IInv, EveryCallCounts, AtMostMaxAttempts, TypeOK, Rows
  <1> QED BY <1>1, Invariance, PTL

\* With Postgres there are two counts, that of the request and that of the dispatcher: a
\* delivery is called at most twice as often, and once more for each crash.
THEOREM EveryAttemptIsPaid == Spec => []CallsBounded
  <1>1. IInv => CallsBounded
    <2> SUFFICES ASSUME IInv, NEW d \in Deliveries
                 PROVE  calls[d] <= IF backend = "memory" THEN MaxAttempts
                                    ELSE 2 * MaxAttempts + crashes
      BY DEF CallsBounded
    <2>1. /\ store[d].attempts \in 0 .. MaxAttempts /\ calls[d] \in Nat
          /\ mine[Dispatcher].attempts \in 0 .. MaxAttempts /\ crashes \in Nat
      BY DeliveryAssumption DEF IInv, TypeOK, Rows
    <2>2. CASE backend = "memory"
      BY <2>1, <2>2 DEF IInv, EveryCallCounts
    <2>3. CASE backend = "postgres"
      <3>1. CallsKnown(d)
        BY <2>3 DEF IInv, CopiesCount
      <3> QED BY <2>1, <2>3, <3>1, DeliveryAssumption DEF CallsKnown, Known, Behind, Own
    <2> QED BY <2>2, <2>3 DEF IInv, TypeOK
  <1> QED BY <1>1, Invariance, PTL
=============================================================================
