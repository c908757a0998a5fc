-------------------------- MODULE WebhookDelivery --------------------------
(***************************************************************************)
(* Outbound webhooks (apps/orchestrator/webhooks): the deliveries to ONE   *)
(* subscription.  An event becomes a delivery that the request which       *)
(* emitted it attempts at once; the background dispatcher polls the store  *)
(* for the deliveries that are due and attempts them again, at the same    *)
(* time as the requests.                                                   *)
(*                                                                         *)
(* A request is named by its delivery: worker d makes the first attempt at *)
(* delivery d, the worker Dispatcher is the dispatch loop.                 *)
(***************************************************************************)
EXTENDS Integers, FiniteSets

CONSTANTS
  Deliveries,    \* the events for which a request makes a delivery
  Subscribed,    \* event_types of the subscription
  Dispatcher,    \* the background task that runs _dispatch_loop
  MaxAttempts,   \* DispatcherConfig.max_attempts
  MaxCrashes     \* bound on the crashes of the process

ASSUME DeliveryAssumption ==
  /\ Dispatcher \notin Deliveries
  /\ MaxAttempts \in Nat \ {0}
  /\ MaxCrashes \in Nat

VARIABLES
  backend,   \* WEBHOOK_STORE_BACKEND; it never changes
  subscription,  \* "none" until it is registered, "active", "deleted"
  store,     \* the deliveries in the store
  pc,        \* where a worker is: see Steps
  target,    \* the delivery the dispatcher works on
  mine,      \* postgres: the worker's copy of the delivery that it attempts
  batch,     \* what is left of the dispatcher's list of due deliveries
  calls,     \* history: HTTP calls made for a delivery
  acked,     \* history: deliveries that the receiver answered with 2xx
  late,      \* history: calls a worker made after the subscription was deleted
  crashes    \* crashes of the process so far

vars ==
  <<backend, subscription, store, pc, target, mine, batch, calls, acked, late, crashes>>

Workers  == Deliveries \cup {Dispatcher}
Steps    == {"off", "listed", "poll", "lookup", "attempt", "sending", "write", "done", "dead"}
Statuses == {"NONE", "PENDING", "SUCCESS", "FAILED"}

\* due: next_retry_at has passed.
Rows == [status : Statuses, attempts : 0 .. MaxAttempts, due : BOOLEAN]

Absent  == [status |-> "NONE", attempts |-> 0, due |-> FALSE]
Pending == [status |-> "PENDING", attempts |-> 0, due |-> TRUE]

TypeOK ==
  /\ backend \in {"memory", "postgres"}
  /\ subscription \in {"none", "active", "deleted"}
  /\ store \in [Deliveries -> Rows]
  /\ pc \in [Workers -> Steps]
  /\ target \in Deliveries
  /\ mine \in [Workers -> Rows]
  /\ batch \subseteq Deliveries \X Rows
  /\ calls \in [Deliveries -> Nat]
  /\ acked \subseteq Deliveries
  /\ late \in [Workers -> Nat]
  /\ crashes \in 0 .. MaxCrashes

Init ==
  /\ backend \in {"memory", "postgres"}
  /\ subscription = "none"
  /\ store = [d \in Deliveries |-> Absent]
  /\ pc = [w \in Workers |-> IF w = Dispatcher THEN "poll" ELSE "off"]
  /\ target \in Deliveries
  /\ mine = [w \in Workers |-> Absent]
  /\ batch = {}
  /\ calls = [d \in Deliveries |-> 0]
  /\ acked = {}
  /\ late = [w \in Workers |-> 0]
  /\ crashes = 0

-----------------------------------------------------------------------------
On(w) == IF w = Dispatcher THEN target ELSE w

\* The memory store hands out the delivery itself, the Postgres store a copy.
Copy(row) == IF backend = "postgres" THEN row ELSE Absent

Held(w) == IF backend = "memory" THEN store[On(w)] ELSE mine[w]

Assign(w, row) ==
  IF backend = "memory"
  THEN store' = [store EXCEPT ![On(w)] = row] /\ UNCHANGED mine
  ELSE mine' = [mine EXCEPT ![w] = row] /\ UNCHANGED store

Goto(w, step) == pc' = [pc EXCEPT ![w] = step]

-----------------------------------------------------------------------------
(* The subscription.                                                       *)

AddSubscription == subscription' = "active"

\* Each registration is a subscription of its own: this one is made once.
RegisterOutbound ==
  /\ subscription = "none"
  /\ AddSubscription
  /\ UNCHANGED <<backend, store, pc, target, mine, batch, calls, acked, late, crashes>>

\* Whether list_subscriptions has it, and what is_active of get_subscription says.
IsOnList == subscription = "active"
IsActive == subscription = "active"

DeleteSubscription ==
  /\ subscription = "active"
  /\ subscription' = "deleted"
  /\ UNCHANGED <<backend, store, pc, target, mine, batch, calls, acked, late, crashes>>

-----------------------------------------------------------------------------
(* handle_events and enqueue_delivery, in the request that emitted the     *)
(* event.                                                                  *)

EventTypes == {"run_completed", "run_failed", "node_failed", "run_waiting_for_input", "other"}

\* The event_type that subscribers know it by; nobody hears of the others.
WebhookType(type) == IF type = "run_waiting_for_input" THEN "interrupt_created" ELSE type

\* The subscription is on the list and wants the event; other subscriptions may be
\* served first.
ListSubscriptions(d) ==
  /\ pc[d] = "off"
  /\ \E type \in EventTypes :
       Goto(d, IF IsOnList /\ WebhookType(type) \in Subscribed \ {"other"} THEN "listed" ELSE "done")
  /\ UNCHANGED <<backend, subscription, store, target, mine, batch, calls, acked, late, crashes>>

InsertDelivery(d) == store' = [store EXCEPT ![d] = Pending]

AddDelivery(d) ==
  /\ pc[d] = "listed"
  /\ InsertDelivery(d)
  /\ mine' = [mine EXCEPT ![d] = Copy(Pending)]
  /\ Goto(d, "attempt")
  /\ UNCHANGED <<backend, subscription, target, batch, calls, acked, late, crashes>>

-----------------------------------------------------------------------------
(* process_due_deliveries.                                                 *)

\* Variant: only the deliveries that were never attempted are due.
MutIsDue(row) == row.status = "PENDING" /\ row.due

IsDue(row) == row.status \in {"PENDING", "FAILED"} /\ row.due

\* Variant: attempt_count is not read from the store.
MutListed(d) == Copy([store[d] EXCEPT !.attempts = 0])

Listed(d) == Copy(store[d])

ListDueDeliveries ==
  /\ pc[Dispatcher] = "poll"
  /\ batch' = {<<d, Listed(d)>> : d \in {e \in Deliveries : IsDue(store[e])}}
  /\ Goto(Dispatcher, "lookup")
  /\ UNCHANGED <<backend, subscription, store, target, mine, calls, acked, late, crashes>>

Take(due) ==
  /\ target' = due[1]
  /\ mine' = [mine EXCEPT ![Dispatcher] = due[2]]
  /\ Goto(Dispatcher, "attempt")

\* Variant: a deleted subscription is still served.
MutGetSubscription(due) ==
  /\ pc[Dispatcher] = "lookup"
  /\ batch' = batch \ {due}
  /\ Take(due)
  /\ UNCHANGED <<backend, subscription, store, calls, acked, late, crashes>>

GetSubscription(due) ==
  /\ pc[Dispatcher] = "lookup"
  /\ batch' = batch \ {due}
  /\ IF IsActive THEN Take(due) ELSE UNCHANGED <<target, mine, pc>>
  /\ UNCHANGED <<backend, subscription, store, calls, acked, late, crashes>>

\* The list is done; the loop sleeps for poll_interval_s.
Sleep ==
  /\ pc[Dispatcher] = "lookup" /\ batch = {}
  /\ Goto(Dispatcher, "poll")
  /\ UNCHANGED <<backend, subscription, store, target, mine, batch, calls, acked, late, crashes>>

-----------------------------------------------------------------------------
(* _attempt_delivery.                                                      *)

IsExhausted(row) == row.attempts >= MaxAttempts

\* The attempt is counted before the call is made.
Call(w) ==
  /\ pc[w] = "attempt" /\ ~IsExhausted(Held(w))
  /\ Assign(w, [Held(w) EXCEPT !.attempts = @ + 1])
  /\ calls' = [calls EXCEPT ![On(w)] = @ + 1]
  /\ late' = IF subscription = "deleted" THEN [late EXCEPT ![w] = @ + 1] ELSE late
  /\ Goto(w, "sending")
  /\ UNCHANGED <<backend, subscription, target, batch, acked, crashes>>

GiveUp(w) ==
  /\ pc[w] = "attempt" /\ IsExhausted(Held(w))
  /\ Assign(w, [Held(w) EXCEPT !.status = "FAILED"])
  /\ Goto(w, "write")
  /\ UNCHANGED <<backend, subscription, target, batch, calls, acked, late, crashes>>

\* The receiver answers with 2xx.
Succeed(w) ==
  /\ pc[w] = "sending"
  /\ Assign(w, [Held(w) EXCEPT !.status = "SUCCESS"])
  /\ acked' = acked \cup {On(w)}
  /\ Goto(w, "write")
  /\ UNCHANGED <<backend, subscription, target, batch, calls, late, crashes>>

\* Another status, a timeout or an error: the next attempt is due later.
CallFails(w) ==
  /\ pc[w] = "sending"
  /\ Assign(w, [status |-> "FAILED", attempts |-> Held(w).attempts, due |-> FALSE])
  /\ Goto(w, "write")
  /\ UNCHANGED <<backend, subscription, target, batch, calls, acked, late, crashes>>

\* update_delivery overwrites what the row has become in the meantime.
UpdateDelivery(w) ==
  /\ pc[w] = "write"
  /\ store' = [store EXCEPT ![On(w)] = Held(w)]
  /\ mine' = [mine EXCEPT ![w] = Absent]
  /\ Goto(w, IF w = Dispatcher THEN "lookup" ELSE "done")
  /\ UNCHANGED <<backend, subscription, target, batch, calls, acked, late, crashes>>

-----------------------------------------------------------------------------
(* The rest of the world.                                                  *)

\* next_retry_at passes.
BackoffElapses(d) ==
  /\ store[d].status = "FAILED" /\ ~store[d].due
  /\ store' = [store EXCEPT ![d].due = TRUE]
  /\ UNCHANGED <<backend, subscription, pc, target, mine, batch, calls, acked, late, crashes>>

\* The database raises: a request fails, and the dispatch loop ends for good.
StoreFails(w) ==
  /\ backend = "postgres"
  /\ pc[w] \in {"listed", "poll", "lookup", "write"}
  /\ Goto(w, IF w = Dispatcher THEN "dead" ELSE "done")
  /\ batch' = IF w = Dispatcher THEN {} ELSE batch
  /\ mine' = [mine EXCEPT ![w] = Absent]
  /\ UNCHANGED <<backend, subscription, store, target, calls, acked, late, crashes>>

\* The process stops and starts again over the same database.
Crash ==
  /\ backend = "postgres" /\ crashes < MaxCrashes
  /\ crashes' = crashes + 1
  /\ pc' = [w \in Workers |->
       IF w = Dispatcher THEN "poll" ELSE IF pc[w] = "off" THEN "off" ELSE "done"]
  /\ batch' = {}
  /\ mine' = [w \in Workers |-> Absent]
  /\ UNCHANGED <<backend, subscription, store, target, calls, acked, late>>

-----------------------------------------------------------------------------
Attempt(w) == Call(w) \/ GiveUp(w) \/ Succeed(w) \/ CallFails(w) \/ UpdateDelivery(w)

Dispatch ==
  \/ ListDueDeliveries
  \/ \E due \in batch : GetSubscription(due)
  \/ Sleep
  \/ Attempt(Dispatcher)

Request(d) == AddDelivery(d) \/ Attempt(d)

Next ==
  \/ \E d \in Deliveries : ListSubscriptions(d) \/ Request(d) \/ BackoffElapses(d)
  \/ Dispatch
  \/ RegisterOutbound \/ DeleteSubscription
  \/ \E w \in Workers : StoreFails(w)
  \/ Crash

\* Requests and the dispatcher go on, a call is answered or times out, a
\* backoff ends.
Spec ==
  /\ Init /\ [][Next]_vars
  /\ WF_vars(Dispatch)
  /\ \A d \in Deliveries : WF_vars(Request(d)) /\ WF_vars(BackoffElapses(d))

-----------------------------------------------------------------------------
(* Properties.                                                             *)

\* Only what the receiver has answered with 2xx is recorded as SUCCESS,
\* whichever of the two workers wrote the row last.
SuccessIsAcknowledged == \A d \in Deliveries : store[d].status = "SUCCESS" => d \in acked

\* The memory store never lets a delivery exceed max_attempts, although two
\* workers attempt it at once.  With Postgres the request's late write can put
\* attempt_count back, and a crash forgets an attempt, but no more than that.
CallsBounded ==
  \A d \in Deliveries :
    calls[d] <= IF backend = "memory" THEN MaxAttempts ELSE 2 * MaxAttempts + crashes

\* Once the subscription is deleted, each worker makes at most the one call that
\* it was about to make.
LateCallsBounded == \A w \in Workers : late[w] <= 1

Settled(row) == row.status = "SUCCESS" \/ (row.status = "FAILED" /\ row.attempts = MaxAttempts)

\* A delivery in the store ends as SUCCESS or as FAILED after the last attempt,
\* across crashes, unless the subscription is deleted or the dispatch loop died.
DeliveriesSettle ==
  \A d \in Deliveries :
    <>[](store[d] = Absent \/ Settled(store[d]) \/ subscription = "deleted" \/ pc[Dispatcher] = "dead")

\* No delivery is attempted more than max_attempts times.
AtMostMaxAttempts == \A d \in Deliveries : calls[d] <= MaxAttempts
=============================================================================
