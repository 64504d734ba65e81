------------------------------- MODULE Billing -------------------------------
(***************************************************************************)
(* The Stripe webhook controller and BillingProcessor, the worker that      *)
(* consumes the `billing` queue.  BullMQ delivers a job at least once: an   *)
(* attempt that throws or whose worker dies is retried, a stalled job is    *)
(* handed to a second worker while the first one is still running, and an   *)
(* event whose job was evicted can be enqueued again.  Each statement that  *)
(* reads what a later statement relies on is a step of its own, because the *)
(* transactions run at READ COMMITTED.                                      *)
(***************************************************************************)
EXTENDS CommerceState, Functions

CONSTANTS
  Workers,       \* job slots, over all worker processes
  MaxAttempts,   \* `attempts` of a billing job
  WorkerFaults,  \* bound on failed or interrupted attempts
  Stalls,        \* bound on jobs whose lock expires while they still run
  Evictions,     \* bound on finished jobs that leave the queue's history
  MarkerLosses   \* bound on processed-event markers that Redis loses

VARIABLES
  job,       \* the job of each event: status, owner of its lock, attempts made
  attempt,   \* what each worker is doing
  marker,    \* events whose `stripe:evt:<id>:done` key exists
  mails,     \* order_confirmation notifications: rows written, jobs queued
  faults     \* faults injected so far, by kind

billingVars == <<job, attempt, marker, mails, faults>>

JobStatus == {"none", "waiting", "active", "completed", "failed"}
AttemptPC == {"idle", "handle", "lock", "commit", "notify", "enqueue", "mark", "ack"}

NoTake == [l \in Locations |-> 0]
Idle == [pc |-> "idle", ev |-> None, take |-> NoTake, units |-> 0]

EventOf(w) == attempt[w].ev
OrderOf(w) == EventOf(w).order
Working(w) == attempt[w].pc # "idle"

At(w, pc) == attempt[w].pc = pc
Continue(w, pc) == attempt' = [attempt EXCEPT ![w].pc = pc]

Inject(kind, limit) ==
  /\ faults[kind] < limit
  /\ faults' = [faults EXCEPT ![kind] = @ + 1]

\* handleStripeWebhook: verified, then added under jobId = event.id, which is
\* a no-op while a job with that id is still known to the queue.
DeliverWebhook(e) ==
  /\ e \in events
  /\ job[e].status = "none"
  /\ job' = [job EXCEPT ![e] = [status |-> "waiting", owner |-> None, tries |-> 0]]
  /\ UNCHANGED <<sharedVars, attempt, marker, mails, faults>>

\* removeOnComplete / removeOnFail: the finished job is forgotten, so that a
\* redelivery of its event is enqueued once more.
EvictJob(e) ==
  /\ job[e].status \in {"completed", "failed"}
  /\ job' = [job EXCEPT ![e].status = "none"]
  /\ Inject("evict", Evictions)
  /\ UNCHANGED <<sharedVars, attempt, marker, mails>>

\* The marker expires (7 days) or Redis is flushed.
LoseMarker(e) ==
  /\ e \in marker
  /\ marker' = marker \ {e}
  /\ Inject("marker", MarkerLosses)
  /\ UNCHANGED <<sharedVars, job, attempt, mails>>

\* Mutant of StartJob: the marker is written before the handler has run.
StartJobMarkingFirst(w, e) ==
  /\ ~Working(w)
  /\ job[e].status = "waiting"
  /\ job' = [job EXCEPT ![e].status = "active", ![e].owner = w, ![e].tries = @ + 1]
  /\ attempt' = [attempt EXCEPT ![w] = [Idle EXCEPT
                   !.pc = IF e \in marker THEN "ack" ELSE "handle", !.ev = e]]
  /\ marker' = marker \cup {e}
  /\ UNCHANGED <<sharedVars, mails, faults>>

\* A worker takes the job and asks Redis for the event's marker.
StartJob(w, e) ==
  /\ ~Working(w)
  /\ job[e].status = "waiting"
  /\ job' = [job EXCEPT ![e].status = "active", ![e].owner = w, ![e].tries = @ + 1]
  /\ attempt' = [attempt EXCEPT ![w] = [Idle EXCEPT
                   !.pc = IF e \in marker THEN "ack" ELSE "handle", !.ev = e]]
  /\ UNCHANGED <<sharedVars, marker, mails, faults>>

-----------------------------------------------------------------------------
\* Mutant of AlreadyPaid: the guard is missing.
NeverAlreadyPaid(o) == FALSE

AlreadyPaid(o) == orders[o].status = "PAID" \/ orders[o].financial = "PAID"

\* onCheckoutCompleted reads the order and leaves early if it is gone or paid.
OnCheckoutCompleted(w) ==
  /\ At(w, "handle")
  /\ EventOf(w).type = "completed"
  /\ Continue(w, IF ~OrderExists(OrderOf(w)) \/ AlreadyPaid(OrderOf(w))
                 THEN "mark" ELSE "lock")
  /\ UNCHANGED <<sharedVars, job, marker, mails, faults>>

\* What a location can give.  (Mutant: not bounded by its level.)
AvailableUnbounded(l) == IF l \in items THEN Qty ELSE 0
Available(l) == IF l \in items /\ onHand[l] > 0 THEN onHand[l] ELSE 0

\* decrementStock: the fullest locations first, each up to what it has, until
\* the quantity is met or nothing is left; `units` are taken in all.
GreedyTake(take, units) ==
  /\ SumFunction(take) = units
  /\ \A l \in Locations : take[l] <= Available(l)
  /\ units < Qty => \A l \in Locations : take[l] = Available(l)
  /\ \A l, m \in Locations :
       (take[l] > 0 /\ onHand[m] > onHand[l]) => take[m] = Available(m)
  /\ \A l, m \in Locations :
       (l # m /\ take[l] > 0 /\ take[m] > 0) =>
         (take[l] = Available(l) \/ take[m] = Available(m))

\* The order row is updated, which holds its lock until the commit, and the
\* stock levels are read for the greedy decrement.
LockOrderAndReadStock(w) ==
  /\ At(w, "lock")
  /\ CanUpdateOrder(OrderOf(w))
  /\ orderLock' = [orderLock EXCEPT ![OrderOf(w)] = TRUE]
  /\ \E take \in [Locations -> 0 .. Qty], units \in 0 .. Qty :
       /\ GreedyTake(take, units)
       /\ attempt' = [attempt EXCEPT ![w] = [@ EXCEPT !.pc = "commit",
                                                      !.take = take, !.units = units]]
  /\ UNCHANGED <<orders, orderLog, moneyVars, carts, stockVars, stripeVars,
                 job, marker, mails, faults>>

\* Relative decrements of the levels, one SALE movement for each.
DecrementStock(w) ==
  /\ onHand' = [l \in Locations |-> onHand[l] - attempt[w].take[l]]
  /\ ledger' = [l \in Locations |-> ledger[l] - attempt[w].take[l]]
  /\ sold' = [sold EXCEPT ![OrderOf(w)] = @ + attempt[w].units]

\* cart.updateMany by token, unless it is converted already.
ConvertCart(o) ==
  carts' = [c \in Carts |->
              IF c = session[o].cart /\ carts[c] = None THEN o ELSE carts[c]]

\* The commit: order and payment are paid, the stock is decremented by what
\* was read, with its SALE movements, and the cart is converted.
CaptureOrder(w) ==
  LET o == OrderOf(w) IN
  /\ At(w, "commit")
  /\ Continue(w, "notify")
  /\ orders' = [orders EXCEPT ![o].status = "PAID", ![o].financial = "PAID"]
  /\ orderLock' = [orderLock EXCEPT ![o] = FALSE]
  /\ payments' = [payments EXCEPT ![o] = "SUCCEEDED"]
  /\ DecrementStock(w)
  /\ ConvertCart(o)
  /\ UNCHANGED <<orderLog, refunds, items, stripeVars, job, marker, mails, faults>>

\* Mutant of CreateConfirmation: the job is never added.
CreateConfirmationOnly(w) ==
  /\ At(w, "notify")
  /\ Continue(w, "mark")
  /\ mails' = [mails EXCEPT ![OrderOf(w)].rows = @ + 1]
  /\ UNCHANGED <<sharedVars, job, marker, faults>>

\* The confirmation e-mail: a notification row in a transaction of its own ...
CreateConfirmation(w) ==
  /\ At(w, "notify")
  /\ Continue(w, "enqueue")
  /\ mails' = [mails EXCEPT ![OrderOf(w)].rows = @ + 1]
  /\ UNCHANGED <<sharedVars, job, marker, faults>>

\* ... then the job that will send it.
EnqueueConfirmation(w) ==
  /\ At(w, "enqueue")
  /\ Continue(w, "mark")
  /\ mails' = [mails EXCEPT ![OrderOf(w)].queued = @ + 1]
  /\ UNCHANGED <<sharedVars, job, marker, faults>>

\* The payment row's status after a decline.  (Mutant: Stripe's own name for it.)
DeclinedStatusOfStripe == "requires_payment_method"
DeclinedStatus == "FAILED"

\* onPaymentFailed: upsert the payment row as FAILED, whatever it says now.
OnPaymentFailed(w) ==
  LET o == OrderOf(w) IN
  /\ At(w, "handle")
  /\ EventOf(w).type = "failed"
  /\ Continue(w, "mark")
  /\ payments' = IF OrderExists(o) THEN [payments EXCEPT ![o] = DeclinedStatus] ELSE payments
  /\ UNCHANGED <<orderVars, refunds, carts, stockVars, stripeVars,
                 job, marker, mails, faults>>

\* onChargeRefunded, when the payment row does not exist yet: acknowledged.
OnChargeRefundedUnknown(w) ==
  /\ At(w, "handle")
  /\ EventOf(w).type = "refunded"
  /\ payments[OrderOf(w)] = "ABSENT"
  /\ Continue(w, "mark")
  /\ UNCHANGED <<sharedVars, job, marker, mails, faults>>

\* The row for a Stripe refund.  (Mutant: charge.amount_refunded as its amount.)
RefundRowCumulative(o, id) == [id |-> id, amt |-> stripeRefunds[o][id].cum]
RefundRow(o, id) == [id |-> id, amt |-> stripeRefunds[o][id].amt]

\* The refunds of a snapshot that have no row yet.  (Mutant: nothing is missing
\* once a row exists.)
MissingIfNoneYet(o, upto) == IF refunds[o] = {} THEN 1 .. upto ELSE {}
Missing(o, upto) == (1 .. upto) \ Recorded(o)

\* onChargeRefunded: the missing refunds of the event's snapshot get a row,
\* then the statuses follow the snapshot's total.
OnChargeRefunded(w) ==
  LET o == OrderOf(w)  upto == EventOf(w).upto IN
  /\ At(w, "handle")
  /\ EventOf(w).type = "refunded"
  /\ payments[o] # "ABSENT"
  /\ CanUpdateOrder(o)
  /\ Continue(w, "mark")
  /\ refunds' = [refunds EXCEPT ![o] = @ \cup {RefundRow(o, id) : id \in Missing(o, upto)}]
  /\ AdvanceRefunded(o, CoversPayment(RefundedAfter(o, upto)))
  /\ UNCHANGED <<orderLog, orderLock, carts, stockVars, stripeVars,
                 job, marker, mails, faults>>

-----------------------------------------------------------------------------
\* After a successful handler, and never before: remember the event.
MarkProcessed(w) ==
  /\ At(w, "mark")
  /\ Continue(w, "ack")
  /\ marker' = marker \cup {EventOf(w)}
  /\ UNCHANGED <<sharedVars, job, mails, faults>>

OwnsJob(w) == job[EventOf(w)].status = "active" /\ job[EventOf(w)].owner = w

\* The job completes, unless its lock has passed to somebody else.
AckJob(w) ==
  /\ At(w, "ack")
  /\ attempt' = [attempt EXCEPT ![w] = Idle]
  /\ job' = IF OwnsJob(w)
            THEN [job EXCEPT ![EventOf(w)] = [@ EXCEPT !.status = "completed", !.owner = None]]
            ELSE job
  /\ UNCHANGED <<sharedVars, marker, mails, faults>>

\* The attempt throws or its worker dies: an open transaction is rolled back
\* and the job is retried until its attempts are spent.
AttemptFails(w) ==
  LET e == EventOf(w) IN
  /\ Working(w)
  /\ attempt' = [attempt EXCEPT ![w] = Idle]
  /\ orderLock' = IF At(w, "commit") THEN [orderLock EXCEPT ![e.order] = FALSE]
                                     ELSE orderLock
  /\ job' = IF OwnsJob(w)
            THEN [job EXCEPT ![e] = [@ EXCEPT !.owner = None,
                    !.status = IF job[e].tries < MaxAttempts THEN "waiting" ELSE "failed"]]
            ELSE job
  /\ Inject("fail", WorkerFaults)
  /\ UNCHANGED <<orders, orderLog, moneyVars, carts, stockVars, stripeVars, marker, mails>>

\* The lock of a running job expires: it goes back to the queue while the
\* attempt goes on.
JobStalls(w) ==
  /\ Working(w)
  /\ OwnsJob(w)
  /\ job' = [job EXCEPT ![EventOf(w)] = [@ EXCEPT !.status = "waiting", !.owner = None]]
  /\ Inject("stall", Stalls)
  /\ UNCHANGED <<sharedVars, attempt, marker, mails>>

WorkerStep(w) ==
  \/ \E e \in Event : StartJob(w, e)
  \/ OnCheckoutCompleted(w)
  \/ LockOrderAndReadStock(w)
  \/ CaptureOrder(w)
  \/ CreateConfirmation(w)
  \/ EnqueueConfirmation(w)
  \/ OnPaymentFailed(w)
  \/ OnChargeRefundedUnknown(w)
  \/ OnChargeRefunded(w)
  \/ MarkProcessed(w)
  \/ AckJob(w)

BillingNext ==
  \/ \E e \in Event : DeliverWebhook(e) \/ EvictJob(e) \/ LoseMarker(e)
  \/ \E w \in Workers : WorkerStep(w) \/ AttemptFails(w) \/ JobStalls(w)

BillingInit ==
  /\ job = [e \in Event |-> [status |-> "none", owner |-> None, tries |-> 0]]
  /\ attempt = [w \in Workers |-> Idle]
  /\ marker = {}
  /\ mails = [o \in Orders |-> [rows |-> 0, queued |-> 0]]
  /\ faults = [evict |-> 0, marker |-> 0, fail |-> 0, stall |-> 0]

BillingTypeOK ==
  /\ job \in [Event -> [status : JobStatus, owner : Workers \cup {None}, tries : Nat]]
  /\ attempt \in [Workers -> [pc : AttemptPC, ev : Event \cup {None},
                              take : [Locations -> 0 .. Qty], units : 0 .. Qty]]
  /\ \A w \in Workers : Working(w) => EventOf(w) \in Event
  /\ marker \in SUBSET Event
  /\ mails \in [Orders -> [rows : Nat, queued : Nat]]
  /\ faults \in [evict : Nat, marker : Nat, fail : Nat, stall : Nat]
=============================================================================
