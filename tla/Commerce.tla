------------------------------ MODULE Commerce ------------------------------
(***************************************************************************)
(* The order flow as a whole: checkout requests, the billing worker, the    *)
(* admin's refunds, returns and stock adjustments, all working on the same  *)
(* tables and on the same Stripe payments.                                  *)
(***************************************************************************)
EXTENDS Checkout, Billing, OrderRefunds, Returns, Inventory

CONSTANT InitialStock   \* units on hand at each location when the shop opens

ASSUME StockAssumption == InitialStock \in [Locations -> Nat]

vars == <<sharedVars, checkoutVars, billingVars, refundingVars, returnVars, inventoryVars>>

Init ==
  /\ StateInit(InitialStock)
  /\ CheckoutInit
  /\ BillingInit
  /\ OrderRefundsInit
  /\ ReturnsInit
  /\ InventoryInit

StripeNext == \E o \in Orders : CardDeclined(o) \/ Pay(o) \/ DashboardRefund(o)

Next ==
  \/ /\ StripeNext
     /\ UNCHANGED <<checkoutVars, billingVars, refundingVars, returnVars, inventoryVars>>
  \/ /\ CheckoutNext
     /\ UNCHANGED <<billingVars, refundingVars, returnVars, inventoryVars>>
  \/ /\ BillingNext
     /\ UNCHANGED <<checkoutVars, refundingVars, returnVars, inventoryVars>>
  \/ /\ OrderRefundsNext
     /\ UNCHANGED <<checkoutVars, billingVars, returnVars, inventoryVars>>
  \/ /\ ReturnsNext
     /\ UNCHANGED <<checkoutVars, billingVars, refundingVars, inventoryVars>>
  \/ /\ InventoryNext
     /\ UNCHANGED <<checkoutVars, billingVars, refundingVars, returnVars>>

Spec == Init /\ [][Next]_vars

TypeOK ==
  /\ StateTypeOK
  /\ CheckoutTypeOK
  /\ BillingTypeOK
  /\ OrderRefundsTypeOK
  /\ ReturnsTypeOK
  /\ InventoryTypeOK

-----------------------------------------------------------------------------
(***************************************************************************)
(* Safety.                                                                  *)
(***************************************************************************)

\* The stock ledger explains the stock: on hand is the sum of the movements,
\* whichever of the sale, return, receive and adjustment paths wrote them.
LedgerBalanced == \A l \in Locations : onHand[l] = ledger[l]

\* Nobody can pay for an order that checkout has rolled back: the catch block
\* of CheckoutService.checkout never deletes an order whose URL is out.
PayableOrderExists ==
  \A o \in Orders : session[o].st \in {"payable", "complete"} => OrderExists(o)

\* Every refund row stands for one Stripe refund, of the same amount, however
\* the admin endpoint, the returns desk and the webhook raced to write it.
RefundsAreBacked ==
  \A o \in Orders :
    /\ \A row \in refunds[o] : /\ row.id \in DOMAIN stripeRefunds[o]
                               /\ row.amt = stripeRefunds[o][row.id].amt
    /\ \A row1, row2 \in refunds[o] : row1.id = row2.id => row1 = row2

\* An order leaves stock at most once: the SALE movements that refer to it
\* never exceed what was ordered.
SoldOnce == \A o \in Orders : sold[o] <= Qty

\* No location is driven below zero by sales.
NeverOversold == \A l \in Locations : onHand[l] >= 0

\* The number a checkout is about to compute is free, so that a checkout that
\* runs alone cannot fail on unique(tenantId, number).
NextNumberIsFree == ~NumberTaken(NextNumber)

\* A return puts back at most the units it names, and none if it was rejected:
\* the desk decides on a status that it read in an earlier transaction.
RestockedOnce ==
  \A r \in ReturnIds :
    /\ restocked[r] <= returns[r].qty
    /\ returns[r].status = "REJECTED" => restocked[r] = 0

\* The desk sends a buyer the money for a return at most once.  It does not hold:
\* a refund whose recording collided with the webhook is asked for again.
PaidBackOnce == \A r \in ReturnIds : payouts[r] <= 1

\* Nothing is on its way: every event processed, no request half done.
Quiescent ==
  /\ \A e \in events : job[e].status = "completed"
  /\ \A w \in Workers : ~Working(w)
  /\ \A a \in Admins : refunding[a].pc \in {"idle", "failed", "done"}
  /\ \A k \in Clerks : ClerkAt(k, "idle")

\* What the order should say of its money, from what Stripe holds.
FinancialTruth(o) ==
  IF session[o].st # "complete" THEN "UNPAID"
  ELSE IF Refunded(o) = 0 THEN "PAID"
  ELSE IF Refunded(o) = Total THEN "REFUNDED"
  ELSE "PARTIALLY_REFUNDED"

\* Once everything has been processed the orders agree with Stripe.
SettledAgrees ==
  Quiescent => \A o \in Orders : OrderExists(o) => orders[o].financial = FinancialTruth(o)

\* ... and every Stripe refund has its row.
SettledRecorded ==
  Quiescent => \A o \in Orders : Recorded(o) = DOMAIN stripeRefunds[o]

-----------------------------------------------------------------------------
(***************************************************************************)
(* What a step may never do.                                                *)
(***************************************************************************)

\* Once paid an order never looks unpaid again: checkout's update to PENDING
\* cannot overtake the webhook.
PaidStaysPaid ==
  [][\A o \in Orders : orders[o].financial # "UNPAID" =>
       /\ orders'[o].financial # "UNPAID"
       /\ orders'[o].status \in {"PAID", "REFUNDED"}]_vars

\* A fully refunded order stays refunded: no late, repeated or reordered event
\* turns it back into a paid one.
RefundedIsFinal ==
  [][\A o \in Orders : orders[o].status = "REFUNDED" => orders'[o].status = "REFUNDED"]_vars

-----------------------------------------------------------------------------
(***************************************************************************)
(* The order flow implements MoneyLedger: the provider's side is Stripe's   *)
(* sessions and refunds, the books are the orders and refunds tables.       *)
(***************************************************************************)

Ledger == INSTANCE MoneyLedger WITH
  paid       <- {o \in Orders : session[o].st = "complete"},
  recognised <- {o \in Orders : orders[o].financial # "UNPAID"},
  refunded   <- [o \in Orders |-> Refunded(o)],
  made       <- [o \in Orders |-> Len(stripeRefunds[o])],
  booked     <- [o \in Orders |-> Recorded(o)]

\* Orders are marked paid and refunds recorded only for money that has moved,
\* and neither is ever taken back, whatever order the events arrive in.
BooksFollowMoney == Ledger!Spec

-----------------------------------------------------------------------------
(***************************************************************************)
(* Liveness.  Stripe keeps delivering an event until the API accepts it,    *)
(* and every worker keeps taking jobs and running its handler.  Buyers,     *)
(* admins and faults are under no obligation.                               *)
(***************************************************************************)

Elsewhere == <<checkoutVars, refundingVars, returnVars, inventoryVars>>

FairSpec ==
  /\ Spec
  /\ \A e \in Event : WF_vars(DeliverWebhook(e) /\ UNCHANGED Elsewhere)
  /\ \A w \in Workers : WF_vars(WorkerStep(w) /\ UNCHANGED Elsewhere)

\* A payment is eventually reflected on its order, through failed attempts,
\* stalled jobs and redeliveries.
PaymentIsCaptured ==
  \A o \in Orders : session[o].st = "complete" ~> orders[o].financial # "UNPAID"

\* A fully refunded payment eventually shows as a refunded order, even when
\* the admin request that made the refund died before recording it; a worker
\* that dies after a capture can undo it (RefundedIsFinal says when).
RefundIsReflected ==
  \A o \in Orders :
    Refunded(o) = Total ~> orders[o].status = "REFUNDED" \/ faults.fail > 0

\* A captured order eventually has its confirmation e-mail queued, unless an
\* attempt died on the way: the e-mail is not part of what a retry repeats.
ConfirmationIsQueued ==
  \A o \in Orders :
    orders[o].status = "PAID" ~> mails[o].queued > 0 \/ faults.fail > 0
=============================================================================
