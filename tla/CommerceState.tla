--------------------------- MODULE CommerceState ---------------------------
(***************************************************************************)
(* The state that the checkout, billing, refund, return and inventory      *)
(* services share: the Postgres tables they read and write and the part of *)
(* Stripe they drive.  The services are separate modules that extend this  *)
(* one; module Commerce puts them together.                                *)
(*                                                                         *)
(* One tenant and one product variant, stocked at several locations.  Every*)
(* order buys Qty units of it at Price cents.                              *)
(***************************************************************************)
EXTENDS Integers, Sequences, FiniteSets

CONSTANTS
  Orders,      \* the order ids that checkout may create
  Carts,       \* storefront carts
  Locations,   \* inventory locations
  Qty,         \* units of the variant on every order
  Price,       \* live variant price, in cents
  MaxRefunds,  \* bound on the Stripe refunds made per order
  DashboardRefunds,  \* ... of which the first so many may come from the dashboard
  None         \* "no such row", SQL's NULL

ASSUME CommerceAssumption ==
  /\ Qty \in Nat \ {0}
  /\ Price \in Nat \ {0}
  /\ MaxRefunds \in Nat
  /\ DashboardRefunds \in Nat
  /\ None \notin Orders

Total == Qty * Price

VARIABLES
  orders,         \* orders table, one row per id: status, financialStatus, number
  orderLog,       \* the existing orders by createdAt, oldest first
  orderLock,      \* TRUE while an open transaction has updated the order row
  payments,       \* status of the order's payment row (one Stripe payment intent)
  refunds,        \* refunds table: the rows of each order
  carts,          \* convertedOrderId of each cart
  items,          \* the locations that have an inventory item for the variant
  onHand,         \* inventory_items.onHand
  ledger,         \* sum of the item's stock movements
  sold,           \* units moved out by the SALE movements that refer to an order
  session,        \* Stripe: the checkout session opened for an order
  stripeRefunds,  \* Stripe: the refunds of the order's payment intent
  events          \* Stripe: the events emitted so far

orderVars  == <<orders, orderLog, orderLock>>
moneyVars  == <<payments, refunds>>
stockVars  == <<items, onHand, ledger, sold>>
stripeVars == <<session, stripeRefunds, events>>
sharedVars == <<orderVars, moneyVars, carts, stockVars, stripeVars>>

OrderStatus     == {"ABSENT", "DRAFT", "PENDING", "PAID", "REFUNDED"}
FinancialStatus == {"UNPAID", "PAID", "PARTIALLY_REFUNDED", "REFUNDED"}
PaymentStatus   == {"ABSENT", "SUCCEEDED", "FAILED", "REFUNDED"}

\* A checkout session is open once Stripe has created it, payable once the
\* buyer has been given its URL, and complete once the buyer has paid.
SessionState == {"none", "open", "payable", "complete"}

Event == [type : {"completed", "failed"}, order : Orders, upto : {0}]
           \cup [type : {"refunded"}, order : Orders, upto : 1 .. MaxRefunds]

NoOrderRow == [status |-> "ABSENT", financial |-> "UNPAID", number |-> 0]

OrderExists(o) == orders[o].status # "ABSENT"

\* An UPDATE of an order row waits for the transaction that updated it last.
CanUpdateOrder(o) == OrderExists(o) /\ ~orderLock[o]

\* What Stripe has given back of an order's payment after its first n refunds.
RefundedAfter(o, n) == IF n = 0 THEN 0 ELSE stripeRefunds[o][n].cum
Refunded(o) == RefundedAfter(o, Len(stripeRefunds[o]))

Recorded(o) == {row.id : row \in refunds[o]}

\* Is the payment fully refunded?  (Mutant: off by one.)
CoversPaymentStrictly(amt) == amt > Total
CoversPayment(amt) == amt >= Total

\* How a recorded refund moves the order and its payment.  (Mutant: a partial
\* refund makes the order PAID.)
AdvanceRefundedReopening(o, fully) ==
  /\ orders' = [orders EXCEPT
       ![o].financial = IF fully THEN "REFUNDED" ELSE "PARTIALLY_REFUNDED",
       ![o].status = IF fully THEN "REFUNDED" ELSE "PAID"]
  /\ payments' = IF fully THEN [payments EXCEPT ![o] = "REFUNDED"] ELSE payments

AdvanceRefunded(o, fully) ==
  /\ orders' = [orders EXCEPT
       ![o].financial = IF fully THEN "REFUNDED" ELSE "PARTIALLY_REFUNDED",
       ![o].status = IF fully THEN "REFUNDED" ELSE @]
  /\ payments' = IF fully THEN [payments EXCEPT ![o] = "REFUNDED"] ELSE payments

-----------------------------------------------------------------------------
(***************************************************************************)
(* Stripe and the buyer.  Only what the services rely on: a session that   *)
(* has been paid stays paid, a refund never exceeds what is left of the    *)
(* payment, and every change emits an event.                               *)
(***************************************************************************)

\* stripe.refunds.create: refused unless the amount is left on the payment.
CanRefund(o, amt) ==
  /\ session[o].st = "complete"
  /\ Len(stripeRefunds[o]) < MaxRefunds
  /\ Refunded(o) + amt <= Total

NextRefundId(o) == Len(stripeRefunds[o]) + 1

StripeRefund(o, amt) ==
  /\ stripeRefunds' = [stripeRefunds EXCEPT ![o] =
                         Append(@, [amt |-> amt, cum |-> Refunded(o) + amt])]
  /\ events' = events \cup
       {[type |-> "refunded", order |-> o, upto |-> NextRefundId(o)]}
  /\ UNCHANGED session

\* The buyer's card is declined; the session stays payable for another try.
CardDeclined(o) ==
  /\ session[o].st = "payable"
  /\ events' = events \cup {[type |-> "failed", order |-> o, upto |-> 0]}
  /\ UNCHANGED <<orderVars, moneyVars, carts, stockVars, session, stripeRefunds>>

\* The buyer pays on the hosted page.
Pay(o) ==
  /\ session[o].st = "payable"
  /\ session' = [session EXCEPT ![o].st = "complete"]
  /\ events' = events \cup {[type |-> "completed", order |-> o, upto |-> 0]}
  /\ UNCHANGED <<orderVars, moneyVars, carts, stockVars, stripeRefunds>>

\* A refund issued from the Stripe dashboard, past the admin API.
DashboardRefund(o) ==
  \E amt \in 1 .. Total :
    /\ Len(stripeRefunds[o]) < DashboardRefunds
    /\ CanRefund(o, amt)
    /\ StripeRefund(o, amt)
    /\ UNCHANGED <<orderVars, moneyVars, carts, stockVars>>

-----------------------------------------------------------------------------
\* The tables of a shop that has taken no order yet; its stock on hand, and
\* the RECEIVE movements that put it there, are whatever InitialStock says.
StateInit(InitialStock) ==
  /\ orders = [o \in Orders |-> NoOrderRow]
  /\ orderLog = << >>
  /\ orderLock = [o \in Orders |-> FALSE]
  /\ payments = [o \in Orders |-> "ABSENT"]
  /\ refunds = [o \in Orders |-> {}]
  /\ carts = [c \in Carts |-> None]
  /\ items = {l \in Locations : InitialStock[l] > 0}
  /\ onHand = InitialStock
  /\ ledger = InitialStock
  /\ sold = [o \in Orders |-> 0]
  /\ session = [o \in Orders |-> [st |-> "none", cart |-> None]]
  /\ stripeRefunds = [o \in Orders |-> << >>]
  /\ events = {}

StateTypeOK ==
  /\ orders \in [Orders -> [status : OrderStatus, financial : FinancialStatus,
                            number : Nat]]
  /\ orderLog \in Seq(Orders)
  /\ orderLock \in [Orders -> BOOLEAN]
  /\ payments \in [Orders -> PaymentStatus]
  /\ refunds \in [Orders -> SUBSET [id : 1 .. MaxRefunds, amt : 1 .. Total]]
  /\ carts \in [Carts -> Orders \cup {None}]
  /\ items \in SUBSET Locations
  /\ onHand \in [Locations -> Int]
  /\ ledger \in [Locations -> Int]
  /\ sold \in [Orders -> Nat]
  /\ session \in [Orders -> [st : SessionState, cart : Carts \cup {None}]]
  /\ stripeRefunds \in [Orders -> Seq([amt : 1 .. Total, cum : 1 .. Total])]
  /\ events \in SUBSET Event
=============================================================================
