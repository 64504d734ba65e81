---------------------------- MODULE OrderRefunds ----------------------------
(***************************************************************************)
(* OrdersService.refund: the admin's POST /orders/:id/refund.  The captured *)
(* payment is read in one transaction, Stripe refunds it, and a second      *)
(* transaction records the refund.                                          *)
(***************************************************************************)
EXTENDS CommerceState

CONSTANTS
  Admins,          \* concurrent refund requests
  RequestFaults    \* bound on requests that are interrupted

ASSUME OrderRefundsAssumption == RequestFaults \in Nat

VARIABLES
  refunding,       \* each request: pc, order, amount, Stripe refund
  requestFaults

refundingVars == <<refunding, requestFaults>>

RefundPC == {"idle", "call", "record", "failed", "done"}

NoRefund == [pc |-> "idle", order |-> None, amt |-> 0, id |-> 0]

SetRefund(a, to) == refunding' = [refunding EXCEPT ![a].pc = to]

\* Read the order; it must have a captured payment at least as large.
ReadPayment(a) ==
  \E o \in Orders, amt \in 1 .. Total :
    /\ refunding[a].pc = "idle"
    /\ OrderExists(o)
    /\ payments[o] = "SUCCEEDED"
    /\ refunding' = [refunding EXCEPT ![a] =
                       [pc |-> "call", order |-> o, amt |-> amt, id |-> 0]]
    /\ UNCHANGED <<sharedVars, requestFaults>>

\* stripe.refunds.create succeeds.
RefundPayment(a) ==
  LET o == refunding[a].order IN
  /\ refunding[a].pc = "call"
  /\ CanRefund(o, refunding[a].amt)
  /\ StripeRefund(o, refunding[a].amt)
  /\ refunding' = [refunding EXCEPT ![a].pc = "record", ![a].id = NextRefundId(o)]
  /\ UNCHANGED <<orderVars, moneyVars, carts, stockVars, requestFaults>>

\* Mutant of RefundRefused: the error is swallowed.
RefundRefusedIgnored(a) ==
  /\ refunding[a].pc = "call"
  /\ ~CanRefund(refunding[a].order, refunding[a].amt)
  /\ SetRefund(a, "record")
  /\ UNCHANGED <<sharedVars, requestFaults>>

\* Stripe refuses: less than the amount is left on the payment.
RefundRefused(a) ==
  /\ refunding[a].pc = "call"
  /\ ~CanRefund(refunding[a].order, refunding[a].amt)
  /\ SetRefund(a, "failed")
  /\ UNCHANGED <<sharedVars, requestFaults>>

\* The second transaction: refund row, order and payment statuses.
RecordRefund(a) ==
  LET o == refunding[a].order IN
  /\ refunding[a].pc = "record"
  /\ refunding[a].id \notin Recorded(o)
  /\ CanUpdateOrder(o)
  /\ SetRefund(a, "done")
  /\ refunds' = [refunds EXCEPT ![o] =
                   @ \cup {[id |-> refunding[a].id, amt |-> refunding[a].amt]}]
  /\ AdvanceRefunded(o, CoversPayment(refunding[a].amt))
  /\ UNCHANGED <<orderLog, orderLock, carts, stockVars, stripeVars, requestFaults>>

\* charge.refunded was processed first: the row violates unique(stripeRefundId)
\* and the whole transaction is rolled back.
RecordRefundConflict(a) ==
  /\ refunding[a].pc = "record"
  /\ refunding[a].id \in Recorded(refunding[a].order)
  /\ SetRefund(a, "failed")
  /\ UNCHANGED <<sharedVars, requestFaults>>

\* The process dies, or Stripe's answer or the second transaction is lost.
RefundInterrupted(a) ==
  LET o == refunding[a].order IN
  /\ requestFaults < RequestFaults
  /\ requestFaults' = requestFaults + 1
  /\ SetRefund(a, "failed")
  /\ \/ /\ refunding[a].pc \in {"call", "record"}
        /\ UNCHANGED sharedVars
     \/ /\ refunding[a].pc = "call"
        /\ CanRefund(o, refunding[a].amt)
        /\ StripeRefund(o, refunding[a].amt)
        /\ UNCHANGED <<orderVars, moneyVars, carts, stockVars>>

RefundStep(a) ==
  \/ RefundPayment(a)
  \/ RefundRefused(a)
  \/ RecordRefund(a)
  \/ RecordRefundConflict(a)

OrderRefundsNext ==
  \E a \in Admins : ReadPayment(a) \/ RefundStep(a) \/ RefundInterrupted(a)

OrderRefundsInit ==
  /\ refunding = [a \in Admins |-> NoRefund]
  /\ requestFaults = 0

OrderRefundsTypeOK ==
  /\ refunding \in [Admins -> [pc : RefundPC, order : Orders \cup {None},
                               amt : 0 .. Total, id : 0 .. MaxRefunds]]
  /\ \A a \in Admins : refunding[a].pc # "idle" =>
       refunding[a].order \in Orders /\ refunding[a].amt > 0
  /\ \A a \in Admins : refunding[a].pc = "record" => refunding[a].id > 0
  /\ requestFaults \in 0 .. RequestFaults
=============================================================================
