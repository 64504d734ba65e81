------------------------------- MODULE Returns -------------------------------
(***************************************************************************)
(* PortalService.requestReturn and ReturnsService.approve, reject and       *)
(* refund.  Every admin operation loads the return in one transaction and   *)
(* writes it in a later one, on the strength of the status it loaded.       *)
(***************************************************************************)
EXTENDS CommerceState

CONSTANTS
  ReturnIds,      \* returns that buyers may request
  Clerks,         \* concurrent admin requests on returns
  ClerkFaults     \* bound on requests that are interrupted

ASSUME ReturnsAssumption == ClerkFaults \in Nat

VARIABLES
  returns,        \* returns table: status, order, quantity
  payouts,        \* history: Stripe refunds the desk made for a return
  restocked,      \* units put back by the RETURN movements that refer to a return
  clerk,          \* each admin request: pc, return, payment seen, Stripe refund
  clerkFaults

returnVars == <<returns, payouts, restocked, clerk, clerkFaults>>

ReturnStatus == {"ABSENT", "REQUESTED", "APPROVED", "REJECTED", "REFUNDED"}
ClerkPC == {"idle", "approve", "reject", "call", "record"}

NoReturn == [status |-> "ABSENT", order |-> None, qty |-> 0]
AtDesk == [pc |-> "idle", ret |-> None, paid |-> FALSE, id |-> 0]

OrderOfReturn(r) == returns[r].order
AmountOf(r) == returns[r].qty * Price

ClerkAt(k, pc) == clerk[k].pc = pc
ClerkLeaves(k) == clerk' = [clerk EXCEPT ![k] = AtDesk]

\* requestReturn: any existing order of the buyer, each line up to what was
\* ordered; neither its payment nor its other returns are looked at.
RequestReturn(r) ==
  \E o \in Orders, q \in 1 .. Qty :
    /\ returns[r].status = "ABSENT"
    /\ OrderExists(o)
    /\ returns' = [returns EXCEPT ![r] = [status |-> "REQUESTED", order |-> o, qty |-> q]]
    /\ UNCHANGED <<sharedVars, payouts, restocked, clerk, clerkFaults>>

Opens(k, r, pc) ==
  /\ ClerkAt(k, "idle")
  /\ clerk' = [clerk EXCEPT ![k] = [pc |-> pc, ret |-> r, id |-> 0,
                 paid |-> payments[OrderOfReturn(r)] = "SUCCEEDED"]]
  /\ UNCHANGED <<sharedVars, returns, payouts, restocked, clerkFaults>>

OpenApprove(k, r) == returns[r].status = "REQUESTED" /\ Opens(k, r, "approve")

OpenReject(k, r) ==
  returns[r].status \notin {"ABSENT", "REFUNDED"} /\ Opens(k, r, "reject")

\* Mutant of OpenRefund: a return that is already refunded is refunded again.
OpenRefundAgain(k, r) ==
  /\ returns[r].status \in {"REQUESTED", "APPROVED", "REFUNDED"}
  /\ Opens(k, r, IF payments[OrderOfReturn(r)] = "SUCCEEDED" THEN "call" ELSE "record")

\* refund: nothing to do for a refunded return, an error for a rejected one;
\* without a captured payment the refund is recorded as manual.
OpenRefund(k, r) ==
  /\ returns[r].status \in {"REQUESTED", "APPROVED"}
  /\ Opens(k, r, IF payments[OrderOfReturn(r)] = "SUCCEEDED" THEN "call" ELSE "record")

SetReturnStatus(k, from, status) ==
  /\ ClerkAt(k, from)
  /\ returns' = [returns EXCEPT ![clerk[k].ret].status = status]
  /\ ClerkLeaves(k)
  /\ UNCHANGED <<sharedVars, payouts, restocked, clerkFaults>>

Approve(k) == SetReturnStatus(k, "approve", "APPROVED")
Reject(k)  == SetReturnStatus(k, "reject", "REJECTED")

\* stripe.refunds.create succeeds.
RefundReturn(k) ==
  LET r == clerk[k].ret  o == OrderOfReturn(r) IN
  /\ ClerkAt(k, "call")
  /\ CanRefund(o, AmountOf(r))
  /\ StripeRefund(o, AmountOf(r))
  /\ clerk' = [clerk EXCEPT ![k].pc = "record", ![k].id = NextRefundId(o)]
  /\ payouts' = [payouts EXCEPT ![r] = @ + 1]
  /\ UNCHANGED <<orderVars, moneyVars, carts, stockVars, returns, restocked, clerkFaults>>

\* Stripe refuses: the return stays as it is.
RefundReturnRefused(k) ==
  LET r == clerk[k].ret IN
  /\ ClerkAt(k, "call")
  /\ ~CanRefund(OrderOfReturn(r), AmountOf(r))
  /\ ClerkLeaves(k)
  /\ UNCHANGED <<sharedVars, returns, payouts, restocked, clerkFaults>>

\* restock: the variant's inventory item updated last gets the units back.
Restock(r) ==
  \/ /\ items = {}
     /\ UNCHANGED <<onHand, ledger, restocked>>
  \/ \E l \in items :
       /\ onHand' = [onHand EXCEPT ![l] = @ + returns[r].qty]
       /\ ledger' = [ledger EXCEPT ![l] = @ + returns[r].qty]
       /\ restocked' = [restocked EXCEPT ![r] = @ + returns[r].qty]

\* The last transaction of refund: restock, refund row and financial status
\* when a payment was seen, and the return becomes REFUNDED.
RecordReturn(k) ==
  LET r == clerk[k].ret  o == OrderOfReturn(r) IN
  /\ ClerkAt(k, "record")
  /\ clerk[k].paid => clerk[k].id \notin Recorded(o) /\ CanUpdateOrder(o)
  /\ Restock(r)
  /\ returns' = [returns EXCEPT ![r].status = "REFUNDED"]
  /\ refunds' = IF clerk[k].paid
                THEN [refunds EXCEPT ![o] = @ \cup {[id |-> clerk[k].id, amt |-> AmountOf(r)]}]
                ELSE refunds
  /\ orders' = IF clerk[k].paid
               THEN [orders EXCEPT ![o].financial =
                       IF AmountOf(r) >= Total THEN "REFUNDED" ELSE "PARTIALLY_REFUNDED"]
               ELSE orders
  /\ ClerkLeaves(k)
  /\ UNCHANGED <<orderLog, orderLock, payments, carts, items, sold, stripeVars, payouts,
                 clerkFaults>>

\* charge.refunded was processed first: unique(stripeRefundId) is violated and
\* everything, restock and status included, is rolled back.
RecordReturnConflict(k) ==
  /\ ClerkAt(k, "record")
  /\ clerk[k].paid
  /\ clerk[k].id \in Recorded(OrderOfReturn(clerk[k].ret))
  /\ ClerkLeaves(k)
  /\ UNCHANGED <<sharedVars, returns, payouts, restocked, clerkFaults>>

\* The request dies between two steps.
ClerkInterrupted(k) ==
  /\ ~ClerkAt(k, "idle")
  /\ clerkFaults < ClerkFaults
  /\ clerkFaults' = clerkFaults + 1
  /\ ClerkLeaves(k)
  /\ UNCHANGED <<sharedVars, returns, payouts, restocked>>

ClerkStep(k) ==
  \/ Approve(k)
  \/ Reject(k)
  \/ RefundReturn(k)
  \/ RefundReturnRefused(k)
  \/ RecordReturn(k)
  \/ RecordReturnConflict(k)

ReturnsNext ==
  \/ \E r \in ReturnIds : RequestReturn(r)
  \/ \E k \in Clerks :
       \/ \E r \in ReturnIds : OpenApprove(k, r) \/ OpenReject(k, r) \/ OpenRefund(k, r)
       \/ ClerkStep(k)
       \/ ClerkInterrupted(k)

ReturnsInit ==
  /\ returns = [r \in ReturnIds |-> NoReturn]
  /\ payouts = [r \in ReturnIds |-> 0]
  /\ restocked = [r \in ReturnIds |-> 0]
  /\ clerk = [k \in Clerks |-> AtDesk]
  /\ clerkFaults = 0

ReturnsTypeOK ==
  /\ returns \in [ReturnIds -> [status : ReturnStatus, order : Orders \cup {None},
                                qty : 0 .. Qty]]
  /\ \A r \in ReturnIds : returns[r].status # "ABSENT" =>
       returns[r].order \in Orders /\ returns[r].qty > 0
  /\ payouts \in [ReturnIds -> Nat]
  /\ restocked \in [ReturnIds -> Nat]
  /\ clerk \in [Clerks -> [pc : ClerkPC, ret : ReturnIds \cup {None},
                           paid : BOOLEAN, id : 0 .. MaxRefunds]]
  /\ \A k \in Clerks : ~ClerkAt(k, "idle") =>
       clerk[k].ret \in ReturnIds /\ returns[clerk[k].ret].status # "ABSENT"
  /\ \A k \in Clerks : ClerkAt(k, "record") /\ clerk[k].paid => clerk[k].id > 0
  /\ clerkFaults \in 0 .. ClerkFaults
=============================================================================
