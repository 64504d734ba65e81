------------------------------ MODULE Checkout ------------------------------
(***************************************************************************)
(* CheckoutService.checkout: the steps of one POST /checkout request.  The *)
(* handler runs several transactions and one Stripe call; other requests   *)
(* and other services run between them.  A request is named by the id of   *)
(* the order it will create.                                               *)
(***************************************************************************)
EXTENDS CommerceState

CONSTANTS
  CheckoutFaults   \* bound on failed or interrupted checkout steps

ASSUME CheckoutAssumption == CheckoutFaults \in Nat

VARIABLES
  checkout,        \* the requests: pc, cart read, order number computed
  checkoutFaults   \* failures injected so far

checkoutVars == <<checkout, checkoutFaults>>

CheckoutPC == {"idle", "cartRead", "numbered", "created", "opened", "recorded",
               "undo", "done", "failed"}

FirstNumber == 1001

\* The number of the order created last, plus one.  (Mutant: of the first one.)
NextNumberAfterFirst ==
  IF orderLog = << >> THEN FirstNumber
  ELSE orders[Head(orderLog)].number + 1
NextNumber ==
  IF orderLog = << >> THEN FirstNumber
  ELSE orders[orderLog[Len(orderLog)]].number + 1

NumberTaken(n) == \E p \in Orders : OrderExists(p) /\ orders[p].number = n

Goto(o, from, to) ==
  /\ checkout[o].pc = from
  /\ checkout' = [checkout EXCEPT ![o].pc = to]

\* Load and re-price the cart; refused once the cart has been converted.
ReadCart(o) ==
  \E c \in Carts :
    /\ carts[c] = None
    /\ checkout[o].pc = "idle"
    /\ checkout' = [checkout EXCEPT ![o] = [pc |-> "cartRead", cart |-> c, number |-> 0]]
    /\ UNCHANGED <<sharedVars, checkoutFaults>>

\* First statement of the order transaction: look up the last order's number.
ReadLastNumber(o) ==
  /\ checkout[o].pc = "cartRead"
  /\ checkout' = [checkout EXCEPT ![o].pc = "numbered", ![o].number = NextNumber]
  /\ UNCHANGED <<sharedVars, checkoutFaults>>

\* Second statement and commit: insert the DRAFT order with its line snapshots.
CreateOrder(o) ==
  /\ ~NumberTaken(checkout[o].number)
  /\ Goto(o, "numbered", "created")
  /\ orders' = [orders EXCEPT ![o] = [status |-> "DRAFT", financial |-> "UNPAID",
                                      number |-> checkout[o].number]]
  /\ orderLog' = Append(orderLog, o)
  /\ UNCHANGED <<orderLock, moneyVars, carts, stockVars, stripeVars, checkoutFaults>>

\* The insert violates unique(tenantId, number): outside the try, so a 500.
CreateOrderConflict(o) ==
  /\ NumberTaken(checkout[o].number)
  /\ Goto(o, "numbered", "failed")
  /\ UNCHANGED <<sharedVars, checkoutFaults>>

\* A session as Stripe creates it.  (Mutant: the buyer has its URL at once.)
NewSessionWithUrl(o) == [st |-> "payable", cart |-> checkout[o].cart]
NewSession(o) == [st |-> "open", cart |-> checkout[o].cart]

\* stripe.checkout.sessions.create, with the order id and the cart token in
\* the metadata.  The URL is still only known to this request.
CreateSession(o) ==
  /\ Goto(o, "created", "opened")
  /\ session' = [session EXCEPT ![o] = NewSession(o)]
  /\ UNCHANGED <<orderVars, moneyVars, carts, stockVars, stripeRefunds, events, checkoutFaults>>

\* Record the session on the order: an unconditional update to PENDING.
RecordSession(o) ==
  /\ CanUpdateOrder(o)
  /\ Goto(o, "opened", "recorded")
  /\ orders' = [orders EXCEPT ![o].status = "PENDING"]
  /\ UNCHANGED <<orderLog, orderLock, moneyVars, carts, stockVars, stripeVars, checkoutFaults>>

\* Answer the request: from here on the buyer holds the session's URL.
RespondWithUrl(o) ==
  /\ Goto(o, "recorded", "done")
  /\ session' = [session EXCEPT ![o].st = "payable"]
  /\ UNCHANGED <<orderVars, moneyVars, carts, stockVars, stripeRefunds, events, checkoutFaults>>

\* The Stripe call or the update of the order fails.  The call may have
\* created the session before its answer was lost.
SessionStepFails(o) ==
  /\ checkoutFaults < CheckoutFaults
  /\ \/ /\ Goto(o, "created", "undo")
        /\ session' \in {session, [session EXCEPT ![o] = NewSession(o)]}
     \/ /\ Goto(o, "opened", "undo")
        /\ UNCHANGED session
  /\ checkoutFaults' = checkoutFaults + 1
  /\ UNCHANGED <<orderVars, moneyVars, carts, stockVars, stripeRefunds, events>>

\* The catch block deletes the order, then answers 400.
DeleteOrder(o) ==
  /\ CanUpdateOrder(o)
  /\ Goto(o, "undo", "failed")
  /\ orders' = [orders EXCEPT ![o] = NoOrderRow]
  /\ \E i \in 1 .. Len(orderLog) :
       /\ orderLog[i] = o
       /\ orderLog' = SubSeq(orderLog, 1, i - 1) \o SubSeq(orderLog, i + 1, Len(orderLog))
  /\ UNCHANGED <<orderLock, moneyVars, carts, stockVars, stripeVars, checkoutFaults>>

\* The process dies between two steps, or the delete of the catch block fails
\* and its error is swallowed: what was written stays.
CheckoutInterrupted(o) ==
  /\ checkout[o].pc \in {"cartRead", "numbered", "created", "opened", "recorded", "undo"}
  /\ checkoutFaults < CheckoutFaults
  /\ checkout' = [checkout EXCEPT ![o].pc = "failed"]
  /\ checkoutFaults' = checkoutFaults + 1
  /\ UNCHANGED sharedVars

CheckoutStep(o) ==
  \/ ReadLastNumber(o)
  \/ CreateOrder(o)
  \/ CreateOrderConflict(o)
  \/ CreateSession(o)
  \/ RecordSession(o)
  \/ RespondWithUrl(o)
  \/ DeleteOrder(o)

CheckoutNext ==
  \E o \in Orders :
    \/ ReadCart(o)
    \/ CheckoutStep(o)
    \/ SessionStepFails(o)
    \/ CheckoutInterrupted(o)

CheckoutInit ==
  /\ checkout = [o \in Orders |-> [pc |-> "idle", cart |-> None, number |-> 0]]
  /\ checkoutFaults = 0

CheckoutTypeOK ==
  /\ checkout \in [Orders -> [pc : CheckoutPC, cart : Carts \cup {None}, number : Nat]]
  /\ checkoutFaults \in 0 .. CheckoutFaults
=============================================================================
