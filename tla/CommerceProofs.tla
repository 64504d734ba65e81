--------------------------- MODULE CommerceProofs ---------------------------
(***************************************************************************)
(* Proofs about Commerce, for every number of orders, carts, locations,     *)
(* workers, requests and faults.                                            *)
(***************************************************************************)
EXTENDS Commerce, TLAPS, SequenceTheorems

(***************************************************************************)
(* The inductive invariant.  Types alone are not inductive: the handler of  *)
(* charge.refunded copies amounts from Stripe, so an event must name        *)
(* refunds that Stripe has made.                                            *)
(***************************************************************************)
EventsAreTrue ==
  \A e \in events : e.type = "refunded" => e.upto \in DOMAIN stripeRefunds[e.order]

JobsAreEvents ==
  /\ \A e \in Event : job[e].status # "none" => e \in events
  /\ \A w \in Workers : Working(w) => EventOf(w) \in events

TypeInv == TypeOK /\ EventsAreTrue /\ JobsAreEvents

USE DEF sharedVars, orderVars, moneyVars, stockVars, stripeVars

-----------------------------------------------------------------------------
(* What Stripe's side of a refund preserves. *)

\* The last element of a non-empty sequence.
LEMMA LastElement ==
  ASSUME NEW S, NEW s \in Seq(S), s # << >>
  PROVE  Len(s) \in DOMAIN s /\ s[Len(s)] \in S
OBVIOUS

\* Any element.
LEMMA ElementIn ==
  ASSUME NEW S, NEW s \in Seq(S), NEW n \in DOMAIN s
  PROVE  s[n] \in S
OBVIOUS

\* A refund within what is left keeps Stripe's records well formed, and the
\* event it emits names a refund that exists.
LEMMA StripeRefundTypes ==
  ASSUME StateTypeOK, EventsAreTrue,
         NEW o \in Orders, NEW amt \in 1 .. Total,
         CanRefund(o, amt), StripeRefund(o, amt)
  PROVE  /\ stripeRefunds' \in [Orders -> Seq([amt : 1 .. Total, cum : 1 .. Total])]
         /\ events' \in SUBSET Event
         /\ NextRefundId(o) \in 1 .. MaxRefunds
         /\ EventsAreTrue'
<1> DEFINE Row == [amt |-> amt, cum |-> Refunded(o) + amt]
           Refund == [amt : 1 .. Total, cum : 1 .. Total]
<1>1. Total \in Nat
  BY CommerceAssumption DEF Total
<1>2. stripeRefunds[o] \in Seq(Refund)
  BY DEF StateTypeOK
<1>3. Refunded(o) \in 0 .. Total
  <2>1. CASE stripeRefunds[o] = << >>
    BY <2>1, <1>1 DEF Refunded, RefundedAfter
  <2>2. CASE stripeRefunds[o] # << >>
    <3>1. stripeRefunds[o][Len(stripeRefunds[o])] \in Refund
      BY <1>2, <2>2, LastElement
    <3>2. Refunded(o) = stripeRefunds[o][Len(stripeRefunds[o])].cum
      BY <1>2, <2>2 DEF Refunded, RefundedAfter
    <3> QED BY <3>1, <3>2, <1>1
  <2> QED BY <2>1, <2>2
<1>4. Row \in Refund
  BY <1>1, <1>3 DEF CanRefund
<1>5. Append(stripeRefunds[o], Row) \in Seq(Refund)
  BY <1>2, <1>4
<1>6. NextRefundId(o) \in 1 .. MaxRefunds
  BY <1>2, CommerceAssumption DEF CanRefund, NextRefundId
<1>7. stripeRefunds' = [stripeRefunds EXCEPT ![o] = Append(@, Row)]
  BY DEF StripeRefund
<1>8. stripeRefunds' \in [Orders -> Seq(Refund)]
  BY <1>5, <1>7 DEF StateTypeOK
<1>9. events' \in SUBSET Event
  BY <1>6 DEF StripeRefund, StateTypeOK, Event
<1>10. EventsAreTrue'
  <2> SUFFICES ASSUME NEW e \in events', e.type = "refunded"
               PROVE  e.upto \in DOMAIN stripeRefunds'[e.order]
    BY DEF EventsAreTrue
  <2>1. CASE e \in events
    <3>1. e.order \in Orders /\ e.upto \in DOMAIN stripeRefunds[e.order]
      BY <2>1 DEF EventsAreTrue, StateTypeOK, Event
    <3>2. CASE e.order = o
      BY <3>1, <3>2, <1>2, <1>4, <1>7 DEF StateTypeOK
    <3>3. CASE e.order # o
      BY <3>1, <3>3, <1>7 DEF StateTypeOK
    <3> QED BY <3>2, <3>3
  <2>2. CASE e \notin events
    <3>1. e = [type |-> "refunded", order |-> o, upto |-> NextRefundId(o)]
      BY <2>2 DEF StripeRefund
    <3>2. stripeRefunds'[o] = Append(stripeRefunds[o], Row)
      BY <1>7 DEF StateTypeOK
    <3>3. NextRefundId(o) \in DOMAIN Append(stripeRefunds[o], Row)
      BY <1>2, <1>4 DEF NextRefundId
    <3> QED BY <3>1, <3>2, <3>3
  <2> QED BY <2>1, <2>2
<1> QED BY <1>6, <1>8, <1>9, <1>10

-----------------------------------------------------------------------------
(* A component's types hold as long as its variables do not change. *)

LEMMA StateStable ==
  ASSUME StateTypeOK, UNCHANGED sharedVars PROVE StateTypeOK'
BY DEF StateTypeOK

LEMMA CheckoutStable ==
  ASSUME CheckoutTypeOK, UNCHANGED checkoutVars PROVE CheckoutTypeOK'
BY DEF CheckoutTypeOK, checkoutVars

LEMMA BillingStable ==
  ASSUME BillingTypeOK, UNCHANGED billingVars PROVE BillingTypeOK'
BY DEF BillingTypeOK, billingVars, Working, EventOf

LEMMA OrderRefundsStable ==
  ASSUME OrderRefundsTypeOK, UNCHANGED refundingVars PROVE OrderRefundsTypeOK'
BY DEF OrderRefundsTypeOK, refundingVars

LEMMA ReturnsStable ==
  ASSUME ReturnsTypeOK, UNCHANGED returnVars PROVE ReturnsTypeOK'
BY DEF ReturnsTypeOK, returnVars, ClerkAt

LEMMA InventoryStable ==
  ASSUME InventoryTypeOK, UNCHANGED inventoryVars PROVE InventoryTypeOK'
BY DEF InventoryTypeOK, inventoryVars

\* Events and refunds that stay as they are stay true.
LEMMA EventsStable ==
  ASSUME EventsAreTrue, UNCHANGED <<events, stripeRefunds>> PROVE EventsAreTrue'
BY DEF EventsAreTrue

\* Jobs stay jobs of emitted events while events are only added.
LEMMA JobsStable ==
  ASSUME JobsAreEvents, UNCHANGED <<job, attempt>>, events \subseteq events'
  PROVE  JobsAreEvents'
BY DEF JobsAreEvents, Working, EventOf

-----------------------------------------------------------------------------
(* Every action keeps the types. *)

\* The buyer and the dashboard.
LEMMA StripeKeepsTypes ==
  ASSUME TypeInv, StripeNext,
         UNCHANGED <<checkoutVars, billingVars, refundingVars, returnVars, inventoryVars>>
  PROVE  TypeInv'
<1>1. StateTypeOK /\ EventsAreTrue /\ JobsAreEvents
  BY DEF TypeInv, TypeOK
<1>2. PICK o \in Orders : CardDeclined(o) \/ Pay(o) \/ DashboardRefund(o)
  BY DEF StripeNext
<1>3. StateTypeOK' /\ EventsAreTrue' /\ events \subseteq events'
  <2>1. CASE CardDeclined(o)
    <3> DEFINE e == [type |-> "failed", order |-> o, upto |-> 0]
    <3>1. e \in Event /\ e.type # "refunded"
      BY DEF Event
    <3>2. events' = events \cup {e} /\ UNCHANGED stripeRefunds
      BY <2>1 DEF CardDeclined
    <3>3. EventsAreTrue'
      BY <1>1, <3>1, <3>2 DEF EventsAreTrue
    <3>4. events' \in SUBSET Event
      BY <1>1, <3>1, <3>2 DEF StateTypeOK
    <3>5. StateTypeOK'
      BY <1>1, <2>1, <3>4 DEF CardDeclined, StateTypeOK
    <3> QED BY <3>2, <3>3, <3>5
  <2>2. CASE Pay(o)
    <3> DEFINE e == [type |-> "completed", order |-> o, upto |-> 0]
    <3>1. e \in Event /\ e.type # "refunded"
      BY DEF Event
    <3>2. events' = events \cup {e} /\ UNCHANGED stripeRefunds
      BY <2>2 DEF Pay
    <3>3. EventsAreTrue'
      BY <1>1, <3>1, <3>2 DEF EventsAreTrue
    <3>4. events' \in SUBSET Event
      BY <1>1, <3>1, <3>2 DEF StateTypeOK
    <3>5. session' \in [Orders -> [st : SessionState, cart : Carts \cup {None}]]
      BY <1>1, <2>2 DEF Pay, StateTypeOK, SessionState
    <3>6. StateTypeOK'
      BY <1>1, <2>2, <3>4, <3>5 DEF Pay, StateTypeOK
    <3> QED BY <3>2, <3>3, <3>6
  <2>3. CASE DashboardRefund(o)
    <3>1. PICK amt \in 1 .. Total : CanRefund(o, amt) /\ StripeRefund(o, amt)
      BY <2>3 DEF DashboardRefund
    <3>2. stripeRefunds' \in [Orders -> Seq([amt : 1 .. Total, cum : 1 .. Total])]
          /\ events' \in SUBSET Event /\ EventsAreTrue'
      BY <1>1, <3>1, StripeRefundTypes
    <3>3. UNCHANGED <<orderVars, moneyVars, carts, stockVars, session>>
      BY <2>3 DEF DashboardRefund, StripeRefund
    <3>4. events \subseteq events'
      BY <3>1 DEF StripeRefund
    <3> QED BY <1>1, <3>2, <3>3, <3>4 DEF StateTypeOK
  <2> QED BY <1>2, <2>1, <2>2, <2>3
<1>4. JobsAreEvents'
  BY <1>1, <1>3, JobsStable DEF billingVars
<1> QED
  BY <1>3, <1>4, CheckoutStable, BillingStable, OrderRefundsStable, ReturnsStable,
     InventoryStable DEF TypeInv, TypeOK

\* Checkout.
LEMMA NextNumberType ==
  ASSUME StateTypeOK PROVE NextNumber \in Nat
<1>1. CASE orderLog = << >>
  BY <1>1 DEF NextNumber, FirstNumber
<1>2. CASE orderLog # << >>
  <2>1. orderLog[Len(orderLog)] \in Orders
    BY <1>2, LastElement DEF StateTypeOK
  <2>2. orders[orderLog[Len(orderLog)]].number \in Nat
    BY <2>1 DEF StateTypeOK
  <2> QED BY <1>2, <2>2 DEF NextNumber
<1> QED BY <1>1, <1>2

\* Moving a request on keeps the requests well formed.
LEMMA GotoTypes ==
  ASSUME CheckoutTypeOK, NEW o \in Orders, NEW from, NEW to \in CheckoutPC, Goto(o, from, to)
  PROVE  checkout' \in [Orders -> [pc : CheckoutPC, cart : Carts \cup {None}, number : Nat]]
BY DEF CheckoutTypeOK, Goto

LEMMA CheckoutKeepsTypes ==
  ASSUME TypeInv, CheckoutNext,
         UNCHANGED <<billingVars, refundingVars, returnVars, inventoryVars>>
  PROVE  TypeInv'
<1> DEFINE Requests_ == [Orders -> [pc : CheckoutPC, cart : Carts \cup {None}, number : Nat]]
<1>1. StateTypeOK /\ CheckoutTypeOK /\ EventsAreTrue /\ JobsAreEvents
  BY DEF TypeInv, TypeOK
<1>2. PICK o \in Orders : \/ ReadCart(o) \/ CheckoutStep(o)
                          \/ SessionStepFails(o) \/ CheckoutInterrupted(o)
  BY DEF CheckoutNext
<1>3. StateTypeOK' /\ CheckoutTypeOK' /\ UNCHANGED <<events, stripeRefunds>>
  <2>1. CASE ReadCart(o)
    <3>1. checkout' \in Requests_
      BY <1>1, <2>1 DEF ReadCart, CheckoutTypeOK, CheckoutPC
    <3> QED BY <1>1, <2>1, <3>1, StateStable DEF ReadCart, CheckoutTypeOK
  <2>2. CASE ReadLastNumber(o)
    <3>1. checkout' \in Requests_
      BY <1>1, <2>2, NextNumberType DEF ReadLastNumber, CheckoutTypeOK, CheckoutPC
    <3> QED BY <1>1, <2>2, <3>1, StateStable DEF ReadLastNumber, CheckoutTypeOK
  <2>3. CASE CreateOrder(o)
    <3>1. checkout' \in Requests_
      BY <1>1, <2>3, GotoTypes DEF CreateOrder, CheckoutPC
    <3>2. checkout[o].number \in Nat
      BY <1>1 DEF CheckoutTypeOK
    <3>3. orders' \in [Orders -> [status : OrderStatus, financial : FinancialStatus, number : Nat]]
      BY <1>1, <2>3, <3>2 DEF CreateOrder, StateTypeOK, OrderStatus, FinancialStatus
    <3>4. orderLog' \in Seq(Orders)
      BY <1>1, <2>3 DEF CreateOrder, StateTypeOK
    <3>5. StateTypeOK'
      BY <1>1, <2>3, <3>3, <3>4 DEF CreateOrder, StateTypeOK
    <3> QED BY <1>1, <2>3, <3>1, <3>5 DEF CreateOrder, CheckoutTypeOK
  <2>4. CASE CreateOrderConflict(o)
    <3>1. checkout' \in Requests_
      BY <1>1, <2>4, GotoTypes DEF CreateOrderConflict, CheckoutPC
    <3> QED BY <1>1, <2>4, <3>1, StateStable DEF CreateOrderConflict, CheckoutTypeOK
  <2>5. CASE CreateSession(o)
    <3>1. checkout' \in Requests_
      BY <1>1, <2>5, GotoTypes DEF CreateSession, CheckoutPC
    <3>2. session' \in [Orders -> [st : SessionState, cart : Carts \cup {None}]]
      BY <1>1, <2>5 DEF CreateSession, NewSession, StateTypeOK, CheckoutTypeOK, SessionState
    <3>3. StateTypeOK'
      BY <1>1, <2>5, <3>2 DEF CreateSession, StateTypeOK
    <3> QED BY <1>1, <2>5, <3>1, <3>3 DEF CreateSession, CheckoutTypeOK
  <2>6. CASE RecordSession(o)
    <3>1. checkout' \in Requests_
      BY <1>1, <2>6, GotoTypes DEF RecordSession, CheckoutPC
    <3>2. orders' \in [Orders -> [status : OrderStatus, financial : FinancialStatus, number : Nat]]
      <4>1. orders' = [orders EXCEPT ![o].status = "PENDING"]
        BY <2>6 DEF RecordSession
      <4>2. orders \in [Orders -> [status : OrderStatus, financial : FinancialStatus, number : Nat]]
        BY <1>1 DEF StateTypeOK
      <4>3. "PENDING" \in OrderStatus
        BY DEF OrderStatus
      <4> QED BY <4>1, <4>2, <4>3
    <3>3. StateTypeOK'
      BY <1>1, <2>6, <3>2 DEF RecordSession, StateTypeOK
    <3> QED BY <1>1, <2>6, <3>1, <3>3 DEF RecordSession, CheckoutTypeOK
  <2>7. CASE RespondWithUrl(o)
    <3>1. checkout' \in Requests_
      BY <1>1, <2>7, GotoTypes DEF RespondWithUrl, CheckoutPC
    <3>2. session' \in [Orders -> [st : SessionState, cart : Carts \cup {None}]]
      BY <1>1, <2>7 DEF RespondWithUrl, StateTypeOK, SessionState
    <3>3. StateTypeOK'
      BY <1>1, <2>7, <3>2 DEF RespondWithUrl, StateTypeOK
    <3> QED BY <1>1, <2>7, <3>1, <3>3 DEF RespondWithUrl, CheckoutTypeOK
  <2>8. CASE SessionStepFails(o)
    <3>1. checkout' \in Requests_
      BY <1>1, <2>8, GotoTypes DEF SessionStepFails, CheckoutPC
    <3>2. session' \in [Orders -> [st : SessionState, cart : Carts \cup {None}]]
      <4>1. NewSession(o) \in [st : SessionState, cart : Carts \cup {None}]
        BY <1>1 DEF NewSession, CheckoutTypeOK, SessionState
      <4>2. session' = session \/ session' = [session EXCEPT ![o] = NewSession(o)]
        BY <2>8 DEF SessionStepFails
      <4> QED BY <1>1, <4>1, <4>2 DEF StateTypeOK
    <3>3. StateTypeOK'
      BY <1>1, <2>8, <3>2 DEF SessionStepFails, StateTypeOK
    <3>4. checkoutFaults' \in 0 .. CheckoutFaults
      BY <1>1, <2>8, CheckoutAssumption DEF SessionStepFails, CheckoutTypeOK
    <3> QED BY <2>8, <3>1, <3>3, <3>4 DEF SessionStepFails, CheckoutTypeOK
  <2>9. CASE DeleteOrder(o)
    <3>1. checkout' \in Requests_
      BY <1>1, <2>9, GotoTypes DEF DeleteOrder, CheckoutPC
    <3>2. orders' \in [Orders -> [status : OrderStatus, financial : FinancialStatus, number : Nat]]
      BY <1>1, <2>9 DEF DeleteOrder, NoOrderRow, StateTypeOK, OrderStatus, FinancialStatus
    <3>3. orderLog' \in Seq(Orders)
      <4>1. orderLog \in Seq(Orders)
        BY <1>1 DEF StateTypeOK
      <4>2. PICK i \in 1 .. Len(orderLog) :
              orderLog' = SubSeq(orderLog, 1, i - 1) \o SubSeq(orderLog, i + 1, Len(orderLog))
        BY <2>9 DEF DeleteOrder
      <4>3. SubSeq(orderLog, 1, i - 1) \in Seq(Orders)
        BY <4>1, SubSeqProperties
      <4>4. SubSeq(orderLog, i + 1, Len(orderLog)) \in Seq(Orders)
        BY <4>1, SubSeqProperties
      <4> QED BY <4>2, <4>3, <4>4
    <3>4. StateTypeOK'
      BY <1>1, <2>9, <3>2, <3>3 DEF DeleteOrder, StateTypeOK
    <3> QED BY <1>1, <2>9, <3>1, <3>4 DEF DeleteOrder, CheckoutTypeOK
  <2>10. CASE CheckoutInterrupted(o)
    <3>1. checkout' \in Requests_
      BY <1>1, <2>10 DEF CheckoutInterrupted, CheckoutTypeOK, CheckoutPC
    <3>2. checkoutFaults' \in 0 .. CheckoutFaults
      BY <1>1, <2>10, CheckoutAssumption DEF CheckoutInterrupted, CheckoutTypeOK
    <3> QED BY <1>1, <2>10, <3>1, <3>2, StateStable DEF CheckoutInterrupted, CheckoutTypeOK
  <2> QED
    BY <1>2, <2>1, <2>2, <2>3, <2>4, <2>5, <2>6, <2>7, <2>8, <2>9, <2>10 DEF CheckoutStep
<1> QED
  BY <1>1, <1>3, EventsStable, JobsStable, BillingStable, OrderRefundsStable,
     ReturnsStable, InventoryStable DEF TypeInv, TypeOK, billingVars

\* Billing.
Attempts == [Workers -> [pc : AttemptPC, ev : Event \cup {None},
                         take : [Locations -> 0 .. Qty], units : 0 .. Qty]]
Jobs == [Event -> [status : JobStatus, owner : Workers \cup {None}, tries : Nat]]
OrderRows == [Orders -> [status : OrderStatus, financial : FinancialStatus, number : Nat]]

\* A working worker has an emitted event, and what comes with it.
LEMMA WorkingEvent ==
  ASSUME BillingTypeOK, JobsAreEvents, NEW w \in Workers, Working(w)
  PROVE  /\ EventOf(w) \in Event /\ EventOf(w) \in events
         /\ OrderOf(w) \in Orders
         /\ EventOf(w).type = "refunded" => EventOf(w).upto \in 1 .. MaxRefunds
BY DEF BillingTypeOK, JobsAreEvents, OrderOf, Event

\* A worker that goes on keeps its event.
LEMMA ContinueTypes ==
  ASSUME BillingTypeOK, JobsAreEvents, NEW w \in Workers, Working(w),
         NEW pc \in AttemptPC, Continue(w, pc), UNCHANGED <<job, events>>
  PROVE  /\ attempt' \in Attempts
         /\ \A v \in Workers : Working(v)' => EventOf(v)' \in Event
         /\ JobsAreEvents'
BY DEF BillingTypeOK, JobsAreEvents, Continue, Working, EventOf, Attempts

\* A worker that leaves holds nothing, whatever becomes of its job.
LEMMA LeaveTypes ==
  ASSUME BillingTypeOK, JobsAreEvents, NEW w \in Workers, Working(w),
         attempt' = [attempt EXCEPT ![w] = Idle], UNCHANGED events,
         job' = job \/ \E row \in [status : JobStatus, owner : {None}, tries : Nat] :
                         job' = [job EXCEPT ![EventOf(w)] = row]
  PROVE  /\ attempt' \in Attempts
         /\ job' \in Jobs
         /\ \A v \in Workers : Working(v)' => EventOf(v)' \in Event
         /\ JobsAreEvents'
<1>1. Idle \in [pc : AttemptPC, ev : Event \cup {None},
                take : [Locations -> 0 .. Qty], units : 0 .. Qty]
  BY CommerceAssumption DEF Idle, NoTake, AttemptPC
<1>2. attempt' \in Attempts
  BY <1>1 DEF BillingTypeOK, Attempts
<1>3. \A v \in Workers : Working(v)' => Working(v) /\ EventOf(v)' = EventOf(v)
  BY DEF BillingTypeOK, Working, EventOf, Idle
<1>4. EventOf(w) \in Event /\ EventOf(w) \in events
  BY WorkingEvent
<1>5. job' \in Jobs
  BY <1>4 DEF BillingTypeOK, Jobs
<1>6. \A e \in Event : job'[e].status # "none" => e \in events
  BY <1>4 DEF BillingTypeOK, JobsAreEvents
<1> QED BY <1>2, <1>3, <1>5, <1>6 DEF BillingTypeOK, JobsAreEvents

LEMMA InjectTypes ==
  ASSUME BillingTypeOK, NEW kind \in {"evict", "marker", "fail", "stall"}, NEW limit,
         Inject(kind, limit)
  PROVE  faults' \in [evict : Nat, marker : Nat, fail : Nat, stall : Nat]
BY DEF BillingTypeOK, Inject

\* A recorded refund keeps orders and payments well formed.
LEMMA AdvanceTypes ==
  ASSUME StateTypeOK, NEW o \in Orders, NEW fully \in BOOLEAN, AdvanceRefunded(o, fully)
  PROVE  orders' \in OrderRows /\ payments' \in [Orders -> PaymentStatus]
<1>1. orders[o] \in [status : OrderStatus, financial : FinancialStatus, number : Nat]
  BY DEF StateTypeOK
<1>2. CASE fully
  <2>1. orders' = [orders EXCEPT ![o].financial = "REFUNDED", ![o].status = "REFUNDED"]
    BY <1>2 DEF AdvanceRefunded
  <2>2. payments' = [payments EXCEPT ![o] = "REFUNDED"]
    BY <1>2 DEF AdvanceRefunded
  <2> QED BY <1>1, <2>1, <2>2
          DEF StateTypeOK, OrderRows, OrderStatus, FinancialStatus, PaymentStatus
<1>3. CASE ~fully
  <2>1. orders' = [orders EXCEPT ![o].financial = "PARTIALLY_REFUNDED", ![o].status = @]
    BY <1>3 DEF AdvanceRefunded
  <2>2. payments' = payments
    BY <1>3 DEF AdvanceRefunded
  <2> QED BY <1>1, <2>1, <2>2 DEF StateTypeOK, OrderRows, FinancialStatus
<1> QED BY <1>2, <1>3

\* The amounts of Stripe's refunds are amounts.
LEMMA RefundAmounts ==
  ASSUME StateTypeOK, NEW o \in Orders, NEW n \in DOMAIN stripeRefunds[o]
  PROVE  stripeRefunds[o][n].amt \in 1 .. Total /\ stripeRefunds[o][n].cum \in 1 .. Total
<1>1. stripeRefunds[o] \in Seq([amt : 1 .. Total, cum : 1 .. Total])
  BY DEF StateTypeOK
<1>2. stripeRefunds[o][n] \in [amt : 1 .. Total, cum : 1 .. Total]
  BY <1>1, ElementIn
<1> QED BY <1>2

\* What a billing step leaves behind.
BillingStepTypes ==
  /\ StateTypeOK'
  /\ BillingTypeOK'
  /\ JobsAreEvents'
  /\ UNCHANGED <<events, stripeRefunds>>

\* The queue: deliveries, evictions, lost markers.
LEMMA QueueKeepsTypes ==
  ASSUME TypeInv, NEW e \in Event, DeliverWebhook(e) \/ EvictJob(e) \/ LoseMarker(e)
  PROVE  BillingStepTypes
<1>1. StateTypeOK /\ BillingTypeOK /\ JobsAreEvents
  BY DEF TypeInv, TypeOK
<1>2. UNCHANGED sharedVars /\ UNCHANGED attempt
  BY DEF DeliverWebhook, EvictJob, LoseMarker
<1>3. StateTypeOK' /\ UNCHANGED <<events, stripeRefunds>>
  BY <1>1, <1>2, StateStable
<1>4. CASE DeliverWebhook(e)
  <2>1. job' \in Jobs
    BY <1>1, <1>4 DEF DeliverWebhook, BillingTypeOK, JobStatus, Jobs
  <2>2. JobsAreEvents'
    BY <1>1, <1>2, <1>4 DEF DeliverWebhook, JobsAreEvents, BillingTypeOK, Working, EventOf
  <2> QED BY <1>1, <1>2, <1>3, <1>4, <2>1, <2>2
          DEF DeliverWebhook, BillingTypeOK, BillingStepTypes, Working, EventOf, Jobs
<1>5. CASE EvictJob(e)
  <2>1. job' \in Jobs
    BY <1>1, <1>5 DEF EvictJob, BillingTypeOK, JobStatus, Jobs
  <2>2. JobsAreEvents'
    BY <1>1, <1>2, <1>5 DEF EvictJob, JobsAreEvents, BillingTypeOK, Working, EventOf
  <2>3. faults' \in [evict : Nat, marker : Nat, fail : Nat, stall : Nat]
    BY <1>1, <1>5, InjectTypes DEF EvictJob
  <2> QED BY <1>1, <1>2, <1>3, <1>5, <2>1, <2>2, <2>3
          DEF EvictJob, BillingTypeOK, BillingStepTypes, Working, EventOf, Jobs
<1>6. CASE LoseMarker(e)
  <2>1. faults' \in [evict : Nat, marker : Nat, fail : Nat, stall : Nat]
    BY <1>1, <1>6, InjectTypes DEF LoseMarker
  <2>2. JobsAreEvents'
    BY <1>1, <1>2, <1>6 DEF LoseMarker, JobsAreEvents, Working, EventOf
  <2> QED BY <1>1, <1>2, <1>3, <1>6, <2>1, <2>2
          DEF LoseMarker, BillingTypeOK, BillingStepTypes, Working, EventOf
<1> QED BY <1>4, <1>5, <1>6

\* A step of a handler that only moves the worker on, or the markers.
LEMMA ContinueKeepsTypes ==
  ASSUME TypeInv, NEW w \in Workers, Working(w), NEW pc \in AttemptPC, Continue(w, pc),
         StateTypeOK', UNCHANGED <<job, faults, events, stripeRefunds>>,
         marker' \in SUBSET Event, mails' \in [Orders -> [rows : Nat, queued : Nat]]
  PROVE  BillingStepTypes
<1>1. BillingTypeOK /\ JobsAreEvents
  BY DEF TypeInv, TypeOK
<1>2. /\ attempt' \in Attempts
      /\ \A v \in Workers : Working(v)' => EventOf(v)' \in Event
      /\ JobsAreEvents'
  BY <1>1, ContinueTypes
<1> QED BY <1>1, <1>2 DEF BillingTypeOK, BillingStepTypes, Attempts

\* An attempt ends, well or badly, or its job is handed on.
LEMMA EndKeepsTypes ==
  ASSUME TypeInv, NEW w \in Workers, AckJob(w) \/ AttemptFails(w) \/ JobStalls(w)
  PROVE  BillingStepTypes
<1> DEFINE Row == [status : JobStatus, owner : {None}, tries : Nat]
<1>1. StateTypeOK /\ BillingTypeOK /\ JobsAreEvents
  BY DEF TypeInv, TypeOK
<1>2. Working(w)
  BY DEF AckJob, AttemptFails, JobStalls, At, Working
<1>3. EventOf(w) \in Event /\ EventOf(w) \in events /\ OrderOf(w) \in Orders
  BY <1>1, <1>2, WorkingEvent
<1>4. job[EventOf(w)] \in [status : JobStatus, owner : Workers \cup {None}, tries : Nat]
  BY <1>1, <1>3 DEF BillingTypeOK
<1>5. CASE AckJob(w)
  <2> DEFINE row == [job[EventOf(w)] EXCEPT !.status = "completed", !.owner = None]
  <2>1. row \in Row
    BY <1>4 DEF JobStatus
  <2>2. job' = job \/ job' = [job EXCEPT ![EventOf(w)] = row]
    BY <1>5 DEF AckJob
  <2>3. attempt' = [attempt EXCEPT ![w] = Idle] /\ UNCHANGED <<sharedVars, marker, mails, faults>>
    BY <1>5 DEF AckJob
  <2>4. StateTypeOK'
    BY <1>1, <2>3, StateStable
  <2>5. /\ attempt' \in Attempts /\ job' \in Jobs /\ JobsAreEvents'
        /\ \A v \in Workers : Working(v)' => EventOf(v)' \in Event
    BY <1>1, <1>2, <2>1, <2>2, <2>3, LeaveTypes
  <2> QED BY <1>1, <2>3, <2>4, <2>5 DEF BillingTypeOK, BillingStepTypes, Attempts, Jobs
<1>6. CASE AttemptFails(w)
  <2> DEFINE row == [job[EventOf(w)] EXCEPT !.owner = None,
                       !.status = IF job[EventOf(w)].tries < MaxAttempts
                                  THEN "waiting" ELSE "failed"]
  <2>1. row \in Row
    BY <1>4 DEF JobStatus
  <2>2. job' = job \/ job' = [job EXCEPT ![EventOf(w)] = row]
    BY <1>6 DEF AttemptFails
  <2>3. attempt' = [attempt EXCEPT ![w] = Idle] /\ UNCHANGED <<stripeVars, marker, mails>>
    BY <1>6 DEF AttemptFails
  <2>4. orderLock' \in [Orders -> BOOLEAN]
    BY <1>1, <1>3, <1>6 DEF AttemptFails, StateTypeOK
  <2>5. StateTypeOK'
    BY <1>1, <1>6, <2>4 DEF AttemptFails, StateTypeOK
  <2>6. faults' \in [evict : Nat, marker : Nat, fail : Nat, stall : Nat]
    BY <1>1, <1>6, InjectTypes DEF AttemptFails
  <2>7. /\ attempt' \in Attempts /\ job' \in Jobs /\ JobsAreEvents'
        /\ \A v \in Workers : Working(v)' => EventOf(v)' \in Event
    BY <1>1, <1>2, <2>1, <2>2, <2>3, LeaveTypes
  <2> QED BY <1>1, <2>3, <2>5, <2>6, <2>7 DEF BillingTypeOK, BillingStepTypes, Attempts, Jobs
<1>7. CASE JobStalls(w)
  <2>1. job' \in Jobs
    <3> DEFINE r == [job[EventOf(w)] EXCEPT !.status = "waiting", !.owner = None]
    <3>1. job[EventOf(w)] \in [status : JobStatus, owner : Workers \cup {None}, tries : Nat]
      BY <1>1, <1>3 DEF BillingTypeOK
    <3>2. r \in [status : JobStatus, owner : Workers \cup {None}, tries : Nat]
      BY <3>1 DEF JobStatus
    <3>3. job' = [job EXCEPT ![EventOf(w)] = r]
      BY <1>7 DEF JobStalls
    <3> HIDE DEF r
    <3> QED BY <1>1, <3>2, <3>3 DEF BillingTypeOK, Jobs
  <2>2. UNCHANGED <<sharedVars, attempt, marker, mails>>
    BY <1>7 DEF JobStalls
  <2>3. JobsAreEvents'
    BY <1>1, <1>3, <1>7, <2>2 DEF JobStalls, JobsAreEvents, BillingTypeOK, Working, EventOf
  <2>4. faults' \in [evict : Nat, marker : Nat, fail : Nat, stall : Nat]
    BY <1>1, <1>7, InjectTypes DEF JobStalls
  <2>5. StateTypeOK'
    BY <1>1, <2>2, StateStable
  <2> QED BY <1>1, <2>1, <2>2, <2>3, <2>4, <2>5
          DEF BillingTypeOK, BillingStepTypes, Working, EventOf, Jobs
<1> QED BY <1>5, <1>6, <1>7

\* A worker takes a job.
LEMMA StartKeepsTypes ==
  ASSUME TypeInv, NEW w \in Workers, NEW e \in Event, StartJob(w, e)
  PROVE  BillingStepTypes
<1> DEFINE new == [Idle EXCEPT !.pc = IF e \in marker THEN "ack" ELSE "handle", !.ev = e]
<1>1. StateTypeOK /\ BillingTypeOK /\ JobsAreEvents
  BY DEF TypeInv, TypeOK
<1>2. UNCHANGED <<sharedVars, marker, mails, faults>>
  BY DEF StartJob
<1>3. StateTypeOK'
  BY <1>1, <1>2, StateStable
<1>4. new \in [pc : AttemptPC, ev : Event \cup {None}, take : [Locations -> 0 .. Qty], units : 0 .. Qty]
  <2>1. Idle \in [pc : AttemptPC, ev : Event \cup {None}, take : [Locations -> 0 .. Qty], units : 0 .. Qty]
    BY CommerceAssumption DEF Idle, NoTake, AttemptPC
  <2>2. (IF e \in marker THEN "ack" ELSE "handle") \in AttemptPC
    BY DEF AttemptPC
  <2> QED BY <2>1, <2>2
<1>5. attempt' = [attempt EXCEPT ![w] = new]
  BY DEF StartJob
<1>6. attempt' \in Attempts
  BY <1>1, <1>4, <1>5 DEF BillingTypeOK, Attempts
<1>7. job' \in Jobs
  BY <1>1 DEF StartJob, BillingTypeOK, JobStatus, Jobs
<1>8. e \in events
  BY <1>1 DEF StartJob, JobsAreEvents
<1>9. \A v \in Workers : v # w => attempt'[v] = attempt[v]
  BY <1>1, <1>5 DEF BillingTypeOK
<1>10. attempt'[w].ev = e
  BY <1>1, <1>5 DEF BillingTypeOK, Idle
<1>11. \A v \in Workers : Working(v)' => EventOf(v)' \in Event /\ EventOf(v)' \in events
  BY <1>1, <1>8, <1>9, <1>10 DEF BillingTypeOK, JobsAreEvents, Working, EventOf
<1>12. \A d \in Event : job'[d].status # "none" => d \in events
  BY <1>1, <1>8 DEF StartJob, BillingTypeOK, JobsAreEvents
<1>13. JobsAreEvents'
  BY <1>2, <1>11, <1>12 DEF JobsAreEvents
<1> QED
  BY <1>1, <1>2, <1>3, <1>6, <1>7, <1>11, <1>13 DEF BillingTypeOK, BillingStepTypes, Attempts, Jobs

\* The transaction of a capture.
LEMMA CaptureKeepsTypes ==
  ASSUME TypeInv, NEW w \in Workers, LockOrderAndReadStock(w) \/ CaptureOrder(w)
  PROVE  BillingStepTypes
<1>1. StateTypeOK /\ BillingTypeOK /\ JobsAreEvents
  BY DEF TypeInv, TypeOK
<1>2. Working(w)
  BY DEF LockOrderAndReadStock, CaptureOrder, At, Working
<1>3. OrderOf(w) \in Orders
  BY <1>1, <1>2, WorkingEvent
<1>4. CASE LockOrderAndReadStock(w)
  <2>1. PICK take \in [Locations -> 0 .. Qty], units \in 0 .. Qty :
          attempt' = [attempt EXCEPT ![w] = [@ EXCEPT !.pc = "commit",
                                               !.take = take, !.units = units]]
    BY <1>4 DEF LockOrderAndReadStock
  <2>2. attempt' \in Attempts
    <3> DEFINE r == [attempt[w] EXCEPT !.pc = "commit", !.take = take, !.units = units]
    <3>1. attempt[w] \in [pc : AttemptPC, ev : Event \cup {None},
                          take : [Locations -> 0 .. Qty], units : 0 .. Qty]
      BY <1>1 DEF BillingTypeOK
    <3>2. r \in [pc : AttemptPC, ev : Event \cup {None},
                 take : [Locations -> 0 .. Qty], units : 0 .. Qty]
      BY <3>1 DEF AttemptPC
    <3>3. attempt' = [attempt EXCEPT ![w] = r]
      BY <2>1
    <3> HIDE DEF r
    <3> QED BY <1>1, <3>2, <3>3 DEF BillingTypeOK, Attempts
  <2>3. \A v \in Workers : EventOf(v)' = EventOf(v) /\ (Working(v)' => Working(v))
    BY <1>1, <1>2, <2>1 DEF BillingTypeOK, Working, EventOf
  <2>4. orderLock' \in [Orders -> BOOLEAN]
    BY <1>1, <1>4 DEF LockOrderAndReadStock, StateTypeOK
  <2>5. UNCHANGED <<orders, orderLog, moneyVars, carts, stockVars, stripeVars, job, marker, mails, faults>>
    BY <1>4 DEF LockOrderAndReadStock
  <2>6. StateTypeOK'
    BY <1>1, <2>4, <2>5 DEF StateTypeOK
  <2>7. JobsAreEvents'
    BY <1>1, <2>3, <2>5 DEF JobsAreEvents
  <2> QED BY <1>1, <2>2, <2>3, <2>5, <2>6, <2>7 DEF BillingTypeOK, BillingStepTypes, Attempts
<1>5. CASE CaptureOrder(w)
  <2>1. attempt[w].take \in [Locations -> 0 .. Qty] /\ attempt[w].units \in 0 .. Qty
    BY <1>1 DEF BillingTypeOK
  <2>2. orders' \in OrderRows
    <3>1. orders[OrderOf(w)] \in [status : OrderStatus, financial : FinancialStatus, number : Nat]
      BY <1>1, <1>3 DEF StateTypeOK
    <3>2. orders' = [orders EXCEPT ![OrderOf(w)].status = "PAID", ![OrderOf(w)].financial = "PAID"]
      BY <1>5 DEF CaptureOrder
    <3> QED BY <1>1, <1>3, <3>1, <3>2 DEF StateTypeOK, OrderRows, OrderStatus, FinancialStatus
  <2>3. orderLock' \in [Orders -> BOOLEAN] /\ payments' \in [Orders -> PaymentStatus]
    BY <1>1, <1>3, <1>5 DEF CaptureOrder, StateTypeOK, PaymentStatus
  <2>4. onHand' \in [Locations -> Int] /\ ledger' \in [Locations -> Int]
    <3>1. \A l \in Locations : /\ onHand[l] - attempt[w].take[l] \in Int
                               /\ ledger[l] - attempt[w].take[l] \in Int
      <4>1. \A l \in Locations : /\ onHand[l] \in Int /\ ledger[l] \in Int
                                 /\ attempt[w].take[l] \in Int
        BY <1>1, <2>1, CommerceAssumption DEF StateTypeOK
      <4> QED BY <4>1
    <3>2. /\ onHand' = [l \in Locations |-> onHand[l] - attempt[w].take[l]]
          /\ ledger' = [l \in Locations |-> ledger[l] - attempt[w].take[l]]
      BY <1>5 DEF CaptureOrder, DecrementStock
    <3> QED BY <3>1, <3>2
  <2>5. sold' \in [Orders -> Nat]
    <3>1. sold[OrderOf(w)] + attempt[w].units \in Nat /\ sold \in [Orders -> Nat]
      BY <1>1, <1>3, <2>1, CommerceAssumption DEF StateTypeOK
    <3>2. sold' = [sold EXCEPT ![OrderOf(w)] = @ + attempt[w].units]
      BY <1>5 DEF CaptureOrder, DecrementStock
    <3> QED BY <3>1, <3>2
  <2>6. carts' \in [Carts -> Orders \cup {None}]
    BY <1>1, <1>3, <1>5 DEF CaptureOrder, ConvertCart, StateTypeOK
  <2>7. UNCHANGED <<orderLog, refunds, items, stripeVars, job, marker, mails, faults>>
    BY <1>5 DEF CaptureOrder
  <2>8. StateTypeOK'
    BY <1>1, <2>2, <2>3, <2>4, <2>5, <2>6, <2>7 DEF StateTypeOK, OrderRows
  <2>9. Continue(w, "notify") /\ "notify" \in AttemptPC
    BY <1>5 DEF CaptureOrder, AttemptPC
  <2> QED BY <1>1, <1>2, <2>7, <2>8, <2>9, ContinueKeepsTypes DEF BillingTypeOK
<1> QED BY <1>4, <1>5

\* charge.refunded.
LEMMA ChargeRefundedKeepsTypes ==
  ASSUME TypeInv, NEW w \in Workers, OnChargeRefunded(w)
  PROVE  BillingStepTypes
<1> DEFINE o == OrderOf(w)
           upto == EventOf(w).upto
           Row == [id : 1 .. MaxRefunds, amt : 1 .. Total]
<1>1. StateTypeOK /\ BillingTypeOK /\ JobsAreEvents /\ EventsAreTrue
  BY DEF TypeInv, TypeOK
<1>2. Working(w)
  BY DEF OnChargeRefunded, At, Working
<1>3. o \in Orders /\ upto \in 1 .. MaxRefunds /\ upto \in DOMAIN stripeRefunds[o]
  BY <1>1, <1>2, WorkingEvent DEF OnChargeRefunded, EventsAreTrue, OrderOf
<1>4. \A id \in Missing(o, upto) : RefundRow(o, id) \in Row
  <2> SUFFICES ASSUME NEW id \in Missing(o, upto) PROVE RefundRow(o, id) \in Row
    OBVIOUS
  <2>1. stripeRefunds[o] \in Seq([amt : 1 .. Total, cum : 1 .. Total])
    BY <1>1, <1>3 DEF StateTypeOK
  <2>2. id \in 1 .. MaxRefunds /\ id \in DOMAIN stripeRefunds[o]
    BY <1>3, <2>1, CommerceAssumption DEF Missing
  <2> DEFINE amt == stripeRefunds[o][id].amt
  <2>3. amt \in 1 .. Total
    BY <1>1, <1>3, <2>2, RefundAmounts
  <2>4. RefundRow(o, id) = [id |-> id, amt |-> amt]
    BY DEF RefundRow
  <2> HIDE DEF amt, o
  <2> QED BY <2>2, <2>3, <2>4
<1>5. refunds' = [refunds EXCEPT ![o] = @ \cup {RefundRow(o, id) : id \in Missing(o, upto)}]
  BY DEF OnChargeRefunded
<1>6. refunds' \in [Orders -> SUBSET Row]
  BY <1>1, <1>3, <1>4, <1>5 DEF StateTypeOK
<1>7. AdvanceRefunded(o, CoversPayment(RefundedAfter(o, upto)))
  BY DEF OnChargeRefunded
<1>8. orders' \in OrderRows /\ payments' \in [Orders -> PaymentStatus]
  <2>1. CoversPayment(RefundedAfter(o, upto)) \in BOOLEAN
    BY DEF CoversPayment
  <2> QED BY <1>1, <1>3, <1>7, <2>1, AdvanceTypes
<1>9. UNCHANGED <<orderLog, orderLock, carts, stockVars, stripeVars, job, marker, mails, faults>>
  BY DEF OnChargeRefunded
<1>10. StateTypeOK'
  BY <1>1, <1>6, <1>8, <1>9 DEF StateTypeOK, OrderRows
<1>11. Continue(w, "mark") /\ "mark" \in AttemptPC
  BY DEF OnChargeRefunded, AttemptPC
<1> QED BY <1>1, <1>2, <1>9, <1>10, <1>11, ContinueKeepsTypes DEF BillingTypeOK

\* The steps of the handlers that leave the tables alone, but for a payment.
LEMMA HandlerKeepsTypes ==
  ASSUME TypeInv, NEW w \in Workers,
         \/ OnCheckoutCompleted(w) \/ CreateConfirmation(w) \/ EnqueueConfirmation(w)
         \/ OnPaymentFailed(w) \/ OnChargeRefundedUnknown(w) \/ MarkProcessed(w)
  PROVE  BillingStepTypes
<1>1. StateTypeOK /\ BillingTypeOK /\ JobsAreEvents
  BY DEF TypeInv, TypeOK
<1>2. Working(w)
  BY DEF OnCheckoutCompleted, CreateConfirmation, EnqueueConfirmation, OnPaymentFailed,
         OnChargeRefundedUnknown, MarkProcessed, At, Working
<1>3. EventOf(w) \in Event /\ OrderOf(w) \in Orders
  BY <1>1, <1>2, WorkingEvent
<1>4. \E pc \in AttemptPC : Continue(w, pc)
  BY DEF OnCheckoutCompleted, CreateConfirmation, EnqueueConfirmation, OnPaymentFailed,
         OnChargeRefundedUnknown, MarkProcessed, AttemptPC
<1>5. UNCHANGED <<job, faults, events, stripeRefunds>>
  BY DEF OnCheckoutCompleted, CreateConfirmation, EnqueueConfirmation, OnPaymentFailed,
         OnChargeRefundedUnknown, MarkProcessed
<1>6. StateTypeOK'
  <2>1. CASE OnPaymentFailed(w)
    <3>1. payments' \in [Orders -> PaymentStatus]
      BY <1>1, <1>3, <2>1 DEF OnPaymentFailed, DeclinedStatus, StateTypeOK, PaymentStatus
    <3> QED BY <1>1, <2>1, <3>1 DEF OnPaymentFailed, StateTypeOK
  <2>2. CASE ~OnPaymentFailed(w)
    <3>1. UNCHANGED sharedVars
      BY <2>2 DEF OnCheckoutCompleted, CreateConfirmation, EnqueueConfirmation,
                  OnChargeRefundedUnknown, MarkProcessed
    <3> QED BY <1>1, <3>1, StateStable
  <2> QED BY <2>1, <2>2
<1>7. marker' \in SUBSET Event
  BY <1>1, <1>3 DEF OnCheckoutCompleted, CreateConfirmation, EnqueueConfirmation,
     OnPaymentFailed, OnChargeRefundedUnknown, MarkProcessed, BillingTypeOK
<1>8. mails' \in [Orders -> [rows : Nat, queued : Nat]]
  <2>1. mails \in [Orders -> [rows : Nat, queued : Nat]]
    BY <1>1 DEF BillingTypeOK
  <2>2. \/ mails' = mails
        \/ mails' = [mails EXCEPT ![OrderOf(w)].rows = @ + 1]
        \/ mails' = [mails EXCEPT ![OrderOf(w)].queued = @ + 1]
    BY DEF OnCheckoutCompleted, CreateConfirmation, EnqueueConfirmation,
       OnPaymentFailed, OnChargeRefundedUnknown, MarkProcessed
  <2> QED BY <1>3, <2>1, <2>2
<1> QED BY <1>2, <1>4, <1>5, <1>6, <1>7, <1>8, ContinueKeepsTypes

LEMMA BillingKeepsTypes ==
  ASSUME TypeInv, BillingNext,
         UNCHANGED <<checkoutVars, refundingVars, returnVars, inventoryVars>>
  PROVE  TypeInv'
<1>1. BillingStepTypes
  <2>1. CASE \E e \in Event : DeliverWebhook(e) \/ EvictJob(e) \/ LoseMarker(e)
    BY <2>1, QueueKeepsTypes
  <2>2. CASE \E w \in Workers : WorkerStep(w) \/ AttemptFails(w) \/ JobStalls(w)
    BY <2>2, StartKeepsTypes, CaptureKeepsTypes, ChargeRefundedKeepsTypes,
       HandlerKeepsTypes, EndKeepsTypes DEF WorkerStep
  <2> QED BY <2>1, <2>2 DEF BillingNext
<1> QED
  BY <1>1, EventsStable, CheckoutStable, OrderRefundsStable, ReturnsStable, InventoryStable
     DEF TypeInv, TypeOK, BillingStepTypes

\* What a service that may ask Stripe for a refund leaves behind.
TablesKept ==
  /\ StateTypeOK'
  /\ EventsAreTrue'
  /\ events \subseteq events'

\* A refund that Stripe makes, with the tables left alone.
LEMMA StripeRefundKeepsTables ==
  ASSUME StateTypeOK, EventsAreTrue, NEW o \in Orders, NEW amt \in 1 .. Total,
         CanRefund(o, amt), StripeRefund(o, amt),
         UNCHANGED <<orderVars, moneyVars, carts, stockVars>>
  PROVE  TablesKept /\ NextRefundId(o) \in 1 .. MaxRefunds
<1>1. /\ stripeRefunds' \in [Orders -> Seq([amt : 1 .. Total, cum : 1 .. Total])]
      /\ events' \in SUBSET Event
      /\ NextRefundId(o) \in 1 .. MaxRefunds
      /\ EventsAreTrue'
  BY StripeRefundTypes
<1>2. UNCHANGED session /\ events \subseteq events'
  BY DEF StripeRefund
<1> QED BY <1>1, <1>2 DEF StateTypeOK, TablesKept

\* The admin's refunds.
LEMMA OrderRefundsKeepsTypes ==
  ASSUME TypeInv, OrderRefundsNext,
         UNCHANGED <<checkoutVars, billingVars, returnVars, inventoryVars>>
  PROVE  TypeInv'
<1> DEFINE Row == [pc : RefundPC, order : Orders \cup {None}, amt : 0 .. Total, id : 0 .. MaxRefunds]
<1>1. StateTypeOK /\ OrderRefundsTypeOK /\ EventsAreTrue /\ JobsAreEvents
  BY DEF TypeInv, TypeOK
<1>2. PICK a \in Admins : ReadPayment(a) \/ RefundStep(a) \/ RefundInterrupted(a)
  BY DEF OrderRefundsNext
<1> DEFINE o == refunding[a].order
           amt == refunding[a].amt
<1>3. Total \in Nat /\ MaxRefunds \in Nat
  BY CommerceAssumption DEF Total
<1>4. refunding[a] \in Row
  BY <1>1 DEF OrderRefundsTypeOK
<1>5. refunding[a].pc # "idle" => o \in Orders /\ amt \in 1 .. Total
  BY <1>1, <1>3, <1>4 DEF OrderRefundsTypeOK
<1>6. TablesKept /\ OrderRefundsTypeOK'
  <2>1. CASE ReadPayment(a)
    <3>1. PICK p \in Orders, m \in 1 .. Total :
            refunding' = [refunding EXCEPT ![a] = [pc |-> "call", order |-> p, amt |-> m, id |-> 0]]
      BY <2>1 DEF ReadPayment
    <3>2. UNCHANGED <<sharedVars, requestFaults>>
      BY <2>1 DEF ReadPayment
    <3>3. TablesKept
      BY <1>1, <3>2, StateStable, EventsStable DEF TablesKept
    <3> QED BY <1>1, <1>3, <3>1, <3>2, <3>3 DEF OrderRefundsTypeOK, RefundPC
  <2>2. CASE RefundPayment(a)
    <3>1. TablesKept /\ NextRefundId(o) \in 1 .. MaxRefunds
      BY <1>1, <1>5, <2>2, StripeRefundKeepsTables DEF RefundPayment
    <3>2. refunding' = [refunding EXCEPT ![a].pc = "record", ![a].id = NextRefundId(o)]
          /\ UNCHANGED requestFaults
      BY <2>2 DEF RefundPayment
    <3>3. refunding[a].pc = "call"
      BY <2>2 DEF RefundPayment
    <3>4. refunding' \in [Admins -> Row]
      <4>1. [refunding[a] EXCEPT !.pc = "record", !.id = NextRefundId(o)] \in Row
        <5>1. NextRefundId(o) \in 0 .. MaxRefunds
          BY <1>3, <3>1
        <5>2. "record" \in RefundPC
          BY DEF RefundPC
        <5> QED BY <1>4, <5>1, <5>2
      <4>2. refunding' = [refunding EXCEPT ![a] =
                            [refunding[a] EXCEPT !.pc = "record", !.id = NextRefundId(o)]]
        BY <1>1, <3>2 DEF OrderRefundsTypeOK
      <4> HIDE DEF Row
      <4> QED BY <1>1, <4>1, <4>2 DEF OrderRefundsTypeOK, Row
    <3>5. \A b \in Admins : b # a => refunding'[b] = refunding[b]
      BY <1>1, <3>2 DEF OrderRefundsTypeOK
    <3>6. /\ refunding'[a].order = o /\ refunding'[a].amt = amt
          /\ refunding'[a].id = NextRefundId(o)
      BY <1>1, <3>2 DEF OrderRefundsTypeOK
    <3> QED BY <1>1, <1>3, <1>4, <1>5, <3>1, <3>2, <3>3, <3>4, <3>5, <3>6 DEF OrderRefundsTypeOK
  <2>3. CASE RefundRefused(a) \/ RecordRefundConflict(a)
    <3>1. refunding' = [refunding EXCEPT ![a].pc = "failed"] /\ refunding[a].pc # "idle"
          /\ UNCHANGED <<sharedVars, requestFaults>>
      BY <2>3 DEF RefundRefused, RecordRefundConflict, SetRefund
    <3>2. TablesKept
      BY <1>1, <3>1, StateStable, EventsStable DEF TablesKept
    <3> QED BY <1>1, <3>1, <3>2 DEF OrderRefundsTypeOK, RefundPC
  <2>4. CASE RecordRefund(a)
    <3>1. /\ refunding' = [refunding EXCEPT ![a].pc = "done"] /\ refunding[a].pc = "record"
          /\ UNCHANGED <<orderLog, orderLock, carts, stockVars, stripeVars, requestFaults>>
          /\ refunds' = [refunds EXCEPT ![o] = @ \cup {[id |-> refunding[a].id, amt |-> amt]}]
          /\ AdvanceRefunded(o, CoversPayment(amt))
      BY <2>4 DEF RecordRefund, SetRefund
    <3>2. CoversPayment(amt) \in BOOLEAN
      BY DEF CoversPayment
    <3>3. orders' \in OrderRows /\ payments' \in [Orders -> PaymentStatus]
      BY <1>1, <1>5, <3>1, <3>2, AdvanceTypes
    <3>4. refunding[a].id \in 1 .. MaxRefunds
      BY <1>1, <1>3, <1>4, <3>1 DEF OrderRefundsTypeOK
    <3>5. refunds' \in [Orders -> SUBSET [id : 1 .. MaxRefunds, amt : 1 .. Total]]
      BY <1>1, <1>5, <3>1, <3>4 DEF StateTypeOK
    <3>6. TablesKept
      BY <1>1, <3>1, <3>3, <3>5 DEF StateTypeOK, TablesKept, OrderRows, EventsAreTrue
    <3> QED BY <1>1, <3>1, <3>6 DEF OrderRefundsTypeOK, RefundPC
  <2>5. CASE RefundInterrupted(a)
    <3>1. refunding' = [refunding EXCEPT ![a].pc = "failed"] /\ refunding[a].pc # "idle"
          /\ requestFaults < RequestFaults /\ requestFaults' = requestFaults + 1
      BY <2>5 DEF RefundInterrupted, SetRefund
    <3>2. TablesKept
      <4>1. CASE UNCHANGED sharedVars
        BY <1>1, <4>1, StateStable, EventsStable DEF TablesKept
      <4>2. CASE ~UNCHANGED sharedVars
        BY <1>1, <1>5, <2>5, <3>1, <4>2, StripeRefundKeepsTables DEF RefundInterrupted
      <4> QED BY <4>1, <4>2
    <3> QED BY <1>1, <3>1, <3>2, OrderRefundsAssumption DEF OrderRefundsTypeOK, RefundPC
  <2> QED BY <1>2, <2>1, <2>2, <2>3, <2>4, <2>5 DEF RefundStep
<1>7. JobsAreEvents'
  BY <1>1, <1>6, JobsStable DEF billingVars, TablesKept
<1> QED
  BY <1>6, <1>7, CheckoutStable, BillingStable, ReturnsStable, InventoryStable
     DEF TypeInv, TypeOK, TablesKept

\* The returns desk.
ReturnRows == [ReturnIds -> [status : ReturnStatus, order : Orders \cup {None}, qty : 0 .. Qty]]
DeskRow == [pc : ClerkPC, ret : ReturnIds \cup {None}, paid : BOOLEAN, id : 0 .. MaxRefunds]

\* A clerk at work has a return that was requested, for an order and an amount.
LEMMA ClerkReturn ==
  ASSUME ReturnsTypeOK, NEW k \in Clerks, ~ClerkAt(k, "idle")
  PROVE  LET r == clerk[k].ret IN
         /\ r \in ReturnIds
         /\ returns[r].status # "ABSENT"
         /\ OrderOfReturn(r) \in Orders
         /\ returns[r].qty \in 1 .. Qty
         /\ AmountOf(r) \in 1 .. Total
<1> DEFINE r == clerk[k].ret
           q == returns[r].qty
<1>1. r \in ReturnIds /\ returns[r].status # "ABSENT"
  BY DEF ReturnsTypeOK
<1>2. OrderOfReturn(r) \in Orders /\ q > 0 /\ q \in 0 .. Qty
  BY <1>1 DEF ReturnsTypeOK, OrderOfReturn
<1>3. q \in 1 .. Qty
  BY <1>2, CommerceAssumption
<1>4. \A n \in 1 .. Qty : n * Price \in 1 .. (Qty * Price)
  BY CommerceAssumption
<1>5. AmountOf(r) \in 1 .. Total
  BY <1>3, <1>4 DEF AmountOf, Total
<1> QED BY <1>1, <1>2, <1>3, <1>5

\* A clerk that leaves keeps the other clerks' work as it was.
LEMMA LeaveDesk ==
  ASSUME ReturnsTypeOK, NEW k \in Clerks, ClerkLeaves(k)
  PROVE  /\ clerk' \in [Clerks -> DeskRow]
         /\ clerk'[k].pc = "idle"
         /\ \A j \in Clerks : j # k => clerk'[j] = clerk[j]
<1>1. AtDesk \in DeskRow
  BY CommerceAssumption DEF AtDesk, DeskRow, ClerkPC
<1>2. clerk' = [clerk EXCEPT ![k] = AtDesk]
  BY DEF ClerkLeaves
<1>3. clerk \in [Clerks -> DeskRow]
  BY DEF ReturnsTypeOK, DeskRow
<1>4. AtDesk.pc = "idle"
  BY DEF AtDesk
<1> QED BY <1>1, <1>2, <1>3, <1>4

\* Requesting a return, opening it, deciding on it.
LEMMA DeskKeepsTypes ==
  ASSUME StateTypeOK, EventsAreTrue, ReturnsTypeOK,
         \/ \E r \in ReturnIds : RequestReturn(r)
         \/ \E k \in Clerks, r \in ReturnIds :
              OpenApprove(k, r) \/ OpenReject(k, r) \/ OpenRefund(k, r)
         \/ \E k \in Clerks : Approve(k) \/ Reject(k) \/ RefundReturnRefused(k)
                              \/ RecordReturnConflict(k) \/ ClerkInterrupted(k)
  PROVE  TablesKept /\ ReturnsTypeOK'
<1>1. UNCHANGED sharedVars
  BY DEF RequestReturn, OpenApprove, OpenReject, OpenRefund, Opens, Approve, Reject,
         SetReturnStatus, RefundReturnRefused, RecordReturnConflict, ClerkInterrupted
<1>2. TablesKept
  BY <1>1, StateStable, EventsStable DEF TablesKept
<1>3. ReturnsTypeOK'
  <2>1. CASE \E r \in ReturnIds : RequestReturn(r)
    <3>1. PICK r \in ReturnIds, o \in Orders, q \in 1 .. Qty :
            /\ returns[r].status = "ABSENT"
            /\ returns' = [returns EXCEPT ![r] = [status |-> "REQUESTED", order |-> o, qty |-> q]]
            /\ UNCHANGED <<payouts, restocked, clerk, clerkFaults>>
      BY <2>1 DEF RequestReturn
    <3>2. returns' \in ReturnRows
      BY <3>1, CommerceAssumption DEF ReturnsTypeOK, ReturnRows, ReturnStatus
    <3> QED BY <3>1, <3>2 DEF ReturnsTypeOK, ReturnRows, ClerkAt
  <2>2. CASE \E k \in Clerks, r \in ReturnIds :
               OpenApprove(k, r) \/ OpenReject(k, r) \/ OpenRefund(k, r)
    <3>1. PICK k \in Clerks, r \in ReturnIds :
            OpenApprove(k, r) \/ OpenReject(k, r) \/ OpenRefund(k, r)
      BY <2>2
    <3>2. returns[r].status # "ABSENT" /\ UNCHANGED <<returns, payouts, restocked, clerkFaults>>
      BY <3>1 DEF OpenApprove, OpenReject, OpenRefund, Opens
    <3> DEFINE seen == payments[OrderOfReturn(r)] = "SUCCEEDED"
    <3>3. PICK pc \in {"approve", "reject", "call", "record"} :
            /\ clerk' = [clerk EXCEPT ![k] = [pc |-> pc, ret |-> r, id |-> 0, paid |-> seen]]
            /\ pc = "record" => ~seen
      BY <3>1 DEF OpenApprove, OpenReject, OpenRefund, Opens
    <3>4. [pc |-> pc, ret |-> r, id |-> 0, paid |-> seen] \in DeskRow
      BY CommerceAssumption DEF DeskRow, ClerkPC
    <3>5. clerk \in [Clerks -> DeskRow]
      BY DEF ReturnsTypeOK, DeskRow
    <3>6. clerk' \in [Clerks -> DeskRow] /\ \A j \in Clerks : j # k => clerk'[j] = clerk[j]
      BY <3>3, <3>4, <3>5
    <3>7. clerk'[k].ret = r /\ clerk'[k].pc = pc /\ clerk'[k].paid = seen
      BY <3>3, <3>5
    <3> QED BY <3>2, <3>3, <3>6, <3>7 DEF ReturnsTypeOK, DeskRow, ClerkAt
  <2>3. ASSUME NEW k \in Clerks,
               Approve(k) \/ Reject(k) \/ RefundReturnRefused(k)
               \/ RecordReturnConflict(k) \/ ClerkInterrupted(k)
        PROVE  ReturnsTypeOK'
    <3>1. ~ClerkAt(k, "idle") /\ ClerkLeaves(k) /\ UNCHANGED <<payouts, restocked>>
      BY <2>3 DEF Approve, Reject, SetReturnStatus, RefundReturnRefused,
                  RecordReturnConflict, ClerkInterrupted, ClerkAt
    <3>2. /\ clerk' \in [Clerks -> DeskRow]
          /\ \A j \in Clerks : ~ClerkAt(j, "idle")' => clerk'[j] = clerk[j] /\ ~ClerkAt(j, "idle")
      BY <3>1, LeaveDesk DEF ClerkAt
    <3>3. clerkFaults' \in 0 .. ClerkFaults
      BY <2>3, ReturnsAssumption DEF Approve, Reject, SetReturnStatus, RefundReturnRefused,
         RecordReturnConflict, ClerkInterrupted, ReturnsTypeOK
    <3>4. /\ returns' \in ReturnRows
          /\ \A r \in ReturnIds :
               /\ returns'[r].order = returns[r].order /\ returns'[r].qty = returns[r].qty
               /\ returns'[r].status # "ABSENT" <=> returns[r].status # "ABSENT"
      <4>1. clerk[k].ret \in ReturnIds /\ returns[clerk[k].ret].status # "ABSENT"
        BY <3>1, ClerkReturn
      <4>2. \/ returns' = returns
            \/ returns' = [returns EXCEPT ![clerk[k].ret].status = "APPROVED"]
            \/ returns' = [returns EXCEPT ![clerk[k].ret].status = "REJECTED"]
        BY <2>3 DEF Approve, Reject, SetReturnStatus, RefundReturnRefused,
           RecordReturnConflict, ClerkInterrupted
      <4>3. returns \in ReturnRows
        BY DEF ReturnsTypeOK, ReturnRows
      <4>4. CASE returns' = returns
        BY <4>3, <4>4
      <4>5. CASE returns' = [returns EXCEPT ![clerk[k].ret].status = "APPROVED"]
        BY <4>1, <4>3, <4>5 DEF ReturnRows, ReturnStatus
      <4>6. CASE returns' = [returns EXCEPT ![clerk[k].ret].status = "REJECTED"]
        BY <4>1, <4>3, <4>6 DEF ReturnRows, ReturnStatus
      <4> QED BY <4>2, <4>4, <4>5, <4>6
    <3> QED BY <3>1, <3>2, <3>3, <3>4 DEF ReturnsTypeOK, DeskRow, ReturnRows, ClerkAt
  <2>4. CASE \E k \in Clerks : Approve(k) \/ Reject(k) \/ RefundReturnRefused(k)
                               \/ RecordReturnConflict(k) \/ ClerkInterrupted(k)
    BY <2>3, <2>4
  <2> QED BY <2>1, <2>2, <2>4
<1> QED BY <1>2, <1>3

\* Stripe refunds a return.
LEMMA RefundReturnKeepsTypes ==
  ASSUME StateTypeOK, EventsAreTrue, ReturnsTypeOK, NEW k \in Clerks, RefundReturn(k)
  PROVE  TablesKept /\ ReturnsTypeOK'
<1> DEFINE r == clerk[k].ret
           o == OrderOfReturn(r)
<1>1. ClerkAt(k, "call") /\ UNCHANGED <<orderVars, moneyVars, carts, stockVars, returns, restocked, clerkFaults>>
  BY DEF RefundReturn
<1>2. r \in ReturnIds /\ o \in Orders /\ AmountOf(r) \in 1 .. Total
  BY <1>1, ClerkReturn DEF ClerkAt
<1>3. TablesKept /\ NextRefundId(o) \in 1 .. MaxRefunds
  BY <1>1, <1>2, StripeRefundKeepsTables DEF RefundReturn
<1>4. payouts' \in [ReturnIds -> Nat]
  BY <1>2 DEF RefundReturn, ReturnsTypeOK
<1>5. clerk \in [Clerks -> DeskRow]
  BY DEF ReturnsTypeOK, DeskRow
<1>6. clerk' = [clerk EXCEPT ![k] = [clerk[k] EXCEPT !.pc = "record", !.id = NextRefundId(o)]]
  BY <1>5 DEF RefundReturn
<1>7. [clerk[k] EXCEPT !.pc = "record", !.id = NextRefundId(o)] \in DeskRow
  <2>1. NextRefundId(o) \in 0 .. MaxRefunds /\ "record" \in ClerkPC
    BY <1>3, CommerceAssumption DEF ClerkPC
  <2> QED BY <1>5, <2>1 DEF DeskRow
<1>8. clerk' \in [Clerks -> DeskRow] /\ \A j \in Clerks : j # k => clerk'[j] = clerk[j]
  BY <1>5, <1>6, <1>7
<1>9. clerk'[k].ret = r /\ clerk'[k].id = NextRefundId(o)
  BY <1>5, <1>6 DEF DeskRow
<1>10. NextRefundId(o) > 0
  BY <1>3, CommerceAssumption
<1>11. \A j \in Clerks : ~ClerkAt(j, "idle")' =>
          clerk'[j].ret \in ReturnIds /\ returns[clerk'[j].ret].status # "ABSENT"
  <2> SUFFICES ASSUME NEW j \in Clerks, ~ClerkAt(j, "idle")'
               PROVE  clerk'[j].ret \in ReturnIds /\ returns[clerk'[j].ret].status # "ABSENT"
    OBVIOUS
  <2>1. CASE j = k
    BY <1>1, <1>9, <2>1, ClerkReturn DEF ClerkAt
  <2>2. CASE j # k
    BY <1>8, <2>2 DEF ClerkAt, ReturnsTypeOK
  <2> QED BY <2>1, <2>2
<1>12. \A j \in Clerks : ClerkAt(j, "record")' /\ clerk'[j].paid => clerk'[j].id > 0
  BY <1>8, <1>9, <1>10 DEF ClerkAt, ReturnsTypeOK
<1> QED
  BY <1>1, <1>3, <1>4, <1>8, <1>11, <1>12 DEF ReturnsTypeOK, DeskRow, ClerkAt

\* The restock of a return.
LEMMA RestockTypes ==
  ASSUME StateTypeOK, ReturnsTypeOK, NEW r \in ReturnIds, Restock(r)
  PROVE  /\ onHand' \in [Locations -> Int] /\ ledger' \in [Locations -> Int]
         /\ restocked' \in [ReturnIds -> Nat]
<1>1. returns[r].qty \in Nat
  BY CommerceAssumption DEF ReturnsTypeOK
<1>2. CASE UNCHANGED <<onHand, ledger, restocked>>
  BY <1>2 DEF StateTypeOK, ReturnsTypeOK
<1>3. CASE ~UNCHANGED <<onHand, ledger, restocked>>
  <2>1. PICK l \in items :
          /\ onHand' = [onHand EXCEPT ![l] = @ + returns[r].qty]
          /\ ledger' = [ledger EXCEPT ![l] = @ + returns[r].qty]
          /\ restocked' = [restocked EXCEPT ![r] = @ + returns[r].qty]
    BY <1>3 DEF Restock
  <2>2. onHand' \in [Locations -> Int] /\ ledger' \in [Locations -> Int]
    BY <1>1, <2>1 DEF StateTypeOK
  <2>3. restocked' \in [ReturnIds -> Nat]
    BY <1>1, <2>1 DEF ReturnsTypeOK
  <2> QED BY <2>2, <2>3
<1> QED BY <1>2, <1>3

\* The transaction that records a refunded return.
LEMMA RecordReturnKeepsTypes ==
  ASSUME StateTypeOK, EventsAreTrue, ReturnsTypeOK, NEW k \in Clerks, RecordReturn(k)
  PROVE  TablesKept /\ ReturnsTypeOK'
<1> DEFINE r == clerk[k].ret
           o == OrderOfReturn(r)
<1>1. /\ ClerkAt(k, "record") /\ ~ClerkAt(k, "idle") /\ ClerkLeaves(k) /\ Restock(r)
      /\ UNCHANGED <<orderLog, orderLock, payments, carts, items, sold, stripeVars, payouts, clerkFaults>>
  BY DEF RecordReturn, ClerkAt
<1>2. /\ r \in ReturnIds /\ returns[r].status # "ABSENT"
      /\ o \in Orders /\ AmountOf(r) \in 1 .. Total
  BY <1>1, ClerkReturn
<1>3. /\ onHand' \in [Locations -> Int] /\ ledger' \in [Locations -> Int]
      /\ restocked' \in [ReturnIds -> Nat]
  BY <1>1, <1>2, RestockTypes
<1>4. returns' = [returns EXCEPT ![r].status = "REFUNDED"]
  BY DEF RecordReturn
<1>5. /\ returns' \in ReturnRows
      /\ \A s \in ReturnIds :
           /\ returns'[s].order = returns[s].order /\ returns'[s].qty = returns[s].qty
           /\ returns'[s].status # "ABSENT" <=> returns[s].status # "ABSENT"
  <2>1. returns \in ReturnRows
    BY DEF ReturnsTypeOK, ReturnRows
  <2>2. \A s \in ReturnIds : /\ returns'[s].order = returns[s].order
                             /\ returns'[s].qty = returns[s].qty
    BY <1>2, <1>4, <2>1 DEF ReturnRows
  <2>3. \A s \in ReturnIds : returns'[s].status # "ABSENT" <=> returns[s].status # "ABSENT"
    BY <1>2, <1>4, <2>1 DEF ReturnRows
  <2>4. returns' \in ReturnRows
    BY <1>2, <1>4, <2>1 DEF ReturnRows, ReturnStatus
  <2> QED BY <2>2, <2>3, <2>4
<1>6. orders' \in OrderRows
  <2>1. orders \in OrderRows
    BY DEF StateTypeOK, OrderRows
  <2>2. \/ orders' = orders
        \/ orders' = [orders EXCEPT ![o].financial = "REFUNDED"]
        \/ orders' = [orders EXCEPT ![o].financial = "PARTIALLY_REFUNDED"]
    BY DEF RecordReturn
  <2> QED BY <1>2, <2>1, <2>2 DEF OrderRows, FinancialStatus
<1>7. refunds' \in [Orders -> SUBSET [id : 1 .. MaxRefunds, amt : 1 .. Total]]
  <2>1. CASE clerk[k].paid
    <3>1. clerk[k].id \in 1 .. MaxRefunds
      BY <1>1, <2>1, CommerceAssumption DEF ReturnsTypeOK
    <3>2. refunds' = [refunds EXCEPT ![o] = @ \cup {[id |-> clerk[k].id, amt |-> AmountOf(r)]}]
      BY <2>1 DEF RecordReturn
    <3>3. [id |-> clerk[k].id, amt |-> AmountOf(r)] \in [id : 1 .. MaxRefunds, amt : 1 .. Total]
      BY <1>2, <3>1
    <3> QED BY <1>2, <3>2, <3>3 DEF StateTypeOK
  <2>2. CASE ~clerk[k].paid
    <3>1. refunds' = refunds
      BY <2>2 DEF RecordReturn
    <3> QED BY <3>1 DEF StateTypeOK
  <2> QED BY <2>1, <2>2
<1>8. TablesKept
  BY <1>1, <1>3, <1>6, <1>7 DEF StateTypeOK, TablesKept, OrderRows, EventsAreTrue
<1>9. /\ clerk' \in [Clerks -> DeskRow]
      /\ \A j \in Clerks : ~ClerkAt(j, "idle")' => clerk'[j] = clerk[j] /\ ~ClerkAt(j, "idle")
  BY <1>1, LeaveDesk DEF ClerkAt
<1> QED
  BY <1>1, <1>3, <1>5, <1>8, <1>9 DEF ReturnsTypeOK, ReturnRows, DeskRow, ClerkAt

LEMMA ReturnsKeepsTypes ==
  ASSUME TypeInv, ReturnsNext,
         UNCHANGED <<checkoutVars, billingVars, refundingVars, inventoryVars>>
  PROVE  TypeInv'
<1>1. StateTypeOK /\ ReturnsTypeOK /\ EventsAreTrue /\ JobsAreEvents
  BY DEF TypeInv, TypeOK
<1>2. TablesKept /\ ReturnsTypeOK'
  <2>1. CASE \E k \in Clerks : RefundReturn(k)
    BY <1>1, <2>1, RefundReturnKeepsTypes
  <2>2. CASE \E k \in Clerks : RecordReturn(k)
    BY <1>1, <2>2, RecordReturnKeepsTypes
  <2>3. CASE ~\E k \in Clerks : RefundReturn(k) \/ RecordReturn(k)
    BY <1>1, <2>3, DeskKeepsTypes DEF ReturnsNext, ClerkStep
  <2> QED BY <2>1, <2>2, <2>3
<1>3. JobsAreEvents'
  BY <1>1, <1>2, JobsStable DEF billingVars, TablesKept
<1> QED
  BY <1>2, <1>3, CheckoutStable, BillingStable, OrderRefundsStable, InventoryStable
     DEF TypeInv, TypeOK, TablesKept

\* Inventory.
LEMMA InventoryKeepsTypes ==
  ASSUME TypeInv, InventoryNext,
         UNCHANGED <<checkoutVars, billingVars, refundingVars, returnVars>>
  PROVE  TypeInv'
<1> DEFINE Row == [pc : KeeperPC, loc : Locations \cup {None}, delta : Int, new : BOOLEAN]
<1>1. StateTypeOK /\ InventoryTypeOK /\ EventsAreTrue /\ JobsAreEvents
  BY DEF TypeInv, TypeOK
<1>2. keeper \in [Keepers -> Row]
  BY <1>1 DEF InventoryTypeOK
<1>3. StateTypeOK' /\ InventoryTypeOK' /\ UNCHANGED <<events, stripeRefunds>>
  <2>1. ASSUME NEW x \in Keepers, NEW l \in Locations, NEW delta \in Deltas, Requests(x, l, delta)
        PROVE  StateTypeOK' /\ InventoryTypeOK' /\ UNCHANGED <<events, stripeRefunds>>
    <3>1. delta \in Int
      BY InventoryAssumption
    <3>2. stockRequests' \in 0 .. MaxRequests
      BY <1>1, <2>1, InventoryAssumption DEF Requests, InventoryTypeOK
    <3>3. keeper' \in [Keepers -> Row]
      <4>1. [pc |-> "write", loc |-> l, delta |-> delta, new |-> l \notin items] \in Row
        BY <3>1 DEF KeeperPC
      <4> QED BY <1>2, <2>1, <4>1 DEF Requests
    <3>4. \A y \in Keepers : keeper'[y].pc # "idle" => keeper'[y].loc \in Locations
      BY <1>1, <1>2, <2>1 DEF Requests, InventoryTypeOK
    <3> QED BY <1>1, <2>1, <3>2, <3>3, <3>4, StateStable DEF Requests, InventoryTypeOK
  <2>2. ASSUME NEW x \in Keepers, WriteItem(x)
        PROVE  StateTypeOK' /\ InventoryTypeOK' /\ UNCHANGED <<events, stripeRefunds>>
    <3> DEFINE l == keeper[x].loc
    <3>1. l \in Locations /\ keeper[x].delta \in Int
      BY <1>1, <1>2, <2>2 DEF InventoryTypeOK, WriteItem
    <3>2. items' \in SUBSET Locations /\ onHand' \in [Locations -> Int] /\ ledger' \in [Locations -> Int]
      <4>1. CASE Move(l, keeper[x].delta)
        BY <1>1, <3>1, <4>1 DEF Move, StateTypeOK
      <4>2. CASE UNCHANGED <<items, onHand, ledger>>
        BY <1>1, <4>2 DEF StateTypeOK
      <4> QED BY <2>2, <4>1, <4>2 DEF WriteItem
    <3>3. StateTypeOK'
      BY <1>1, <2>2, <3>2 DEF WriteItem, StateTypeOK
    <3>4. Off \in Row
      BY DEF Off, KeeperPC
    <3>5. keeper' = [keeper EXCEPT ![x] = Off] /\ UNCHANGED <<stripeVars, stockRequests>>
      BY <2>2 DEF WriteItem
    <3>6. keeper' \in [Keepers -> Row]
      BY <1>2, <3>4, <3>5
    <3>7. \A y \in Keepers : keeper'[y].pc # "idle" => keeper'[y].loc \in Locations
      BY <1>1, <1>2, <3>5 DEF InventoryTypeOK, Off
    <3> QED BY <1>1, <3>3, <3>5, <3>6, <3>7 DEF InventoryTypeOK
  <2> QED BY <2>1, <2>2 DEF InventoryNext, ReadItemForCreate, ReadItemForAdjust
<1> QED
  BY <1>1, <1>3, EventsStable, JobsStable, CheckoutStable, BillingStable, OrderRefundsStable,
     ReturnsStable DEF TypeInv, TypeOK, billingVars

-----------------------------------------------------------------------------
(* The initial states. *)

LEMMA InitTypes ==
  ASSUME Init PROVE TypeInv
<1> USE CommerceAssumption
<1>1. StateTypeOK
  <2>1. NoOrderRow \in [status : OrderStatus, financial : FinancialStatus, number : Nat]
    BY DEF NoOrderRow, OrderStatus, FinancialStatus
  <2>2. orders \in [Orders -> [status : OrderStatus, financial : FinancialStatus, number : Nat]]
    BY <2>1 DEF Init, StateInit
  <2>3. /\ payments \in [Orders -> PaymentStatus] /\ carts \in [Carts -> Orders \cup {None}]
        /\ refunds \in [Orders -> SUBSET [id : 1 .. MaxRefunds, amt : 1 .. Total]]
        /\ orderLock \in [Orders -> BOOLEAN] /\ orderLog \in Seq(Orders)
    BY DEF Init, StateInit, PaymentStatus
  <2>4. /\ onHand \in [Locations -> Int] /\ ledger \in [Locations -> Int]
        /\ items \in SUBSET Locations /\ sold \in [Orders -> Nat]
    BY StockAssumption DEF Init, StateInit
  <2>5. /\ session \in [Orders -> [st : SessionState, cart : Carts \cup {None}]]
        /\ stripeRefunds \in [Orders -> Seq([amt : 1 .. Total, cum : 1 .. Total])]
        /\ events \in SUBSET Event
    BY DEF Init, StateInit, SessionState
  <2> QED BY <2>2, <2>3, <2>4, <2>5 DEF StateTypeOK
<1>2. CheckoutTypeOK
  BY CheckoutAssumption DEF Init, CheckoutInit, CheckoutTypeOK, CheckoutPC
<1>3. BillingTypeOK
  <2>1. Idle \in [pc : AttemptPC, ev : Event \cup {None}, take : [Locations -> 0 .. Qty], units : 0 .. Qty]
    BY DEF Idle, NoTake, AttemptPC
  <2>2. \A w \in Workers : attempt[w] = Idle
    BY DEF Init, BillingInit
  <2>3. attempt \in Attempts
    BY <2>1 DEF Init, BillingInit, Attempts
  <2>4. \A w \in Workers : ~Working(w)
    BY <2>2 DEF Working, Idle
  <2>5. job \in Jobs
    BY DEF Init, BillingInit, Jobs, JobStatus
  <2>6. /\ marker \in SUBSET Event
        /\ mails \in [Orders -> [rows : Nat, queued : Nat]]
        /\ faults \in [evict : Nat, marker : Nat, fail : Nat, stall : Nat]
    BY DEF Init, BillingInit
  <2> QED BY <2>3, <2>4, <2>5, <2>6 DEF BillingTypeOK, Attempts, Jobs
<1>4. OrderRefundsTypeOK
  <2>1. Total \in Nat
    BY DEF Total
  <2> QED BY <2>1, OrderRefundsAssumption DEF Init, OrderRefundsInit, NoRefund, OrderRefundsTypeOK, RefundPC
<1>5. ReturnsTypeOK
  BY ReturnsAssumption
     DEF Init, ReturnsInit, NoReturn, AtDesk, ReturnsTypeOK, ReturnStatus, ClerkPC, ClerkAt
<1>6. InventoryTypeOK
  BY InventoryAssumption DEF Init, InventoryInit, Off, InventoryTypeOK, KeeperPC
<1>7. EventsAreTrue
  BY DEF Init, StateInit, EventsAreTrue
<1>8. JobsAreEvents
  BY DEF Init, BillingInit, JobsAreEvents, Working, Idle
<1> QED BY <1>1, <1>2, <1>3, <1>4, <1>5, <1>6, <1>7, <1>8 DEF TypeInv, TypeOK

-----------------------------------------------------------------------------
(* The theorems. *)

LEMMA TypesInductive ==
  ASSUME TypeInv, [Next]_vars PROVE TypeInv'
<1>1. CASE UNCHANGED vars
  BY <1>1, StateStable, CheckoutStable, BillingStable, OrderRefundsStable, ReturnsStable,
     InventoryStable, EventsStable, JobsStable DEF TypeInv, TypeOK, vars, billingVars
<1>2. CASE Next
  BY <1>2, StripeKeepsTypes, CheckoutKeepsTypes, BillingKeepsTypes, OrderRefundsKeepsTypes,
     ReturnsKeepsTypes, InventoryKeepsTypes DEF Next
<1> QED BY <1>1, <1>2

\* Every table, queue and request of the order flow keeps its type, and every
\* job stands for an event that Stripe has emitted.
THEOREM TypesHold == Spec => []TypeInv
<1>1. Init => TypeInv
  BY InitTypes
<1>2. TypeInv /\ [Next]_vars => TypeInv'
  BY TypesInductive
<1> QED BY <1>1, <1>2, PTL DEF Spec

\* The types of the tables, in the form the runs check.
THEOREM TypeCorrect == Spec => []TypeOK
<1>1. TypeInv => TypeOK
  BY DEF TypeInv
<1> QED BY <1>1, TypesHold, PTL

\* Checkout, billing, returns and inventory move stock only together with its
\* ledger: on hand is the sum of the movements, for every location.
THEOREM LedgerCorrect == Spec => []LedgerBalanced
<1> DEFINE Same == onHand = ledger
<1>1. Init => Same
  BY DEF Init, StateInit
<1>2. Same /\ [Next]_vars => Same'
  <2> SUFFICES ASSUME Same, [Next]_vars PROVE Same'
    OBVIOUS
  <2>1. CASE UNCHANGED <<onHand, ledger>>
    BY <2>1
  <2>2. CASE \E w \in Workers : CaptureOrder(w)
    BY <2>2 DEF CaptureOrder, DecrementStock
  <2>3. CASE \E k \in Clerks : RecordReturn(k)
    BY <2>3 DEF RecordReturn, Restock
  <2>4. CASE \E x \in Keepers : WriteItem(x)
    BY <2>4 DEF WriteItem, Move
  <2>5. \/ UNCHANGED <<onHand, ledger>>
        \/ \E w \in Workers : CaptureOrder(w)
        \/ \E k \in Clerks : RecordReturn(k)
        \/ \E x \in Keepers : WriteItem(x)
    <3>1. CASE UNCHANGED vars
      BY <3>1 DEF vars
    <3>2. CASE StripeNext
      BY <3>2 DEF StripeNext, CardDeclined, Pay, DashboardRefund
    <3>3. CASE CheckoutNext
      BY <3>3 DEF CheckoutNext, CheckoutStep, ReadCart, ReadLastNumber, CreateOrder,
         CreateOrderConflict, CreateSession, RecordSession, RespondWithUrl,
         SessionStepFails, DeleteOrder, CheckoutInterrupted
    <3>4. CASE BillingNext
      <4>1. CASE \E e \in Event : DeliverWebhook(e) \/ EvictJob(e) \/ LoseMarker(e)
        BY <4>1 DEF DeliverWebhook, EvictJob, LoseMarker
      <4>2. CASE \E w \in Workers : AttemptFails(w) \/ JobStalls(w)
        BY <4>2 DEF AttemptFails, JobStalls
      <4>3. ASSUME NEW w \in Workers, WorkerStep(w), ~CaptureOrder(w)
            PROVE  UNCHANGED <<onHand, ledger>>
        BY <4>3 DEF WorkerStep, StartJob, OnCheckoutCompleted, LockOrderAndReadStock,
           CreateConfirmation, EnqueueConfirmation, OnPaymentFailed, OnChargeRefundedUnknown,
           OnChargeRefunded, MarkProcessed, AckJob
      <4> QED BY <3>4, <4>1, <4>2, <4>3 DEF BillingNext
    <3>5. CASE OrderRefundsNext
      BY <3>5 DEF OrderRefundsNext, RefundStep, ReadPayment, RefundPayment, RefundRefused,
         RecordRefund, RecordRefundConflict, RefundInterrupted
    <3>6. CASE ReturnsNext
      BY <3>6 DEF ReturnsNext, ClerkStep, RequestReturn, OpenApprove, OpenReject, OpenRefund,
         Opens, Approve, Reject, SetReturnStatus, RefundReturn, RefundReturnRefused,
         RecordReturnConflict, ClerkInterrupted
    <3>7. CASE InventoryNext
      BY <3>7 DEF InventoryNext, ReadItemForCreate, ReadItemForAdjust, Requests
    <3> QED BY <3>1, <3>2, <3>3, <3>4, <3>5, <3>6, <3>7 DEF Next
  <2> QED BY <2>1, <2>2, <2>3, <2>4, <2>5
<1>3. Same => LedgerBalanced
  BY DEF LedgerBalanced
<1> QED BY <1>1, <1>2, <1>3, PTL DEF Spec
-----------------------------------------------------------------------------
(***************************************************************************)
(* The returns desk decides on a status that it loaded in an earlier        *)
(* transaction.  Two requests on one return can both pass that check, and   *)
(* the second then restocks once more; as long as each return is worked on  *)
(* by one request at a time, the status that a request loaded still holds.  *)
(***************************************************************************)
OneClerkPerReturn ==
  \A j, k \in Clerks :
    ~ClerkAt(j, "idle") /\ ~ClerkAt(k, "idle") /\ clerk[j].ret = clerk[k].ret => j = k

\* Units are back in stock only for a refunded return, and nobody is still
\* working on one.
RestockInv ==
  /\ \A r \in ReturnIds :
       \/ restocked[r] = 0
       \/ returns[r].status = "REFUNDED" /\ restocked[r] <= returns[r].qty
  /\ \A k \in Clerks : ~ClerkAt(k, "idle") => returns[clerk[k].ret].status # "REFUNDED"

\* Requesting a return and opening it.
LEMMA OpeningKeepsRestock ==
  ASSUME ReturnsTypeOK, RestockInv,
         \/ \E r \in ReturnIds : RequestReturn(r)
         \/ \E k \in Clerks, r \in ReturnIds :
              OpenApprove(k, r) \/ OpenReject(k, r) \/ OpenRefund(k, r)
  PROVE  RestockInv'
<1>1. returns \in ReturnRows /\ clerk \in [Clerks -> DeskRow]
  BY DEF ReturnsTypeOK, ReturnRows, DeskRow
<1>2. ASSUME NEW r \in ReturnIds, RequestReturn(r) PROVE RestockInv'
  <2>1. PICK o \in Orders, q \in 1 .. Qty :
          /\ returns[r].status = "ABSENT"
          /\ returns' = [returns EXCEPT ![r] = [status |-> "REQUESTED", order |-> o, qty |-> q]]
          /\ UNCHANGED <<restocked, clerk>>
    BY <1>2 DEF RequestReturn
  <2>2. returns'[r].status = "REQUESTED" /\ \A s \in ReturnIds : s # r => returns'[s] = returns[s]
    BY <1>1, <2>1 DEF ReturnRows
  <2>3. restocked[r] = 0
    BY <2>1 DEF RestockInv
  <2>4. \A k \in Clerks : ~ClerkAt(k, "idle") => clerk[k].ret \in ReturnIds
    BY DEF ReturnsTypeOK
  <2> QED BY <2>1, <2>2, <2>3, <2>4 DEF RestockInv, ClerkAt
<1>3. ASSUME NEW k \in Clerks, NEW r \in ReturnIds,
             OpenApprove(k, r) \/ OpenReject(k, r) \/ OpenRefund(k, r)
      PROVE  RestockInv'
  <2>1. returns[r].status # "REFUNDED" /\ UNCHANGED <<returns, restocked>>
    BY <1>3 DEF OpenApprove, OpenReject, OpenRefund, Opens
  <2> DEFINE seen == payments[OrderOfReturn(r)] = "SUCCEEDED"
  <2>2. PICK pc \in {"approve", "reject", "call", "record"} :
          clerk' = [clerk EXCEPT ![k] = [pc |-> pc, ret |-> r, id |-> 0, paid |-> seen]]
    BY <1>3 DEF OpenApprove, OpenReject, OpenRefund, Opens
  <2>3. clerk'[k].ret = r /\ \A j \in Clerks : j # k => clerk'[j] = clerk[j]
    BY <1>1, <2>2
  <2> QED BY <2>1, <2>3 DEF RestockInv, ClerkAt
<1> QED BY <1>2, <1>3

\* A request's own steps, while it is the only one on its return.
LEMMA ClerkKeepsRestock ==
  ASSUME ReturnsTypeOK, RestockInv, OneClerkPerReturn,
         NEW k \in Clerks, ClerkStep(k) \/ ClerkInterrupted(k)
  PROVE  RestockInv'
<1> DEFINE r == clerk[k].ret
<1>1. returns \in ReturnRows /\ clerk \in [Clerks -> DeskRow] /\ restocked \in [ReturnIds -> Nat]
  BY DEF ReturnsTypeOK, ReturnRows, DeskRow
<1>2. ~ClerkAt(k, "idle")
  BY DEF ClerkStep, Approve, Reject, SetReturnStatus, RefundReturn, RefundReturnRefused,
         RecordReturn, RecordReturnConflict, ClerkInterrupted, ClerkAt
<1>3. r \in ReturnIds /\ returns[r].qty \in 1 .. Qty
  BY <1>2, ClerkReturn
<1>4. returns[r].status # "REFUNDED" /\ restocked[r] = 0
  BY <1>2, <1>3 DEF RestockInv
<1>5. \A j \in Clerks : j # k /\ ~ClerkAt(j, "idle") => clerk[j].ret \in ReturnIds \ {r}
  BY <1>2 DEF OneClerkPerReturn, ReturnsTypeOK
<1>6. CASE RefundReturnRefused(k) \/ RecordReturnConflict(k) \/ ClerkInterrupted(k)
  <2>1. UNCHANGED <<returns, restocked>> /\ ClerkLeaves(k)
    BY <1>6 DEF RefundReturnRefused, RecordReturnConflict, ClerkInterrupted
  <2>2. clerk'[k].pc = "idle" /\ \A j \in Clerks : j # k => clerk'[j] = clerk[j]
    BY <2>1, LeaveDesk
  <2> QED BY <2>1, <2>2 DEF RestockInv, ClerkAt
<1>7. CASE RefundReturn(k)
  <2>1. UNCHANGED <<returns, restocked>> /\ clerk'[k].ret = r
        /\ \A j \in Clerks : j # k => clerk'[j] = clerk[j]
    BY <1>1, <1>7 DEF RefundReturn, DeskRow
  <2> QED BY <1>4, <2>1 DEF RestockInv, ClerkAt
<1>8. CASE Approve(k) \/ Reject(k) \/ RecordReturn(k)
  <2>1. ClerkLeaves(k)
    BY <1>8 DEF Approve, Reject, SetReturnStatus, RecordReturn
  <2>2. clerk'[k].pc = "idle" /\ \A j \in Clerks : j # k => clerk'[j] = clerk[j]
    BY <2>1, LeaveDesk
  <2>3. PICK status \in {"APPROVED", "REJECTED", "REFUNDED"} :
          returns' = [returns EXCEPT ![r].status = status]
    BY <1>8 DEF Approve, Reject, SetReturnStatus, RecordReturn
  <2>4. /\ returns'[r].status = status /\ returns'[r].qty = returns[r].qty
        /\ \A s \in ReturnIds : s # r => returns'[s] = returns[s]
    BY <1>1, <1>3, <2>3 DEF ReturnRows
  <2>5. \A j \in Clerks : ~ClerkAt(j, "idle")' => returns'[clerk'[j].ret].status # "REFUNDED"
    BY <1>5, <2>2, <2>4 DEF RestockInv, ClerkAt
  <2>6. CASE UNCHANGED restocked
    BY <1>4, <2>4, <2>5, <2>6 DEF RestockInv
  <2>7. CASE ~UNCHANGED restocked
    <3>1. RecordReturn(k) /\ Restock(r)
      BY <1>8, <2>7 DEF Approve, Reject, SetReturnStatus, RecordReturn
    <3>2. restocked' = [restocked EXCEPT ![r] = @ + returns[r].qty]
      BY <2>7, <3>1 DEF Restock
    <3>3. restocked'[r] = returns[r].qty
          /\ \A s \in ReturnIds : s # r => restocked'[s] = restocked[s]
      BY <1>1, <1>3, <1>4, <3>2, CommerceAssumption
    <3>4. returns'[r].status = "REFUNDED"
      BY <1>1, <1>3, <3>1 DEF RecordReturn, ReturnRows
    <3>5. restocked'[r] <= returns'[r].qty
      BY <1>3, <2>4, <3>3, CommerceAssumption
    <3> QED BY <2>4, <2>5, <3>3, <3>4, <3>5 DEF RestockInv
  <2> QED BY <2>6, <2>7
<1> QED BY <1>6, <1>7, <1>8 DEF ClerkStep

\* A return puts back at most the units it names, and none if it was rejected,
\* as long as no two requests of the desk work on the same return at once.
THEOREM RestockedAtMostOnce ==
  Spec /\ []OneClerkPerReturn => []RestockedOnce
<1>1. Init => RestockInv
  BY DEF Init, ReturnsInit, RestockInv, ClerkAt, AtDesk
<1>2. TypeInv /\ OneClerkPerReturn /\ RestockInv /\ [Next]_vars => RestockInv'
  <2> SUFFICES ASSUME TypeInv, OneClerkPerReturn, RestockInv, [Next]_vars PROVE RestockInv'
    OBVIOUS
  <2>1. ReturnsTypeOK
    BY DEF TypeInv, TypeOK
  <2>2. CASE UNCHANGED returnVars
    BY <2>2 DEF returnVars, RestockInv, ClerkAt
  <2>3. CASE ReturnsNext
    BY <2>1, <2>3, OpeningKeepsRestock, ClerkKeepsRestock DEF ReturnsNext
  <2> QED BY <2>2, <2>3 DEF Next, vars
<1>3. TypeInv /\ RestockInv => RestockedOnce
  <2> SUFFICES ASSUME TypeInv, RestockInv, NEW r \in ReturnIds
               PROVE  /\ restocked[r] <= returns[r].qty
                      /\ returns[r].status = "REJECTED" => restocked[r] = 0
    BY DEF RestockedOnce
  <2>1. returns[r].qty \in Nat
    BY CommerceAssumption DEF TypeInv, TypeOK, ReturnsTypeOK
  <2> QED BY <2>1 DEF RestockInv
<1> QED BY <1>1, <1>2, <1>3, TypesHold, PTL DEF Spec
-----------------------------------------------------------------------------
(* How a worker moves through an attempt. *)

AttemptRow == [pc : AttemptPC, ev : Event \cup {None},
               take : [Locations -> 0 .. Qty], units : 0 .. Qty]

\* A worker stays with its event, from one statement to the next.
GoesOn(w) ==
  /\ Working(w)
  /\ Working(w)'
  /\ EventOf(w)' = EventOf(w)
  /\ \A v \in Workers : v # w => attempt'[v] = attempt[v]
  /\ UNCHANGED job

\* ... or drops everything, whatever becomes of its job.
Drops(w) ==
  /\ Working(w)
  /\ attempt' = [attempt EXCEPT ![w] = Idle]
  /\ job' = job \/ \E row : job' = [job EXCEPT ![EventOf(w)] = row]

\* The statements of a handler follow each other as in the processor.
LEMMA HandlerGoesOn ==
  ASSUME BillingTypeOK, NEW w \in Workers, WorkerStep(w),
         ~AckJob(w), ~\E e \in Event : StartJob(w, e)
  PROVE  /\ GoesOn(w)
         /\ At(w, "lock")' => OnCheckoutCompleted(w)
         /\ At(w, "commit")' => LockOrderAndReadStock(w)
         /\ At(w, "notify")' => CaptureOrder(w)
         /\ At(w, "handle") \/ At(w, "lock") \/ At(w, "commit") \/ At(w, "notify")
            \/ At(w, "enqueue") \/ At(w, "mark")
         /\ ~At(w, "handle")'
<1>1. attempt \in [Workers -> AttemptRow]
  BY DEF BillingTypeOK, AttemptRow
<1>2. UNCHANGED job
  BY DEF WorkerStep, OnCheckoutCompleted, LockOrderAndReadStock, CaptureOrder,
     CreateConfirmation, EnqueueConfirmation, OnPaymentFailed, OnChargeRefundedUnknown,
     OnChargeRefunded, MarkProcessed
<1>3. ASSUME NEW pc \in AttemptPC, Continue(w, pc)
      PROVE  /\ attempt'[w].pc = pc /\ attempt'[w].ev = attempt[w].ev
             /\ \A v \in Workers : v # w => attempt'[v] = attempt[v]
  BY <1>1, <1>3 DEF Continue, AttemptRow
<1>4. CASE LockOrderAndReadStock(w)
  <2>1. PICK take \in [Locations -> 0 .. Qty], units \in 0 .. Qty :
          attempt' = [attempt EXCEPT ![w] = [@ EXCEPT !.pc = "commit",
                                               !.take = take, !.units = units]]
    BY <1>4 DEF LockOrderAndReadStock
  <2>2. /\ attempt'[w].pc = "commit" /\ attempt'[w].ev = attempt[w].ev
        /\ \A v \in Workers : v # w => attempt'[v] = attempt[v]
    BY <1>1, <2>1 DEF AttemptRow
  <2> QED BY <1>2, <1>4, <2>2 DEF GoesOn, Working, EventOf, At, LockOrderAndReadStock
<1>5. CASE OnCheckoutCompleted(w)
  <2>1. At(w, "handle") /\ (Continue(w, "mark") \/ Continue(w, "lock"))
    BY <1>5 DEF OnCheckoutCompleted
  <2>2. "mark" \in AttemptPC /\ "lock" \in AttemptPC
    BY DEF AttemptPC
  <2> QED BY <1>2, <1>3, <1>5, <2>1, <2>2 DEF GoesOn, Working, EventOf, At
<1>6. CASE CaptureOrder(w)
  <2>1. At(w, "commit") /\ Continue(w, "notify") /\ "notify" \in AttemptPC
    BY <1>6 DEF CaptureOrder, AttemptPC
  <2> QED BY <1>2, <1>3, <1>6, <2>1 DEF GoesOn, Working, EventOf, At
<1>7. CASE \/ CreateConfirmation(w) \/ EnqueueConfirmation(w) \/ OnPaymentFailed(w)
           \/ OnChargeRefundedUnknown(w) \/ OnChargeRefunded(w) \/ MarkProcessed(w)
  <2>1. \E pc \in {"enqueue", "mark", "ack"} : Continue(w, pc)
    BY <1>7 DEF CreateConfirmation, EnqueueConfirmation, OnPaymentFailed,
       OnChargeRefundedUnknown, OnChargeRefunded, MarkProcessed
  <2>2. At(w, "handle") \/ At(w, "notify") \/ At(w, "enqueue") \/ At(w, "mark")
    BY <1>7 DEF CreateConfirmation, EnqueueConfirmation, OnPaymentFailed,
       OnChargeRefundedUnknown, OnChargeRefunded, MarkProcessed
  <2>3. {"enqueue", "mark", "ack"} \subseteq AttemptPC
    BY DEF AttemptPC
  <2> QED BY <1>2, <1>3, <2>1, <2>2, <2>3 DEF GoesOn, Working, EventOf, At
<1> QED BY <1>4, <1>5, <1>6, <1>7 DEF WorkerStep

\* The end of an attempt.
LEMMA EndDrops ==
  ASSUME NEW w \in Workers, AckJob(w) \/ AttemptFails(w)
  PROVE  Drops(w)
BY DEF AckJob, AttemptFails, Drops, At, Working

-----------------------------------------------------------------------------
(***************************************************************************)
(* BullMQ's promise: while no lock expires under a running job, a worker    *)
(* that is busy with an event owns its job, so nobody else works on it.     *)
(***************************************************************************)
OwnsAll == \A w \in Workers : Working(w) => OwnsJob(w)

OneAttempt ==
  \A v, w \in Workers : Working(v) /\ Working(w) /\ EventOf(v) = EventOf(w) => v = w

LEMMA OwnershipKept ==
  ASSUME BillingTypeOK, JobsAreEvents, OwnsAll, Stalls = 0, BillingNext
  PROVE  OwnsAll'
<1>1. attempt \in [Workers -> AttemptRow] /\ job \in Jobs
  BY DEF BillingTypeOK, AttemptRow, Jobs
<1>2. \A w \in Workers : Working(w) => EventOf(w) \in Event
  BY DEF BillingTypeOK
<1>3. ASSUME NEW e \in Event, DeliverWebhook(e) \/ EvictJob(e) \/ LoseMarker(e)
      PROVE  OwnsAll'
  <2>1. UNCHANGED attempt
    BY <1>3 DEF DeliverWebhook, EvictJob, LoseMarker
  <2>2. \A d \in Event : job[d].status = "active" => job'[d] = job[d]
    BY <1>1, <1>3 DEF DeliverWebhook, EvictJob, LoseMarker, Jobs
  <2> QED BY <1>2, <2>1, <2>2 DEF OwnsAll, OwnsJob, Working, EventOf
<1>4. ASSUME NEW w \in Workers, NEW e \in Event, StartJob(w, e)
      PROVE  OwnsAll'
  <2>1. job[e].status = "waiting"
        /\ job' = [job EXCEPT ![e].status = "active", ![e].owner = w, ![e].tries = @ + 1]
    BY <1>4 DEF StartJob
  <2>2. job'[e].status = "active" /\ job'[e].owner = w
        /\ \A d \in Event : d # e => job'[d] = job[d]
    BY <1>1, <2>1 DEF Jobs
  <2>3. attempt' = [attempt EXCEPT ![w] = [Idle EXCEPT
                      !.pc = IF e \in marker THEN "ack" ELSE "handle", !.ev = e]]
    BY <1>4 DEF StartJob
  <2>4. attempt'[w].ev = e /\ \A v \in Workers : v # w => attempt'[v] = attempt[v]
    BY <1>1, <2>3 DEF Idle
  <2>5. ASSUME NEW v \in Workers, v # w, Working(v)'
        PROVE  OwnsJob(v)'
    <3>1. Working(v) /\ OwnsJob(v) /\ EventOf(v) \in Event
      BY <1>2, <2>4, <2>5 DEF OwnsAll, Working
    <3>2. EventOf(v) # e
      BY <2>1, <3>1 DEF OwnsJob
    <3> QED BY <2>2, <2>4, <2>5, <3>1, <3>2 DEF OwnsJob, EventOf
  <2> QED BY <2>2, <2>4, <2>5 DEF OwnsAll, OwnsJob, EventOf
<1>5. ASSUME NEW w \in Workers, Drops(w)
      PROVE  OwnsAll'
  <2>1. /\ attempt'[w].pc = "idle" /\ \A v \in Workers : v # w => attempt'[v] = attempt[v]
        /\ Working(w)
    BY <1>1, <1>5 DEF Drops, Idle
  <2>2. ASSUME NEW v \in Workers, v # w, Working(v)'
        PROVE  OwnsJob(v)'
    <3>1. Working(v) /\ OwnsJob(v) /\ EventOf(v) \in Event /\ OwnsJob(w)
      BY <1>2, <2>1, <2>2 DEF OwnsAll, Working
    <3>2. EventOf(v) # EventOf(w)
      BY <2>2, <3>1 DEF OwnsJob
    <3>3. job'[EventOf(v)] = job[EventOf(v)]
      BY <1>1, <1>5, <3>1, <3>2 DEF Drops, Jobs
    <3> QED BY <2>1, <2>2, <3>1, <3>3 DEF OwnsJob, EventOf
  <2> QED BY <2>1, <2>2 DEF OwnsAll, Working
<1>6. ASSUME NEW w \in Workers, GoesOn(w)
      PROVE  OwnsAll'
  BY <1>6 DEF OwnsAll, GoesOn, OwnsJob, Working, EventOf
<1>7. ASSUME NEW w \in Workers, JobStalls(w) PROVE FALSE
  <2>1. faults["stall"] < 0 /\ faults["stall"] \in Nat
    BY <1>7 DEF JobStalls, Inject, BillingTypeOK
  <2> QED BY <2>1
<1> QED
  BY <1>3, <1>4, <1>5, <1>6, <1>7, HandlerGoesOn, EndDrops DEF BillingNext, WorkerStep

LEMMA OwnershipInductive ==
  ASSUME TypeInv, OwnsAll, Stalls = 0, [Next]_vars
  PROVE  OwnsAll'
<1>1. BillingTypeOK /\ JobsAreEvents
  BY DEF TypeInv, TypeOK
<1>2. CASE UNCHANGED billingVars
  BY <1>2 DEF billingVars, OwnsAll, OwnsJob, Working, EventOf
<1>3. CASE BillingNext
  BY <1>1, <1>3, OwnershipKept
<1> QED BY <1>2, <1>3 DEF Next, vars

LEMMA OwnersAreAlone ==
  ASSUME OwnsAll PROVE OneAttempt
BY DEF OwnsAll, OneAttempt, OwnsJob

\* As long as no running job loses its lock, an event is never handled by two
\* workers at once, through retries, evictions and redeliveries.
THEOREM AttemptsAreExclusive ==
  ASSUME Stalls = 0
  PROVE  Spec => []OneAttempt
<1>1. Init => OwnsAll
  BY DEF Init, BillingInit, OwnsAll, Working, Idle
<1>2. TypeInv /\ OwnsAll /\ [Next]_vars => OwnsAll'
  BY OwnershipInductive
<1>3. OwnsAll => OneAttempt
  BY OwnersAreAlone
<1> QED BY <1>1, <1>2, <1>3, TypesHold, PTL DEF Spec
-----------------------------------------------------------------------------
(***************************************************************************)
(* A capture decrements stock by the levels that it read one statement      *)
(* earlier.  Two captures that both read before either commits can take the *)
(* last unit twice; one at a time, what was read is still there.            *)
(***************************************************************************)
OneCapture == \A v, w \in Workers : At(v, "commit") /\ At(w, "commit") => v = w

TakeIsThere(w) == \A l \in Locations : attempt[w].take[l] <= onHand[l]

StockInv ==
  /\ NeverOversold
  /\ \A w \in Workers : At(w, "commit") => TakeIsThere(w)
  /\ \A x \in Keepers : keeper[x].pc = "write" => keeper[x].delta \in Nat

\* Stock that at most grows.
LEMMA GrowthKeepsStock ==
  ASSUME StateTypeOK, BillingTypeOK, StockInv, UNCHANGED attempt,
         \A l \in Locations : onHand'[l] \in Int /\ onHand'[l] >= onHand[l]
  PROVE  NeverOversold' /\ \A w \in Workers : At(w, "commit")' => TakeIsThere(w)'
<1>1. \A l \in Locations : onHand[l] \in Int
  BY DEF StateTypeOK
<1>2. NeverOversold'
  <2> SUFFICES ASSUME NEW l \in Locations PROVE onHand'[l] >= 0
    BY DEF NeverOversold
  <2>1. onHand[l] >= 0 /\ onHand[l] \in Int /\ onHand'[l] \in Int /\ onHand'[l] >= onHand[l]
    BY <1>1 DEF StockInv, NeverOversold
  <2> QED BY <2>1
<1>3. ASSUME NEW w \in Workers, At(w, "commit")', NEW l \in Locations
      PROVE  attempt'[w].take[l] <= onHand'[l]
  <2>1. attempt[w].take \in [Locations -> 0 .. Qty]
    BY DEF BillingTypeOK
  <2>2. attempt[w].take[l] \in Int /\ attempt[w].take[l] <= onHand[l]
    BY <1>3, <2>1, CommerceAssumption DEF StockInv, TakeIsThere, At
  <2>3. onHand[l] \in Int /\ onHand'[l] \in Int /\ onHand'[l] >= onHand[l]
    BY <1>1
  <2>4. attempt'[w].take[l] = attempt[w].take[l]
    OBVIOUS
  <2> QED BY <2>2, <2>3, <2>4
<1> QED BY <1>2, <1>3 DEF TakeIsThere

\* What is read is there: nothing is taken from a location that has nothing.
LEMMA ReadingKeepsStock ==
  ASSUME StateTypeOK, BillingTypeOK, StockInv, NEW w \in Workers, LockOrderAndReadStock(w)
  PROVE  NeverOversold' /\ \A v \in Workers : At(v, "commit")' => TakeIsThere(v)'
<1>1. attempt \in [Workers -> AttemptRow]
  BY DEF BillingTypeOK, AttemptRow
<1>2. PICK take \in [Locations -> 0 .. Qty], units \in 0 .. Qty :
        /\ GreedyTake(take, units)
        /\ attempt' = [attempt EXCEPT ![w] = [@ EXCEPT !.pc = "commit",
                                                       !.take = take, !.units = units]]
  BY DEF LockOrderAndReadStock
<1>3. attempt'[w].take = take /\ \A v \in Workers : v # w => attempt'[v] = attempt[v]
  BY <1>1, <1>2 DEF AttemptRow
<1>4. UNCHANGED onHand
  BY DEF LockOrderAndReadStock
<1>5. ASSUME NEW l \in Locations PROVE take[l] <= onHand[l]
  <2>1. take[l] <= Available(l) /\ take[l] \in Int
    BY <1>2, CommerceAssumption DEF GreedyTake
  <2>2. onHand[l] \in Int /\ onHand[l] >= 0
    BY DEF StateTypeOK, StockInv, NeverOversold
  <2>3. Available(l) = onHand[l] \/ Available(l) = 0
    BY DEF Available
  <2> QED BY <2>1, <2>2, <2>3
<1> QED BY <1>3, <1>4, <1>5 DEF StockInv, NeverOversold, TakeIsThere, At

\* A capture that is alone between its reading and its commit.
LEMMA CaptureKeepsStock ==
  ASSUME StateTypeOK, BillingTypeOK, StockInv, OneCapture, NEW w \in Workers, CaptureOrder(w)
  PROVE  NeverOversold' /\ \A v \in Workers : At(v, "commit")' => TakeIsThere(v)'
<1>1. At(w, "commit") /\ Continue(w, "notify")
  BY DEF CaptureOrder
<1>2. attempt'[w].pc = "notify" /\ \A v \in Workers : v # w => attempt'[v] = attempt[v]
  BY <1>1 DEF Continue, BillingTypeOK
<1>3. \A v \in Workers : ~At(v, "commit")'
  BY <1>1, <1>2 DEF OneCapture, At
<1>4. ASSUME NEW l \in Locations PROVE onHand'[l] >= 0
  <2>1. attempt[w].take \in [Locations -> 0 .. Qty]
    BY DEF BillingTypeOK
  <2>2. attempt[w].take[l] \in Int /\ attempt[w].take[l] <= onHand[l] /\ onHand[l] \in Int
    BY <1>1, <2>1, CommerceAssumption DEF StockInv, TakeIsThere, StateTypeOK
  <2>3. onHand'[l] = onHand[l] - attempt[w].take[l]
    BY DEF CaptureOrder, DecrementStock
  <2> QED BY <2>2, <2>3
<1> QED BY <1>3, <1>4 DEF NeverOversold

\* The other steps of the worker take no stock.
LEMMA BillingKeepsStock ==
  ASSUME StateTypeOK, BillingTypeOK, StockInv, OneCapture, BillingNext
  PROVE  NeverOversold' /\ \A v \in Workers : At(v, "commit")' => TakeIsThere(v)'
<1>1. attempt \in [Workers -> AttemptRow]
  BY DEF BillingTypeOK, AttemptRow
<1>2. CASE \E w \in Workers : CaptureOrder(w)
  BY <1>2, CaptureKeepsStock
<1>3. CASE \E w \in Workers : LockOrderAndReadStock(w)
  BY <1>3, ReadingKeepsStock
<1>4. CASE ~\E w \in Workers : CaptureOrder(w) \/ LockOrderAndReadStock(w)
  <2>1. UNCHANGED onHand
    BY <1>4 DEF BillingNext, WorkerStep, DeliverWebhook, EvictJob, LoseMarker, StartJob,
       OnCheckoutCompleted, CreateConfirmation, EnqueueConfirmation, OnPaymentFailed,
       OnChargeRefundedUnknown, OnChargeRefunded, MarkProcessed, AckJob, AttemptFails, JobStalls
  <2>2. \A v \in Workers : At(v, "commit")' => attempt'[v] = attempt[v]
    <3>1. CASE UNCHANGED attempt
      BY <3>1
    <3>2. ASSUME NEW w \in Workers, NEW e \in Event, StartJob(w, e)
          PROVE  \A v \in Workers : At(v, "commit")' => attempt'[v] = attempt[v]
      <4>1. attempt' = [attempt EXCEPT ![w] = [Idle EXCEPT
                          !.pc = IF e \in marker THEN "ack" ELSE "handle", !.ev = e]]
        BY <3>2 DEF StartJob
      <4>2. attempt'[w].pc # "commit" /\ \A v \in Workers : v # w => attempt'[v] = attempt[v]
        BY <1>1, <4>1 DEF Idle
      <4> QED BY <4>2 DEF At
    <3>3. ASSUME NEW w \in Workers, Drops(w)
          PROVE  \A v \in Workers : At(v, "commit")' => attempt'[v] = attempt[v]
      BY <1>1, <3>3 DEF Drops, Idle, At
    <3>4. ASSUME NEW w \in Workers, GoesOn(w), ~At(w, "commit")'
          PROVE  \A v \in Workers : At(v, "commit")' => attempt'[v] = attempt[v]
      BY <3>4 DEF GoesOn, At
    <3>5. \/ UNCHANGED attempt
          \/ \E w \in Workers, e \in Event : StartJob(w, e)
          \/ \E w \in Workers : AckJob(w) \/ AttemptFails(w)
          \/ \E w \in Workers : /\ WorkerStep(w) /\ ~AckJob(w)
                                /\ ~\E e \in Event : StartJob(w, e)
      BY DEF BillingNext, DeliverWebhook, EvictJob, LoseMarker, JobStalls
    <3> QED BY <1>4, <3>1, <3>2, <3>3, <3>4, <3>5, HandlerGoesOn, EndDrops
  <2> QED BY <2>1, <2>2 DEF StockInv, NeverOversold, TakeIsThere, At
<1> QED BY <1>2, <1>3, <1>4

\* A return puts units back.
LEMMA ReturnsKeepStock ==
  ASSUME StateTypeOK, ReturnsTypeOK, ReturnsNext
  PROVE  \A l \in Locations : onHand'[l] \in Int /\ onHand'[l] >= onHand[l]
<1>1. \A l \in Locations : onHand[l] \in Int
  BY DEF StateTypeOK
<1>2. CASE UNCHANGED onHand
  BY <1>1, <1>2
<1>3. CASE \E k \in Clerks : RecordReturn(k)
  <2>1. PICK k \in Clerks : RecordReturn(k)
    BY <1>3
  <2>2. ~ClerkAt(k, "idle") /\ Restock(clerk[k].ret)
    BY <2>1 DEF RecordReturn, ClerkAt
  <2>3. returns[clerk[k].ret].qty \in Nat
    BY <2>2, ClerkReturn, CommerceAssumption
  <2>4. CASE ~UNCHANGED onHand
    <3>1. PICK l \in items : onHand' = [onHand EXCEPT ![l] = @ + returns[clerk[k].ret].qty]
      BY <2>2, <2>4 DEF Restock
    <3>2. onHand \in [Locations -> Int]
      BY DEF StateTypeOK
    <3> QED BY <2>3, <3>1, <3>2
  <2> QED BY <1>2, <2>4
<1>4. UNCHANGED onHand \/ \E k \in Clerks : RecordReturn(k)
  BY DEF ReturnsNext, RequestReturn, ClerkStep, OpenApprove, OpenReject, OpenRefund, Opens,
     Approve, Reject, SetReturnStatus, RefundReturn, RefundReturnRefused,
     RecordReturnConflict, ClerkInterrupted
<1> QED BY <1>2, <1>3, <1>4

\* Keepers that only receive stock.
LEMMA KeepersKeepStock ==
  ASSUME StateTypeOK, InventoryTypeOK, StockInv, Deltas \subseteq Nat, InventoryNext
  PROVE  /\ \A l \in Locations : onHand'[l] \in Int /\ onHand'[l] >= onHand[l]
         /\ \A x \in Keepers : keeper'[x].pc = "write" => keeper'[x].delta \in Nat
<1>1. keeper \in [Keepers -> [pc : KeeperPC, loc : Locations \cup {None}, delta : Int,
                              new : BOOLEAN]]
      /\ onHand \in [Locations -> Int]
  BY DEF InventoryTypeOK, StateTypeOK
<1>2. ASSUME NEW x \in Keepers, NEW l, NEW delta \in Deltas, Requests(x, l, delta)
      PROVE  /\ UNCHANGED onHand
             /\ \A y \in Keepers : keeper'[y].pc = "write" => keeper'[y].delta \in Nat
  <2>1. keeper' = [keeper EXCEPT ![x] = [pc |-> "write", loc |-> l, delta |-> delta,
                                         new |-> l \notin items]]
        /\ UNCHANGED onHand
    BY <1>2 DEF Requests
  <2>2. keeper'[x].delta = delta /\ \A y \in Keepers : y # x => keeper'[y] = keeper[y]
    BY <1>1, <2>1
  <2> QED BY <1>2, <2>1, <2>2 DEF StockInv
<1>3. ASSUME NEW x \in Keepers, WriteItem(x)
      PROVE  /\ \A l \in Locations : onHand'[l] \in Int /\ onHand'[l] >= onHand[l]
             /\ \A y \in Keepers : keeper'[y].pc = "write" => keeper'[y].delta \in Nat
  <2>1. keeper' = [keeper EXCEPT ![x] = Off] /\ Off.pc = "idle"
    BY <1>3 DEF WriteItem, Off
  <2>2. \A y \in Keepers : keeper'[y].pc = "write" => keeper'[y] = keeper[y]
    BY <1>1, <2>1
  <2>3. keeper[x].delta \in Nat
    BY <1>3 DEF WriteItem, StockInv
  <2>4. UNCHANGED onHand \/ onHand' = [onHand EXCEPT ![keeper[x].loc] = @ + keeper[x].delta]
    BY <1>3 DEF WriteItem, Move
  <2>5. \A l \in Locations : onHand'[l] \in Int /\ onHand'[l] >= onHand[l]
    BY <1>1, <2>3, <2>4
  <2> QED BY <2>2, <2>5 DEF StockInv
<1>4. \A l \in Locations : onHand[l] \in Int
  BY <1>1
<1> QED
  BY <1>2, <1>3, <1>4 DEF InventoryNext, ReadItemForCreate, ReadItemForAdjust

\* No location is driven below zero by sales, as long as no two captures are
\* between reading the stock and committing, and keepers only receive units.
THEOREM StockIsNeverOversold ==
  ASSUME Deltas \subseteq Nat
  PROVE  Spec /\ []OneCapture => []NeverOversold
<1>1. Init => StockInv
  <2> SUFFICES ASSUME Init PROVE StockInv
    OBVIOUS
  <2>1. NeverOversold
    BY StockAssumption DEF Init, StateInit, NeverOversold
  <2>2. \A w \in Workers : ~At(w, "commit")
    BY DEF Init, BillingInit, Idle, At
  <2>3. \A x \in Keepers : keeper[x].pc # "write"
    BY DEF Init, InventoryInit, Off
  <2> QED BY <2>1, <2>2, <2>3 DEF StockInv
<1>2. TypeInv /\ OneCapture /\ StockInv /\ [Next]_vars => StockInv'
  <2> SUFFICES ASSUME TypeInv, OneCapture, StockInv, [Next]_vars PROVE StockInv'
    OBVIOUS
  <2>1. StateTypeOK /\ BillingTypeOK /\ ReturnsTypeOK /\ InventoryTypeOK
    BY DEF TypeInv, TypeOK
  <2>2. \A l \in Locations : onHand[l] \in Int
    BY <2>1 DEF StateTypeOK
  <2>3. CASE UNCHANGED <<onHand, attempt, keeper>>
    BY <2>3 DEF StockInv, NeverOversold, TakeIsThere, At
  <2>4. CASE BillingNext /\ UNCHANGED keeper
    BY <2>1, <2>4, BillingKeepsStock DEF StockInv
  <2>5. CASE ReturnsNext /\ UNCHANGED <<attempt, keeper>>
    BY <2>1, <2>5, ReturnsKeepStock, GrowthKeepsStock DEF StockInv
  <2>6. CASE InventoryNext /\ UNCHANGED attempt
    BY <2>1, <2>6, KeepersKeepStock, GrowthKeepsStock DEF StockInv
  <2>7. CASE UNCHANGED vars
    BY <2>3, <2>7 DEF vars, billingVars, inventoryVars
  <2>8. CASE StripeNext /\ UNCHANGED <<billingVars, inventoryVars>>
    BY <2>3, <2>8 DEF StripeNext, CardDeclined, Pay, DashboardRefund, billingVars, inventoryVars
  <2>9. CASE CheckoutNext /\ UNCHANGED <<billingVars, inventoryVars>>
    BY <2>3, <2>9 DEF CheckoutNext, CheckoutStep, ReadCart, ReadLastNumber, CreateOrder,
       CreateOrderConflict, CreateSession, RecordSession, RespondWithUrl,
       SessionStepFails, DeleteOrder, CheckoutInterrupted, billingVars, inventoryVars
  <2>10. CASE OrderRefundsNext /\ UNCHANGED <<billingVars, inventoryVars>>
    BY <2>3, <2>10 DEF OrderRefundsNext, RefundStep, ReadPayment, RefundPayment, RefundRefused,
       RecordRefund, RecordRefundConflict, RefundInterrupted, billingVars, inventoryVars
  <2> QED BY <2>4, <2>5, <2>6, <2>7, <2>8, <2>9, <2>10 DEF Next, billingVars, inventoryVars
<1>3. StockInv => NeverOversold
  BY DEF StockInv
<1> QED BY <1>1, <1>2, <1>3, TypesHold, PTL DEF Spec
-----------------------------------------------------------------------------
(* How far an event has got. *)

\* The event of an order's payment.
Payment(o) == [type |-> "completed", order |-> o, upto |-> 0]

\* Its capture is still to come: not taken up yet, or not committed.
StillToCome(o) ==
  \/ job[Payment(o)].status \in {"none", "waiting"}
  \/ \E w \in Workers : /\ EventOf(w) = Payment(o)
                        /\ At(w, "handle") \/ At(w, "lock") \/ At(w, "commit")

\* Somebody has finished with the event, or is past what its handler does.
PastHandler(w) == At(w, "notify") \/ At(w, "enqueue") \/ At(w, "mark") \/ At(w, "ack")

Handled(e) ==
  \/ e \in marker
  \/ job[e].status = "completed"
  \/ \E w \in Workers : EventOf(w) = e /\ PastHandler(w)

LEMMA PaymentIsEvent ==
  /\ \A o \in Orders : Payment(o) \in Event
  /\ \A e \in Event : e.type = "completed" => e = Payment(e.order)
<1>1. \A o \in Orders : Payment(o) \in [type : {"completed", "failed"}, order : Orders, upto : {0}]
  BY DEF Payment
<1>2. ASSUME NEW e \in Event, e.type = "completed" PROVE e = Payment(e.order)
  <2>1. e \in [type : {"completed", "failed"}, order : Orders, upto : {0}]
    BY <1>2 DEF Event
  <2>2. e = [type |-> e.type, order |-> e.order, upto |-> e.upto] /\ e.upto = 0
    BY <2>1
  <2> QED BY <1>2, <2>2 DEF Payment
<1> QED BY <1>1, <1>2 DEF Event

\* Every step of the billing worker is one of these.
LEMMA BillingMoves ==
  ASSUME BillingTypeOK, BillingNext
  PROVE  \/ \E e \in Event : DeliverWebhook(e) \/ EvictJob(e) \/ LoseMarker(e)
         \/ \E w \in Workers, e \in Event : StartJob(w, e)
         \/ \E w \in Workers : AckJob(w) \/ AttemptFails(w) \/ JobStalls(w)
         \/ \E w \in Workers : /\ WorkerStep(w) /\ ~AckJob(w)
                               /\ ~\E e \in Event : StartJob(w, e)
BY DEF BillingNext

\* With no failed attempt, no stall and no eviction, an event is taken up once:
\* its capture does not come back, and once committed it is no more to come.
Calm == Stalls = 0 /\ WorkerFaults = 0 /\ Evictions = 0

LEMMA CapturesComeOnce ==
  ASSUME BillingTypeOK, OwnsAll, Calm, BillingNext, NEW o \in Orders
  PROVE  /\ StillToCome(o)' => StillToCome(o)
         /\ \A w \in Workers : CaptureOrder(w) /\ EventOf(w) = Payment(o) => ~StillToCome(o)'
<1> DEFINE p == Payment(o)
           Ahead(w) == At(w, "handle") \/ At(w, "lock") \/ At(w, "commit")
<1>1. attempt \in [Workers -> AttemptRow] /\ job \in Jobs
  BY DEF BillingTypeOK, AttemptRow, Jobs
<1>2. p \in Event
  BY PaymentIsEvent
<1> HIDE DEF p
<1>3. \A kind \in {"evict", "fail", "stall"} : ~Inject(kind, 0)
  <2>1. \A kind \in {"evict", "fail", "stall"} : faults[kind] \in Nat
    BY DEF BillingTypeOK
  <2> QED BY <2>1 DEF Inject
<1>4. ASSUME NEW e \in Event, DeliverWebhook(e) \/ EvictJob(e) \/ LoseMarker(e)
      PROVE  UNCHANGED attempt /\ (StillToCome(o)' => StillToCome(o))
  <2>1. ~EvictJob(e)
    BY <1>3 DEF EvictJob, Calm
  <2>2. UNCHANGED attempt
    BY <1>4 DEF DeliverWebhook, EvictJob, LoseMarker
  <2>3. job'[p].status \in {"none", "waiting"} => job[p].status \in {"none", "waiting"}
    BY <1>1, <1>2, <1>4, <2>1 DEF DeliverWebhook, LoseMarker, Jobs
  <2> QED BY <2>2, <2>3 DEF StillToCome, EventOf, At, p
<1>5. ASSUME NEW w \in Workers, NEW e \in Event, StartJob(w, e)
      PROVE  StillToCome(o)' => StillToCome(o)
  <2>1. job[e].status = "waiting"
        /\ job' = [job EXCEPT ![e].status = "active", ![e].owner = w, ![e].tries = @ + 1]
    BY <1>5 DEF StartJob
  <2>2. attempt' = [attempt EXCEPT ![w] = [Idle EXCEPT
                      !.pc = IF e \in marker THEN "ack" ELSE "handle", !.ev = e]]
    BY <1>5 DEF StartJob
  <2>3. attempt'[w].ev = e /\ \A v \in Workers : v # w => attempt'[v] = attempt[v]
    BY <1>1, <2>2 DEF Idle
  <2>4. CASE e = p
    BY <2>1, <2>4 DEF StillToCome, p
  <2>5. CASE e # p
    <3>1. job'[p] = job[p]
      BY <1>1, <1>2, <2>1, <2>5 DEF Jobs
    <3> QED BY <2>3, <2>5, <3>1 DEF StillToCome, EventOf, At, p
  <2> QED BY <2>4, <2>5
<1>6. ASSUME NEW w \in Workers, AckJob(w)
      PROVE  StillToCome(o)' => StillToCome(o)
  <2>1. attempt'[w].pc = "idle" /\ \A v \in Workers : v # w => attempt'[v] = attempt[v]
    BY <1>1, <1>6 DEF AckJob, Idle
  <2>2. \/ job' = job
        \/ job' = [job EXCEPT ![EventOf(w)] = [@ EXCEPT !.status = "completed", !.owner = None]]
    BY <1>6 DEF AckJob
  <2>3. job'[p] = job[p] \/ job'[p].status = "completed"
    BY <1>1, <1>2, <2>2 DEF Jobs
  <2> QED BY <2>1, <2>3 DEF StillToCome, EventOf, At, p
<1>7. ASSUME NEW w \in Workers, AttemptFails(w) \/ JobStalls(w) PROVE FALSE
  BY <1>3, <1>7 DEF AttemptFails, JobStalls, Calm
<1>8. ASSUME NEW w \in Workers, WorkerStep(w), ~AckJob(w), ~\E e \in Event : StartJob(w, e)
      PROVE  /\ StillToCome(o)' => StillToCome(o)
             /\ CaptureOrder(w) /\ EventOf(w) = p => ~StillToCome(o)'
  <2>1. /\ GoesOn(w) /\ (Ahead(w)' => Ahead(w))
        /\ CaptureOrder(w) => ~Ahead(w)'
    <3>1. /\ GoesOn(w) /\ ~At(w, "handle")'
          /\ At(w, "lock")' => OnCheckoutCompleted(w)
          /\ At(w, "commit")' => LockOrderAndReadStock(w)
      BY <1>8, HandlerGoesOn
    <3>2. CaptureOrder(w) => ~OnCheckoutCompleted(w) /\ ~LockOrderAndReadStock(w)
      BY DEF CaptureOrder, OnCheckoutCompleted, LockOrderAndReadStock, At
    <3>3. Ahead(w)' => Ahead(w)
      BY <3>1 DEF OnCheckoutCompleted, LockOrderAndReadStock
    <3>4. CaptureOrder(w) => ~Ahead(w)'
      BY <3>1, <3>2
    <3> QED BY <3>1, <3>3, <3>4
  <2>2. StillToCome(o)' => StillToCome(o)
    BY <2>1 DEF StillToCome, GoesOn, EventOf, At, p
  <2>3. ASSUME CaptureOrder(w), EventOf(w) = p
        PROVE  ~StillToCome(o)'
    <3>1. Working(w) /\ OwnsJob(w)
      BY <2>1 DEF GoesOn, OwnsAll
    <3>2. job'[p].status = "active"
      BY <2>1, <2>3, <3>1 DEF GoesOn, OwnsJob
    <3>3. \A v \in Workers : EventOf(v) = p /\ Ahead(v) => v = w
      <4> SUFFICES ASSUME NEW v \in Workers, EventOf(v) = p, Ahead(v) PROVE v = w
        OBVIOUS
      <4>1. Working(v)
        BY DEF Working, At
      <4> QED BY <2>3, <3>1, <4>1, OwnersAreAlone DEF OneAttempt
    <3>4. \A v \in Workers : ~(EventOf(v)' = p /\ Ahead(v)')
      BY <2>1, <2>3, <3>3 DEF GoesOn, EventOf, At
    <3> QED BY <3>2, <3>4 DEF StillToCome, p
  <2> QED BY <2>2, <2>3
<1>9. ASSUME NEW w \in Workers, CaptureOrder(w)
      PROVE  WorkerStep(w) /\ ~AckJob(w) /\ ~\E e \in Event : StartJob(w, e)
  BY <1>9 DEF WorkerStep, CaptureOrder, AckJob, StartJob, At, Working
<1>10. StillToCome(o)' => StillToCome(o)
  BY <1>4, <1>5, <1>6, <1>7, <1>8, BillingMoves
<1> QED BY <1>8, <1>9, <1>10 DEF p

\* An event is handled only by its handler: not by a marker set too early, a
\* job completed unseen, or the bookkeeping of another event.
LEMMA HandledByHandler ==
  ASSUME BillingTypeOK, BillingNext, NEW e \in Event, Handled(e)'
  PROVE  \/ Handled(e)
         \/ \E w \in Workers :
              /\ EventOf(w) = e
              /\ \/ OnCheckoutCompleted(w) /\ At(w, "mark")'
                 \/ CaptureOrder(w) \/ OnPaymentFailed(w)
                 \/ OnChargeRefundedUnknown(w) \/ OnChargeRefunded(w)
<1> DEFINE Acts(w) == \/ OnCheckoutCompleted(w) /\ At(w, "mark")'
                      \/ CaptureOrder(w) \/ OnPaymentFailed(w)
                      \/ OnChargeRefundedUnknown(w) \/ OnChargeRefunded(w)
<1>1. attempt \in [Workers -> AttemptRow] /\ job \in Jobs
  BY DEF BillingTypeOK, AttemptRow, Jobs
<1>2. ASSUME NEW d \in Event, DeliverWebhook(d) \/ EvictJob(d) \/ LoseMarker(d)
      PROVE  Handled(e)
  <2>1. UNCHANGED attempt /\ marker' \subseteq marker
    BY <1>2 DEF DeliverWebhook, EvictJob, LoseMarker
  <2>2. job'[e].status = "completed" => job[e].status = "completed"
    BY <1>1, <1>2 DEF DeliverWebhook, EvictJob, LoseMarker, Jobs
  <2> QED BY <2>1, <2>2 DEF Handled, PastHandler, EventOf, At
<1>3. ASSUME NEW w \in Workers, NEW d \in Event, StartJob(w, d)
      PROVE  Handled(e)
  <2>1. attempt' = [attempt EXCEPT ![w] = [Idle EXCEPT
                      !.pc = IF d \in marker THEN "ack" ELSE "handle", !.ev = d]]
        /\ UNCHANGED marker
    BY <1>3 DEF StartJob
  <2>2. /\ attempt'[w].ev = d /\ \A v \in Workers : v # w => attempt'[v] = attempt[v]
        /\ d \notin marker => attempt'[w].pc = "handle"
    BY <1>1, <2>1 DEF Idle
  <2>3. job'[e].status = "completed" => job[e].status = "completed"
    BY <1>1, <1>3 DEF StartJob, Jobs
  <2> QED BY <2>1, <2>2, <2>3 DEF Handled, PastHandler, EventOf, At
<1>4. ASSUME NEW w \in Workers, AckJob(w) \/ AttemptFails(w) \/ JobStalls(w)
      PROVE  Handled(e)
  <2>1. UNCHANGED marker
    BY <1>4 DEF AckJob, AttemptFails, JobStalls
  <2>2. \A v \in Workers : PastHandler(v)' => PastHandler(v) /\ EventOf(v)' = EventOf(v)
    <3>1. attempt' = [attempt EXCEPT ![w] = Idle] \/ UNCHANGED attempt
      BY <1>4 DEF AckJob, AttemptFails, JobStalls
    <3> QED BY <1>1, <3>1 DEF PastHandler, At, EventOf, Idle
  <2>3. job'[e].status = "completed" => \/ job[e].status = "completed"
                                        \/ EventOf(w) = e /\ PastHandler(w)
    <3>1. CASE AckJob(w)
      BY <1>1, <3>1 DEF AckJob, PastHandler, Jobs
    <3>2. CASE AttemptFails(w) \/ JobStalls(w)
      <4>1. \/ job' = job
            \/ \E s \in {"waiting", "failed"} :
                 \/ job' = [job EXCEPT ![EventOf(w)] = [@ EXCEPT !.owner = None, !.status = s]]
                 \/ job' = [job EXCEPT ![EventOf(w)] = [@ EXCEPT !.status = s, !.owner = None]]
        BY <3>2 DEF AttemptFails, JobStalls
      <4>2. job'[e] = job[e] \/ job'[e].status \in {"waiting", "failed"}
        BY <1>1, <4>1 DEF Jobs
      <4> QED BY <4>2
    <3> QED BY <1>4, <3>1, <3>2
  <2> QED BY <2>1, <2>2, <2>3 DEF Handled
<1>5. ASSUME NEW w \in Workers, WorkerStep(w), ~AckJob(w), ~\E d \in Event : StartJob(w, d)
      PROVE  Handled(e) \/ \E v \in Workers : EventOf(v) = e /\ Acts(v)
  <2>1. /\ GoesOn(w)
        /\ At(w, "notify")' => CaptureOrder(w)
        /\ \/ At(w, "handle") \/ At(w, "lock") \/ At(w, "commit") \/ At(w, "notify")
           \/ At(w, "enqueue") \/ At(w, "mark")
    BY <1>5, HandlerGoesOn
  <2>2. \/ marker' = marker
        \/ At(w, "mark") /\ marker' = marker \cup {EventOf(w)}
    <3>1. CASE MarkProcessed(w)
      BY <3>1 DEF MarkProcessed
    <3>2. CASE ~MarkProcessed(w)
      <4>1. OnCheckoutCompleted(w) \/ LockOrderAndReadStock(w) \/ CaptureOrder(w)
            => marker' = marker
        BY DEF OnCheckoutCompleted, LockOrderAndReadStock, CaptureOrder
      <4>2. CreateConfirmation(w) \/ EnqueueConfirmation(w) => marker' = marker
        BY DEF CreateConfirmation, EnqueueConfirmation
      <4>3. OnPaymentFailed(w) \/ OnChargeRefundedUnknown(w) \/ OnChargeRefunded(w)
            => marker' = marker
        BY DEF OnPaymentFailed, OnChargeRefundedUnknown, OnChargeRefunded
      <4> QED BY <1>5, <3>2, <4>1, <4>2, <4>3 DEF WorkerStep
    <3> QED BY <3>1, <3>2
  <2>3. PastHandler(w)' => PastHandler(w) \/ Acts(w)
    <3>1. CASE OnCheckoutCompleted(w)
      <4>1. Continue(w, "mark") \/ Continue(w, "lock")
        BY <3>1 DEF OnCheckoutCompleted
      <4>2. attempt'[w].pc \in {"mark", "lock"}
        BY <1>1, <4>1 DEF Continue, AttemptRow
      <4> QED BY <3>1, <4>2 DEF PastHandler, At
    <3>2. CASE LockOrderAndReadStock(w)
      <4>1. \E take, units : attempt' = [attempt EXCEPT ![w] =
              [@ EXCEPT !.pc = "commit", !.take = take, !.units = units]]
        BY <3>2 DEF LockOrderAndReadStock
      <4>2. attempt'[w].pc = "commit"
        BY <1>1, <4>1 DEF AttemptRow
      <4> QED BY <4>2 DEF PastHandler, At
    <3>3. CASE CreateConfirmation(w) \/ EnqueueConfirmation(w) \/ MarkProcessed(w)
      BY <3>3 DEF CreateConfirmation, EnqueueConfirmation, MarkProcessed, PastHandler
    <3> QED BY <1>5, <3>1, <3>2, <3>3 DEF WorkerStep
  <2>4. job'[e] = job[e]
    BY <2>1 DEF GoesOn
  <2> HIDE DEF Acts
  <2>5. CASE \E v \in Workers : EventOf(v)' = e /\ PastHandler(v)'
    BY <2>1, <2>3, <2>5 DEF Handled, GoesOn, PastHandler, EventOf, At
  <2>6. CASE e \in marker'
    BY <2>2, <2>6 DEF Handled, PastHandler
  <2> QED BY <2>4, <2>5, <2>6 DEF Handled
<1> QED BY <1>2, <1>3, <1>4, <1>5, BillingMoves

-----------------------------------------------------------------------------
(***************************************************************************)
(* The money: what the tables say of payments and refunds is what Stripe    *)
(* has done, for every number of orders, workers, requests, faults and      *)
(* redeliveries.                                                            *)
(***************************************************************************)

(***************************************************************************)
(* The inductive invariant.  That a refund row is backed is not inductive:  *)
(* the admin request and the returns desk carry a Stripe refund from one    *)
(* transaction to the next, and an event carries one through the queue.     *)
(***************************************************************************)
Complete(o) == session[o].st = "complete"
Captured(o) == orders[o].status \in {"PAID", "REFUNDED"}
LooksPaid(o) == orders[o].financial # "UNPAID" \/ Captured(o)
HasUrl(o) == session[o].st \in {"payable", "complete"}

\* Stripe's refund `id' of an order exists and is of this amount.
Made(o, id, amt) == id \in DOMAIN stripeRefunds[o] /\ stripeRefunds[o][id].amt = amt

StripeIsPaid ==
  /\ \A e \in events : e.type # "failed" => Complete(e.order)
  /\ \A o \in Orders : stripeRefunds[o] # << >> => Complete(o)

UrlsComeLast ==
  \A o \in Orders : /\ HasUrl(o) => checkout[o].pc = "done" /\ OrderExists(o)
                    /\ checkout[o].pc = "recorded" => OrderExists(o)

BooksArePaid == \A o \in Orders : LooksPaid(o) => Complete(o)

CapturesAreOfPayments ==
  \A w \in Workers : At(w, "lock") \/ At(w, "commit") => EventOf(w).type = "completed"

RowsAreBacked == \A o \in Orders : \A row \in refunds[o] : Made(o, row.id, row.amt)

RequestsAreBacked ==
  \A a \in Admins :
    refunding[a].pc = "record" => Made(refunding[a].order, refunding[a].id, refunding[a].amt)

ClerkIsBacked(k) ==
  ClerkAt(k, "record") /\ clerk[k].paid =>
    Made(OrderOfReturn(clerk[k].ret), clerk[k].id, AmountOf(clerk[k].ret))

DeskIsBacked == \A k \in Clerks : ClerkIsBacked(k)

MoneyInv ==
  /\ StripeIsPaid
  /\ UrlsComeLast
  /\ BooksArePaid
  /\ CapturesAreOfPayments
  /\ RowsAreBacked
  /\ RequestsAreBacked
  /\ DeskIsBacked

USE DEF sharedVars, orderVars, moneyVars, stockVars, stripeVars

-----------------------------------------------------------------------------
(* Stripe only moves forward, and what rests on it stays. *)

Forward ==
  /\ \A o \in Orders : Complete(o) => Complete(o)'
  /\ \A o \in Orders : \A id \in DOMAIN stripeRefunds[o] :
       id \in DOMAIN stripeRefunds'[o] /\ stripeRefunds'[o][id] = stripeRefunds[o][id]

LEMMA MadeStays ==
  ASSUME Forward, NEW o \in Orders, NEW id, NEW amt, Made(o, id, amt)
  PROVE  Made(o, id, amt)'
BY DEF Forward, Made

LEMMA StandstillIsForward ==
  ASSUME UNCHANGED <<session, stripeRefunds>> PROVE Forward
BY DEF Forward, Complete

LEMMA RowsStay ==
  ASSUME RowsAreBacked, Forward, UNCHANGED refunds PROVE RowsAreBacked'
<1> SUFFICES ASSUME NEW o \in Orders, NEW row \in refunds[o]
             PROVE  Made(o, row.id, row.amt)'
  BY DEF RowsAreBacked
<1>1. Made(o, row.id, row.amt)
  BY DEF RowsAreBacked
<1> QED BY <1>1 DEF Forward, Made

LEMMA RequestsStay ==
  ASSUME RequestsAreBacked, OrderRefundsTypeOK, Forward, UNCHANGED refunding
  PROVE  RequestsAreBacked'
<1> SUFFICES ASSUME NEW a \in Admins, refunding[a].pc = "record"
             PROVE  Made(refunding[a].order, refunding[a].id, refunding[a].amt)'
  BY DEF RequestsAreBacked
<1>1. Made(refunding[a].order, refunding[a].id, refunding[a].amt)
  BY DEF RequestsAreBacked
<1>2. refunding[a].order \in Orders
  BY DEF OrderRefundsTypeOK
<1> QED BY <1>1, <1>2 DEF Forward, Made

\* Returns that were requested keep their order and quantity, and each clerk
\* goes on as before or with a refund that was made.
LEMMA DeskGoesOn ==
  ASSUME DeskIsBacked, ReturnsTypeOK, Forward,
         \A r \in ReturnIds : returns[r].status # "ABSENT" =>
           returns'[r].order = returns[r].order /\ returns'[r].qty = returns[r].qty,
         \A k \in Clerks : clerk'[k] = clerk[k] \/ ClerkIsBacked(k)'
  PROVE  DeskIsBacked'
<1> SUFFICES ASSUME NEW k \in Clerks, clerk'[k] = clerk[k], ClerkAt(k, "record")', clerk[k].paid'
             PROVE  Made(OrderOfReturn(clerk[k].ret), clerk[k].id, AmountOf(clerk[k].ret))'
  BY DEF DeskIsBacked, ClerkIsBacked
<1>1. ClerkAt(k, "record") /\ ~ClerkAt(k, "idle") /\ clerk[k].paid
  BY DEF ClerkAt
<1>2. Made(OrderOfReturn(clerk[k].ret), clerk[k].id, AmountOf(clerk[k].ret))
  BY <1>1 DEF DeskIsBacked, ClerkIsBacked
<1>3. OrderOfReturn(clerk[k].ret) \in Orders
      /\ clerk[k].ret \in ReturnIds /\ returns[clerk[k].ret].status # "ABSENT"
  BY <1>1, ClerkReturn
<1>4. /\ OrderOfReturn(clerk[k].ret)' = OrderOfReturn(clerk[k].ret)
      /\ AmountOf(clerk[k].ret)' = AmountOf(clerk[k].ret)
  BY <1>3 DEF OrderOfReturn, AmountOf
<1> QED BY <1>2, <1>3, <1>4 DEF Forward, Made

LEMMA DeskStays ==
  ASSUME DeskIsBacked, ReturnsTypeOK, Forward, UNCHANGED <<clerk, returns>>
  PROVE  DeskIsBacked'
BY DeskGoesOn

LEMMA StripeStays ==
  ASSUME StripeIsPaid, StateTypeOK, Forward, UNCHANGED <<stripeRefunds, events>>
  PROVE  StripeIsPaid'
<1>1. \A e \in events : e.order \in Orders
  BY DEF StateTypeOK, Event
<1> QED BY <1>1 DEF StripeIsPaid, Forward

LEMMA BooksStay ==
  ASSUME BooksArePaid, Forward,
         \A o \in Orders : LooksPaid(o)' => LooksPaid(o) \/ Complete(o)
  PROVE  BooksArePaid'
BY DEF BooksArePaid, Forward

LEMMA CapturesStay ==
  ASSUME CapturesAreOfPayments, UNCHANGED attempt PROVE CapturesAreOfPayments'
BY DEF CapturesAreOfPayments, At, EventOf

\* Checkout requests at rest, sessions as they were, orders at most added.
LEMMA UrlsStay ==
  ASSUME UrlsComeLast, UNCHANGED checkout,
         \A o \in Orders : HasUrl(o)' => HasUrl(o),
         \A o \in Orders : OrderExists(o) => OrderExists(o)'
  PROVE  UrlsComeLast'
BY DEF UrlsComeLast

\* A refund that Stripe makes.
LEMMA RefundIsForward ==
  ASSUME StateTypeOK, StripeIsPaid, NEW o \in Orders, NEW amt, NEW n,
         CanRefund(o, amt), StripeRefund(o, amt), n = NextRefundId(o)
  PROVE  /\ Forward
         /\ Made(o, n, amt)'
         /\ StripeIsPaid'
<1> DEFINE Row == [amt |-> amt, cum |-> Refunded(o) + amt]
           e == [type |-> "refunded", order |-> o, upto |-> NextRefundId(o)]
<1>1. stripeRefunds' = [stripeRefunds EXCEPT ![o] = Append(@, Row)]
      /\ events' = events \cup {e} /\ UNCHANGED session
  BY DEF StripeRefund
<1>2. Row.amt = amt /\ e.order = o
  OBVIOUS
<1>3. NextRefundId(o) = Len(stripeRefunds[o]) + 1
  BY DEF NextRefundId
<1> HIDE DEF Row, e
<1>4. PICK R : stripeRefunds \in [Orders -> Seq(R)]
  BY DEF StateTypeOK
<1>5. stripeRefunds' = [p \in Orders |-> IF p = o THEN Append(stripeRefunds[o], Row)
                                                  ELSE stripeRefunds[p]]
  BY <1>1, <1>4
<1>6. /\ \A id \in DOMAIN stripeRefunds[o] :
             id \in DOMAIN stripeRefunds'[o] /\ stripeRefunds'[o][id] = stripeRefunds[o][id]
      /\ Len(stripeRefunds[o]) + 1 \in DOMAIN stripeRefunds'[o]
      /\ stripeRefunds'[o][Len(stripeRefunds[o]) + 1] = Row
  <2> DEFINE s == stripeRefunds[o]
             S == R \cup {Row}
  <2>1. s \in Seq(S) /\ Row \in S
    BY <1>4
  <2>2. stripeRefunds'[o] = Append(s, Row)
    BY <1>5
  <2> HIDE DEF s, S
  <2>3. /\ Len(Append(s, Row)) = Len(s) + 1
        /\ \A i \in 1 .. Len(s) : Append(s, Row)[i] = s[i]
        /\ Append(s, Row)[Len(s) + 1] = Row
        /\ DOMAIN s = 1 .. Len(s) /\ DOMAIN Append(s, Row) = 1 .. Len(s) + 1
        /\ Len(s) \in Nat
    BY <2>1
  <2> QED BY <2>2, <2>3 DEF s
<1>7. \A p \in Orders : p # o => stripeRefunds'[p] = stripeRefunds[p]
  BY <1>5
<1>8. Forward
  BY <1>1, <1>6, <1>7 DEF Forward, Complete
<1>9. Made(o, n, amt)'
  <2>1. n \in DOMAIN stripeRefunds'[o] /\ stripeRefunds'[o][n].amt = amt
    BY <1>2, <1>3, <1>6
  <2> QED BY <2>1 DEF Made
<1>10. Complete(o)
  BY DEF CanRefund, Complete
<1>11. StripeIsPaid'
  BY <1>1, <1>2, <1>7, <1>10 DEF StripeIsPaid, Complete
<1> QED BY <1>8, <1>9, <1>11

-----------------------------------------------------------------------------
(* Every action keeps the invariant. *)

\* What holds of the state that a step starts from.
Before == TypeInv /\ MoneyInv

\* What the services may do to the books of an order that has been paid for.
BooksMove(o) ==
  /\ Complete(o)
  /\ \A p \in Orders : p # o => orders'[p] = orders[p]
  /\ orders'[o].financial # "UNPAID"
  /\ orders'[o].status \in {orders[o].status, "PAID", "REFUNDED"}
  /\ orders'[o].number = orders[o].number

Capture(o) ==
  /\ BooksMove(o)
  /\ orders'[o].status = "PAID" /\ orders'[o].financial = "PAID"
  /\ UNCHANGED refunds
  /\ \E w \in Workers : CaptureOrder(w) /\ OrderOf(w) = o

Bookkeeping(o) ==
  /\ BooksMove(o)
  /\ stripeRefunds[o] # << >>
  /\ orders'[o].status \in {orders[o].status, "REFUNDED"}
  /\ \E ids \in SUBSET DOMAIN stripeRefunds[o] :
       refunds' = [refunds EXCEPT ![o] = @ \cup {RefundRow(o, id) : id \in ids}]

BookSteps ==
  /\ UNCHANGED stripeVars
  /\ \/ UNCHANGED <<orders, refunds>>
     \/ \E o \in Orders : Capture(o)
     \/ \E o \in Orders : Bookkeeping(o)

\* Money given back, with the books left for later.
GivesBack(o, amt) ==
  /\ CanRefund(o, amt)
  /\ StripeRefund(o, amt)
  /\ UNCHANGED <<orders, refunds>>

\* What a step of a service past checkout means for money.
ServiceStep ==
  \/ BookSteps
  \/ \E o \in Orders, amt \in 1 .. Total : GivesBack(o, amt)

\* Checkout, whose orders have no money yet, and declined cards.
NoMoney ==
  /\ \A o \in Orders : Complete(o)' <=> Complete(o)
  /\ \A o \in Orders : orders'[o].financial = "UNPAID" <=> orders[o].financial = "UNPAID"
  /\ \A o \in Orders : /\ LooksPaid(o) => orders'[o] = orders[o]
                       /\ LooksPaid(o)' => LooksPaid(o)
  /\ UNCHANGED <<refunds, stripeRefunds>>
  /\ events \subseteq events'

\* What a step means for money.
MoneyStep ==
  \/ ServiceStep
  \/ \E o \in Orders : Pay(o)
  \/ NoMoney

\* A component that leaves Stripe and the other components alone.
LEMMA OthersStay ==
  ASSUME Before, Forward
  PROVE  /\ UNCHANGED refunds => RowsAreBacked'
         /\ UNCHANGED refunding => RequestsAreBacked'
         /\ UNCHANGED <<clerk, returns>> => DeskIsBacked'
         /\ UNCHANGED attempt => CapturesAreOfPayments'
         /\ UNCHANGED orders => BooksArePaid'
         /\ UNCHANGED <<stripeRefunds, events>> => StripeIsPaid'
<1>1. /\ RowsAreBacked /\ RequestsAreBacked /\ DeskIsBacked /\ CapturesAreOfPayments
      /\ BooksArePaid /\ StripeIsPaid
      /\ StateTypeOK /\ OrderRefundsTypeOK /\ ReturnsTypeOK
  BY DEF Before, MoneyInv, TypeInv, TypeOK
<1>2. UNCHANGED orders => BooksArePaid'
  BY <1>1, BooksStay DEF LooksPaid, Captured
<1> QED BY <1>1, <1>2, RowsStay, RequestsStay, DeskStays, CapturesStay, StripeStays

\* The buyer and the dashboard.
LEMMA StripeKeepsMoney ==
  ASSUME Before, StripeNext,
         UNCHANGED <<checkoutVars, billingVars, refundingVars, returnVars, inventoryVars>>
  PROVE  MoneyInv' /\ MoneyStep
<1>1. StateTypeOK /\ StripeIsPaid /\ UrlsComeLast
  BY DEF Before, MoneyInv, TypeInv, TypeOK
<1>2. PICK o \in Orders : CardDeclined(o) \/ Pay(o) \/ DashboardRefund(o)
  BY DEF StripeNext
<1>3. UNCHANGED <<checkout, refunding, clerk, returns, attempt, refunds, orders>>
  BY <1>2 DEF CardDeclined, Pay, DashboardRefund, checkoutVars, refundingVars, returnVars,
              billingVars
<1>4. Forward /\ StripeIsPaid' /\ \A p \in Orders : HasUrl(p)' => HasUrl(p)
  <2>1. CASE CardDeclined(o)
    <3> DEFINE e == [type |-> "failed", order |-> o, upto |-> 0]
    <3>1. events' = events \cup {e} /\ UNCHANGED <<session, stripeRefunds>>
      BY <2>1 DEF CardDeclined
    <3>2. e.type = "failed"
      OBVIOUS
    <3> HIDE DEF e
    <3>3. StripeIsPaid'
      BY <1>1, <3>1, <3>2 DEF StripeIsPaid, Complete
    <3> QED BY <3>1, <3>3, StandstillIsForward DEF HasUrl
  <2>2. CASE Pay(o)
    <3> DEFINE e == [type |-> "completed", order |-> o, upto |-> 0]
    <3>1. /\ events' = events \cup {e} /\ UNCHANGED stripeRefunds
          /\ session[o].st = "payable"
          /\ session' = [session EXCEPT ![o].st = "complete"]
      BY <2>2 DEF Pay
    <3>2. e.order = o
      OBVIOUS
    <3> HIDE DEF e
    <3>3. /\ session'[o].st = "complete"
          /\ \A p \in Orders : p # o => session'[p] = session[p]
      BY <1>1, <3>1 DEF StateTypeOK
    <3>4. Forward
      BY <3>1, <3>3 DEF Forward, Complete
    <3>5. \A f \in events : f.order \in Orders
      BY <1>1 DEF StateTypeOK, Event
    <3>6. StripeIsPaid'
      BY <1>1, <3>1, <3>2, <3>3, <3>4, <3>5 DEF StripeIsPaid, Forward, Complete
    <3>7. \A p \in Orders : HasUrl(p)' => HasUrl(p)
      BY <3>1, <3>3 DEF HasUrl
    <3> QED BY <3>4, <3>6, <3>7
  <2>3. CASE DashboardRefund(o)
    <3>1. PICK amt \in 1 .. Total : CanRefund(o, amt) /\ StripeRefund(o, amt)
      BY <2>3 DEF DashboardRefund
    <3>2. UNCHANGED session
      BY <3>1 DEF StripeRefund
    <3> QED BY <1>1, <3>1, <3>2, RefundIsForward DEF HasUrl
  <2> QED BY <1>2, <2>1, <2>2, <2>3
<1>5. UrlsComeLast'
  BY <1>1, <1>3, <1>4, UrlsStay DEF OrderExists
<1>6. MoneyStep
  <2>1. CASE CardDeclined(o)
    <3>1. NoMoney
      BY <2>1 DEF CardDeclined, NoMoney, Complete, LooksPaid, Captured
    <3> QED BY <3>1 DEF MoneyStep
  <2>2. CASE Pay(o)
    BY <2>2 DEF MoneyStep
  <2>3. CASE DashboardRefund(o)
    BY <2>3 DEF DashboardRefund, GivesBack, ServiceStep, MoneyStep
  <2> QED BY <1>2, <2>1, <2>2, <2>3
<1> QED BY <1>3, <1>4, <1>5, <1>6, OthersStay DEF MoneyInv

-----------------------------------------------------------------------------
\* Checkout works on orders that cannot have been paid for.
LEMMA CheckoutIsEarlier ==
  ASSUME MoneyInv, NEW o \in Orders, checkout[o].pc # "done"
  PROVE  ~HasUrl(o) /\ ~Complete(o) /\ ~LooksPaid(o)
BY DEF MoneyInv, UrlsComeLast, BooksArePaid, HasUrl, Complete

\* The sessions and orders of other requests stay as they are.
OnlyOf(o) ==
  /\ \A p \in Orders : p # o => /\ session'[p] = session[p]
                                /\ orders'[p] = orders[p]
                                /\ checkout'[p] = checkout[p]
  /\ UNCHANGED <<refunds, events, stripeRefunds>>

\* A step of a checkout either stops short of the URL or hands it out.
LEMMA CheckoutSteps ==
  ASSUME Before, NEW o \in Orders,
         ReadCart(o) \/ CheckoutStep(o) \/ SessionStepFails(o) \/ CheckoutInterrupted(o)
  PROVE  /\ OnlyOf(o)
         /\ checkout[o].pc # "done"
         /\ session'[o].st # "complete"
         /\ ~LooksPaid(o)'
         /\ \/ /\ ~HasUrl(o)'
               /\ checkout'[o].pc = "recorded" => OrderExists(o)'
            \/ /\ checkout'[o].pc = "done" /\ OrderExists(o)'
<1>1. /\ session \in [Orders -> [st : SessionState, cart : Carts \cup {None}]]
      /\ orders \in OrderRows
      /\ checkout \in [Orders -> [pc : CheckoutPC, cart : Carts \cup {None}, number : Nat]]
  BY DEF Before, TypeInv, TypeOK, StateTypeOK, CheckoutTypeOK, OrderRows
<1>2. checkout[o].pc # "done"
  BY DEF ReadCart, CheckoutStep, ReadLastNumber, CreateOrder, CreateOrderConflict,
     CreateSession, RecordSession, RespondWithUrl, DeleteOrder, SessionStepFails,
     CheckoutInterrupted, Goto
<1>3. ~HasUrl(o) /\ ~Complete(o) /\ ~LooksPaid(o)
  BY <1>2, CheckoutIsEarlier DEF Before
<1>4. CASE ReadCart(o) \/ ReadLastNumber(o) \/ CreateOrderConflict(o) \/ CheckoutInterrupted(o)
  <2>1. UNCHANGED sharedVars
    BY <1>4 DEF ReadCart, ReadLastNumber, CreateOrderConflict, CheckoutInterrupted
  <2>2. checkout'[o].pc \in {"cartRead", "numbered", "failed"}
        /\ \A p \in Orders : p # o => checkout'[p] = checkout[p]
    BY <1>1, <1>4 DEF ReadCart, ReadLastNumber, CreateOrderConflict, CheckoutInterrupted, Goto
  <2> QED BY <1>2, <1>3, <2>1, <2>2 DEF OnlyOf, HasUrl, Complete, LooksPaid, Captured
<1>5. CASE CreateOrder(o)
  <2>1. UNCHANGED <<session, refunds, events, stripeRefunds>>
    BY <1>5 DEF CreateOrder
  <2>2. ~LooksPaid(o)' /\ \A p \in Orders : p # o => orders'[p] = orders[p]
    BY <1>1, <1>5 DEF CreateOrder, OrderRows, LooksPaid, Captured
  <2>3. checkout'[o].pc = "created" /\ \A p \in Orders : p # o => checkout'[p] = checkout[p]
    BY <1>1, <1>5 DEF CreateOrder, Goto
  <2> QED BY <1>2, <1>3, <2>1, <2>2, <2>3 DEF OnlyOf, HasUrl, Complete, LooksPaid, Captured
<1>6. CASE CreateSession(o) \/ SessionStepFails(o)
  <2>1. UNCHANGED <<orders, refunds, events, stripeRefunds>>
    BY <1>6 DEF CreateSession, SessionStepFails
  <2>2. session' = session \/ session' = [session EXCEPT ![o] = NewSession(o)]
    BY <1>6 DEF CreateSession, SessionStepFails
  <2>3. NewSession(o).st = "open"
    BY DEF NewSession
  <2>4. ~HasUrl(o)' /\ session'[o].st # "complete"
        /\ \A p \in Orders : p # o => session'[p] = session[p]
    BY <1>1, <1>3, <2>2, <2>3 DEF HasUrl, Complete
  <2>5. checkout'[o].pc \in {"opened", "undo"}
        /\ \A p \in Orders : p # o => checkout'[p] = checkout[p]
    BY <1>1, <1>6 DEF CreateSession, SessionStepFails, Goto
  <2> QED BY <1>2, <1>3, <2>1, <2>4, <2>5 DEF OnlyOf, LooksPaid, Captured
<1>7. CASE RecordSession(o)
  <2>1. UNCHANGED <<session, refunds, events, stripeRefunds>>
    BY <1>7 DEF RecordSession
  <2>2. /\ ~LooksPaid(o)' /\ orders'[o].status = "PENDING"
        /\ \A p \in Orders : p # o => orders'[p] = orders[p]
    BY <1>1, <1>3, <1>7 DEF RecordSession, OrderRows, LooksPaid, Captured
  <2>3. \A p \in Orders : p # o => checkout'[p] = checkout[p]
    BY <1>1, <1>7 DEF RecordSession, Goto
  <2> QED BY <1>2, <1>3, <2>1, <2>2, <2>3 DEF OnlyOf, HasUrl, Complete, LooksPaid, Captured, OrderExists
<1>8. CASE RespondWithUrl(o)
  <2>1. UNCHANGED <<orders, refunds, events, stripeRefunds>>
    BY <1>8 DEF RespondWithUrl
  <2>2. /\ session'[o].st # "complete"
        /\ \A p \in Orders : p # o => session'[p] = session[p]
    BY <1>1, <1>8 DEF RespondWithUrl
  <2>3. /\ checkout[o].pc = "recorded" /\ checkout'[o].pc = "done"
        /\ \A p \in Orders : p # o => checkout'[p] = checkout[p]
    BY <1>1, <1>8 DEF RespondWithUrl, Goto
  <2>4. OrderExists(o)'
    BY <2>1, <2>3 DEF Before, MoneyInv, UrlsComeLast, OrderExists
  <2> QED BY <1>2, <1>3, <2>1, <2>2, <2>3, <2>4 DEF OnlyOf, LooksPaid, Captured
<1>9. CASE DeleteOrder(o)
  <2>1. UNCHANGED <<session, refunds, events, stripeRefunds>>
    BY <1>9 DEF DeleteOrder
  <2>2. ~LooksPaid(o)' /\ \A p \in Orders : p # o => orders'[p] = orders[p]
    BY <1>1, <1>9 DEF DeleteOrder, NoOrderRow, OrderRows, LooksPaid, Captured
  <2>3. checkout'[o].pc = "failed" /\ \A p \in Orders : p # o => checkout'[p] = checkout[p]
    BY <1>1, <1>9 DEF DeleteOrder, Goto
  <2> QED BY <1>2, <1>3, <2>1, <2>2, <2>3 DEF OnlyOf, HasUrl, Complete, LooksPaid, Captured
<1> QED BY <1>4, <1>5, <1>6, <1>7, <1>8, <1>9 DEF CheckoutStep

LEMMA CheckoutKeepsMoney ==
  ASSUME Before, CheckoutNext,
         UNCHANGED <<billingVars, refundingVars, returnVars, inventoryVars>>
  PROVE  MoneyInv' /\ MoneyStep
<1>1. PICK o \in Orders :
        ReadCart(o) \/ CheckoutStep(o) \/ SessionStepFails(o) \/ CheckoutInterrupted(o)
  BY DEF CheckoutNext
<1>2. /\ OnlyOf(o)
      /\ checkout[o].pc # "done"
      /\ session'[o].st # "complete"
      /\ ~LooksPaid(o)'
      /\ \/ ~HasUrl(o)' /\ (checkout'[o].pc = "recorded" => OrderExists(o)')
         \/ checkout'[o].pc = "done" /\ OrderExists(o)'
  BY <1>1, CheckoutSteps
<1>3. UrlsComeLast /\ BooksArePaid
  BY DEF Before, MoneyInv
<1>4. Forward
  BY <1>2, CheckoutIsEarlier DEF Before, Forward, OnlyOf, Complete
<1>5. UrlsComeLast'
  BY <1>2, <1>3 DEF UrlsComeLast, OnlyOf, HasUrl, OrderExists
<1>6. BooksArePaid'
  BY <1>2, <1>3 DEF BooksArePaid, OnlyOf, Complete, LooksPaid, Captured
<1>7. UNCHANGED <<attempt, refunding, clerk, returns, refunds, stripeRefunds, events>>
  BY <1>2 DEF billingVars, refundingVars, returnVars, OnlyOf
<1>8. NoMoney
  BY <1>2, CheckoutIsEarlier DEF Before, NoMoney, OnlyOf, Complete, LooksPaid, Captured
<1> QED BY <1>4, <1>5, <1>6, <1>7, <1>8, OthersStay DEF MoneyInv, MoneyStep

-----------------------------------------------------------------------------
\* A worker reaches a capture only with the event of a payment.
LEMMA BillingKeepsCaptures ==
  ASSUME Before, BillingNext
  PROVE  CapturesAreOfPayments'
<1>1. CapturesAreOfPayments /\ BillingTypeOK
  BY DEF Before, MoneyInv, TypeInv, TypeOK
<1>2. attempt \in Attempts
  BY <1>1 DEF BillingTypeOK, Attempts
<1>3. CASE \E e \in Event : DeliverWebhook(e) \/ EvictJob(e) \/ LoseMarker(e)
  BY <1>1, <1>3, CapturesStay DEF DeliverWebhook, EvictJob, LoseMarker
<1>4. CASE \E w \in Workers : JobStalls(w)
  BY <1>1, <1>4, CapturesStay DEF JobStalls
<1>5. CASE \E w \in Workers : \/ WorkerStep(w) /\ ~\E e \in Event : StartJob(w, e)
                              \/ AttemptFails(w)
  <2>1. PICK w \in Workers : \/ WorkerStep(w) /\ ~\E e \in Event : StartJob(w, e)
                             \/ AttemptFails(w)
    BY <1>5
  <2>2. \/ attempt' = [attempt EXCEPT ![w] = Idle]
        \/ \E pc \in {"notify", "enqueue", "mark", "ack"} : Continue(w, pc)
        \/ EventOf(w).type = "completed" /\ Continue(w, "lock")
        \/ /\ At(w, "lock")
           /\ \E take, units : attempt' = [attempt EXCEPT ![w] =
                [@ EXCEPT !.pc = "commit", !.take = take, !.units = units]]
    BY <2>1 DEF WorkerStep, AttemptFails, OnCheckoutCompleted, LockOrderAndReadStock,
       CaptureOrder, CreateConfirmation, EnqueueConfirmation, OnPaymentFailed,
       OnChargeRefundedUnknown, OnChargeRefunded, MarkProcessed, AckJob
  <2>3. \A v \in Workers : v # w => attempt'[v] = attempt[v]
    BY <1>2, <2>2 DEF Continue, Attempts
  <2>4. attempt'[w].pc \in {"lock", "commit"} =>
          attempt'[w].ev = attempt[w].ev /\ EventOf(w).type = "completed"
    <3>1. CASE attempt' = [attempt EXCEPT ![w] = Idle]
      BY <1>2, <3>1 DEF Idle, Attempts
    <3>2. CASE \E pc \in {"notify", "enqueue", "mark", "ack"} : Continue(w, pc)
      BY <1>2, <3>2 DEF Continue, Attempts
    <3>3. CASE EventOf(w).type = "completed" /\ Continue(w, "lock")
      BY <1>2, <3>3 DEF Continue, Attempts
    <3>4. CASE /\ At(w, "lock")
               /\ \E take, units : attempt' = [attempt EXCEPT ![w] =
                    [@ EXCEPT !.pc = "commit", !.take = take, !.units = units]]
      <4>1. EventOf(w).type = "completed"
        BY <1>1, <3>4 DEF CapturesAreOfPayments
      <4>2. attempt'[w].ev = attempt[w].ev
        BY <1>2, <3>4 DEF Attempts
      <4> QED BY <4>1, <4>2
    <3> QED BY <2>2, <3>1, <3>2, <3>3, <3>4
  <2> QED BY <1>1, <2>3, <2>4 DEF CapturesAreOfPayments, At, EventOf
<1>6. CASE \E w \in Workers, e \in Event : StartJob(w, e)
  <2>1. PICK w \in Workers, e \in Event : StartJob(w, e)
    BY <1>6
  <2>2. attempt' = [attempt EXCEPT ![w] = [Idle EXCEPT
                      !.pc = IF e \in marker THEN "ack" ELSE "handle", !.ev = e]]
    BY <2>1 DEF StartJob
  <2>3. \A v \in Workers : v # w => attempt'[v] = attempt[v]
    BY <1>2, <2>2 DEF Attempts
  <2>4. attempt'[w].pc \notin {"lock", "commit"}
    BY <1>2, <2>2 DEF Attempts, Idle
  <2> QED BY <1>1, <2>3, <2>4 DEF CapturesAreOfPayments, At, EventOf
<1> QED BY <1>3, <1>4, <1>5, <1>6 DEF BillingNext

\* A refund entered in the books moves the order as a whole.
LEMMA AdvanceMoves ==
  ASSUME StateTypeOK, NEW o \in Orders, Complete(o), NEW fully \in BOOLEAN,
         AdvanceRefunded(o, fully)
  PROVE  BooksMove(o) /\ orders'[o].status \in {orders[o].status, "REFUNDED"}
<1>1. orders \in OrderRows
  BY DEF StateTypeOK, OrderRows
<1>2. CASE fully
  BY <1>1, <1>2 DEF AdvanceRefunded, OrderRows, BooksMove
<1>3. CASE ~fully
  <2>1. orders' = [orders EXCEPT ![o].financial = "PARTIALLY_REFUNDED", ![o].status = @]
    BY <1>3 DEF AdvanceRefunded
  <2> QED BY <1>1, <2>1 DEF OrderRows, BooksMove
<1> QED BY <1>2, <1>3

\* Billing changes the books of orders only that have been paid for, and enters
\* refunds only that Stripe has made.
LEMMA BillingSteps ==
  ASSUME Before, BillingNext
  PROVE  BookSteps
<1>1. /\ BillingTypeOK /\ JobsAreEvents /\ StateTypeOK /\ EventsAreTrue
      /\ StripeIsPaid /\ CapturesAreOfPayments
  BY DEF Before, MoneyInv, TypeInv, TypeOK
<1>2. UNCHANGED stripeVars
  BY DEF BillingNext, WorkerStep, DeliverWebhook, EvictJob, LoseMarker, StartJob,
     OnCheckoutCompleted, LockOrderAndReadStock, CaptureOrder, CreateConfirmation,
     EnqueueConfirmation, OnPaymentFailed, OnChargeRefundedUnknown, OnChargeRefunded,
     MarkProcessed, AckJob, AttemptFails, JobStalls
<1>3. CASE ~\E w \in Workers : CaptureOrder(w) \/ OnChargeRefunded(w)
  <2>1. UNCHANGED <<orders, refunds>>
    BY <1>3 DEF BillingNext, WorkerStep, DeliverWebhook, EvictJob, LoseMarker, StartJob,
       OnCheckoutCompleted, LockOrderAndReadStock, CreateConfirmation,
       EnqueueConfirmation, OnPaymentFailed, OnChargeRefundedUnknown,
       MarkProcessed, AckJob, AttemptFails, JobStalls
  <2> QED BY <1>2, <2>1 DEF BookSteps
<1>4. CASE \E w \in Workers : CaptureOrder(w)
  <2>1. PICK w \in Workers : CaptureOrder(w)
    BY <1>4
  <2>2. At(w, "commit") /\ Working(w)
    BY <2>1 DEF CaptureOrder, At, Working
  <2>3. OrderOf(w) \in Orders /\ EventOf(w) \in events
    BY <1>1, <2>2, WorkingEvent
  <2>4. Complete(OrderOf(w))
    BY <1>1, <2>2, <2>3 DEF CapturesAreOfPayments, StripeIsPaid, OrderOf
  <2>5. /\ orders' = [orders EXCEPT ![OrderOf(w)].status = "PAID",
                                    ![OrderOf(w)].financial = "PAID"]
        /\ UNCHANGED refunds
    BY <2>1 DEF CaptureOrder
  <2>6. /\ BooksMove(OrderOf(w))
        /\ orders'[OrderOf(w)].status = "PAID" /\ orders'[OrderOf(w)].financial = "PAID"
    BY <1>1, <2>3, <2>4, <2>5 DEF BooksMove, StateTypeOK
  <2> QED BY <1>2, <2>1, <2>3, <2>5, <2>6 DEF Capture, BookSteps
<1>5. CASE \E w \in Workers : OnChargeRefunded(w)
  <2>1. PICK w \in Workers : OnChargeRefunded(w)
    BY <1>5
  <2> DEFINE o == OrderOf(w)
             upto == EventOf(w).upto
             ids == Missing(o, upto)
  <2>2. Working(w) /\ EventOf(w).type = "refunded"
    BY <2>1 DEF OnChargeRefunded, At, Working
  <2>3. o \in Orders /\ EventOf(w) \in events
    BY <1>1, <2>2, WorkingEvent
  <2>4. upto \in DOMAIN stripeRefunds[o] /\ stripeRefunds[o] # << >> /\ Complete(o)
    BY <1>1, <2>2, <2>3 DEF EventsAreTrue, StripeIsPaid, OrderOf
  <2>5. ids \in SUBSET DOMAIN stripeRefunds[o]
    <3>1. stripeRefunds[o] \in Seq([amt : 1 .. Total, cum : 1 .. Total])
      BY <1>1, <2>3 DEF StateTypeOK
    <3> QED BY <2>4, <3>1 DEF Missing
  <2>6. refunds' = [refunds EXCEPT ![o] = @ \cup {RefundRow(o, id) : id \in ids}]
    BY <2>1 DEF OnChargeRefunded
  <2>7. AdvanceRefunded(o, CoversPayment(RefundedAfter(o, upto)))
    BY <2>1 DEF OnChargeRefunded
  <2>8. CoversPayment(RefundedAfter(o, upto)) \in BOOLEAN
    BY DEF CoversPayment
  <2> HIDE DEF ids, o, upto
  <2>9. BooksMove(o) /\ orders'[o].status \in {orders[o].status, "REFUNDED"}
    BY <1>1, <2>3, <2>4, <2>7, <2>8, AdvanceMoves
  <2>10. Bookkeeping(o)
    BY <2>4, <2>5, <2>6, <2>9 DEF Bookkeeping
  <2> QED BY <1>2, <2>3, <2>10 DEF BookSteps
<1> QED BY <1>3, <1>4, <1>5

\* Rows entered from Stripe's own refunds are backed.
LEMMA EntriesAreBacked ==
  ASSUME StateTypeOK, RowsAreBacked, UNCHANGED stripeRefunds,
         NEW o \in Orders, NEW ids \in SUBSET DOMAIN stripeRefunds[o],
         refunds' = [refunds EXCEPT ![o] = @ \cup {RefundRow(o, id) : id \in ids}]
  PROVE  RowsAreBacked'
<1>1. /\ refunds'[o] = refunds[o] \cup {RefundRow(o, id) : id \in ids}
      /\ \A p \in Orders : p # o => refunds'[p] = refunds[p]
  BY DEF StateTypeOK
<1>2. \A id \in ids : Made(o, RefundRow(o, id).id, RefundRow(o, id).amt)
  BY DEF Made, RefundRow
<1> QED BY <1>1, <1>2 DEF RowsAreBacked, Made

\* The parts of the invariant that the books and Stripe's side make true.
TablesAgree == /\ StripeIsPaid /\ UrlsComeLast /\ BooksArePaid /\ RowsAreBacked

LEMMA BooksAgree ==
  ASSUME Before, BookSteps, UNCHANGED checkout
  PROVE  Forward /\ TablesAgree'
<1>1. StateTypeOK /\ UrlsComeLast /\ BooksArePaid /\ RowsAreBacked
  BY DEF Before, MoneyInv, TypeInv, TypeOK
<1>2. UNCHANGED stripeVars
  BY DEF BookSteps
<1>3. Forward
  BY <1>2, StandstillIsForward
<1>4. \/ UNCHANGED <<orders, refunds>>
      \/ \E o \in Orders : BooksMove(o)
  BY DEF BookSteps, Capture, Bookkeeping
<1>5. \A p \in Orders : OrderExists(p) => OrderExists(p)'
  BY <1>4 DEF OrderExists, BooksMove
<1>6. \A p \in Orders : LooksPaid(p)' => LooksPaid(p) \/ Complete(p)
  BY <1>4 DEF BooksMove, LooksPaid, Captured
<1>7. UrlsComeLast'
  BY <1>1, <1>2, <1>5, UrlsStay DEF HasUrl
<1>8. BooksArePaid'
  BY <1>1, <1>3, <1>6, BooksStay
<1>9. RowsAreBacked'
  <2>1. CASE UNCHANGED refunds
    BY <1>1, <1>3, <2>1, RowsStay
  <2>2. CASE \E o \in Orders : Bookkeeping(o)
    BY <1>1, <1>2, <2>2, EntriesAreBacked DEF Bookkeeping
  <2> QED BY <2>1, <2>2 DEF BookSteps, Capture
<1> QED BY <1>2, <1>3, <1>7, <1>8, <1>9, OthersStay DEF TablesAgree

LEMMA BillingKeepsMoney ==
  ASSUME Before, BillingNext,
         UNCHANGED <<checkoutVars, refundingVars, returnVars, inventoryVars>>
  PROVE  MoneyInv' /\ ServiceStep
<1>1. UNCHANGED <<checkout, refunding, clerk, returns>>
  BY DEF checkoutVars, refundingVars, returnVars
<1>2. BookSteps
  BY BillingSteps
<1>3. Forward /\ TablesAgree'
  BY <1>1, <1>2, BooksAgree
<1> QED BY <1>1, <1>2, <1>3, OthersStay, BillingKeepsCaptures DEF MoneyInv, TablesAgree, ServiceStep

-----------------------------------------------------------------------------
LEMMA GivingBackAgrees ==
  ASSUME Before, NEW o \in Orders, NEW amt, NEW n,
         GivesBack(o, amt), n = NextRefundId(o), UNCHANGED checkout
  PROVE  Forward /\ TablesAgree' /\ Made(o, n, amt)'
<1>1. StateTypeOK /\ StripeIsPaid /\ UrlsComeLast
  BY DEF Before, MoneyInv, TypeInv, TypeOK
<1>2. Forward /\ Made(o, n, amt)' /\ StripeIsPaid'
  BY <1>1, RefundIsForward DEF GivesBack
<1>3. UNCHANGED session /\ UNCHANGED <<orders, refunds>>
  BY DEF GivesBack, StripeRefund
<1>4. UrlsComeLast'
  BY <1>1, <1>3, UrlsStay DEF HasUrl, OrderExists
<1> QED BY <1>2, <1>3, <1>4, OthersStay DEF TablesAgree

\* The admin's refunds: a request has Stripe refund a payment, or enters in
\* the books the refund that Stripe made for it, or does neither.
LEMMA OrderRefundsKeepsMoney ==
  ASSUME Before, OrderRefundsNext,
         UNCHANGED <<checkoutVars, billingVars, returnVars, inventoryVars>>
  PROVE  MoneyInv' /\ ServiceStep
<1>1. /\ StateTypeOK /\ OrderRefundsTypeOK /\ StripeIsPaid /\ RequestsAreBacked
  BY DEF Before, MoneyInv, TypeInv, TypeOK
<1>2. UNCHANGED <<checkout, attempt, clerk, returns>>
  BY DEF checkoutVars, billingVars, returnVars
<1>3. PICK a \in Admins : ReadPayment(a) \/ RefundStep(a) \/ RefundInterrupted(a)
  BY DEF OrderRefundsNext
<1> DEFINE Row == [pc : RefundPC, order : Orders \cup {None}, amt : 0 .. Total, id : 0 .. MaxRefunds]
<1>4. refunding \in [Admins -> Row]
  BY <1>1 DEF OrderRefundsTypeOK
<1>5. PICK o : o = refunding[a].order
  OBVIOUS
<1>6. PICK amt : amt = refunding[a].amt
  OBVIOUS
<1>7. PICK n : n = NextRefundId(o)
  OBVIOUS
<1>8. refunding[a].pc # "idle" => o \in Orders /\ amt \in 1 .. Total
  <2>1. refunding[a].amt \in 0 .. Total /\ Total \in Nat
    BY <1>4, CommerceAssumption DEF Total
  <2> QED BY <1>1, <1>5, <1>6, <2>1 DEF OrderRefundsTypeOK
<1>9. ASSUME Forward, \A b \in Admins : b # a => refunding'[b] = refunding[b],
             refunding'[a].pc = "record" =>
               Made(refunding[a].order, refunding[a].id, refunding[a].amt)'
      PROVE  RequestsAreBacked'
  <2> SUFFICES ASSUME NEW b \in Admins, refunding'[b].pc = "record"
               PROVE  Made(refunding[b].order, refunding[b].id, refunding[b].amt)'
    BY DEF RequestsAreBacked
  <2>1. CASE b = a
    BY <1>9, <2>1 DEF Made
  <2>2. CASE b # a
    <3>1. refunding'[b] = refunding[b] /\ refunding[b].order \in Orders
      BY <1>1, <1>9, <2>2 DEF OrderRefundsTypeOK
    <3>2. Made(refunding[b].order, refunding[b].id, refunding[b].amt)
      BY <1>1, <3>1 DEF RequestsAreBacked
    <3> QED BY <1>9, <3>1, <3>2 DEF Forward, Made
  <2> QED BY <2>1, <2>2
<1>10. CASE \/ ReadPayment(a) \/ RefundRefused(a) \/ RecordRefundConflict(a)
            \/ (RefundInterrupted(a) /\ UNCHANGED sharedVars)
  <2>1. UNCHANGED sharedVars
    BY <1>10 DEF ReadPayment, RefundRefused, RecordRefundConflict
  <2>2. BookSteps
    BY <2>1 DEF BookSteps
  <2>3. \A b \in Admins : b # a => refunding'[b] = refunding[b]
    BY <1>4, <1>10 DEF ReadPayment, RefundRefused, RecordRefundConflict, RefundInterrupted,
                       SetRefund
  <2>4. refunding'[a].pc # "record"
    BY <1>4, <1>10 DEF ReadPayment, RefundRefused, RecordRefundConflict, RefundInterrupted,
                       SetRefund
  <2> QED BY <1>2, <1>9, <2>2, <2>3, <2>4, BooksAgree, OthersStay DEF MoneyInv, TablesAgree, ServiceStep
<1>11. CASE RefundPayment(a) \/ (RefundInterrupted(a) /\ ~UNCHANGED sharedVars)
  <2>1. refunding[a].pc = "call" /\ GivesBack(o, amt)
    BY <1>5, <1>6, <1>11 DEF RefundPayment, RefundInterrupted, GivesBack
  <2>2. Forward /\ TablesAgree' /\ Made(o, n, amt)'
    BY <1>2, <1>7, <1>8, <2>1, GivingBackAgrees
  <2>3. \A b \in Admins : b # a => refunding'[b] = refunding[b]
    BY <1>4, <1>11 DEF RefundPayment, RefundInterrupted, SetRefund
  <2>4. /\ refunding'[a].order = o /\ refunding'[a].amt = amt
        /\ refunding'[a].pc = "record" => refunding'[a].id = n
    <3>1. CASE RefundPayment(a)
      <4>1. refunding' = [refunding EXCEPT ![a].pc = "record", ![a].id = n]
        BY <1>5, <1>7, <3>1 DEF RefundPayment
      <4> QED BY <1>4, <1>5, <1>6, <4>1
    <3>2. CASE RefundInterrupted(a)
      <4>1. refunding' = [refunding EXCEPT ![a].pc = "failed"]
        BY <3>2 DEF RefundInterrupted, SetRefund
      <4> QED BY <1>4, <1>5, <1>6, <4>1
    <3> QED BY <1>11, <3>1, <3>2
  <2>5. refunding'[a].pc = "record" =>
          Made(refunding[a].order, refunding[a].id, refunding[a].amt)'
    BY <2>2, <2>4 DEF Made
  <2> QED BY <1>2, <1>8, <1>9, <2>1, <2>2, <2>3, <2>5, OthersStay DEF MoneyInv, TablesAgree, ServiceStep
<1>12. CASE RecordRefund(a)
  <2>1. PICK id : id = refunding[a].id
    OBVIOUS
  <2>2. refunding[a].pc = "record" /\ o \in Orders /\ Made(o, id, amt)
    BY <1>1, <1>5, <1>6, <1>8, <1>12, <2>1 DEF RecordRefund, RequestsAreBacked
  <2>3. Complete(o) /\ stripeRefunds[o] # << >>
    BY <1>1, <2>2 DEF StripeIsPaid, Made
  <2>4. CoversPayment(amt) \in BOOLEAN /\ AdvanceRefunded(o, CoversPayment(amt))
    BY <1>5, <1>6, <1>12 DEF RecordRefund, CoversPayment
  <2>5. BooksMove(o) /\ orders'[o].status \in {orders[o].status, "REFUNDED"}
    BY <1>1, <2>2, <2>3, <2>4, AdvanceMoves
  <2>6. [id |-> id, amt |-> amt] = RefundRow(o, id)
    BY <2>2 DEF RefundRow, Made
  <2>7. refunds' = [refunds EXCEPT ![o] = @ \cup {RefundRow(o, i) : i \in {id}}]
    BY <1>5, <1>6, <1>12, <2>1, <2>6 DEF RecordRefund
  <2>8. {id} \in SUBSET DOMAIN stripeRefunds[o]
    BY <2>2 DEF Made
  <2>9. UNCHANGED stripeVars
    BY <1>12 DEF RecordRefund
  <2>10. BookSteps
    BY <2>2, <2>3, <2>5, <2>7, <2>8, <2>9 DEF BookSteps, Bookkeeping
  <2>11. /\ refunding'[a].pc = "done"
         /\ \A b \in Admins : b # a => refunding'[b] = refunding[b]
    BY <1>4, <1>12 DEF RecordRefund, SetRefund
  <2> QED BY <1>2, <1>9, <2>10, <2>11, BooksAgree, OthersStay DEF MoneyInv, TablesAgree, ServiceStep
<1> QED BY <1>3, <1>10, <1>11, <1>12 DEF RefundStep

-----------------------------------------------------------------------------
\* The returns desk: requests, and decisions that leave the money alone.
LEMMA DeskDecisions ==
  ASSUME ReturnsTypeOK,
         \/ \E r \in ReturnIds : RequestReturn(r)
         \/ \E k \in Clerks, r \in ReturnIds :
              OpenApprove(k, r) \/ OpenReject(k, r) \/ OpenRefund(k, r)
         \/ \E k \in Clerks : Approve(k) \/ Reject(k) \/ RefundReturnRefused(k)
                              \/ RecordReturnConflict(k) \/ ClerkInterrupted(k)
  PROVE  /\ UNCHANGED sharedVars
         /\ \A r \in ReturnIds : returns[r].status # "ABSENT" =>
              returns'[r].order = returns[r].order /\ returns'[r].qty = returns[r].qty
         /\ \A k \in Clerks : clerk'[k] = clerk[k] \/ ClerkIsBacked(k)'
<1>1. UNCHANGED sharedVars
  BY DEF RequestReturn, OpenApprove, OpenReject, OpenRefund, Opens, Approve, Reject,
         SetReturnStatus, RefundReturnRefused, RecordReturnConflict, ClerkInterrupted
<1>2. returns \in ReturnRows /\ clerk \in [Clerks -> DeskRow]
  BY DEF ReturnsTypeOK, ReturnRows, DeskRow
<1>3. CASE \E r \in ReturnIds : RequestReturn(r)
  <2>1. PICK r \in ReturnIds : RequestReturn(r)
    BY <1>3
  <2>2. /\ returns[r].status = "ABSENT" /\ UNCHANGED clerk
        /\ \E row : returns' = [returns EXCEPT ![r] = row]
    BY <2>1 DEF RequestReturn
  <2>3. \A s \in ReturnIds : s # r => returns'[s] = returns[s]
    BY <1>2, <2>2 DEF ReturnRows
  <2>4. \A s \in ReturnIds : returns[s].status # "ABSENT" =>
          returns'[s].order = returns[s].order /\ returns'[s].qty = returns[s].qty
    BY <2>2, <2>3
  <2>5. \A k \in Clerks : clerk'[k] = clerk[k] \/ ClerkIsBacked(k)'
    BY <2>2
  <2> QED BY <1>1, <2>4, <2>5
<1>4. CASE \E k \in Clerks, r \in ReturnIds :
             OpenApprove(k, r) \/ OpenReject(k, r) \/ OpenRefund(k, r)
  <2>1. PICK k \in Clerks, r \in ReturnIds :
          OpenApprove(k, r) \/ OpenReject(k, r) \/ OpenRefund(k, r)
    BY <1>4
  <2> DEFINE seen == payments[OrderOfReturn(r)] = "SUCCEEDED"
  <2>2. PICK pc \in {"approve", "reject", "call", "record"} :
          /\ clerk' = [clerk EXCEPT ![k] = [pc |-> pc, ret |-> r, id |-> 0, paid |-> seen]]
          /\ pc = "record" => ~seen
    BY <2>1 DEF OpenApprove, OpenReject, OpenRefund, Opens
  <2>3. clerk'[k].pc = pc /\ clerk'[k].paid = seen
    BY <1>2, <2>2
  <2>4. ClerkIsBacked(k)'
    BY <2>2, <2>3 DEF ClerkIsBacked, ClerkAt
  <2>5. \A j \in Clerks : j # k => clerk'[j] = clerk[j]
    BY <1>2, <2>2
  <2>6. UNCHANGED returns
    BY <2>1 DEF OpenApprove, OpenReject, OpenRefund, Opens
  <2> QED BY <1>1, <2>4, <2>5, <2>6
<1>5. CASE \E k \in Clerks : Approve(k) \/ Reject(k) \/ RefundReturnRefused(k)
                             \/ RecordReturnConflict(k) \/ ClerkInterrupted(k)
  <2>1. PICK k \in Clerks : Approve(k) \/ Reject(k) \/ RefundReturnRefused(k)
                           \/ RecordReturnConflict(k) \/ ClerkInterrupted(k)
    BY <1>5
  <2>2. ClerkLeaves(k)
    BY <2>1 DEF Approve, Reject, SetReturnStatus, RefundReturnRefused,
                RecordReturnConflict, ClerkInterrupted
  <2>3. clerk'[k].pc = "idle" /\ \A j \in Clerks : j # k => clerk'[j] = clerk[j]
    BY <2>2, LeaveDesk
  <2>4. ClerkIsBacked(k)'
    BY <2>3 DEF ClerkIsBacked, ClerkAt
  <2>5. returns' = returns \/ \E to : returns' = [returns EXCEPT ![clerk[k].ret].status = to]
    BY <2>1 DEF Approve, Reject, SetReturnStatus, RefundReturnRefused,
                RecordReturnConflict, ClerkInterrupted
  <2>6. \A r \in ReturnIds :
          returns'[r].order = returns[r].order /\ returns'[r].qty = returns[r].qty
    <3>1. CASE returns' = returns
      BY <3>1
    <3>2. ASSUME NEW to, returns' = [returns EXCEPT ![clerk[k].ret].status = to]
          PROVE  \A r \in ReturnIds :
                   returns'[r].order = returns[r].order /\ returns'[r].qty = returns[r].qty
      BY <1>2, <3>2 DEF ReturnRows
    <3> QED BY <2>5, <3>1, <3>2
  <2> QED BY <1>1, <2>3, <2>4, <2>6
<1> QED BY <1>3, <1>4, <1>5

LEMMA ReturnsKeepsMoney ==
  ASSUME Before, ReturnsNext,
         UNCHANGED <<checkoutVars, billingVars, refundingVars, inventoryVars>>
  PROVE  MoneyInv' /\ ServiceStep
<1>1. StateTypeOK /\ ReturnsTypeOK /\ StripeIsPaid /\ DeskIsBacked
  BY DEF Before, MoneyInv, TypeInv, TypeOK
<1>2. UNCHANGED <<checkout, attempt, refunding>>
  BY DEF checkoutVars, billingVars, refundingVars
<1>3. returns \in ReturnRows /\ clerk \in [Clerks -> DeskRow]
  BY <1>1 DEF ReturnsTypeOK, ReturnRows, DeskRow
<1>4. CASE ~\E k \in Clerks : RefundReturn(k) \/ RecordReturn(k)
  <2>1. /\ UNCHANGED sharedVars
        /\ \A r \in ReturnIds : returns[r].status # "ABSENT" =>
             returns'[r].order = returns[r].order /\ returns'[r].qty = returns[r].qty
        /\ \A k \in Clerks : clerk'[k] = clerk[k] \/ ClerkIsBacked(k)'
    BY <1>1, <1>4, DeskDecisions DEF ReturnsNext, ClerkStep
  <2>2. BookSteps
    BY <2>1 DEF BookSteps
  <2>3. Forward /\ TablesAgree'
    BY <1>2, <2>2, BooksAgree
  <2>4. DeskIsBacked'
    BY <1>1, <2>1, <2>3, DeskGoesOn
  <2> QED BY <1>2, <2>2, <2>3, <2>4, OthersStay DEF MoneyInv, TablesAgree, ServiceStep
<1>5. CASE \E k \in Clerks : RefundReturn(k)
  <2>1. PICK k \in Clerks : RefundReturn(k)
    BY <1>5
  <2>2. PICK r, o, amt : r = clerk[k].ret /\ o = OrderOfReturn(r) /\ amt = AmountOf(r)
    OBVIOUS
  <2>3. PICK n : n = NextRefundId(o)
    OBVIOUS
  <2>4. ~ClerkAt(k, "idle") /\ UNCHANGED returns
    BY <2>1 DEF RefundReturn, ClerkAt
  <2>5. o \in Orders /\ amt \in 1 .. Total
    BY <1>1, <2>2, <2>4, ClerkReturn
  <2>6. GivesBack(o, amt)
    BY <2>1, <2>2 DEF RefundReturn, GivesBack
  <2>7. Forward /\ TablesAgree' /\ Made(o, n, amt)'
    BY <1>2, <2>3, <2>5, <2>6, GivingBackAgrees
  <2>8. clerk' = [clerk EXCEPT ![k].pc = "record", ![k].id = n]
    BY <2>1, <2>2, <2>3 DEF RefundReturn
  <2>9. /\ clerk'[k].ret = r /\ clerk'[k].id = n
        /\ \A j \in Clerks : j # k => clerk'[j] = clerk[j]
    BY <1>3, <2>2, <2>8
  <2>10. OrderOfReturn(r)' = o /\ AmountOf(r)' = amt
    BY <2>2, <2>4 DEF OrderOfReturn, AmountOf
  <2>11. ClerkIsBacked(k)'
    BY <2>7, <2>9, <2>10 DEF ClerkIsBacked, Made, OrderOfReturn, AmountOf
  <2>12. DeskIsBacked'
    BY <1>1, <2>4, <2>7, <2>9, <2>11, DeskGoesOn
  <2> QED BY <1>2, <2>5, <2>6, <2>7, <2>12, OthersStay DEF MoneyInv, TablesAgree, ServiceStep
<1>6. CASE \E k \in Clerks : RecordReturn(k)
  <2>1. PICK k \in Clerks : RecordReturn(k)
    BY <1>6
  <2>2. PICK r, o, amt : r = clerk[k].ret /\ o = OrderOfReturn(r) /\ amt = AmountOf(r)
    OBVIOUS
  <2>3. PICK id : id = clerk[k].id
    OBVIOUS
  <2>4. ClerkAt(k, "record") /\ ~ClerkAt(k, "idle") /\ ClerkLeaves(k)
    BY <2>1 DEF RecordReturn, ClerkAt
  <2>5. o \in Orders
    BY <1>1, <2>2, <2>4, ClerkReturn
  <2>6. UNCHANGED stripeVars
    BY <2>1 DEF RecordReturn
  <2>7. BookSteps
    <3>1. CASE ~clerk[k].paid
      BY <2>1, <2>6, <3>1 DEF RecordReturn, BookSteps
    <3>2. CASE clerk[k].paid
      <4>1. Made(o, id, amt)
        BY <1>1, <2>2, <2>3, <2>4, <3>2 DEF DeskIsBacked, ClerkIsBacked
      <4>2. Complete(o) /\ stripeRefunds[o] # << >>
        BY <1>1, <2>5, <4>1 DEF StripeIsPaid, Made
      <4>3. [id |-> id, amt |-> amt] = RefundRow(o, id)
        BY <4>1 DEF RefundRow, Made
      <4>4. refunds' = [refunds EXCEPT ![o] = @ \cup {RefundRow(o, i) : i \in {id}}]
        BY <2>1, <2>2, <2>3, <3>2, <4>3 DEF RecordReturn
      <4>5. orders' = [orders EXCEPT ![o].financial =
                         IF amt >= Total THEN "REFUNDED" ELSE "PARTIALLY_REFUNDED"]
        BY <2>1, <2>2, <3>2 DEF RecordReturn
      <4>6. BooksMove(o) /\ orders'[o].status \in {orders[o].status, "REFUNDED"}
        BY <1>1, <2>5, <4>2, <4>5 DEF BooksMove, StateTypeOK
      <4>7. {id} \in SUBSET DOMAIN stripeRefunds[o]
        BY <4>1 DEF Made
      <4> QED BY <2>5, <2>6, <4>2, <4>4, <4>6, <4>7 DEF BookSteps, Bookkeeping
    <3> QED BY <3>1, <3>2
  <2>8. Forward /\ TablesAgree'
    BY <1>2, <2>7, BooksAgree
  <2>9. clerk'[k].pc = "idle" /\ \A j \in Clerks : j # k => clerk'[j] = clerk[j]
    BY <1>1, <2>4, LeaveDesk
  <2>10. ClerkIsBacked(k)'
    BY <2>9 DEF ClerkIsBacked, ClerkAt
  <2>11. \A s \in ReturnIds :
           returns'[s].order = returns[s].order /\ returns'[s].qty = returns[s].qty
    BY <1>3, <2>1 DEF RecordReturn, ReturnRows
  <2>12. DeskIsBacked'
    BY <1>1, <2>8, <2>9, <2>10, <2>11, DeskGoesOn
  <2> QED BY <1>2, <2>7, <2>8, <2>12, OthersStay DEF MoneyInv, TablesAgree, ServiceStep
<1> QED BY <1>4, <1>5, <1>6

\* Stock requests do not touch the money.
LEMMA InventoryKeepsMoney ==
  ASSUME Before, InventoryNext,
         UNCHANGED <<checkoutVars, billingVars, refundingVars, returnVars>>
  PROVE  MoneyInv' /\ ServiceStep
<1>1. UNCHANGED <<checkout, attempt, refunding, clerk, returns>>
  BY DEF checkoutVars, billingVars, refundingVars, returnVars
<1>2. UNCHANGED <<orders, refunds, stripeVars>>
  BY DEF InventoryNext, ReadItemForCreate, ReadItemForAdjust, Requests, WriteItem
<1>3. BookSteps
  BY <1>2 DEF BookSteps
<1> QED BY <1>1, <1>3, BooksAgree, OthersStay DEF MoneyInv, TablesAgree, ServiceStep

LEMMA MoneyStarts == Init => MoneyInv
<1> SUFFICES ASSUME Init PROVE MoneyInv
  OBVIOUS
<1>1. StripeIsPaid /\ BooksArePaid /\ RowsAreBacked
  BY DEF Init, StateInit, StripeIsPaid, BooksArePaid, RowsAreBacked, NoOrderRow, LooksPaid, Captured
<1>2. UrlsComeLast
  BY DEF Init, StateInit, CheckoutInit, UrlsComeLast, HasUrl
<1>3. CapturesAreOfPayments
  BY DEF Init, BillingInit, CapturesAreOfPayments, At, Idle
<1>4. RequestsAreBacked
  BY DEF Init, OrderRefundsInit, RequestsAreBacked, NoRefund
<1>5. DeskIsBacked
  BY DEF Init, ReturnsInit, DeskIsBacked, ClerkIsBacked, ClerkAt, AtDesk
<1> QED BY <1>1, <1>2, <1>3, <1>4, <1>5 DEF MoneyInv

LEMMA MoneyInductive ==
  ASSUME Before, [Next]_vars PROVE MoneyInv' /\ MoneyStep
<1>1. CASE UNCHANGED vars
  <2>1. UNCHANGED <<checkout, attempt, refunding, clerk, returns>> /\ BookSteps
    BY <1>1 DEF vars, checkoutVars, billingVars, refundingVars, returnVars, BookSteps
  <2> QED BY <2>1, BooksAgree, OthersStay DEF MoneyInv, TablesAgree, ServiceStep, MoneyStep
<1>2. CASE Next
  BY <1>2, StripeKeepsMoney, CheckoutKeepsMoney, BillingKeepsMoney, OrderRefundsKeepsMoney,
     ReturnsKeepsMoney, InventoryKeepsMoney DEF Next, MoneyStep
<1> QED BY <1>1, <1>2

-----------------------------------------------------------------------------
(* The theorems. *)

\* Types and money together: the inductive invariant of the books.
THEOREM MoneyHolds == Spec => [](TypeInv /\ MoneyInv)
<1>1. Init => TypeInv /\ MoneyInv
  BY InitTypes, MoneyStarts
<1>2. TypeInv /\ MoneyInv /\ [Next]_vars => TypeInv' /\ MoneyInv'
  BY TypesInductive, MoneyInductive DEF Before
<1> QED BY <1>1, <1>2, PTL DEF Spec

\* Whoever writes a refund row, the admin endpoint, the returns desk or the
\* webhook, it stands for one Stripe refund of that amount, and no Stripe refund
\* has two rows.
THEOREM RefundsBacked == Spec => []RefundsAreBacked
<1>1. TypeInv /\ MoneyInv => RefundsAreBacked
  <2> SUFFICES ASSUME TypeInv, MoneyInv PROVE RefundsAreBacked
    OBVIOUS
  <2>1. RowsAreBacked /\ refunds \in [Orders -> SUBSET [id : 1 .. MaxRefunds, amt : 1 .. Total]]
    BY DEF TypeInv, TypeOK, StateTypeOK, MoneyInv
  <2> SUFFICES ASSUME NEW o \in Orders, NEW row1 \in refunds[o], NEW row2 \in refunds[o]
               PROVE  /\ row1.id \in DOMAIN stripeRefunds[o]
                      /\ row1.amt = stripeRefunds[o][row1.id].amt
                      /\ row1.id = row2.id => row1 = row2
    BY DEF RefundsAreBacked
  <2>2. Made(o, row1.id, row1.amt) /\ Made(o, row2.id, row2.amt)
    BY <2>1 DEF RowsAreBacked
  <2>3. /\ row1 \in [id : 1 .. MaxRefunds, amt : 1 .. Total]
        /\ row2 \in [id : 1 .. MaxRefunds, amt : 1 .. Total]
    BY <2>1
  <2> QED BY <2>2, <2>3 DEF Made
<1> QED BY <1>1, MoneyHolds, PTL

\* The catch block of CheckoutService.checkout never deletes an order that
\* somebody can pay for.
THEOREM PayableExists == Spec => []PayableOrderExists
<1>1. TypeInv /\ MoneyInv => PayableOrderExists
  BY DEF MoneyInv, UrlsComeLast, HasUrl, PayableOrderExists
<1> QED BY <1>1, MoneyHolds, PTL

-----------------------------------------------------------------------------
(* The refinement of MoneyLedger. *)

LEMMA RefundedType ==
  ASSUME StateTypeOK, NEW o \in Orders PROVE Refunded(o) \in 0 .. Total
<1>1. Total \in Nat
  BY CommerceAssumption DEF Total
<1>2. CASE stripeRefunds[o] = << >>
  BY <1>1, <1>2 DEF Refunded, RefundedAfter
<1>3. CASE stripeRefunds[o] # << >>
  <2>1. stripeRefunds[o] \in Seq([amt : 1 .. Total, cum : 1 .. Total])
    BY DEF StateTypeOK
  <2>2. Len(stripeRefunds[o]) \in DOMAIN stripeRefunds[o]
        /\ stripeRefunds[o][Len(stripeRefunds[o])] \in [amt : 1 .. Total, cum : 1 .. Total]
    BY <1>3, <2>1, LastElement
  <2>3. Refunded(o) = stripeRefunds[o][Len(stripeRefunds[o])].cum
    BY <2>1, <2>2 DEF Refunded, RefundedAfter
  <2> QED BY <1>1, <2>2, <2>3
<1> QED BY <1>2, <1>3

\* Stripe's totals after a refund.
LEMMA RefundTotals ==
  ASSUME StateTypeOK, NEW o \in Orders, NEW amt \in 1 .. Total, StripeRefund(o, amt)
  PROVE  /\ Refunded(o)' = Refunded(o) + amt
         /\ Len(stripeRefunds'[o]) = Len(stripeRefunds[o]) + 1
         /\ \A p \in Orders : p # o => stripeRefunds'[p] = stripeRefunds[p]
<1> DEFINE Row == [amt |-> amt, cum |-> Refunded(o) + amt]
           s == stripeRefunds[o]
<1>1. stripeRefunds' = [stripeRefunds EXCEPT ![o] = Append(@, Row)]
  BY DEF StripeRefund
<1>2. Row.cum = Refunded(o) + amt
  OBVIOUS
<1> HIDE DEF Row
<1>3. /\ stripeRefunds'[o] = Append(stripeRefunds[o], Row)
      /\ \A p \in Orders : p # o => stripeRefunds'[p] = stripeRefunds[p]
  BY <1>1 DEF StateTypeOK
<1>4. PICK R : s \in Seq(R) /\ Row \in R
  <2>1. PICK Q : stripeRefunds[o] \in Seq(Q)
    BY DEF StateTypeOK
  <2>2. s \in Seq(Q \cup {Row})
    BY <2>1
  <2> QED BY <2>2
<1>5. /\ Len(Append(s, Row)) = Len(s) + 1 /\ Len(s) \in Nat
      /\ Append(s, Row)[Len(s) + 1] = Row
  <2> HIDE DEF s
  <2> QED BY <1>4
<1>6. Refunded(o)' = stripeRefunds'[o][Len(stripeRefunds'[o])].cum
  BY <1>3, <1>5 DEF Refunded, RefundedAfter
<1> QED BY <1>2, <1>3, <1>5, <1>6

LEMMA LedgerStarts == Init => Ledger!Init
<1> SUFFICES ASSUME Init PROVE Ledger!Init
  OBVIOUS
<1>1. \A o \in Orders : /\ session[o].st = "none" /\ orders[o].financial = "UNPAID"
                        /\ stripeRefunds[o] = << >> /\ refunds[o] = {}
  BY DEF Init, StateInit, NoOrderRow
<1>2. \A o \in Orders : Refunded(o) = 0 /\ Len(stripeRefunds[o]) = 0 /\ Recorded(o) = {}
  BY <1>1 DEF Refunded, RefundedAfter, Recorded
<1> QED BY <1>1, <1>2 DEF Ledger!Init

\* Steps that leave money and books alone are stutters of the ledger.
LEMMA NoMoneyStutters ==
  ASSUME NoMoney PROVE UNCHANGED Ledger!ledgerVars
BY DEF NoMoney, Complete, Ledger!ledgerVars, Refunded, RefundedAfter, Recorded

LEMMA LedgerStep ==
  ASSUME Before, MoneyStep PROVE [Ledger!Next]_(Ledger!ledgerVars)
<1>1. StateTypeOK
  BY DEF Before, TypeInv, TypeOK
<1>2. CASE NoMoney
  BY <1>2, NoMoneyStutters
<1>3. CASE BookSteps /\ UNCHANGED <<orders, refunds>>
  <2>1. NoMoney
    BY <1>3 DEF BookSteps, NoMoney, Complete, LooksPaid, Captured
  <2> QED BY <2>1, NoMoneyStutters
<1>4. ASSUME NEW o \in Orders, Pay(o)
      PROVE  Ledger!Next
  <2>1. /\ session[o].st = "payable" /\ session'[o].st = "complete"
        /\ \A p \in Orders : p # o => session'[p] = session[p]
        /\ UNCHANGED <<orders, refunds, stripeRefunds>>
    BY <1>1, <1>4 DEF Pay, StateTypeOK
  <2>2. Ledger!PayOnce(o)
    BY <2>1 DEF Ledger!PayOnce, Refunded, RefundedAfter, Recorded
  <2> QED BY <2>2 DEF Ledger!Next
<1>5. ASSUME NEW o \in Orders, BookSteps, Capture(o)
      PROVE  Ledger!Next
  <2>1. /\ session[o].st = "complete" /\ orders'[o].financial # "UNPAID"
        /\ \A p \in Orders : p # o => orders'[p] = orders[p]
        /\ UNCHANGED <<session, refunds, stripeRefunds>>
    BY <1>5 DEF BookSteps, Capture, BooksMove, Complete
  <2>2. Ledger!Recognise(o)
    BY <2>1 DEF Ledger!Recognise, Refunded, RefundedAfter, Recorded
  <2> QED BY <2>2 DEF Ledger!Next
<1>6. ASSUME NEW o \in Orders, BookSteps, Bookkeeping(o)
      PROVE  Ledger!Next
  <2>1. /\ session[o].st = "complete" /\ orders'[o].financial # "UNPAID"
        /\ \A p \in Orders : p # o => orders'[p] = orders[p]
        /\ UNCHANGED <<session, stripeRefunds>>
    BY <1>6 DEF BookSteps, Bookkeeping, BooksMove, Complete
  <2>2. PICK ids \in SUBSET DOMAIN stripeRefunds[o] :
          refunds' = [refunds EXCEPT ![o] = @ \cup {RefundRow(o, id) : id \in ids}]
    BY <1>6 DEF Bookkeeping
  <2>3. ids \in SUBSET (1 .. Len(stripeRefunds[o]))
    BY <1>1 DEF StateTypeOK
  <2>4. /\ refunds'[o] = refunds[o] \cup {RefundRow(o, id) : id \in ids}
        /\ \A p \in Orders : p # o => refunds'[p] = refunds[p]
    BY <1>1, <2>2 DEF StateTypeOK
  <2>5. \A id \in ids : RefundRow(o, id).id = id
    BY DEF RefundRow
  <2>6. Recorded(o)' = Recorded(o) \cup ids
    BY <2>4, <2>5 DEF Recorded
  <2>7. [p \in Orders |-> Recorded(p)]' =
          [[p \in Orders |-> Recorded(p)] EXCEPT ![o] = @ \cup ids]
    BY <2>4, <2>6 DEF Recorded
  <2>8. {p \in Orders : orders[p].financial # "UNPAID"}' =
          {p \in Orders : orders[p].financial # "UNPAID"} \cup {o}
    BY <2>1
  <2>9. Ledger!Book(o)
    BY <2>1, <2>3, <2>7, <2>8 DEF Ledger!Book, Refunded, RefundedAfter
  <2> QED BY <2>9 DEF Ledger!Next
<1>7. ASSUME NEW o \in Orders, NEW amt \in 1 .. Total, GivesBack(o, amt)
      PROVE  Ledger!Next
  <2>1. /\ session[o].st = "complete" /\ Refunded(o) + amt <= Total
        /\ UNCHANGED <<session, orders, refunds>> /\ StripeRefund(o, amt)
    BY <1>7 DEF GivesBack, CanRefund, StripeRefund
  <2>2. /\ Refunded(o)' = Refunded(o) + amt
        /\ Len(stripeRefunds'[o]) = Len(stripeRefunds[o]) + 1
        /\ \A p \in Orders : p # o => stripeRefunds'[p] = stripeRefunds[p]
    BY <1>1, <2>1, RefundTotals
  <2>3. \A p \in Orders : p # o => Refunded(p)' = Refunded(p)
    BY <2>2 DEF Refunded, RefundedAfter
  <2>4. [p \in Orders |-> Refunded(p)]' =
          [[p \in Orders |-> Refunded(p)] EXCEPT ![o] = @ + amt]
    BY <2>2, <2>3
  <2>5. [p \in Orders |-> Len(stripeRefunds[p])]' =
          [[p \in Orders |-> Len(stripeRefunds[p])] EXCEPT ![o] = @ + 1]
    BY <2>2
  <2>6. Refunded(o) \in 0 .. Total /\ Total \in Nat
    BY <1>1, RefundedType, CommerceAssumption DEF Total
  <2>7. amt \in 1 .. (Total - Refunded(o))
    BY <2>1, <2>6
  <2>8. Ledger!GiveBack(o)
    BY <2>1, <2>4, <2>5, <2>7 DEF Ledger!GiveBack, Recorded
  <2> QED BY <2>8 DEF Ledger!Next
<1> QED BY <1>2, <1>3, <1>4, <1>5, <1>6, <1>7 DEF MoneyStep, ServiceStep, BookSteps

\* Every step of the order flow is a step of the money ledger or none: orders
\* are marked paid and refunds entered only for money that has moved, and
\* neither is taken back, however webhooks, requests and failures interleave.
THEOREM BooksFollow == Spec => BooksFollowMoney
<1>1. TypeInv /\ MoneyInv /\ [Next]_vars => [Ledger!Next]_(Ledger!ledgerVars)
  BY MoneyInductive, LedgerStep DEF Before
<1> QED BY <1>1, LedgerStarts, MoneyHolds, PTL DEF Spec, BooksFollowMoney, Ledger!Spec

-----------------------------------------------------------------------------
(***************************************************************************)
(* Orders of a shop whose refunds all go through the API.  A request for a  *)
(* refund starts from a SUCCEEDED payment, which only a capture writes; the *)
(* dashboard asks nobody, and a refund of its that overtakes the capture    *)
(* leaves a PENDING order that has given money back.                        *)
(***************************************************************************)
CaptureInv ==
  /\ \A o \in Orders : /\ payments[o] = "SUCCEEDED" => Captured(o)
                       /\ stripeRefunds[o] # << >> => Captured(o)
                       /\ orders[o].financial # "UNPAID" => Captured(o)
  /\ \A a \in Admins : refunding[a].pc = "call" => Captured(refunding[a].order)
  /\ \A k \in Clerks : ClerkAt(k, "call") => Captured(OrderOfReturn(clerk[k].ret))

LEMMA CapturedStays ==
  ASSUME CaptureInv, MoneyStep
  PROVE  \A o \in Orders : /\ Captured(o) => Captured(o)'
                           /\ orders'[o].financial # "UNPAID" => Captured(o)'
<1>1. CASE UNCHANGED orders
  BY <1>1 DEF CaptureInv, Captured
<1>2. CASE NoMoney
  BY <1>2 DEF CaptureInv, NoMoney, LooksPaid, Captured
<1>3. CASE \E o \in Orders : Capture(o)
  BY <1>3 DEF CaptureInv, Capture, BooksMove, Captured
<1>4. CASE \E o \in Orders : Bookkeeping(o)
  BY <1>4 DEF CaptureInv, Bookkeeping, BooksMove, Captured
<1> QED BY <1>1, <1>2, <1>3, <1>4 DEF MoneyStep, ServiceStep, BookSteps, GivesBack, Pay

\* A payment's row is written by a capture, a decline, or the books of a refund.
LEMMA PaymentMoves ==
  ASSUME Before, [Next]_vars
  PROVE  \/ UNCHANGED payments
         \/ \E o \in Orders, to \in {"FAILED", "REFUNDED"} :
              payments' = [payments EXCEPT ![o] = to]
         \/ \E w \in Workers : /\ CaptureOrder(w) /\ OrderOf(w) \in Orders
                               /\ payments' = [payments EXCEPT ![OrderOf(w)] = "SUCCEEDED"]
<1>1. StateTypeOK /\ BillingTypeOK /\ JobsAreEvents /\ OrderRefundsTypeOK
  BY DEF Before, TypeInv, TypeOK
<1>2. ASSUME NEW w \in Workers, CaptureOrder(w)
      PROVE  /\ OrderOf(w) \in Orders
             /\ payments' = [payments EXCEPT ![OrderOf(w)] = "SUCCEEDED"]
  BY <1>1, <1>2, WorkingEvent DEF CaptureOrder, At, Working
<1>3. ASSUME NEW w \in Workers, OnPaymentFailed(w) \/ OnChargeRefunded(w)
      PROVE  \/ UNCHANGED payments
             \/ \E o \in Orders, to \in {"FAILED", "REFUNDED"} :
                  payments' = [payments EXCEPT ![o] = to]
  <2>1. OrderOf(w) \in Orders
    BY <1>1, <1>3, WorkingEvent DEF OnPaymentFailed, OnChargeRefunded, At, Working
  <2> QED BY <1>3, <2>1 DEF OnPaymentFailed, OnChargeRefunded, AdvanceRefunded, DeclinedStatus
<1>4. ASSUME NEW a \in Admins, RecordRefund(a)
      PROVE  \/ UNCHANGED payments
             \/ \E o \in Orders, to \in {"FAILED", "REFUNDED"} :
                  payments' = [payments EXCEPT ![o] = to]
  <2>1. refunding[a].order \in Orders
    BY <1>1, <1>4 DEF RecordRefund, OrderRefundsTypeOK
  <2> QED BY <1>4, <2>1 DEF RecordRefund, AdvanceRefunded
<1>5. \/ UNCHANGED payments
      \/ \E w \in Workers : CaptureOrder(w) \/ OnPaymentFailed(w) \/ OnChargeRefunded(w)
      \/ \E a \in Admins : RecordRefund(a)
  <2>1. CASE UNCHANGED vars
    BY <2>1 DEF vars
  <2>2. CASE StripeNext
    BY <2>2 DEF StripeNext, CardDeclined, Pay, DashboardRefund
  <2>3. CASE CheckoutNext
    BY <2>3 DEF CheckoutNext, CheckoutStep, ReadCart, ReadLastNumber, CreateOrder,
       CreateOrderConflict, CreateSession, RecordSession, RespondWithUrl,
       SessionStepFails, DeleteOrder, CheckoutInterrupted
  <2>4. CASE BillingNext
    BY <2>4 DEF BillingNext, WorkerStep, DeliverWebhook, EvictJob, LoseMarker, StartJob,
       OnCheckoutCompleted, LockOrderAndReadStock, CreateConfirmation,
       EnqueueConfirmation, OnChargeRefundedUnknown,
       MarkProcessed, AckJob, AttemptFails, JobStalls
  <2>5. CASE OrderRefundsNext
    BY <2>5 DEF OrderRefundsNext, RefundStep, ReadPayment, RefundPayment, RefundRefused,
       RecordRefundConflict, RefundInterrupted
  <2>6. CASE ReturnsNext
    BY <2>6 DEF ReturnsNext, ClerkStep, RequestReturn, OpenApprove, OpenReject, OpenRefund,
       Opens, Approve, Reject, SetReturnStatus, RefundReturn, RefundReturnRefused,
       RecordReturn, RecordReturnConflict, ClerkInterrupted
  <2>7. CASE InventoryNext
    BY <2>7 DEF InventoryNext, ReadItemForCreate, ReadItemForAdjust, Requests, WriteItem
  <2> QED BY <2>1, <2>2, <2>3, <2>4, <2>5, <2>6, <2>7 DEF Next
<1> QED BY <1>2, <1>3, <1>4, <1>5

\* Only a capture makes a payment SUCCEEDED.
LEMMA OnlyCapturesSucceed ==
  ASSUME Before, [Next]_vars
  PROVE  \A o \in Orders :
           payments'[o] = "SUCCEEDED" => payments[o] = "SUCCEEDED" \/ Captured(o)'
<1>1. StateTypeOK
  BY DEF Before, TypeInv, TypeOK
<1>2. CASE \E o \in Orders, to \in {"FAILED", "REFUNDED"} : payments' = [payments EXCEPT ![o] = to]
  BY <1>1, <1>2 DEF StateTypeOK
<1>3. ASSUME NEW w \in Workers, CaptureOrder(w), OrderOf(w) \in Orders,
             payments' = [payments EXCEPT ![OrderOf(w)] = "SUCCEEDED"]
      PROVE  \A o \in Orders :
               payments'[o] = "SUCCEEDED" => payments[o] = "SUCCEEDED" \/ Captured(o)'
  <2>1. orders' = [orders EXCEPT ![OrderOf(w)].status = "PAID", ![OrderOf(w)].financial = "PAID"]
    BY <1>3 DEF CaptureOrder
  <2>2. orders'[OrderOf(w)].status = "PAID"
    BY <1>1, <1>3, <2>1 DEF StateTypeOK
  <2> QED BY <1>1, <1>3, <2>2 DEF StateTypeOK, Captured
<1> QED BY <1>2, <1>3, PaymentMoves

\* Without the dashboard, Stripe refunds what the API has seen captured.
LEMMA RefundsFollowCaptures ==
  ASSUME Before, CaptureInv, DashboardRefunds = 0, [Next]_vars
  PROVE  \A o \in Orders : stripeRefunds'[o] # << >> => stripeRefunds[o] # << >> \/ Captured(o)
<1>1. StateTypeOK
  BY DEF Before, TypeInv, TypeOK
<1>2. CASE UNCHANGED stripeRefunds
  BY <1>2
<1>3. ASSUME NEW o, Captured(o), NEW amt, StripeRefund(o, amt)
      PROVE  \A p \in Orders : stripeRefunds'[p] # << >> => stripeRefunds[p] # << >> \/ Captured(p)
  BY <1>1, <1>3 DEF StripeRefund, StateTypeOK
<1>4. ASSUME NEW o \in Orders, DashboardRefund(o) PROVE FALSE
  <2>1. Len(stripeRefunds[o]) \in Nat
    BY <1>1 DEF StateTypeOK
  <2>2. Len(stripeRefunds[o]) < 0
    BY <1>4 DEF DashboardRefund
  <2> QED BY <2>1, <2>2
<1>5. ASSUME NEW a \in Admins, RefundPayment(a) \/ RefundInterrupted(a)
      PROVE  \/ UNCHANGED stripeRefunds
             \/ \E o, amt : Captured(o) /\ StripeRefund(o, amt)
  BY <1>5 DEF RefundPayment, RefundInterrupted, CaptureInv
<1>6. ASSUME NEW k \in Clerks, RefundReturn(k)
      PROVE  \E o, amt : Captured(o) /\ StripeRefund(o, amt)
  BY <1>6 DEF RefundReturn, CaptureInv
<1>7. \/ UNCHANGED stripeRefunds
      \/ \E o \in Orders : DashboardRefund(o)
      \/ \E a \in Admins : RefundPayment(a) \/ RefundInterrupted(a)
      \/ \E k \in Clerks : RefundReturn(k)
  <2>1. CASE UNCHANGED vars
    BY <2>1 DEF vars
  <2>2. CASE StripeNext
    BY <2>2 DEF StripeNext, CardDeclined, Pay
  <2>3. CASE CheckoutNext
    BY <2>3 DEF CheckoutNext, CheckoutStep, ReadCart, ReadLastNumber, CreateOrder,
       CreateOrderConflict, CreateSession, RecordSession, RespondWithUrl,
       SessionStepFails, DeleteOrder, CheckoutInterrupted
  <2>4. CASE BillingNext
    BY <2>4, BillingSteps DEF BookSteps
  <2>5. CASE OrderRefundsNext
    BY <2>5 DEF OrderRefundsNext, RefundStep, ReadPayment, RefundRefused,
       RecordRefund, RecordRefundConflict
  <2>6. CASE ReturnsNext
    BY <2>6 DEF ReturnsNext, ClerkStep, RequestReturn, OpenApprove, OpenReject, OpenRefund,
       Opens, Approve, Reject, SetReturnStatus, RefundReturnRefused,
       RecordReturn, RecordReturnConflict, ClerkInterrupted
  <2>7. CASE InventoryNext
    BY <2>7 DEF InventoryNext, ReadItemForCreate, ReadItemForAdjust, Requests, WriteItem
  <2> QED BY <2>1, <2>2, <2>3, <2>4, <2>5, <2>6, <2>7 DEF Next
<1> QED BY <1>2, <1>3, <1>4, <1>5, <1>6, <1>7

\* A request that is about to call Stripe was there before, or has just seen a
\* captured payment.
LEMMA CallsFollowCaptures ==
  ASSUME Before, CaptureInv, [Next]_vars
  PROVE  /\ \A a \in Admins : refunding'[a].pc = "call" => Captured(refunding'[a].order)
         /\ \A k \in Clerks : clerk'[k].pc = "call" => Captured(returns'[clerk'[k].ret].order)
<1>1. OrderRefundsTypeOK /\ ReturnsTypeOK
  BY DEF Before, TypeInv, TypeOK
<1>2. /\ \A a \in Admins : refunding[a].pc = "call" => Captured(refunding[a].order)
      /\ \A k \in Clerks : clerk[k].pc = "call" => Captured(returns[clerk[k].ret].order)
  BY DEF CaptureInv, ClerkAt, OrderOfReturn
<1>3. \A o \in Orders : payments[o] = "SUCCEEDED" => Captured(o)
  BY DEF CaptureInv
<1>4. UNCHANGED refunding \/ \E a \in Admins : ReadPayment(a) \/ RefundStep(a) \/ RefundInterrupted(a)
  BY DEF Next, vars, refundingVars, OrderRefundsNext
<1>5. ASSUME NEW a \in Admins, ReadPayment(a) \/ RefundStep(a) \/ RefundInterrupted(a)
      PROVE  \A b \in Admins : refunding'[b].pc = "call" => Captured(refunding'[b].order)
  <2>1. refunding = [b \in Admins |-> refunding[b]]
    BY <1>1 DEF OrderRefundsTypeOK
  <2>2. \A b \in Admins : b # a => refunding'[b] = refunding[b]
    BY <1>5, <2>1 DEF ReadPayment, RefundStep, RefundPayment, RefundRefused, RecordRefund,
       RecordRefundConflict, RefundInterrupted, SetRefund
  <2>3. CASE ReadPayment(a)
    <3>1. PICK o \in Orders, amt \in 1 .. Total :
            /\ payments[o] = "SUCCEEDED"
            /\ refunding' = [refunding EXCEPT ![a] =
                               [pc |-> "call", order |-> o, amt |-> amt, id |-> 0]]
      BY <2>3 DEF ReadPayment
    <3>2. refunding'[a].order = o
      BY <2>1, <3>1
    <3> QED BY <1>2, <1>3, <2>2, <3>1, <3>2
  <2>4. CASE RefundStep(a) \/ RefundInterrupted(a)
    <3>1. refunding'[a].pc # "call"
      <4>1. refunding[a] \in [pc : RefundPC, order : Orders \cup {None}, amt : 0 .. Total,
                              id : 0 .. MaxRefunds]
        BY <1>1 DEF OrderRefundsTypeOK
      <4> QED BY <2>1, <2>4, <4>1 DEF RefundStep, RefundPayment, RefundRefused, RecordRefund,
                 RecordRefundConflict, RefundInterrupted, SetRefund
    <3> QED BY <1>2, <2>2, <3>1
  <2> QED BY <1>5, <2>3, <2>4
<1>6. \A k \in Clerks : clerk'[k].pc = "call" => Captured(returns'[clerk'[k].ret].order)
  <2>1. CASE UNCHANGED <<clerk, returns>>
    BY <1>2, <2>1
  <2>2. CASE ReturnsNext
    <3>1. returns \in ReturnRows /\ clerk \in [Clerks -> DeskRow]
      BY <1>1 DEF ReturnsTypeOK, ReturnRows, DeskRow
    <3>2. \A r \in ReturnIds : returns[r].status # "ABSENT" => returns'[r].order = returns[r].order
      <4>1. CASE \E k \in Clerks : RefundReturn(k) \/ RecordReturn(k)
        BY <3>1, <4>1 DEF RefundReturn, RecordReturn, ReturnRows
      <4>2. CASE ~\E k \in Clerks : RefundReturn(k) \/ RecordReturn(k)
        BY <1>1, <2>2, <4>2, DeskDecisions DEF ReturnsNext, ClerkStep
      <4> QED BY <4>1, <4>2
    <3>3. \A k \in Clerks : clerk'[k].pc = "call" =>
            \/ clerk'[k] = clerk[k]
            \/ /\ clerk'[k].ret \in ReturnIds /\ returns[clerk'[k].ret].status # "ABSENT"
               /\ payments[returns[clerk'[k].ret].order] = "SUCCEEDED"
      <4>1. ASSUME NEW k \in Clerks, NEW r \in ReturnIds,
                   OpenApprove(k, r) \/ OpenReject(k, r) \/ OpenRefund(k, r)
            PROVE  \A j \in Clerks : clerk'[j].pc = "call" =>
                     \/ clerk'[j] = clerk[j]
                     \/ /\ clerk'[j].ret \in ReturnIds /\ returns[clerk'[j].ret].status # "ABSENT"
                        /\ payments[returns[clerk'[j].ret].order] = "SUCCEEDED"
        <5> DEFINE seen == payments[OrderOfReturn(r)] = "SUCCEEDED"
        <5>1. PICK pc \in {"approve", "reject", "call", "record"} :
                /\ clerk' = [clerk EXCEPT ![k] = [pc |-> pc, ret |-> r, id |-> 0, paid |-> seen]]
                /\ pc = "call" => seen
          BY <4>1 DEF OpenApprove, OpenReject, OpenRefund, Opens
        <5>2. /\ clerk'[k].pc = pc /\ clerk'[k].ret = r
              /\ \A j \in Clerks : j # k => clerk'[j] = clerk[j]
          BY <3>1, <5>1
        <5>3. returns[r].status # "ABSENT"
          BY <4>1 DEF OpenApprove, OpenReject, OpenRefund
        <5> QED BY <5>1, <5>2, <5>3 DEF OrderOfReturn
      <4>2. ASSUME NEW k \in Clerks, ClerkLeaves(k)
            PROVE  \A j \in Clerks : clerk'[j].pc = "call" => clerk'[j] = clerk[j]
        <5>1. clerk'[k].pc = "idle" /\ \A j \in Clerks : j # k => clerk'[j] = clerk[j]
          BY <1>1, <4>2, LeaveDesk
        <5> QED BY <5>1
      <4>3. ASSUME NEW k \in Clerks, RefundReturn(k)
            PROVE  \A j \in Clerks : clerk'[j].pc = "call" => clerk'[j] = clerk[j]
        BY <3>1, <4>3 DEF RefundReturn, DeskRow
      <4>4. \/ UNCHANGED clerk
            \/ \E k \in Clerks, r \in ReturnIds :
                 OpenApprove(k, r) \/ OpenReject(k, r) \/ OpenRefund(k, r)
            \/ \E k \in Clerks : ClerkLeaves(k) \/ RefundReturn(k)
        BY <2>2 DEF ReturnsNext, RequestReturn, ClerkStep, Approve, Reject, SetReturnStatus,
           RefundReturnRefused, RecordReturn, RecordReturnConflict, ClerkInterrupted
      <4> QED BY <4>1, <4>2, <4>3, <4>4
    <3>4. \A k \in Clerks : clerk[k].pc = "call" =>
            clerk[k].ret \in ReturnIds /\ returns[clerk[k].ret].status # "ABSENT"
      BY <1>1 DEF ReturnsTypeOK, ClerkAt
    <3>5. \A r \in ReturnIds : returns[r].status # "ABSENT" => returns[r].order \in Orders
      BY <1>1 DEF ReturnsTypeOK
    <3> QED BY <1>2, <1>3, <3>2, <3>3, <3>4, <3>5
  <2> QED BY <2>1, <2>2 DEF Next, vars, returnVars
<1>7. CASE UNCHANGED refunding
  BY <1>2, <1>6, <1>7
<1> QED BY <1>4, <1>5, <1>6, <1>7

LEMMA CapturesInductive ==
  ASSUME Before, CaptureInv, DashboardRefunds = 0, [Next]_vars
  PROVE  CaptureInv'
<1>1. MoneyStep
  BY MoneyInductive
<1>2. \A o \in Orders : /\ Captured(o) => Captured(o)'
                        /\ orders'[o].financial # "UNPAID" => Captured(o)'
  BY <1>1, CapturedStays
<1>3. \A o \in Orders : /\ payments'[o] = "SUCCEEDED" => Captured(o)'
                        /\ stripeRefunds'[o] # << >> => Captured(o)'
  BY <1>2, OnlyCapturesSucceed, RefundsFollowCaptures DEF CaptureInv
<1>4. TypeInv'
  BY TypesInductive DEF Before
<1>5. /\ \A a \in Admins : refunding'[a].pc = "call" => refunding'[a].order \in Orders
      /\ \A k \in Clerks : clerk'[k].pc = "call" => returns'[clerk'[k].ret].order \in Orders
  <2>1. OrderRefundsTypeOK' /\ ReturnsTypeOK'
    BY <1>4 DEF TypeInv, TypeOK
  <2> QED BY <2>1 DEF OrderRefundsTypeOK, ReturnsTypeOK, ClerkAt
<1>6. /\ \A a \in Admins : refunding'[a].pc = "call" => Captured(refunding[a].order)'
      /\ \A k \in Clerks : clerk'[k].pc = "call" => Captured(returns[clerk[k].ret].order)'
  BY <1>2, <1>5, CallsFollowCaptures DEF Captured
<1> QED BY <1>2, <1>3, <1>6 DEF CaptureInv, ClerkAt, OrderOfReturn

\* Once paid an order never looks unpaid again, neither to checkout's late
\* update to PENDING nor to a repeated or reordered event, in a shop that
\* issues no refunds from the Stripe dashboard.
THEOREM PaidStays ==
  ASSUME DashboardRefunds = 0
  PROVE  Spec => PaidStaysPaid
<1>1. Init => CaptureInv
  BY DEF Init, StateInit, OrderRefundsInit, ReturnsInit, CaptureInv, NoOrderRow, NoRefund,
         AtDesk, ClerkAt
<1>2. TypeInv /\ MoneyInv /\ CaptureInv /\ [Next]_vars => CaptureInv'
  BY CapturesInductive DEF Before
<1>3. TypeInv /\ MoneyInv /\ CaptureInv /\ [Next]_vars =>
        [\A o \in Orders : orders[o].financial # "UNPAID" =>
           /\ orders'[o].financial # "UNPAID"
           /\ orders'[o].status \in {"PAID", "REFUNDED"}]_vars
  <2> SUFFICES ASSUME TypeInv, MoneyInv, CaptureInv, [Next]_vars,
                      NEW o \in Orders, orders[o].financial # "UNPAID"
               PROVE  /\ orders'[o].financial # "UNPAID"
                      /\ orders'[o].status \in {"PAID", "REFUNDED"}
    OBVIOUS
  <2>1. MoneyStep
    BY MoneyInductive DEF Before
  <2>2. Captured(o) /\ Captured(o)'
    BY <2>1, CapturedStays DEF CaptureInv
  <2>3. orders'[o].financial # "UNPAID"
    BY <2>1 DEF MoneyStep, ServiceStep, BookSteps, Capture, Bookkeeping, BooksMove, GivesBack, Pay, NoMoney
  <2> QED BY <2>2, <2>3 DEF Captured
<1> QED BY <1>1, <1>2, <1>3, MoneyHolds, PTL DEF Spec, PaidStaysPaid
-----------------------------------------------------------------------------
(***************************************************************************)
(* Order numbers.  A checkout takes the last order's number plus one.  While*)
(* the catch block deletes no order, the existing orders are numbered       *)
(* without gaps in the order of their creation, so that number is free.     *)
(* After a deletion it need not be: with three requests under way, an order *)
(* that was numbered early and created late can precede a lower number.     *)
(***************************************************************************)
NothingUndone == \A o \in Orders : checkout[o].pc # "undo"

LogIsNumbered ==
  \A i \in DOMAIN orderLog : /\ OrderExists(orderLog[i])
                             /\ orders[orderLog[i]].number = FirstNumber + i - 1

AllAreLogged == \A o \in Orders : OrderExists(o) => \E i \in DOMAIN orderLog : orderLog[i] = o

\* The number that a request has computed is at most the next one.
RequestsAreNumbered ==
  \A o \in Orders :
    /\ checkout[o].pc = "numbered" =>
         checkout[o].number \in FirstNumber .. (FirstNumber + Len(orderLog))
    /\ checkout[o].pc \in {"idle", "cartRead", "numbered"} => ~OrderExists(o)

NumbersInv == LogIsNumbered /\ AllAreLogged /\ RequestsAreNumbered

\* Past checkout, orders keep their numbers, and none comes or goes.
LEMMA OrdersKeepNumbers ==
  ASSUME Before, [Next]_vars, ~CheckoutNext
  PROVE  /\ UNCHANGED <<checkout, orderLog>>
         /\ \A o \in Orders : /\ OrderExists(o)' <=> OrderExists(o)
                              /\ orders'[o].number = orders[o].number
<1>1. UNCHANGED <<checkout, orderLog>>
  <2>1. CASE UNCHANGED vars
    BY <2>1 DEF vars, checkoutVars
  <2>2. CASE StripeNext /\ UNCHANGED checkout
    BY <2>2 DEF StripeNext, CardDeclined, Pay, DashboardRefund
  <2>3. CASE BillingNext /\ UNCHANGED checkout
    BY <2>3 DEF BillingNext, WorkerStep, DeliverWebhook, EvictJob, LoseMarker, StartJob,
       OnCheckoutCompleted, LockOrderAndReadStock, CaptureOrder, CreateConfirmation,
       EnqueueConfirmation, OnPaymentFailed, OnChargeRefundedUnknown, OnChargeRefunded,
       MarkProcessed, AckJob, AttemptFails, JobStalls
  <2>4. CASE OrderRefundsNext /\ UNCHANGED checkout
    BY <2>4 DEF OrderRefundsNext, RefundStep, ReadPayment, RefundPayment, RefundRefused,
       RecordRefund, RecordRefundConflict, RefundInterrupted
  <2>5. CASE ReturnsNext /\ UNCHANGED checkout
    BY <2>5 DEF ReturnsNext, ClerkStep, RequestReturn, OpenApprove, OpenReject, OpenRefund,
       Opens, Approve, Reject, SetReturnStatus, RefundReturn, RefundReturnRefused,
       RecordReturn, RecordReturnConflict, ClerkInterrupted
  <2>6. CASE InventoryNext /\ UNCHANGED checkout
    BY <2>6 DEF InventoryNext, ReadItemForCreate, ReadItemForAdjust, Requests, WriteItem
  <2> QED BY <2>1, <2>2, <2>3, <2>4, <2>5, <2>6 DEF Next, checkoutVars
<1>2. CASE UNCHANGED orders
  BY <1>1, <1>2 DEF OrderExists
<1>3. ASSUME NEW o \in Orders, BooksMove(o)
      PROVE  \A p \in Orders : /\ OrderExists(p)' <=> OrderExists(p)
                               /\ orders'[p].number = orders[p].number
  <2>1. OrderExists(o)
    BY <1>3 DEF Before, MoneyInv, UrlsComeLast, HasUrl, BooksMove, Complete
  <2> QED BY <1>3, <2>1 DEF BooksMove, OrderExists
<1>4. ServiceStep => UNCHANGED orders \/ \E o \in Orders : BooksMove(o)
  BY DEF ServiceStep, BookSteps, GivesBack, Capture, Bookkeeping
<1>5. UNCHANGED vars \/ StripeNext => UNCHANGED orders
  BY DEF vars, StripeNext, CardDeclined, Pay, DashboardRefund
<1>6. UNCHANGED vars \/ StripeNext \/ ServiceStep
  BY BillingKeepsMoney, OrderRefundsKeepsMoney, ReturnsKeepsMoney, InventoryKeepsMoney DEF Next
<1> QED BY <1>1, <1>2, <1>3, <1>4, <1>5, <1>6

\* The number that a checkout computes is the next one, and it is free.
LEMMA NextNumberFollows ==
  ASSUME StateTypeOK, LogIsNumbered, AllAreLogged
  PROVE  /\ NextNumber = FirstNumber + Len(orderLog)
         /\ NextNumberIsFree
<1>1. orderLog \in Seq(Orders) /\ Len(orderLog) \in Nat
  BY DEF StateTypeOK
<1>2. NextNumber = FirstNumber + Len(orderLog)
  <2>1. CASE orderLog = << >>
    BY <2>1 DEF NextNumber, FirstNumber
  <2>2. CASE orderLog # << >>
    <3>1. Len(orderLog) \in DOMAIN orderLog
      BY <1>1, <2>2, LastElement
    <3>2. orders[orderLog[Len(orderLog)]].number = FirstNumber + Len(orderLog) - 1
      BY <3>1 DEF LogIsNumbered
    <3> QED BY <1>1, <2>2, <3>2 DEF NextNumber, FirstNumber
  <2> QED BY <2>1, <2>2
<1>3. NextNumberIsFree
  <2> SUFFICES ASSUME NEW o \in Orders, OrderExists(o), orders[o].number = NextNumber
               PROVE  FALSE
    BY DEF NextNumberIsFree, NumberTaken
  <2>1. PICK i \in DOMAIN orderLog : orderLog[i] = o
    BY DEF AllAreLogged
  <2>2. orders[o].number = FirstNumber + i - 1 /\ i \in 1 .. Len(orderLog)
    BY <1>1, <2>1 DEF LogIsNumbered
  <2> QED BY <1>1, <1>2, <2>2 DEF FirstNumber
<1> QED BY <1>2, <1>3

\* An order is created with the next number, whenever its request computed it.
LEMMA CreationIsNumbered ==
  ASSUME StateTypeOK, CheckoutTypeOK, NumbersInv, NEW o \in Orders, CreateOrder(o)
  PROVE  NumbersInv'
<1> DEFINE n == checkout[o].number
           last == Len(orderLog) + 1
<1>1. orderLog \in Seq(Orders) /\ Len(orderLog) \in Nat
  BY DEF StateTypeOK
<1>2. orders \in OrderRows
  BY DEF StateTypeOK, OrderRows
<1>3. checkout[o].pc = "numbered" /\ ~OrderExists(o) /\ ~NumberTaken(n)
      /\ n \in FirstNumber .. (FirstNumber + Len(orderLog))
  BY DEF CreateOrder, Goto, NumbersInv, RequestsAreNumbered
<1>4. \A i \in 1 .. Len(orderLog) : /\ orderLog[i] \in Orders \ {o}
                                    /\ orders[orderLog[i]].number = FirstNumber + i - 1
                                    /\ OrderExists(orderLog[i])
  BY <1>1, <1>3 DEF NumbersInv, LogIsNumbered
<1>5. n = FirstNumber + Len(orderLog)
  <2> SUFFICES ASSUME n < FirstNumber + Len(orderLog) PROVE FALSE
    BY <1>1, <1>3 DEF FirstNumber
  <2>1. n - FirstNumber + 1 \in 1 .. Len(orderLog)
    BY <1>1, <1>3 DEF FirstNumber
  <2>2. orders[orderLog[n - FirstNumber + 1]].number = FirstNumber + (n - FirstNumber + 1) - 1
    BY <1>4, <2>1
  <2>3. FirstNumber + (n - FirstNumber + 1) - 1 = n
    BY <1>1, <1>3 DEF FirstNumber
  <2>4. NumberTaken(n)
    BY <1>4, <2>1, <2>2, <2>3 DEF NumberTaken
  <2> QED BY <1>3, <2>4
<1>6. orders' = [orders EXCEPT ![o] = [status |-> "DRAFT", financial |-> "UNPAID", number |-> n]]
  BY DEF CreateOrder
<1>7. orders'[o].status = "DRAFT" /\ orders'[o].number = n
      /\ \A p \in Orders : p # o => orders'[p] = orders[p]
  BY <1>2, <1>6 DEF OrderRows
<1>8. /\ orderLog' \in Seq(Orders) /\ Len(orderLog') = last /\ orderLog'[last] = o
      /\ \A i \in 1 .. Len(orderLog) : orderLog'[i] = orderLog[i]
  BY <1>1 DEF CreateOrder
<1>9. DOMAIN orderLog = 1 .. Len(orderLog) /\ DOMAIN orderLog' = 1 .. last
  BY <1>1, <1>8
<1>10. checkout'[o].pc = "created" /\ \A p \in Orders : p # o => checkout'[p] = checkout[p]
  BY DEF CreateOrder, Goto, CheckoutTypeOK
<1>11. LogIsNumbered'
  <2> SUFFICES ASSUME NEW i \in 1 .. last
               PROVE  OrderExists(orderLog[i])' /\ orders'[orderLog'[i]].number = FirstNumber + i - 1
    BY <1>9 DEF LogIsNumbered, FirstNumber
  <2>1. CASE i = last
    BY <1>1, <1>5, <1>7, <1>8, <2>1 DEF OrderExists, FirstNumber
  <2>2. CASE i # last
    <3>1. i \in 1 .. Len(orderLog)
      BY <1>1, <2>2
    <3> QED BY <1>4, <1>7, <1>8, <3>1 DEF OrderExists
  <2> QED BY <2>1, <2>2
<1>12. AllAreLogged'
  <2> SUFFICES ASSUME NEW p \in Orders, OrderExists(p)'
               PROVE  \E i \in DOMAIN orderLog' : orderLog'[i] = p
    BY DEF AllAreLogged
  <2>1. CASE p = o
    <3>1. last \in DOMAIN orderLog'
      BY <1>1, <1>9
    <3> QED BY <1>8, <2>1, <3>1
  <2>2. CASE p # o
    <3>1. PICK i \in DOMAIN orderLog : orderLog[i] = p
      BY <1>7, <2>2 DEF NumbersInv, AllAreLogged, OrderExists
    <3>2. i \in DOMAIN orderLog' /\ orderLog'[i] = p
      BY <1>1, <1>8, <1>9, <3>1
    <3> QED BY <3>2
  <2> QED BY <2>1, <2>2
<1>13. RequestsAreNumbered'
  <2>1. \A p \in Orders : checkout'[p].pc \in {"idle", "cartRead", "numbered"} =>
          p # o /\ checkout'[p] = checkout[p]
    BY <1>10
  <2>2. \A m : m \in FirstNumber .. (FirstNumber + Len(orderLog)) =>
          m \in FirstNumber .. (FirstNumber + last)
    BY <1>1 DEF FirstNumber
  <2>3. ASSUME NEW p \in Orders
        PROVE  /\ checkout'[p].pc = "numbered" =>
                    checkout'[p].number \in FirstNumber .. (FirstNumber + Len(orderLog'))
               /\ checkout'[p].pc \in {"idle", "cartRead", "numbered"} => ~OrderExists(p)'
    <3>1. CASE checkout'[p].pc \in {"idle", "cartRead", "numbered"}
      <4>1. p # o /\ checkout'[p] = checkout[p] /\ orders'[p] = orders[p]
        BY <1>7, <2>1, <3>1
      <4> QED BY <1>8, <2>2, <3>1, <4>1 DEF NumbersInv, RequestsAreNumbered, OrderExists
    <3>2. CASE checkout'[p].pc \notin {"idle", "cartRead", "numbered"}
      BY <3>2
    <3> QED BY <3>1, <3>2
  <2> QED BY <2>3 DEF RequestsAreNumbered, FirstNumber
<1> QED BY <1>11, <1>12, <1>13 DEF NumbersInv

LEMMA CheckoutKeepsNumbers ==
  ASSUME StateTypeOK, CheckoutTypeOK, NumbersInv, NothingUndone, CheckoutNext
  PROVE  NumbersInv'
<1>1. PICK o \in Orders :
        ReadCart(o) \/ CheckoutStep(o) \/ SessionStepFails(o) \/ CheckoutInterrupted(o)
  BY DEF CheckoutNext
<1>2. checkout = [p \in Orders |-> checkout[p]]
  BY DEF CheckoutTypeOK
<1>3. checkout \in [Orders -> [pc : CheckoutPC, cart : Carts \cup {None}, number : Nat]]
  BY DEF CheckoutTypeOK
<1>4. CASE CreateOrder(o)
  BY <1>4, CreationIsNumbered
<1>5. ASSUME UNCHANGED orderLog,
             \A p \in Orders : /\ OrderExists(p)' <=> OrderExists(p)
                               /\ orders'[p].number = orders[p].number,
             \A p \in Orders : p # o => checkout'[p] = checkout[p],
             checkout'[o].pc = "numbered" =>
               /\ checkout[o].pc = "cartRead"
               /\ checkout'[o].number = NextNumber,
             checkout'[o].pc = "cartRead" => checkout[o].pc = "idle",
             checkout'[o].pc # "idle"
      PROVE  NumbersInv'
  <2>1. orderLog \in Seq(Orders) /\ Len(orderLog) \in Nat
    BY DEF StateTypeOK
  <2>2. \A i \in DOMAIN orderLog : orderLog[i] \in Orders
    BY <2>1
  <2>3. LogIsNumbered' /\ AllAreLogged'
    BY <1>5, <2>2 DEF NumbersInv, LogIsNumbered, AllAreLogged, FirstNumber
  <2>4. NextNumber \in FirstNumber .. (FirstNumber + Len(orderLog))
    BY <2>1, NextNumberFollows DEF NumbersInv, FirstNumber
  <2>5. ASSUME NEW p \in Orders
        PROVE  /\ checkout'[p].pc = "numbered" =>
                    checkout'[p].number \in FirstNumber .. (FirstNumber + Len(orderLog'))
               /\ checkout'[p].pc \in {"idle", "cartRead", "numbered"} => ~OrderExists(p)'
    <3>1. CASE p = o
      BY <1>5, <2>4, <3>1 DEF NumbersInv, RequestsAreNumbered
    <3>2. CASE p # o
      BY <1>5, <3>2 DEF NumbersInv, RequestsAreNumbered
    <3> QED BY <3>1, <3>2
  <2> QED BY <2>3, <2>5 DEF NumbersInv, RequestsAreNumbered, FirstNumber
<1>6. CASE ReadCart(o) \/ ReadLastNumber(o)
  <2>1. UNCHANGED sharedVars
    BY <1>6 DEF ReadCart, ReadLastNumber
  <2>2. \A p \in Orders : p # o => checkout'[p] = checkout[p]
    BY <1>3, <1>6 DEF ReadCart, ReadLastNumber
  <2>3. CASE ReadCart(o)
    <3>1. checkout[o].pc = "idle" /\ checkout'[o].pc = "cartRead"
      BY <1>3, <2>3 DEF ReadCart
    <3> QED BY <1>5, <2>1, <2>2, <3>1 DEF OrderExists
  <2>4. CASE ReadLastNumber(o)
    <3>1. /\ checkout[o].pc = "cartRead" /\ checkout'[o].pc = "numbered"
          /\ checkout'[o].number = NextNumber
      BY <1>3, <2>4 DEF ReadLastNumber
    <3> QED BY <1>5, <2>1, <2>2, <3>1 DEF OrderExists
  <2> QED BY <1>6, <2>3, <2>4
<1>7. CASE \/ CreateOrderConflict(o) \/ CreateSession(o) \/ RespondWithUrl(o)
           \/ SessionStepFails(o) \/ CheckoutInterrupted(o)
  <2>1. UNCHANGED <<orders, orderLog>>
    BY <1>7 DEF CreateOrderConflict, CreateSession, RespondWithUrl, SessionStepFails,
       CheckoutInterrupted
  <2>2. \E to \in {"failed", "opened", "done", "undo"} : checkout' = [checkout EXCEPT ![o].pc = to]
    BY <1>7 DEF CreateOrderConflict, CreateSession, RespondWithUrl, SessionStepFails,
       CheckoutInterrupted, Goto
  <2>3. checkout'[o].pc \notin {"idle", "cartRead", "numbered"}
        /\ \A p \in Orders : p # o => checkout'[p] = checkout[p]
    BY <1>3, <2>2
  <2> QED BY <1>5, <2>1, <2>3 DEF OrderExists
<1>8. CASE RecordSession(o)
  <2>1. /\ OrderExists(o) /\ UNCHANGED orderLog
        /\ orders' = [orders EXCEPT ![o].status = "PENDING"]
    BY <1>8 DEF RecordSession, CanUpdateOrder
  <2>2. \A p \in Orders : /\ OrderExists(p)' <=> OrderExists(p)
                          /\ orders'[p].number = orders[p].number
    <3>1. orders \in OrderRows
      BY DEF StateTypeOK, OrderRows
    <3>2. orders'[o].status = "PENDING" /\ orders'[o].number = orders[o].number
          /\ \A p \in Orders : p # o => orders'[p] = orders[p]
      BY <2>1, <3>1 DEF OrderRows
    <3> QED BY <2>1, <3>2 DEF OrderExists
  <2>3. checkout'[o].pc = "recorded" /\ \A p \in Orders : p # o => checkout'[p] = checkout[p]
    BY <1>3, <1>8 DEF RecordSession, Goto
  <2> QED BY <1>5, <2>1, <2>2, <2>3
<1>9. CASE DeleteOrder(o)
  BY <1>9 DEF DeleteOrder, Goto, NothingUndone
<1> QED BY <1>1, <1>4, <1>6, <1>7, <1>8, <1>9 DEF CheckoutStep

\* The number that a checkout is about to compute is free, so a checkout that
\* runs alone cannot fail on unique(tenantId, number): however requests overlap
\* and die, as long as none reaches the catch block that deletes its order.
THEOREM NumbersStayFree ==
  Spec /\ []NothingUndone => []NextNumberIsFree
<1>1. Init => NumbersInv
  BY DEF Init, StateInit, CheckoutInit, NumbersInv, LogIsNumbered, AllAreLogged,
     RequestsAreNumbered, OrderExists, NoOrderRow
<1>2. TypeInv /\ MoneyInv /\ NothingUndone /\ NumbersInv /\ [Next]_vars => NumbersInv'
  <2> SUFFICES ASSUME TypeInv, MoneyInv, NothingUndone, NumbersInv, [Next]_vars
               PROVE  NumbersInv'
    OBVIOUS
  <2>1. StateTypeOK /\ CheckoutTypeOK /\ Before
    BY DEF TypeInv, TypeOK, Before
  <2>2. CASE CheckoutNext
    BY <2>1, <2>2, CheckoutKeepsNumbers
  <2>3. CASE ~CheckoutNext
    <3>1. /\ UNCHANGED <<checkout, orderLog>>
          /\ \A o \in Orders : /\ OrderExists(o)' <=> OrderExists(o)
                               /\ orders'[o].number = orders[o].number
      BY <2>1, <2>3, OrdersKeepNumbers
    <3>2. \A i \in DOMAIN orderLog : orderLog[i] \in Orders
      BY <2>1 DEF StateTypeOK
    <3> QED BY <3>1, <3>2 DEF NumbersInv, LogIsNumbered, AllAreLogged, RequestsAreNumbered,
               FirstNumber
  <2> QED BY <2>2, <2>3
<1>3. TypeInv /\ NumbersInv => NextNumberIsFree
  BY NextNumberFollows DEF TypeInv, TypeOK, NumbersInv
<1> QED BY <1>1, <1>2, <1>3, MoneyHolds, PTL DEF Spec
-----------------------------------------------------------------------------
(***************************************************************************)
(* Units sold.  A capture adds the units of an order to its SALE movements,  *)
(* so an order is sold once if it is captured once.  Three things could     *)
(* capture it again: two attempts at once, a second attempt after a capture *)
(* and a full refund (which AlreadyPaid does not see), and an event taken   *)
(* up again after it was handled.                                           *)
(***************************************************************************)

\* A worker reaches a capture only through the check that the order is unpaid.
LEMMA CapturesProceed ==
  ASSUME BillingTypeOK, BillingNext \/ UNCHANGED billingVars,
         NEW v \in Workers, At(v, "lock")' \/ At(v, "commit")'
  PROVE  /\ EventOf(v)' = EventOf(v)
         /\ ~CaptureOrder(v)
         /\ \/ At(v, "lock") \/ At(v, "commit")
            \/ At(v, "handle") /\ ~AlreadyPaid(OrderOf(v))
<1>1. attempt \in [Workers -> AttemptRow]
  BY DEF BillingTypeOK, AttemptRow
<1>2. ~CaptureOrder(v)
  BY <1>1 DEF CaptureOrder, Continue, At, AttemptRow
<1>3. CASE attempt'[v] = attempt[v]
  BY <1>2, <1>3 DEF At, EventOf
<1>4. ASSUME NEW w \in Workers, NEW e \in Event, StartJob(w, e)
      PROVE  attempt'[v] = attempt[v]
  <2>1. attempt' = [attempt EXCEPT ![w] = [Idle EXCEPT
                      !.pc = IF e \in marker THEN "ack" ELSE "handle", !.ev = e]]
    BY <1>4 DEF StartJob
  <2>2. attempt'[w].pc \in {"ack", "handle"} /\ \A u \in Workers : u # w => attempt'[u] = attempt[u]
    BY <1>1, <2>1 DEF Idle
  <2> QED BY <2>2 DEF At
<1>5. ASSUME NEW w \in Workers, Drops(w)
      PROVE  attempt'[v] = attempt[v]
  <2>1. attempt'[w].pc = "idle" /\ \A u \in Workers : u # w => attempt'[u] = attempt[u]
    BY <1>1, <1>5 DEF Drops, Idle
  <2> QED BY <2>1 DEF At
<1>6. ASSUME NEW w \in Workers, WorkerStep(w), ~AckJob(w), ~\E e \in Event : StartJob(w, e),
             w = v
      PROVE  /\ EventOf(v)' = EventOf(v)
             /\ \/ At(v, "lock") \/ At(v, "commit")
                \/ At(v, "handle") /\ ~AlreadyPaid(OrderOf(v))
  <2>1. /\ GoesOn(v)
        /\ At(v, "lock")' => OnCheckoutCompleted(v)
        /\ At(v, "commit")' => LockOrderAndReadStock(v)
    BY <1>6, HandlerGoesOn
  <2>2. ASSUME OnCheckoutCompleted(v), At(v, "lock")'
        PROVE  At(v, "handle") /\ ~AlreadyPaid(OrderOf(v))
    <3>1. AlreadyPaid(OrderOf(v)) => Continue(v, "mark")
      BY <2>2 DEF OnCheckoutCompleted
    <3>2. ~Continue(v, "mark")
      BY <1>1, <2>2 DEF Continue, At, AttemptRow
    <3> QED BY <2>2, <3>1, <3>2 DEF OnCheckoutCompleted
  <2> QED BY <2>1, <2>2 DEF GoesOn, LockOrderAndReadStock
<1>7. ASSUME NEW w \in Workers, WorkerStep(w), ~AckJob(w), ~\E e \in Event : StartJob(w, e),
             w # v
      PROVE  attempt'[v] = attempt[v]
  BY <1>7, HandlerGoesOn DEF GoesOn
<1>8. CASE BillingNext
  <2>1. CASE \E e \in Event : DeliverWebhook(e) \/ EvictJob(e) \/ LoseMarker(e)
    BY <1>3, <2>1 DEF DeliverWebhook, EvictJob, LoseMarker
  <2>2. CASE \E w \in Workers : AckJob(w) \/ AttemptFails(w) \/ JobStalls(w)
    BY <1>3, <1>5, <2>2, EndDrops DEF JobStalls
  <2> QED BY <1>2, <1>3, <1>4, <1>6, <1>7, <1>8, <2>1, <2>2, BillingMoves
<1> QED BY <1>3, <1>8 DEF billingVars

\* What a worker that captures an order stands for.
LEMMA CapturesSell ==
  ASSUME Before, NEW w \in Workers, CaptureOrder(w)
  PROVE  /\ At(w, "commit") /\ Working(w)
         /\ OrderOf(w) \in Orders
         /\ EventOf(w) = Payment(OrderOf(w))
         /\ sold' = [sold EXCEPT ![OrderOf(w)] = @ + attempt[w].units]
         /\ attempt[w].units \in 0 .. Qty
         /\ orders'[OrderOf(w)].status = "PAID"
<1>1. BillingTypeOK /\ StateTypeOK /\ JobsAreEvents /\ CapturesAreOfPayments
  BY DEF Before, MoneyInv, TypeInv, TypeOK
<1>2. At(w, "commit") /\ Working(w)
  BY DEF CaptureOrder, At, Working
<1>3. OrderOf(w) \in Orders /\ EventOf(w) \in Event
  BY <1>1, <1>2, WorkingEvent
<1>4. EventOf(w) = Payment(OrderOf(w))
  BY <1>1, <1>2, <1>3, PaymentIsEvent DEF CapturesAreOfPayments, OrderOf
<1>5. sold' = [sold EXCEPT ![OrderOf(w)] = @ + attempt[w].units]
  BY DEF CaptureOrder, DecrementStock
<1>6. attempt[w].units \in 0 .. Qty
  BY <1>1 DEF BillingTypeOK
<1>7. orders'[OrderOf(w)].status = "PAID"
  BY <1>1, <1>3 DEF CaptureOrder, StateTypeOK
<1> QED BY <1>2, <1>3, <1>4, <1>5, <1>6, <1>7

LEMMA SalesAreCaptures ==
  ASSUME [Next]_vars
  PROVE  /\ UNCHANGED sold \/ \E w \in Workers : CaptureOrder(w)
         /\ BillingNext \/ UNCHANGED billingVars
         /\ BillingNext \/ UNCHANGED sold
<1>1. CASE UNCHANGED vars
  BY <1>1 DEF vars
<1>2. CASE StripeNext /\ UNCHANGED billingVars
  BY <1>2 DEF StripeNext, CardDeclined, Pay, DashboardRefund
<1>3. CASE CheckoutNext /\ UNCHANGED billingVars
  BY <1>3 DEF CheckoutNext, CheckoutStep, ReadCart, ReadLastNumber, CreateOrder,
     CreateOrderConflict, CreateSession, RecordSession, RespondWithUrl,
     SessionStepFails, DeleteOrder, CheckoutInterrupted
<1>4. CASE BillingNext
  BY <1>4 DEF BillingNext, WorkerStep, DeliverWebhook, EvictJob, LoseMarker, StartJob,
     OnCheckoutCompleted, LockOrderAndReadStock, CreateConfirmation,
     EnqueueConfirmation, OnPaymentFailed, OnChargeRefundedUnknown, OnChargeRefunded,
     MarkProcessed, AckJob, AttemptFails, JobStalls
<1>5. CASE OrderRefundsNext /\ UNCHANGED billingVars
  BY <1>5 DEF OrderRefundsNext, RefundStep, ReadPayment, RefundPayment, RefundRefused,
     RecordRefund, RecordRefundConflict, RefundInterrupted
<1>6. CASE ReturnsNext /\ UNCHANGED billingVars
  BY <1>6 DEF ReturnsNext, ClerkStep, RequestReturn, OpenApprove, OpenReject, OpenRefund,
     Opens, Approve, Reject, SetReturnStatus, RefundReturn, RefundReturnRefused,
     RecordReturn, RecordReturnConflict, ClerkInterrupted
<1>7. CASE InventoryNext /\ UNCHANGED billingVars
  BY <1>7 DEF InventoryNext, ReadItemForCreate, ReadItemForAdjust, Requests, WriteItem
<1> QED BY <1>1, <1>2, <1>3, <1>4, <1>5, <1>6, <1>7 DEF Next
\* No order has been refunded in full, in the sense of its status.
NoneRefunded == \A o \in Orders : orders[o].status # "REFUNDED"

SalesInv ==
  /\ \A o \in Orders : /\ sold[o] # 0 => orders[o].status = "PAID"
                       /\ sold[o] <= Qty
  /\ \A w \in Workers : At(w, "lock") \/ At(w, "commit") => sold[OrderOf(w)] = 0

\* The books take PAID from no order but to REFUNDED.
LEMMA PaidOrRefunded ==
  ASSUME MoneyStep, NEW o \in Orders, orders[o].status = "PAID"
  PROVE  orders'[o].status \in {"PAID", "REFUNDED"}
<1>1. LooksPaid(o)
  BY DEF LooksPaid, Captured
<1>2. CASE NoMoney
  BY <1>1, <1>2 DEF NoMoney
<1>3. CASE BookSteps
  BY <1>3 DEF BookSteps, Capture, Bookkeeping, BooksMove
<1> QED BY <1>2, <1>3 DEF MoneyStep, ServiceStep, GivesBack, Pay

LEMMA SalesInductive ==
  ASSUME Before, SalesInv, OneAttempt, NoneRefunded', [Next]_vars
  PROVE  SalesInv'
<1>1. BillingTypeOK /\ StateTypeOK /\ MoneyStep
  BY MoneyInductive DEF Before, TypeInv, TypeOK
<1>2. \A o \in Orders : orders[o].status = "PAID" => orders'[o].status = "PAID"
  BY <1>1, PaidOrRefunded DEF NoneRefunded
<1>3. ASSUME NEW v \in Workers, At(v, "lock")' \/ At(v, "commit")'
      PROVE  /\ EventOf(v)' = EventOf(v) /\ OrderOf(v)' = OrderOf(v)
             /\ Working(v) /\ ~CaptureOrder(v)
             /\ sold[OrderOf(v)] = 0
  <2>1. /\ EventOf(v)' = EventOf(v)
        /\ ~CaptureOrder(v)
        /\ \/ At(v, "lock") \/ At(v, "commit")
           \/ At(v, "handle") /\ ~AlreadyPaid(OrderOf(v))
    BY <1>1, <1>3, CapturesProceed, SalesAreCaptures
  <2>2. Working(v)
    BY <2>1 DEF At, Working
  <2>3. OrderOf(v) \in Orders
    BY <2>2, WorkingEvent DEF Before, TypeInv, TypeOK
  <2> QED BY <2>1, <2>2, <2>3 DEF SalesInv, AlreadyPaid, OrderOf
<1>4. CASE UNCHANGED sold
  BY <1>2, <1>3, <1>4 DEF SalesInv
<1>5. ASSUME NEW w \in Workers, CaptureOrder(w)
      PROVE  SalesInv'
  <2> DEFINE o == OrderOf(w)
  <2>1. /\ At(w, "commit") /\ Working(w) /\ o \in Orders /\ EventOf(w) = Payment(o)
        /\ sold' = [sold EXCEPT ![o] = @ + attempt[w].units]
        /\ attempt[w].units \in 0 .. Qty
        /\ orders'[o].status = "PAID"
    BY <1>5, CapturesSell
  <2>2. sold[o] = 0
    BY <2>1 DEF SalesInv
  <2>3. sold'[o] <= Qty /\ \A p \in Orders : p # o => sold'[p] = sold[p]
    BY <1>1, <2>1, <2>2, CommerceAssumption DEF StateTypeOK
  <2>4. ASSUME NEW v \in Workers, At(v, "lock")' \/ At(v, "commit")'
        PROVE  sold'[OrderOf(v)'] = 0
    <3>1. v # w /\ Working(v)
      BY <1>3, <1>5, <2>4
    <3>2. EventOf(v) # EventOf(w)
      BY <2>1, <3>1 DEF OneAttempt
    <3>3. CapturesAreOfPayments' /\ BillingTypeOK' /\ JobsAreEvents'
      BY MoneyInductive, TypesInductive DEF Before, MoneyInv, TypeInv, TypeOK
    <3>4. /\ EventOf(v)'.type = "completed" /\ EventOf(v)' \in Event
          /\ OrderOf(v)' \in Orders
      BY <2>4, <3>3 DEF CapturesAreOfPayments, BillingTypeOK, Working, At, OrderOf, Event
    <3>5. EventOf(v)' = Payment(OrderOf(v)')
      BY <3>4, PaymentIsEvent DEF OrderOf
    <3>6. OrderOf(v)' # o
      BY <1>3, <2>1, <2>4, <3>2, <3>5
    <3> QED BY <1>3, <2>3, <2>4, <3>4, <3>6
  <2> QED BY <1>2, <2>1, <2>3, <2>4 DEF SalesInv
<1> QED BY <1>4, <1>5, SalesAreCaptures

\* An order leaves stock once, however often its event is delivered, retried
\* and taken up again after an eviction or a lost marker: while no two workers
\* have the event at once, the second attempt finds the order paid.  A full
\* refund must not intervene: AlreadyPaid takes a refunded order for an unpaid
\* one, so that the next delivery of the payment would capture it anew.
THEOREM OrdersAreSoldOnce ==
  Spec /\ []OneAttempt /\ []NoneRefunded => []SoldOnce
<1>1. Init => SalesInv
  BY CommerceAssumption DEF Init, StateInit, BillingInit, Idle, At, SalesInv
<1>2. TypeInv /\ MoneyInv /\ OneAttempt /\ NoneRefunded' /\ SalesInv /\ [Next]_vars => SalesInv'
  BY SalesInductive DEF Before
<1>3. SalesInv => SoldOnce
  BY DEF SalesInv, SoldOnce
<1> QED BY <1>1, <1>2, <1>3, MoneyHolds, PTL DEF Spec

\* Where no attempt fails or stalls and no job is evicted, the event of a
\* payment is taken up once, and refunds do not matter.
CalmSales ==
  \A o \in Orders : /\ StillToCome(o) => sold[o] = 0
                    /\ sold[o] <= Qty

\* The events' bookkeeping is the billing worker's alone.
LEMMA NothingComesBack ==
  ASSUME TypeInv, OwnsAll, Calm, [Next]_vars, NEW o \in Orders
  PROVE  /\ StillToCome(o)' => StillToCome(o)
         /\ \A w \in Workers : CaptureOrder(w) /\ EventOf(w) = Payment(o) => ~StillToCome(o)'
<1>1. BillingTypeOK
  BY DEF TypeInv, TypeOK
<1>2. CASE BillingNext
  BY <1>1, <1>2, CapturesComeOnce
<1>3. CASE UNCHANGED billingVars
  <2>1. StillToCome(o)' => StillToCome(o)
    BY <1>3 DEF billingVars, StillToCome, EventOf, At
  <2>2. \A w \in Workers : ~CaptureOrder(w)
    BY <1>1, <1>3 DEF billingVars, CaptureOrder, Continue, At, BillingTypeOK
  <2> QED BY <2>1, <2>2
<1> QED BY <1>2, <1>3, SalesAreCaptures

\* A capture under way is one that is still to come.
LEMMA CapturesAreToCome ==
  ASSUME Before, NEW w \in Workers, CaptureOrder(w)
  PROVE  OrderOf(w) \in Orders /\ EventOf(w) = Payment(OrderOf(w)) /\ StillToCome(OrderOf(w))
BY CapturesSell DEF StillToCome

LEMMA CalmSalesInductive ==
  ASSUME Before, OwnsAll, Calm, CalmSales, [Next]_vars
  PROVE  CalmSales'
<1>1. StateTypeOK
  BY DEF Before, TypeInv, TypeOK
<1>2. \A o \in Orders : /\ StillToCome(o)' => StillToCome(o)
                        /\ \A w \in Workers :
                             CaptureOrder(w) /\ EventOf(w) = Payment(o) => ~StillToCome(o)'
  BY NothingComesBack DEF Before
<1>3. CASE UNCHANGED sold
  BY <1>2, <1>3 DEF CalmSales
<1>4. ASSUME NEW w \in Workers, CaptureOrder(w)
      PROVE  CalmSales'
  <2>1. /\ OrderOf(w) \in Orders /\ EventOf(w) = Payment(OrderOf(w)) /\ StillToCome(OrderOf(w))
        /\ sold' = [sold EXCEPT ![OrderOf(w)] = @ + attempt[w].units]
        /\ attempt[w].units \in 0 .. Qty
    BY <1>4, CapturesAreToCome, CapturesSell
  <2>2. sold[OrderOf(w)] = 0
    BY <2>1 DEF CalmSales
  <2>3. sold'[OrderOf(w)] <= Qty /\ \A p \in Orders : p # OrderOf(w) => sold'[p] = sold[p]
    BY <1>1, <2>1, <2>2, CommerceAssumption DEF StateTypeOK
  <2> QED BY <1>2, <1>4, <2>1, <2>3 DEF CalmSales
<1> QED BY <1>3, <1>4, SalesAreCaptures

LEMMA CalmlyOwned ==
  ASSUME Calm PROVE Spec => []OwnsAll
<1>1. Init => OwnsAll
  BY DEF Init, BillingInit, OwnsAll, Working, Idle
<1>2. TypeInv /\ OwnsAll /\ [Next]_vars => OwnsAll'
  BY OwnershipInductive DEF Calm
<1> QED BY <1>1, <1>2, TypesHold, PTL DEF Spec

\* An order leaves stock once even if it is refunded meanwhile, where no
\* attempt fails or stalls and no job is evicted.
THEOREM OrdersAreSoldOnceIfCalm ==
  ASSUME Calm
  PROVE  Spec => []SoldOnce
<1>1. Init => CalmSales
  BY CommerceAssumption DEF Init, StateInit, CalmSales
<1>2. TypeInv /\ MoneyInv /\ OwnsAll /\ CalmSales /\ [Next]_vars => CalmSales'
  BY CalmSalesInductive DEF Before
<1>3. CalmSales => SoldOnce
  BY DEF CalmSales, SoldOnce
<1> QED BY <1>1, <1>2, <1>3, MoneyHolds, CalmlyOwned, PTL DEF Spec

-----------------------------------------------------------------------------
(***************************************************************************)
(* A refunded order stays refunded.  Only a capture could undo a refund, and *)
(* only of an order that was refunded before its capture, or captured again. *)
(***************************************************************************)
NotYetCaptured == \A o \in Orders : StillToCome(o) => ~Captured(o)

\* An order that becomes captured has been captured, or was refunded with a
\* captured payment.
LEMMA CapturedByCapture ==
  ASSUME Before, CaptureInv, MoneyStep, NEW o \in Orders, Captured(o)'
  PROVE  Captured(o) \/ \E w \in Workers : CaptureOrder(w) /\ OrderOf(w) = o
<1>1. CASE UNCHANGED orders
  BY <1>1 DEF Captured
<1>2. CASE NoMoney
  <2>1. LooksPaid(o)
    BY <1>2 DEF NoMoney, LooksPaid
  <2> QED BY <2>1 DEF CaptureInv, LooksPaid
<1>3. ASSUME NEW p \in Orders, Capture(p)
      PROVE  Captured(o) \/ \E w \in Workers : CaptureOrder(w) /\ OrderOf(w) = o
  BY <1>3 DEF Capture, BooksMove, Captured
<1>4. ASSUME NEW p \in Orders, Bookkeeping(p)
      PROVE  Captured(o)
  <2>1. Captured(p)
    BY <1>4 DEF Bookkeeping, CaptureInv
  <2> QED BY <1>4, <2>1 DEF Bookkeeping, BooksMove, Captured
<1> QED BY <1>1, <1>2, <1>3, <1>4 DEF MoneyStep, ServiceStep, BookSteps, GivesBack, Pay

LEMMA NotYetCapturedInductive ==
  ASSUME Before, CaptureInv, OwnsAll, Calm, NotYetCaptured, [Next]_vars
  PROVE  NotYetCaptured'
<1> SUFFICES ASSUME NEW o \in Orders, StillToCome(o)', Captured(o)' PROVE FALSE
  BY DEF NotYetCaptured
<1>1. /\ StillToCome(o)
      /\ \A w \in Workers : CaptureOrder(w) /\ EventOf(w) = Payment(o) => ~StillToCome(o)'
  BY NothingComesBack DEF Before
<1>2. \A w \in Workers : CaptureOrder(w) => OrderOf(w) # o
  BY <1>1, CapturesAreToCome
<1>3. MoneyStep
  BY MoneyInductive
<1> QED BY <1>1, <1>2, <1>3, CapturedByCapture DEF NotYetCaptured

\* Nothing turns a fully refunded order back into a paid one, where refunds go
\* through the API and no attempt fails or stalls and no job is evicted.
THEOREM RefundsAreFinal ==
  ASSUME Calm, DashboardRefunds = 0
  PROVE  Spec => RefundedIsFinal
<1>1. Init => CaptureInv /\ NotYetCaptured
  BY DEF Init, StateInit, OrderRefundsInit, ReturnsInit, CaptureInv, NoOrderRow, NoRefund,
         AtDesk, ClerkAt, NotYetCaptured, Captured
<1>2. TypeInv /\ MoneyInv /\ OwnsAll /\ CaptureInv /\ NotYetCaptured /\ [Next]_vars =>
        CaptureInv' /\ NotYetCaptured'
  BY CapturesInductive, NotYetCapturedInductive DEF Before
<1>3. TypeInv /\ MoneyInv /\ NotYetCaptured /\ [Next]_vars =>
        [\A o \in Orders : orders[o].status = "REFUNDED" => orders'[o].status = "REFUNDED"]_vars
  <2> SUFFICES ASSUME TypeInv, MoneyInv, NotYetCaptured, [Next]_vars,
                      NEW o \in Orders, orders[o].status = "REFUNDED"
               PROVE  orders'[o].status = "REFUNDED"
    OBVIOUS
  <2>1. MoneyStep /\ Captured(o) /\ LooksPaid(o)
    BY MoneyInductive DEF Before, Captured, LooksPaid
  <2>2. ~\E w \in Workers : CaptureOrder(w) /\ OrderOf(w) = o
    BY <2>1, CapturesAreToCome DEF Before, NotYetCaptured
  <2>3. CASE NoMoney
    BY <2>1, <2>3 DEF NoMoney
  <2>4. CASE BookSteps
    BY <2>2, <2>4 DEF BookSteps, Capture, Bookkeeping, BooksMove
  <2> QED BY <2>1, <2>3, <2>4 DEF MoneyStep, ServiceStep, GivesBack, Pay
<1> QED BY <1>1, <1>2, <1>3, MoneyHolds, CalmlyOwned, PTL DEF Spec, RefundedIsFinal
-----------------------------------------------------------------------------
(***************************************************************************)
(* Agreement at rest.  When every event has been processed the books say    *)
(* what Stripe says: what Stripe did is in an event, and an event that is   *)
(* handled has left its mark on the books.                                  *)
(***************************************************************************)
Unrefunded(o) == stripeRefunds[o] = << >>

RefundEvent(o, id) == [type |-> "refunded", order |-> o, upto |-> id]

AllIsTold ==
  \A o \in Orders : /\ Complete(o) => Payment(o) \in events
                    /\ \A id \in DOMAIN stripeRefunds[o] : RefundEvent(o, id) \in events

LEMMA AllStaysTold ==
  ASSUME Before, StateTypeOK', AllIsTold, MoneyStep PROVE AllIsTold'
<1>1. StateTypeOK
  BY DEF Before, TypeInv, TypeOK
<1>2. CASE NoMoney
  BY <1>2 DEF NoMoney, AllIsTold
<1>3. CASE BookSteps
  BY <1>3 DEF BookSteps, AllIsTold, Complete
<1>4. ASSUME NEW o \in Orders, Pay(o)
      PROVE  AllIsTold'
  <2>1. /\ events' = events \cup {Payment(o)} /\ UNCHANGED stripeRefunds
        /\ \A p \in Orders : p # o => session'[p] = session[p]
    BY <1>1, <1>4 DEF Pay, Payment, StateTypeOK
  <2> QED BY <2>1 DEF AllIsTold, Complete
<1>5. ASSUME NEW o \in Orders, NEW amt \in 1 .. Total, GivesBack(o, amt)
      PROVE  AllIsTold'
  <2>1. StripeRefund(o, amt)
    BY <1>5 DEF GivesBack
  <2>2. /\ events' = events \cup {RefundEvent(o, Len(stripeRefunds[o]) + 1)} /\ UNCHANGED session
        /\ Len(stripeRefunds'[o]) = Len(stripeRefunds[o]) + 1
        /\ \A p \in Orders : p # o => stripeRefunds'[p] = stripeRefunds[p]
    BY <1>1, <2>1, RefundTotals DEF StripeRefund, NextRefundId, RefundEvent
  <2>3. /\ DOMAIN stripeRefunds'[o] = 1 .. Len(stripeRefunds'[o])
        /\ DOMAIN stripeRefunds[o] = 1 .. Len(stripeRefunds[o])
        /\ Len(stripeRefunds[o]) \in Nat
    BY <1>1 DEF StateTypeOK
  <2>4. DOMAIN stripeRefunds'[o] = DOMAIN stripeRefunds[o] \cup {Len(stripeRefunds[o]) + 1}
    BY <2>2, <2>3
  <2> QED BY <2>2, <2>4 DEF AllIsTold, Complete
<1> QED BY <1>2, <1>3, <1>4, <1>5 DEF MoneyStep, ServiceStep

\* Refunds do not go away, neither at Stripe nor in the books.
LEMMA RefundsLast ==
  ASSUME Before, MoneyStep, NEW o \in Orders
  PROVE  /\ Unrefunded(o)' => Unrefunded(o)
         /\ Recorded(o) \subseteq Recorded(o)'
         /\ Captured(o) => Captured(o)'
<1>1. StateTypeOK
  BY DEF Before, TypeInv, TypeOK
<1>2. CASE NoMoney
  BY <1>2 DEF NoMoney, Unrefunded, Recorded, LooksPaid, Captured
<1>3. CASE BookSteps
  <2>1. Unrefunded(o)' => Unrefunded(o)
    BY <1>3 DEF BookSteps, Unrefunded
  <2>2. refunds[o] \subseteq refunds'[o]
    BY <1>1, <1>3 DEF BookSteps, Capture, Bookkeeping, StateTypeOK
  <2>3. Captured(o) => Captured(o)'
    BY <1>3 DEF BookSteps, Capture, Bookkeeping, BooksMove, Captured
  <2> QED BY <2>1, <2>2, <2>3 DEF Recorded
<1>4. ASSUME NEW p \in Orders, Pay(p)
      PROVE  UNCHANGED <<orders, refunds, stripeRefunds>>
  BY <1>4 DEF Pay
<1>5. ASSUME NEW p \in Orders, NEW amt \in 1 .. Total, GivesBack(p, amt)
      PROVE  UNCHANGED <<orders, refunds>> /\ (Unrefunded(o)' => Unrefunded(o))
  <2>1. StripeRefund(p, amt) /\ UNCHANGED <<orders, refunds>>
    BY <1>5 DEF GivesBack
  <2>2. /\ Len(stripeRefunds'[p]) = Len(stripeRefunds[p]) + 1
        /\ \A q \in Orders : q # p => stripeRefunds'[q] = stripeRefunds[q]
    BY <1>1, <2>1, RefundTotals
  <2>3. Len(stripeRefunds[p]) \in Nat
    BY <1>1 DEF StateTypeOK
  <2>4. stripeRefunds'[p] # << >>
    BY <2>2, <2>3
  <2> QED BY <2>1, <2>2, <2>4 DEF Unrefunded
<1> QED BY <1>2, <1>3, <1>4, <1>5 DEF MoneyStep, ServiceStep, Unrefunded, Recorded, Captured

\* An event that has been handled stands on a handler's step, now or before.
LEMMA HandledOrJustSo ==
  ASSUME Before, [Next]_vars, NEW e \in Event, Handled(e)'
  PROVE  \/ Handled(e)
         \/ \E w \in Workers :
              /\ EventOf(w) = e /\ e \in events /\ OrderOf(w) = e.order /\ e.order \in Orders
              /\ \/ OnCheckoutCompleted(w) /\ At(w, "mark")'
                 \/ CaptureOrder(w) \/ OnPaymentFailed(w)
                 \/ OnChargeRefundedUnknown(w) \/ OnChargeRefunded(w)
<1>1. BillingTypeOK /\ JobsAreEvents
  BY DEF Before, TypeInv, TypeOK
<1>2. CASE UNCHANGED billingVars
  BY <1>2 DEF billingVars, Handled, PastHandler, EventOf, At
<1>3. CASE BillingNext
  <2> DEFINE Acts(w) == \/ OnCheckoutCompleted(w) /\ At(w, "mark")'
                        \/ CaptureOrder(w) \/ OnPaymentFailed(w)
                        \/ OnChargeRefundedUnknown(w) \/ OnChargeRefunded(w)
  <2>1. Handled(e) \/ \E w \in Workers : EventOf(w) = e /\ Acts(w)
    BY <1>1, <1>3, HandledByHandler
  <2>2. \A w \in Workers : Acts(w) => Working(w)
    BY DEF OnCheckoutCompleted, CaptureOrder, OnPaymentFailed, OnChargeRefundedUnknown,
       OnChargeRefunded, At, Working
  <2> HIDE DEF Acts
  <2>3. \A w \in Workers : Acts(w) => EventOf(w) \in events /\ OrderOf(w) \in Orders
    BY <1>1, <2>2, WorkingEvent
  <2>4. \/ Handled(e)
        \/ \E w \in Workers : EventOf(w) = e /\ e \in events /\ OrderOf(w) = e.order
                              /\ e.order \in Orders /\ Acts(w)
    BY <2>1, <2>3 DEF OrderOf
  <2> QED BY <2>4 DEF Acts
<1> QED BY <1>2, <1>3, SalesAreCaptures

(***************************************************************************)
(* Payments.  An order that has given no money back is PAID just when it is *)
(* captured, and captured once its event has been handled.  (A refund that  *)
(* overtakes its payment is acknowledged unseen, so that no more can be     *)
(* said of an order that has given money back.)                             *)
(***************************************************************************)
PaymentsInv ==
  \A o \in Orders :
    Unrefunded(o) => /\ orders[o].financial = IF Captured(o) THEN "PAID" ELSE "UNPAID"
                     /\ Handled(Payment(o)) => Captured(o)

LEMMA PaymentsInductive ==
  ASSUME Before, PaymentsInv, [Next]_vars PROVE PaymentsInv'
<1> SUFFICES ASSUME NEW o \in Orders, Unrefunded(o)'
             PROVE  /\ orders'[o].financial = IF Captured(o)' THEN "PAID" ELSE "UNPAID"
                    /\ Handled(Payment(o))' => Captured(o)'
  BY DEF PaymentsInv
<1>1. MoneyStep
  BY MoneyInductive
<1>2. Unrefunded(o) /\ (Captured(o) => Captured(o)')
  BY <1>1, RefundsLast
<1>3. /\ orders[o].financial = IF Captured(o) THEN "PAID" ELSE "UNPAID"
      /\ Handled(Payment(o)) => Captured(o)
  BY <1>2 DEF PaymentsInv
<1>4. orders'[o].financial = IF Captured(o)' THEN "PAID" ELSE "UNPAID"
  <2>1. CASE NoMoney
    BY <1>3, <2>1 DEF NoMoney, LooksPaid, Captured
  <2>2. CASE UNCHANGED orders
    BY <1>3, <2>2 DEF Captured
  <2>3. ASSUME NEW p \in Orders, Capture(p)
        PROVE  orders'[o].financial = IF Captured(o)' THEN "PAID" ELSE "UNPAID"
    BY <1>3, <2>3 DEF Capture, BooksMove, Captured
  <2>4. ASSUME NEW p \in Orders, Bookkeeping(p)
        PROVE  orders'[o] = orders[o]
    BY <1>2, <2>4 DEF Bookkeeping, BooksMove, Unrefunded
  <2> QED BY <1>1, <1>3, <2>1, <2>2, <2>3, <2>4
          DEF MoneyStep, ServiceStep, BookSteps, GivesBack, Pay, Captured
<1>5. ASSUME Handled(Payment(o))'
      PROVE  Captured(o)'
  <2> DEFINE e == Payment(o)
  <2>1. e \in Event /\ e.type = "completed" /\ e.order = o
    BY PaymentIsEvent DEF Payment
  <2> HIDE DEF e
  <2>2. CASE Handled(e)
    BY <1>2, <1>3, <2>2 DEF e
  <2>3. ASSUME NEW w \in Workers, EventOf(w) = e, OrderOf(w) = o, OnCheckoutCompleted(w),
               At(w, "mark")', e \in events
        PROVE  Captured(o)
    <3>1. BillingTypeOK /\ UrlsComeLast /\ StripeIsPaid
      BY DEF Before, MoneyInv, TypeInv, TypeOK
    <3>2. OrderExists(o)
      BY <2>1, <2>3, <3>1 DEF StripeIsPaid, UrlsComeLast, HasUrl, Complete
    <3>3. AlreadyPaid(o)
      <4>1. ~AlreadyPaid(o) => Continue(w, "lock")
        BY <2>3, <3>2 DEF OnCheckoutCompleted
      <4>2. attempt \in [Workers -> AttemptRow]
        BY <3>1 DEF BillingTypeOK, AttemptRow
      <4>3. ~Continue(w, "lock")
        BY <2>3, <4>2 DEF Continue, At, AttemptRow
      <4> QED BY <4>1, <4>3
    <3> QED BY <1>3, <3>3 DEF AlreadyPaid, Captured
  <2>4. ASSUME NEW w \in Workers, OrderOf(w) = o, CaptureOrder(w)
        PROVE  Captured(o)'
    BY <2>4, CapturesSell DEF Captured
  <2>5. ASSUME NEW w \in Workers, EventOf(w) = e,
               OnPaymentFailed(w) \/ OnChargeRefundedUnknown(w) \/ OnChargeRefunded(w)
        PROVE  FALSE
    BY <2>1, <2>5 DEF OnPaymentFailed, OnChargeRefundedUnknown, OnChargeRefunded
  <2>6. Handled(e)'
    BY <1>5 DEF e
  <2> QED BY <1>2, <2>1, <2>2, <2>3, <2>4, <2>5, <2>6, HandledOrJustSo
<1> QED BY <1>4, <1>5

\* SettledAgrees for the orders that have given no money back.
PaymentsAgree ==
  Quiescent => \A o \in Orders :
    OrderExists(o) /\ Unrefunded(o) => orders[o].financial = FinancialTruth(o)

LEMMA PaymentsAgreeAtRest ==
  ASSUME MoneyInv, AllIsTold, PaymentsInv PROVE PaymentsAgree
<1> SUFFICES ASSUME Quiescent, NEW o \in Orders, Unrefunded(o)
             PROVE  orders[o].financial = FinancialTruth(o)
  BY DEF PaymentsAgree
<1>1. Refunded(o) = 0
  BY DEF Unrefunded, Refunded, RefundedAfter
<1>2. CASE Complete(o)
  <2>1. Payment(o) \in events
    BY <1>2 DEF AllIsTold
  <2>2. Handled(Payment(o))
    BY <2>1 DEF Quiescent, Handled
  <2> QED BY <1>1, <1>2, <2>2 DEF PaymentsInv, FinancialTruth, Complete
<1>3. CASE ~Complete(o)
  BY <1>3 DEF MoneyInv, BooksArePaid, LooksPaid, FinancialTruth, Complete
<1> QED BY <1>2, <1>3

\* Every payment is on its order once the events have been processed: none is
\* lost to failed attempts, stalled jobs, lost markers, evictions, or two
\* workers at once, as long as the order has given no money back.
THEOREM PaymentsSettle == Spec => []PaymentsAgree
<1>1. Init => AllIsTold /\ PaymentsInv
  <2> SUFFICES ASSUME Init PROVE AllIsTold /\ PaymentsInv
    OBVIOUS
  <2>1. \A o \in Orders : ~Captured(o) /\ orders[o].financial = "UNPAID" /\ ~Complete(o)
                          /\ stripeRefunds[o] = << >>
    BY DEF Init, StateInit, NoOrderRow, Captured, Complete
  <2>2. \A o \in Orders : ~Handled(Payment(o))
    <3>1. marker = {} /\ \A w \in Workers : attempt[w].pc = "idle"
      BY DEF Init, BillingInit, Idle
    <3>2. \A e \in Event : job[e].status = "none"
      BY DEF Init, BillingInit
    <3> QED BY <3>1, <3>2, PaymentIsEvent DEF Handled, PastHandler, At
  <2> QED BY <2>1, <2>2 DEF AllIsTold, PaymentsInv
<1>2. TypeInv /\ MoneyInv /\ AllIsTold /\ PaymentsInv /\ [Next]_vars => AllIsTold' /\ PaymentsInv'
  BY TypesInductive, MoneyInductive, AllStaysTold, PaymentsInductive DEF Before, TypeInv, TypeOK
<1>3. MoneyInv /\ AllIsTold /\ PaymentsInv => PaymentsAgree
  BY PaymentsAgreeAtRest
<1> QED BY <1>1, <1>2, <1>3, MoneyHolds, PTL DEF Spec

\* In a shop without refunds ...
NothingGivenBack == \A o \in Orders : Unrefunded(o)

LEMMA NothingIsGivenBack ==
  ASSUME MaxRefunds = 0 PROVE Spec => [](NothingGivenBack /\ NoneRefunded)
<1> DEFINE Inv == NothingGivenBack /\ NoneRefunded
<1>1. Init => Inv
  BY DEF Init, StateInit, NoOrderRow, NothingGivenBack, Unrefunded, NoneRefunded
<1>2. TypeInv /\ MoneyInv /\ Inv /\ [Next]_vars => Inv'
  <2> SUFFICES ASSUME TypeInv, MoneyInv, Inv, [Next]_vars PROVE Inv'
    OBVIOUS
  <2>1. MoneyStep /\ StateTypeOK
    BY MoneyInductive DEF Before, TypeInv, TypeOK
  <2>2. ASSUME NEW o \in Orders, NEW amt, GivesBack(o, amt) PROVE FALSE
    <3>1. Len(stripeRefunds[o]) < 0
      BY <2>2 DEF GivesBack, CanRefund
    <3> QED BY <2>1, <3>1 DEF StateTypeOK
  <2>3. ASSUME NEW o \in Orders, Bookkeeping(o) PROVE FALSE
    BY <2>3 DEF Bookkeeping, NothingGivenBack, Unrefunded
  <2>4. UNCHANGED stripeRefunds
    BY <2>1, <2>2 DEF MoneyStep, ServiceStep, BookSteps, Pay, NoMoney
  <2>5. \A o \in Orders : orders'[o].status # "REFUNDED"
    <3>1. CASE NoMoney
      BY <3>1 DEF NoMoney, LooksPaid, Captured, NoneRefunded
    <3>2. CASE UNCHANGED orders
      BY <3>2 DEF NoneRefunded
    <3>3. CASE \E o \in Orders : Capture(o)
      BY <3>3 DEF Capture, BooksMove, NoneRefunded
    <3> QED BY <2>1, <2>2, <2>3, <3>1, <3>2, <3>3 DEF MoneyStep, ServiceStep, BookSteps, Pay
  <2> QED BY <2>4, <2>5 DEF NothingGivenBack, Unrefunded, NoneRefunded
<1> QED BY <1>1, <1>2, MoneyHolds, PTL DEF Spec

\* ... the books agree with Stripe whenever nothing is on its way, through any
\* failures of attempts, jobs and markers,
THEOREM SettledBooksAgree ==
  ASSUME MaxRefunds = 0
  PROVE  Spec => []SettledAgrees
<1>1. PaymentsAgree /\ NothingGivenBack => SettledAgrees
  BY DEF PaymentsAgree, NothingGivenBack, SettledAgrees
<1> QED BY <1>1, PaymentsSettle, NothingIsGivenBack, PTL

\* ... and an order is sold once, if no running job loses its lock.
THEOREM UnrefundedAreSoldOnce ==
  ASSUME MaxRefunds = 0, Stalls = 0
  PROVE  Spec => []SoldOnce
BY OrdersAreSoldOnce, AttemptsAreExclusive, NothingIsGivenBack, PTL
-----------------------------------------------------------------------------
(***************************************************************************)
(* Refunds.  An event of a refund is handled with a row, unless the payment *)
(* is not known yet; refunds through the API come after the capture, which  *)
(* leaves a payment row that nothing deletes.                               *)
(***************************************************************************)
RowsInv ==
  /\ \A o \in Orders : Captured(o) => payments[o] # "ABSENT"
  /\ \A e \in Event : e.type = "refunded" /\ Handled(e) => e.upto \in Recorded(e.order)

LEMMA PaymentRowsStay ==
  ASSUME Before, CaptureInv, [Next]_vars, NEW o \in Orders, Captured(o)',
         Captured(o) => payments[o] # "ABSENT"
  PROVE  payments'[o] # "ABSENT"
<1>1. StateTypeOK /\ MoneyStep
  BY MoneyInductive DEF Before, TypeInv, TypeOK
<1>2. payments[o] # "ABSENT" => payments'[o] # "ABSENT"
  BY <1>1, PaymentMoves DEF StateTypeOK
<1>3. ASSUME NEW w \in Workers, CaptureOrder(w), OrderOf(w) = o
      PROVE  payments'[o] # "ABSENT"
  <2>1. payments' = [payments EXCEPT ![o] = "SUCCEEDED"]
    BY <1>3 DEF CaptureOrder
  <2> QED BY <1>1, <2>1 DEF StateTypeOK
<1> QED BY <1>1, <1>2, <1>3, CapturedByCapture

LEMMA RowsInductive ==
  ASSUME Before, CaptureInv, RowsInv, [Next]_vars PROVE RowsInv'
<1>1. /\ StateTypeOK /\ BillingTypeOK /\ EventsAreTrue /\ MoneyStep
  BY MoneyInductive DEF Before, TypeInv, TypeOK
<1>2. \A o \in Orders : Captured(o)' => payments'[o] # "ABSENT"
  BY PaymentRowsStay DEF RowsInv
<1>3. ASSUME NEW e \in Event, e.type = "refunded", Handled(e)'
      PROVE  e.upto \in Recorded(e.order)'
  <2> DEFINE o == e.order
  <2>1. o \in Orders /\ e.upto \in 1 .. MaxRefunds
    BY <1>3 DEF Event
  <2>2. CASE Handled(e)
    BY <1>1, <1>3, <2>1, <2>2, RefundsLast DEF RowsInv
  <2>3. ASSUME NEW w \in Workers, EventOf(w) = e, CaptureOrder(w)
        PROVE  FALSE
    <3>1. e = Payment(OrderOf(w))
      BY <2>3, CapturesSell
    <3> QED BY <1>3, <3>1 DEF Payment
  <2>4. ASSUME NEW w \in Workers, EventOf(w) = e, OnCheckoutCompleted(w) \/ OnPaymentFailed(w)
        PROVE  FALSE
    BY <1>3, <2>4 DEF OnCheckoutCompleted, OnPaymentFailed
  <2>5. ASSUME NEW w \in Workers, EventOf(w) = e, OrderOf(w) = o, e \in events,
               OnChargeRefundedUnknown(w)
        PROVE  FALSE
    <3>1. stripeRefunds[o] # << >>
      BY <1>1, <1>3, <2>5 DEF EventsAreTrue
    <3>2. payments[o] # "ABSENT"
      BY <2>1, <3>1 DEF CaptureInv, RowsInv
    <3> QED BY <2>5, <3>2 DEF OnChargeRefundedUnknown
  <2>6. ASSUME NEW w \in Workers, EventOf(w) = e, OrderOf(w) = o, OnChargeRefunded(w)
        PROVE  e.upto \in Recorded(o)'
    <3>1. refunds' = [refunds EXCEPT ![o] = @ \cup {RefundRow(o, id) : id \in Missing(o, e.upto)}]
      BY <2>6 DEF OnChargeRefunded
    <3>2. refunds'[o] = refunds[o] \cup {RefundRow(o, id) : id \in Missing(o, e.upto)}
      BY <1>1, <2>1, <3>1 DEF StateTypeOK
    <3>3. e.upto \in Missing(o, e.upto) \/ e.upto \in Recorded(o)
      BY <2>1, CommerceAssumption DEF Missing
    <3>4. CASE e.upto \in Recorded(o)
      BY <3>2, <3>4 DEF Recorded
    <3>5. CASE e.upto \in Missing(o, e.upto)
      <4>1. RefundRow(o, e.upto) \in refunds'[o] /\ RefundRow(o, e.upto).id = e.upto
        BY <3>2, <3>5 DEF RefundRow
      <4> QED BY <4>1 DEF Recorded
    <3> QED BY <3>3, <3>4, <3>5
  <2> QED BY <1>3, <2>2, <2>3, <2>4, <2>5, <2>6, HandledOrJustSo
<1>4. \A e \in Event : e.order \in Orders
  BY DEF Event
<1> QED BY <1>2, <1>3 DEF RowsInv

LEMMA RefundsAgreeAtRest ==
  ASSUME StateTypeOK, MoneyInv, AllIsTold, RowsInv PROVE SettledRecorded
<1> SUFFICES ASSUME Quiescent, NEW o \in Orders
             PROVE  Recorded(o) = DOMAIN stripeRefunds[o]
  BY DEF SettledRecorded
<1>1. Recorded(o) \subseteq DOMAIN stripeRefunds[o]
  BY DEF Recorded, MoneyInv, RowsAreBacked, Made
<1>2. ASSUME NEW id \in DOMAIN stripeRefunds[o]
      PROVE  id \in Recorded(o)
  <2> DEFINE e == RefundEvent(o, id)
  <2>1. e \in events /\ e.type = "refunded" /\ e.order = o /\ e.upto = id
    BY DEF AllIsTold, RefundEvent
  <2> HIDE DEF e
  <2>2. Handled(e)
    BY <2>1 DEF Quiescent, Handled
  <2>3. e \in Event
    BY <2>1 DEF StateTypeOK
  <2> QED BY <2>1, <2>2, <2>3 DEF RowsInv
<1> QED BY <1>1, <1>2

\* Every refund that Stripe made has its row once the events have been
\* processed, even if the request that asked for it died before it could write
\* one: the event makes up for it, through failed attempts, evictions, lost
\* markers and two workers at once, where refunds go through the API.
THEOREM RefundsSettle ==
  ASSUME DashboardRefunds = 0
  PROVE  Spec => []SettledRecorded
<1>1. Init => CaptureInv /\ AllIsTold /\ RowsInv
  <2> SUFFICES ASSUME Init PROVE CaptureInv /\ AllIsTold /\ RowsInv
    OBVIOUS
  <2>1. CaptureInv
    BY DEF Init, StateInit, OrderRefundsInit, ReturnsInit, CaptureInv, NoOrderRow, NoRefund,
           AtDesk, ClerkAt
  <2>2. \A o \in Orders : ~Captured(o) /\ ~Complete(o) /\ stripeRefunds[o] = << >>
    BY DEF Init, StateInit, NoOrderRow, Captured, Complete
  <2>3. \A e \in Event : ~Handled(e)
    BY DEF Init, BillingInit, Idle, Handled, PastHandler, At
  <2> QED BY <2>1, <2>2, <2>3 DEF AllIsTold, RowsInv
<1>2. TypeInv /\ MoneyInv /\ CaptureInv /\ AllIsTold /\ RowsInv /\ [Next]_vars =>
        CaptureInv' /\ AllIsTold' /\ RowsInv'
  BY TypesInductive, MoneyInductive, CapturesInductive, AllStaysTold, RowsInductive
     DEF Before, TypeInv, TypeOK
<1>3. TypeInv /\ MoneyInv /\ AllIsTold /\ RowsInv => SettledRecorded
  BY RefundsAgreeAtRest DEF TypeInv, TypeOK
<1> QED BY <1>1, <1>2, <1>3, MoneyHolds, PTL DEF Spec
=============================================================================
