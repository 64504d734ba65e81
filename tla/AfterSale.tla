----------------------------- MODULE AfterSale ------------------------------
(***************************************************************************)
(* What happens to an order once it is placed: it is shipped, its buyer is  *)
(* written to, and its buyer may ask to be forgotten.  The three meet in    *)
(* the orders' addresses and in the notifications.                         *)
(***************************************************************************)
EXTENDS Privacy

vars == <<sales, shipVars, mailVars, privacyVars>>

ASSUME AfterSaleAssumption ==
  /\ MaxMailAttempts \in Nat
  /\ MaxDsarAttempts \in Nat
  /\ Targets \subseteq ShipmentStatus
  /\ Anon \notin Customers
  /\ None \notin Addresses \cup ShipmentStatus \cup Mailers \cup Clerks \cup Requests \cup Dsar

Init ==
  /\ sales \in [Sales -> {[email |-> c, fulfilment |-> "UNFULFILLED"] : c \in Customers}]
  /\ FulfilmentInit
  /\ NotificationsInit
  /\ PrivacyInit

Next ==
  \/ FulfilmentNext /\ UNCHANGED privacyVars
  \/ NotificationsNext /\ UNCHANGED <<sales, shipVars, privacyVars>>
  \/ PrivacyNext

Spec == Init /\ [][Next]_vars

TypeOK == FulfilmentTypeOK /\ NotificationsTypeOK /\ PrivacyTypeOK

-----------------------------------------------------------------------------
(***************************************************************************)
(* Safety.                                                                  *)
(***************************************************************************)

UpdatesQueued(s) ==
  {n \in DOMAIN notes : notes[n].about = s /\ mailJob[n].status # "none"}
Updating(s) == {p \in Shippers : ShipmentOf(p) = s /\ shipper[p].pc \in {"fulfil", "note", "queue"}}

\* Whoever updates it at the same time, once a shipment was IN_TRANSIT its order
\* is FULFILLED and an e-mail queued, unless the request is still at it or died
\* (ShippingService: "marks the order FULFILLED and emails the buyer").
DeparturesAreTold ==
  \A s \in DOMAIN shipments : shipments[s].left =>
    \/ shipments[s].untold
    \/ Updating(s) # {}
    \/ /\ UpdatesQueued(s) # {}
       /\ sales[shipments[s].order].fulfilment = "FULFILLED"

\* The row of a message that nobody handed to the SMTP server is never SENT,
\* and a message is handed over twice only if an attempt died, failed to
\* record it or stalled (NotificationsProcessor: "Idempotent").
SentOncePerFault ==
  \A n \in DOMAIN notes :
    /\ notes[n].status = "SENT" => notes[n].sent > 0
    /\ notes[n].sent <= 1 + notes[n].excused

\* A fulfilled erasure leaves no order under the subject's address and no
\* live customer row, whoever erased what in between (DsarProcessor.erase).
ErasureIsComplete ==
  \A r \in Requests : dsar[r] # None /\ dsar[r].status = "COMPLETED" /\ dsar[r].type = "ERASURE" =>
    /\ \A o \in Sales : sales[o].email # dsar[r].subject
    /\ customer[dsar[r].subject] # "live"

\* A request that is fulfilled is audited, and once unless its job stalled
\* (DsarProcessor: "a COMPLETED/REJECTED request is skipped").
AuditedOnce ==
  \A r \in Requests : dsar[r] # None =>
    /\ dsar[r].status = "COMPLETED" <=> audits[r] > 0
    /\ audits[r] <= 1 + dsarFaults["stall"]

-----------------------------------------------------------------------------
(***************************************************************************)
(* Liveness.  BullMQ and its workers keep running, and a request that is    *)
(* served goes on.  Nothing makes people ask, ship or erase.                *)
(***************************************************************************)
MailGoesOn(w) ==
  /\ MailerStep(w) \/ \E n \in DOMAIN mailJob : StartMail(w, n)
  /\ UNCHANGED <<sales, shipVars, privacyVars>>
UpdateGoesOn(p) == UpdateStep(p) /\ UNCHANGED privacyVars
DsarGoesOn(k) == ClerkStep(k) \/ \E r \in Requests : StartRequest(k, r)

FairSpec ==
  /\ Spec
  /\ \A w \in Mailers : WF_vars(MailGoesOn(w))
  /\ \A p \in Shippers : WF_vars(UpdateGoesOn(p))
  /\ \A k \in Clerks : WF_vars(DsarGoesOn(k))

Departed(s) == s \in DOMAIN shipments /\ shipments[s].left
Written(s) ==
  /\ s \in DOMAIN shipments
  /\ \/ shipments[s].untold
     \/ \E n \in UpdatesQueued(s) : notes[n].sent > 0

\* A buyer whose shipment left is written to, though fewer deliveries fail
\* than a job has attempts, unless the update itself died (onShipped, `throw
\* err; // let BullMQ retry`).
BuyerIsWritten == \A s \in 1..MaxShipments : Departed(s) ~> Written(s)

\* A queued request is fulfilled, though fewer attempts fail than its job has
\* (DsarProcessor.process).
DsarIsFulfilled ==
  \A r \in Requests : dsarJob[r].status = "waiting" ~>
    (dsar[r] # None /\ dsar[r].status = "COMPLETED")
=============================================================================
