----------------------------- MODULE Fulfilment -----------------------------
(***************************************************************************)
(* ShippingService.  A shipment is recorded for an order and updated by     *)
(* people; the update that takes it to IN_TRANSIT marks the order FULFILLED *)
(* in a second transaction and tells the buyer in a third.                  *)
(***************************************************************************)
EXTENDS Notifications

CONSTANTS
  Sales,         \* orders that were placed
  Shippers,      \* people updating shipments
  Targets,       \* statuses they set
  MaxShipments,  \* bound on shipments
  MaxUpdates,    \* bound on updates
  ShipDeaths     \* bound on update requests that die

VARIABLES
  sales,      \* the e-mail and fulfilment status of each order
  shipments,  \* Shipment rows, by age
  shipper,    \* what each update request is doing
  shipBudget  \* updates and deaths so far

shipVars == <<shipments, shipper, shipBudget>>

ShipmentStatus == {"PENDING", "LABEL_PURCHASED", "IN_TRANSIT", "DELIVERED", "RETURNED", "CANCELLED"}
Sale == [email : Addresses, fulfilment : {"UNFULFILLED", "FULFILLED"}]
\* `left` and `untold` are histories: the shipment was set IN_TRANSIT, and the
\* request that did so died before the buyer's e-mail was queued.
Shipment == [order : Sales, status : ShipmentStatus, left : BOOLEAN, untold : BOOLEAN]
Shipper == [pc : {"idle", "write", "fulfil", "note", "queue"}, shipment : Nat,
            target : ShipmentStatus \cup {None}, becoming : BOOLEAN,
            to : Addresses \cup {None}, note : Nat]

NoUpdate == [pc |-> "idle", shipment |-> 0, target |-> None, becoming |-> FALSE,
             to |-> None, note |-> 0]

-----------------------------------------------------------------------------
\* create: a label that was bought, or a tracking number that was given,
\* makes the shipment LABEL_PURCHASED; any failure to buy one leaves PENDING.
CreateShipment(o) ==
  /\ Len(shipments) < MaxShipments
  /\ \E status \in {"PENDING", "LABEL_PURCHASED"} :
       shipments' = Append(shipments, [order |-> o, status |-> status, left |-> FALSE, untold |-> FALSE])
  /\ UNCHANGED <<sales, shipper, shipBudget, mailVars>>

ShipperAt(p, pc) == shipper[p].pc = pc
ShipmentOf(p) == shipper[p].shipment

\* Mutant of BecomingShipped: a shipment leaves out of PENDING.
BecomingShippedFresh(s, target) == target = "IN_TRANSIT" /\ shipments[s].status = "PENDING"
BecomingShipped(s, target) == target = "IN_TRANSIT" /\ shipments[s].status # "IN_TRANSIT"

\* update, the row as it is read.
ReadShipment(p, s, target) ==
  /\ ShipperAt(p, "idle")
  /\ shipBudget.updates < MaxUpdates
  /\ shipBudget' = [shipBudget EXCEPT !.updates = @ + 1]
  /\ shipper' = [shipper EXCEPT ![p] = [NoUpdate EXCEPT !.pc = "write", !.shipment = s,
                    !.target = target, !.becoming = BecomingShipped(s, target)]]
  /\ UNCHANGED <<sales, shipments, mailVars>>

\* update, the write, which does not look at the status again.
WriteShipment(p) ==
  LET row == shipments[ShipmentOf(p)] IN
  /\ ShipperAt(p, "write")
  /\ shipments' = [shipments EXCEPT ![ShipmentOf(p)] =
       [row EXCEPT !.status = shipper[p].target, !.left = row.left \/ shipper[p].target = "IN_TRANSIT"]]
  /\ shipper' = [shipper EXCEPT ![p] =
       IF shipper[p].becoming THEN [@ EXCEPT !.pc = "fulfil"] ELSE NoUpdate]
  /\ UNCHANGED <<sales, shipBudget, mailVars>>

\* onShipped: the order is marked, and its address read in the same statement.
FulfilOrder(p) ==
  LET o == shipments[ShipmentOf(p)].order IN
  /\ ShipperAt(p, "fulfil")
  /\ sales' = [sales EXCEPT ![o].fulfilment = "FULFILLED"]
  /\ shipper' = [shipper EXCEPT ![p] = [@ EXCEPT !.pc = "note", !.to = sales[o].email]]
  /\ UNCHANGED <<shipments, shipBudget, mailVars>>

NoteBuyer(p) ==
  /\ ShipperAt(p, "note")
  /\ AddNote(shipper[p].to, ShipmentOf(p))
  /\ shipper' = [shipper EXCEPT ![p] = [@ EXCEPT !.pc = "queue", !.note = Len(notes) + 1]]
  /\ UNCHANGED <<sales, shipments, shipBudget, mailer, mailFaults>>

QueueBuyerNote(p) ==
  /\ ShipperAt(p, "queue")
  /\ QueueNote(shipper[p].note)
  /\ shipper' = [shipper EXCEPT ![p] = NoUpdate]
  /\ UNCHANGED <<sales, shipments, shipBudget, notes, mailer, mailFaults>>

\* The process dies between two statements.
UpdateDies(p) ==
  /\ ShipperAt(p, "fulfil") \/ ShipperAt(p, "note") \/ ShipperAt(p, "queue")
  /\ shipBudget.deaths < ShipDeaths
  /\ shipBudget' = [shipBudget EXCEPT !.deaths = @ + 1]
  /\ shipments' = [shipments EXCEPT ![ShipmentOf(p)].untold = TRUE]
  /\ shipper' = [shipper EXCEPT ![p] = NoUpdate]
  /\ UNCHANGED <<sales, mailVars>>

UpdateStep(p) == WriteShipment(p) \/ FulfilOrder(p) \/ NoteBuyer(p) \/ QueueBuyerNote(p)

FulfilmentInit ==
  /\ shipments = <<>>
  /\ shipper = [p \in Shippers |-> NoUpdate]
  /\ shipBudget = [updates |-> 0, deaths |-> 0]

FulfilmentNext ==
  \/ \E o \in Sales : CreateShipment(o)
  \/ \E p \in Shippers :
       \/ \E s \in DOMAIN shipments, target \in Targets : ReadShipment(p, s, target)
       \/ UpdateStep(p)
       \/ UpdateDies(p)

FulfilmentTypeOK ==
  /\ sales \in [Sales -> Sale]
  /\ shipments \in Seq(Shipment)
  /\ shipper \in [Shippers -> Shipper]
  /\ shipBudget \in [updates : Nat, deaths : Nat]
=============================================================================
