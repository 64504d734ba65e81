--------------------------- MODULE AfterSaleProofs ---------------------------
(***************************************************************************)
(* An erasure is complete and a request is audited, for any number of       *)
(* requests, slots, failures, stalls and erasures by an admin.  A message   *)
(* is handed over once, and once more for every fault that explains it, and *)
(* a shipment that left is told to its buyer, for any number of shipments,  *)
(* updates, worker slots, refusals, deaths and stalls.                      *)
(***************************************************************************)
EXTENDS AfterSale, FiniteSetTheorems, SequenceTheorems, TLAPS

\* A job, and a slot at work, is about a request that exists.
JobsHaveRequests ==
  /\ \A r \in Requests : dsarJob[r].status # "none" => dsar[r] # None
  /\ \A k \in Clerks : ~ClerkAt(k, "idle") => RequestOf(k) \in Requests /\ dsar[RequestOf(k)] # None

\* What the tables say of one request.
ErasedAll(r) ==
  dsar[r] # None /\ dsar[r].status = "COMPLETED" /\ dsar[r].type = "ERASURE" =>
    /\ \A o \in Sales : sales[o].email # dsar[r].subject
    /\ customer[dsar[r].subject] # "live"

ErasureInv ==
  /\ sales \in [Sales -> Sale]
  /\ PrivacyTypeOK
  /\ JobsHaveRequests
  /\ ErasureIsComplete

-----------------------------------------------------------------------------
(* Helpers. *)

\* The row of an order whose address is taken away.
LEMMA ScrubbedRow ==
  ASSUME NEW row \in Sale
  PROVE  [row EXCEPT !.email = Anon] \in Sale /\ [row EXCEPT !.email = Anon].email = Anon
BY DEF Sale, Addresses

\* Scrubbing takes an address away and brings none back.
LEMMA ScrubbedAll ==
  ASSUME sales \in [Sales -> Sale], NEW c \in Customers
  PROVE  /\ Scrubbed(c) \in [Sales -> Sale]
         /\ \A o \in Sales : Scrubbed(c)[o].email \in {sales[o].email, Anon}
         /\ \A o \in Sales : Scrubbed(c)[o].email # c
<1>1. ASSUME NEW o \in Sales
      PROVE  /\ Scrubbed(c)[o] \in Sale
             /\ Scrubbed(c)[o].email \in {sales[o].email, Anon}
             /\ Scrubbed(c)[o].email # c
  <2>1. CASE sales[o].email = c
    <3>1. Scrubbed(c)[o] = [sales[o] EXCEPT !.email = Anon]
      BY <2>1 DEF Scrubbed
    <3>2. sales[o] \in Sale
      OBVIOUS
    <3>3. Anon # c
      BY AfterSaleAssumption
    <3> QED
      BY <3>1, <3>2, <3>3, ScrubbedRow
  <2>2. CASE sales[o].email # c
    <3>1. Scrubbed(c)[o] = sales[o]
      BY <2>2 DEF Scrubbed
    <3> QED
      BY <2>2, <3>1
  <2> QED
    BY <2>1, <2>2
<1>2. Scrubbed(c) \in [Sales -> Sale]
  <2>1. DOMAIN Scrubbed(c) = Sales /\ Scrubbed(c) = [o \in Sales |-> Scrubbed(c)[o]]
    BY DEF Scrubbed
  <2> QED
    BY <1>1, <2>1
<1> QED
  BY <1>1, <1>2

\* Erasing a customer brings no row back to life.
LEMMA ErasedRow ==
  ASSUME customer \in [Customers -> {"live", "erased", "none"}], NEW c \in Customers
  PROVE  /\ Erased(c) \in [Customers -> {"live", "erased", "none"}]
         /\ Erased(c)[c] # "live"
         /\ \A d \in Customers : customer[d] # "live" => Erased(c)[d] # "live"
BY DEF Erased

\* A step that leaves the requests alone keeps erasures complete if addresses
\* only turn into Anon and no customer row comes back.
LEMMA StaysErased ==
  ASSUME ErasureInv, dsar' = dsar, customer' \in [Customers -> {"live", "erased", "none"}],
         \A o \in Sales : sales'[o].email \in {sales[o].email, Anon},
         \A c \in Customers : customer[c] # "live" => customer'[c] # "live"
  PROVE  ErasureIsComplete'
<1> SUFFICES ASSUME NEW r \in Requests, ErasedAll(r)
             PROVE  ErasedAll(r)'
  BY DEF ErasureIsComplete, ErasureInv, ErasedAll
<1> SUFFICES ASSUME dsar[r] # None, dsar[r].status = "COMPLETED", dsar[r].type = "ERASURE"
             PROVE  /\ \A o \in Sales : sales'[o].email # dsar[r].subject
                    /\ customer'[dsar[r].subject] # "live"
  BY DEF ErasedAll
<1>1. dsar[r] \in Dsar
  BY DEF ErasureInv, PrivacyTypeOK
<1>2. dsar[r].subject \in Customers /\ dsar[r].subject # Anon
  BY <1>1, AfterSaleAssumption DEF Dsar
<1> QED
  BY <1>2 DEF ErasedAll

-----------------------------------------------------------------------------
(* The steps. *)

\* A step of another part that does not change an address keeps the invariant.
LEMMA OthersKeepErasure ==
  ASSUME ErasureInv, UNCHANGED privacyVars, sales' \in [Sales -> Sale],
         \A o \in Sales : sales'[o].email = sales[o].email
  PROVE  ErasureInv'
<1>1. PrivacyTypeOK' /\ JobsHaveRequests'
  BY DEF ErasureInv, privacyVars, PrivacyTypeOK, JobsHaveRequests, ClerkAt, RequestOf
<1>2. ErasureIsComplete'
  BY StaysErased DEF ErasureInv, privacyVars, PrivacyTypeOK
<1> QED
  BY <1>1, <1>2 DEF ErasureInv

LEMMA ShippingKeepsErasure ==
  ASSUME ErasureInv, FulfilmentNext, UNCHANGED privacyVars
  PROVE  ErasureInv'
<1>1. CASE \E o \in Sales : CreateShipment(o)
  BY <1>1, OthersKeepErasure DEF CreateShipment, ErasureInv
<1>2. ASSUME NEW p \in Shippers, NEW s \in DOMAIN shipments, NEW target \in Targets,
             ReadShipment(p, s, target)
      PROVE  ErasureInv'
  BY <1>2, OthersKeepErasure DEF ReadShipment, ErasureInv
<1>3. ASSUME NEW p \in Shippers, WriteShipment(p) \/ NoteBuyer(p) \/ QueueBuyerNote(p) \/ UpdateDies(p)
      PROVE  ErasureInv'
  <2>1. UNCHANGED sales
    BY <1>3 DEF WriteShipment, NoteBuyer, QueueBuyerNote, UpdateDies
  <2> QED
    BY <2>1, OthersKeepErasure DEF ErasureInv
<1>4. ASSUME NEW p \in Shippers, FulfilOrder(p)
      PROVE  ErasureInv'
  <2> DEFINE x == shipments[ShipmentOf(p)].order
  <2>1. sales' = [sales EXCEPT ![x].fulfilment = "FULFILLED"]
    BY <1>4 DEF FulfilOrder
  <2>2. ASSUME NEW row \in Sale
        PROVE  /\ [row EXCEPT !.fulfilment = "FULFILLED"] \in Sale
               /\ [row EXCEPT !.fulfilment = "FULFILLED"].email = row.email
    BY DEF Sale
  <2> DEFINE marked(row) == [row EXCEPT !.fulfilment = "FULFILLED"]
  <2>3. sales' = [o \in Sales |-> IF o = x THEN marked(sales[o]) ELSE sales[o]]
    BY <2>1 DEF ErasureInv
  <2>4. ASSUME NEW o \in Sales
        PROVE  sales'[o] \in Sale /\ sales'[o].email = sales[o].email
    <3>1. sales[o] \in Sale
      BY DEF ErasureInv
    <3>2. marked(sales[o]) \in Sale /\ marked(sales[o]).email = sales[o].email
      BY <3>1, <2>2
    <3> HIDE DEF marked, x
    <3> QED
      BY <2>3, <3>1, <3>2
  <2>5. sales' \in [Sales -> Sale]
    <3> HIDE DEF marked, x
    <3> QED
      BY <2>3, <2>4
  <2> QED
    BY <2>4, <2>5, OthersKeepErasure
<1> QED
  BY <1>1, <1>2, <1>3, <1>4 DEF FulfilmentNext, UpdateStep

\* A step that changes neither the requests nor what an erasure changes.
LEMMA QueueKeepsErasure ==
  ASSUME ErasureInv, UNCHANGED <<sales, customer, dsar>>, PrivacyTypeOK', JobsHaveRequests'
  PROVE  ErasureInv'
<1>1. ErasureIsComplete'
  BY StaysErased DEF ErasureInv, PrivacyTypeOK
<1> QED
  BY <1>1 DEF ErasureInv

LEMMA FulfilKeepsErasure ==
  ASSUME ErasureInv, NEW k \in Clerks, FulfilRequest(k)
  PROVE  ErasureInv'
<1> DEFINE q == RequestOf(k)
           new == [dsar[q] EXCEPT !.status = "COMPLETED"]
<1>1. q \in Requests /\ dsar[q] # None /\ dsar[q] \in Dsar
  BY DEF ErasureInv, JobsHaveRequests, FulfilRequest, ClerkAt, PrivacyTypeOK
<1>2. ASSUME NEW d \in Dsar
      PROVE  /\ [d EXCEPT !.status = "COMPLETED"] \in Dsar
             /\ [d EXCEPT !.status = "COMPLETED"].type = d.type
             /\ [d EXCEPT !.status = "COMPLETED"].subject = d.subject
             /\ d.subject \in Customers
  BY DEF Dsar
<1>3. new \in Dsar /\ new.type = dsar[q].type /\ new.subject = dsar[q].subject /\ dsar[q].subject \in Customers
  BY <1>1, <1>2
<1>4. None \notin Dsar
  BY AfterSaleAssumption
<1>5. dsar' = [dsar EXCEPT ![q] = new]
  BY DEF FulfilRequest
<1>6. /\ sales' \in [Sales -> Sale]
      /\ \A o \in Sales : sales'[o].email \in {sales[o].email, Anon}
      /\ customer' \in [Customers -> {"live", "erased", "none"}]
      /\ \A c \in Customers : customer[c] # "live" => customer'[c] # "live"
      /\ new.type = "ERASURE" => /\ \A o \in Sales : sales'[o].email # new.subject
                                 /\ customer'[new.subject] # "live"
  <2>1. CASE dsar[q].type = "ERASURE"
    <3>1. sales' = Scrubbed(dsar[q].subject) /\ customer' = Erased(dsar[q].subject)
      BY <2>1 DEF FulfilRequest
    <3> QED
      BY <3>1, <1>3, ScrubbedAll, ErasedRow DEF ErasureInv, PrivacyTypeOK
  <2>2. CASE dsar[q].type # "ERASURE"
    <3>1. UNCHANGED <<sales, customer>>
      BY <2>2 DEF FulfilRequest
    <3> QED
      BY <3>1, <2>2, <1>3 DEF ErasureInv, PrivacyTypeOK
  <2> QED
    BY <2>1, <2>2
<1>7. dsar' \in [Requests -> Dsar \cup {None}] /\ \A r \in Requests : dsar[r] # None => dsar'[r] # None
  BY <1>1, <1>3, <1>4, <1>5 DEF ErasureInv, PrivacyTypeOK
<1>8. PrivacyTypeOK'
  <2>1. UNCHANGED <<dsarJob, dsarFaults>>
    BY DEF FulfilRequest
  <2>2. audits' = [audits EXCEPT ![q] = @ + 1]
    BY DEF FulfilRequest
  <2>3. audits' \in [Requests -> Nat]
    <3>1. audits \in [Requests -> Nat]
      BY DEF ErasureInv, PrivacyTypeOK
    <3> DEFINE count == audits[q] + 1
    <3>2. count \in Nat
      BY <1>1, <3>1
    <3>3. audits' = [audits EXCEPT ![q] = count]
      BY <2>2
    <3> HIDE DEF q, count
    <3>4. audits' = [r \in Requests |-> IF r = q THEN count ELSE audits[r]]
      BY <3>1, <3>3
    <3> QED
      BY <3>1, <3>2, <3>4
  <2>4. clerk' = [clerk EXCEPT ![k].pc = "ack"]
    BY DEF FulfilRequest, ClerkGoes
  <2>5. clerk' \in [Clerks -> Clerk]
    BY <2>4 DEF ErasureInv, PrivacyTypeOK, Clerk
  <2> QED
    BY <2>1, <2>3, <2>5, <1>6, <1>7 DEF ErasureInv, PrivacyTypeOK
<1>9. JobsHaveRequests'
  <2>1. \A j \in Clerks : clerk'[j].request = clerk[j].request
    BY DEF FulfilRequest, ErasureInv, PrivacyTypeOK, ClerkGoes, Clerk
  <2>2. \A j \in Clerks : clerk'[j].pc # "idle" => clerk[j].pc # "idle"
    BY DEF FulfilRequest, ErasureInv, PrivacyTypeOK, ClerkGoes, Clerk, ClerkAt
  <2>3. UNCHANGED dsarJob
    BY DEF FulfilRequest
  <2> QED
    BY <2>1, <2>2, <2>3, <1>7 DEF ErasureInv, JobsHaveRequests, ClerkAt, RequestOf
<1>10. ErasureIsComplete'
  <2> SUFFICES ASSUME NEW r \in Requests, ErasedAll(r)
               PROVE  ErasedAll(r)'
    BY DEF ErasureIsComplete, ErasureInv, ErasedAll
  <2>1. CASE r = q
    <3>1. dsar'[r] = new
      BY <2>1, <1>1, <1>5 DEF ErasureInv, PrivacyTypeOK
    <3> HIDE DEF new
    <3> QED
      BY <3>1, <1>6 DEF ErasedAll
  <2>2. CASE r # q
    <3>1. dsar'[r] = dsar[r]
      BY <2>2, <1>5 DEF ErasureInv, PrivacyTypeOK
    <3> SUFFICES ASSUME dsar[r] # None, dsar[r].status = "COMPLETED", dsar[r].type = "ERASURE"
                 PROVE  /\ \A o \in Sales : sales'[o].email # dsar[r].subject
                        /\ customer'[dsar[r].subject] # "live"
      BY <3>1 DEF ErasedAll
    <3>2. dsar[r] \in Dsar
      BY DEF ErasureInv, PrivacyTypeOK
    <3>3. dsar[r].subject \in Customers /\ dsar[r].subject # Anon
      BY <3>2, AfterSaleAssumption DEF Dsar
    <3> QED
      BY <3>3, <1>6 DEF ErasedAll
  <2> QED
    BY <2>1, <2>2
<1> QED
  BY <1>6, <1>8, <1>9, <1>10 DEF ErasureInv

\* The end of an attempt, whatever becomes of the job.
LEMMA EndKeepsErasure ==
  ASSUME ErasureInv, NEW k \in Clerks, ~ClerkAt(k, "idle"),
         NEW status \in {"waiting", "completed", "failed"}, EndRequest(k, status),
         UNCHANGED <<sales, customer, dsar, audits>>,
         dsarFaults' \in [{"die", "stall", "erasure"} -> Nat]
  PROVE  ErasureInv'
<1> DEFINE q == RequestOf(k)
           ended == [dsarJob[q] EXCEPT !.status = status, !.owner = None]
<1>1. q \in Requests /\ dsar[q] # None
  BY DEF ErasureInv, JobsHaveRequests
<1>2. ASSUME NEW j \in DsarJob
      PROVE  [j EXCEPT !.status = status, !.owner = None] \in DsarJob
  BY DEF DsarJob
<1>3. ended \in DsarJob
  BY <1>1, <1>2 DEF ErasureInv, PrivacyTypeOK
<1>4. dsarJob' = dsarJob \/ dsarJob' = [dsarJob EXCEPT ![q] = ended]
  BY DEF EndRequest
<1>5. /\ dsarJob' \in [Requests -> DsarJob]
      /\ \A r \in Requests : r # q => dsarJob'[r] = dsarJob[r]
  <2> HIDE DEF ended
  <2> QED
    BY <1>1, <1>3, <1>4 DEF ErasureInv, PrivacyTypeOK
<1>6. /\ clerk' \in [Clerks -> Clerk]
      /\ \A j \in Clerks : clerk'[j] = clerk[j] \/ clerk'[j].pc = "idle"
  BY DEF EndRequest, IdleClerk, Clerk, ErasureInv, PrivacyTypeOK
<1>7. PrivacyTypeOK'
  BY <1>5, <1>6 DEF ErasureInv, PrivacyTypeOK
<1>8. JobsHaveRequests'
  BY <1>1, <1>5, <1>6 DEF ErasureInv, JobsHaveRequests, ClerkAt, RequestOf
<1> QED
  BY <1>7, <1>8, QueueKeepsErasure

LEMMA PrivacyKeepsErasure ==
  ASSUME ErasureInv, PrivacyNext
  PROVE  ErasureInv'
<1>1. ASSUME NEW r \in Requests, CreateRequest(r)
      PROVE  ErasureInv'
  <2>1. PICK type \in DsarType, c \in Customers :
          dsar' = [dsar EXCEPT ![r] = [type |-> type, subject |-> c, status |-> "RECEIVED", queued |-> FALSE]]
    BY <1>1 DEF CreateRequest
  <2> DEFINE new == [type |-> type, subject |-> c, status |-> "RECEIVED", queued |-> FALSE]
  <2>2. new \in Dsar /\ new # None /\ new.status # "COMPLETED"
    <3>1. new \in Dsar /\ new.status # "COMPLETED"
      BY DEF Dsar
    <3>2. None \notin Dsar
      BY AfterSaleAssumption
    <3> HIDE DEF new
    <3> QED
      BY <3>1, <3>2
  <2>3. /\ dsar' \in [Requests -> Dsar \cup {None}]
        /\ dsar'[r] = new
        /\ \A x \in Requests : x # r => dsar'[x] = dsar[x]
    <3> HIDE DEF new
    <3> QED
      BY <2>1, <2>2 DEF ErasureInv, PrivacyTypeOK, new
  <2>4. UNCHANGED <<sales, customer, dsarJob, clerk, audits, dsarFaults>>
    BY <1>1 DEF CreateRequest
  <2> HIDE DEF new
  <2>5. PrivacyTypeOK'
    BY <2>3, <2>4 DEF ErasureInv, PrivacyTypeOK
  <2>6. JobsHaveRequests'
    BY <2>2, <2>3, <2>4 DEF ErasureInv, JobsHaveRequests, ClerkAt, RequestOf
  <2>7. ErasureIsComplete'
    BY <2>2, <2>3, <2>4 DEF ErasureInv, ErasureIsComplete
  <2> QED
    BY <2>4, <2>5, <2>6, <2>7 DEF ErasureInv
<1>2. ASSUME NEW r \in Requests, QueueRequest(r)
      PROVE  ErasureInv'
  <2> DEFINE new == [dsar[r] EXCEPT !.queued = TRUE]
             job == [dsarJob[r] EXCEPT !.status = "waiting"]
  <2>1. dsar[r] # None /\ dsar[r] \in Dsar /\ dsarJob[r] \in DsarJob
    BY <1>2 DEF QueueRequest, ErasureInv, PrivacyTypeOK
  <2>2. ASSUME NEW d \in Dsar
        PROVE  /\ [d EXCEPT !.queued = TRUE] \in Dsar
               /\ [d EXCEPT !.queued = TRUE].type = d.type
               /\ [d EXCEPT !.queued = TRUE].subject = d.subject
               /\ [d EXCEPT !.queued = TRUE].status = d.status
    BY DEF Dsar
  <2>3. new \in Dsar /\ new.type = dsar[r].type /\ new.subject = dsar[r].subject /\ new.status = dsar[r].status
    BY <2>1, <2>2
  <2>4. ASSUME NEW j \in DsarJob
        PROVE  [j EXCEPT !.status = "waiting"] \in DsarJob
    BY DEF DsarJob
  <2>5. job \in DsarJob
    BY <2>1, <2>4
  <2>6. dsar' = [dsar EXCEPT ![r] = new] /\ dsarJob' = [dsarJob EXCEPT ![r] = job]
    BY <1>2 DEF QueueRequest
  <2>7. UNCHANGED <<sales, customer, clerk, audits, dsarFaults>>
    BY <1>2 DEF QueueRequest
  <2>8. new # None
    BY <2>3, AfterSaleAssumption
  <2> HIDE DEF new, job
  <2>9. /\ dsar' \in [Requests -> Dsar \cup {None}] /\ dsarJob' \in [Requests -> DsarJob]
        /\ dsar'[r] = new
        /\ \A x \in Requests : x # r => dsar'[x] = dsar[x] /\ dsarJob'[x] = dsarJob[x]
    BY <2>3, <2>5, <2>6 DEF ErasureInv, PrivacyTypeOK
  <2>10. PrivacyTypeOK'
    BY <2>7, <2>9 DEF ErasureInv, PrivacyTypeOK
  <2>11. JobsHaveRequests'
    BY <2>7, <2>8, <2>9 DEF ErasureInv, JobsHaveRequests, ClerkAt, RequestOf
  <2>12. ErasureIsComplete'
    BY <2>1, <2>3, <2>7, <2>9 DEF ErasureInv, ErasureIsComplete
  <2> QED
    BY <2>7, <2>10, <2>11, <2>12 DEF ErasureInv
<1>3. ASSUME NEW k \in Clerks, NEW r \in Requests, StartRequest(k, r)
      PROVE  ErasureInv'
  <2> DEFINE job == [status |-> "active", owner |-> k, tries |-> dsarJob[r].tries + 1]
  <2>1. dsar[r] # None
    BY <1>3 DEF StartRequest, ErasureInv, JobsHaveRequests
  <2>2. dsarJob[r] \in DsarJob
    BY DEF ErasureInv, PrivacyTypeOK
  <2>3. job \in DsarJob
    BY <2>2 DEF DsarJob
  <2>4. dsarJob' = [dsarJob EXCEPT ![r] = job] /\ clerk' = [clerk EXCEPT ![k] = [pc |-> "read", request |-> r]]
    BY <1>3 DEF StartRequest
  <2>5. UNCHANGED <<sales, customer, dsar, audits, dsarFaults>>
    BY <1>3 DEF StartRequest
  <2> HIDE DEF job
  <2>6. PrivacyTypeOK'
    BY <2>3, <2>4, <2>5 DEF ErasureInv, PrivacyTypeOK, Clerk
  <2>7. JobsHaveRequests'
    BY <2>1, <2>4, <2>5 DEF ErasureInv, PrivacyTypeOK, JobsHaveRequests, ClerkAt, RequestOf
  <2> QED
    BY <2>5, <2>6, <2>7, QueueKeepsErasure
<1>4. ASSUME NEW k \in Clerks, ReadRequest(k)
      PROVE  ErasureInv'
  <2>1. PICK pc \in {"ack", "fulfil"} : ClerkGoes(k, pc)
    BY <1>4 DEF ReadRequest
  <2>2. UNCHANGED <<sales, customer, dsar, dsarJob, audits, dsarFaults>> /\ ClerkAt(k, "read")
    BY <1>4 DEF ReadRequest
  <2>3. PrivacyTypeOK'
    BY <2>1, <2>2 DEF ClerkGoes, ErasureInv, PrivacyTypeOK, Clerk
  <2>4. \A j \in Clerks : clerk'[j].request = clerk[j].request /\ (clerk[j].pc = "idle" => clerk'[j].pc = "idle")
    BY <2>1, <2>2 DEF ClerkGoes, ClerkAt, ErasureInv, PrivacyTypeOK, Clerk
  <2>5. JobsHaveRequests'
    BY <2>2, <2>4 DEF ErasureInv, JobsHaveRequests, ClerkAt, RequestOf
  <2> QED
    BY <2>2, <2>3, <2>5, QueueKeepsErasure
<1>5. ASSUME NEW k \in Clerks, AckRequest(k)
      PROVE  ErasureInv'
  BY <1>5, EndKeepsErasure DEF AckRequest, ClerkAt, ErasureInv, PrivacyTypeOK
<1>6. ASSUME NEW k \in Clerks, RequestAttemptFails(k)
      PROVE  ErasureInv'
  <2>1. dsarFaults' \in [{"die", "stall", "erasure"} -> Nat]
    BY <1>6 DEF RequestAttemptFails, DsarFault, ErasureInv, PrivacyTypeOK
  <2>2. RetriedRequest(k) \in {"waiting", "completed", "failed"}
    BY DEF RetriedRequest
  <2> QED
    BY <1>6, <2>1, <2>2, EndKeepsErasure DEF RequestAttemptFails
<1>7. ASSUME NEW k \in Clerks, RequestStalls(k)
      PROVE  ErasureInv'
  <2> DEFINE q == RequestOf(k)
             job == [dsarJob[q] EXCEPT !.status = "waiting", !.owner = None]
  <2>1. q \in Requests /\ dsar[q] # None
    BY <1>7 DEF RequestStalls, ErasureInv, JobsHaveRequests
  <2>2. ASSUME NEW j \in DsarJob
        PROVE  [j EXCEPT !.status = "waiting", !.owner = None] \in DsarJob
    BY DEF DsarJob
  <2>3. job \in DsarJob
    BY <2>1, <2>2 DEF ErasureInv, PrivacyTypeOK
  <2>4. dsarJob' = [dsarJob EXCEPT ![q] = job]
    BY <1>7 DEF RequestStalls
  <2>5. dsarFaults' \in [{"die", "stall", "erasure"} -> Nat]
    BY <1>7 DEF RequestStalls, DsarFault, ErasureInv, PrivacyTypeOK
  <2>6. UNCHANGED <<sales, customer, dsar, clerk, audits>>
    BY <1>7 DEF RequestStalls
  <2> HIDE DEF job
  <2>7. PrivacyTypeOK'
    BY <2>3, <2>4, <2>5, <2>6 DEF ErasureInv, PrivacyTypeOK
  <2>8. JobsHaveRequests'
    BY <2>1, <2>4, <2>6 DEF ErasureInv, PrivacyTypeOK, JobsHaveRequests, ClerkAt, RequestOf
  <2> QED
    BY <2>6, <2>7, <2>8, QueueKeepsErasure
<1>8. ASSUME NEW c \in Customers, EraseCustomer(c)
      PROVE  ErasureInv'
  <2>1. sales' = Scrubbed(c) /\ customer' = Erased(c) /\ UNCHANGED <<dsar, dsarJob, clerk, audits>>
    BY <1>8 DEF EraseCustomer
  <2>2. dsarFaults' \in [{"die", "stall", "erasure"} -> Nat]
    BY <1>8 DEF EraseCustomer, DsarFault, ErasureInv, PrivacyTypeOK
  <2>3. /\ sales' \in [Sales -> Sale]
        /\ \A o \in Sales : sales'[o].email \in {sales[o].email, Anon}
    BY <2>1, ScrubbedAll DEF ErasureInv
  <2>4. /\ customer' \in [Customers -> {"live", "erased", "none"}]
        /\ \A d \in Customers : customer[d] # "live" => customer'[d] # "live"
    BY <2>1, ErasedRow DEF ErasureInv, PrivacyTypeOK
  <2>5. PrivacyTypeOK' /\ JobsHaveRequests'
    BY <2>1, <2>2, <2>4 DEF ErasureInv, PrivacyTypeOK, JobsHaveRequests, ClerkAt, RequestOf
  <2>6. ErasureIsComplete'
    BY <2>1, <2>3, <2>4, StaysErased
  <2> QED
    BY <2>3, <2>5, <2>6 DEF ErasureInv
<1>9. ASSUME NEW k \in Clerks, ClerkStep(k)
      PROVE  ErasureInv'
  BY <1>9, <1>4, <1>5, FulfilKeepsErasure DEF ClerkStep
<1> QED
  BY <1>1, <1>2, <1>3, <1>6, <1>7, <1>8, <1>9 DEF PrivacyNext

LEMMA ErasureStart ==
  ASSUME Init
  PROVE  ErasureInv
<1>1. sales \in [Sales -> Sale]
  BY DEF Init, Sale, Addresses
<1>2. PrivacyTypeOK
  BY DEF Init, PrivacyInit, PrivacyTypeOK, NoDsarJob, DsarJob, IdleClerk, Clerk
<1>3. JobsHaveRequests /\ ErasureIsComplete
  BY DEF Init, PrivacyInit, JobsHaveRequests, ErasureIsComplete, NoDsarJob, IdleClerk, ClerkAt
<1> QED
  BY <1>1, <1>2, <1>3 DEF ErasureInv

LEMMA ErasureStep ==
  ASSUME ErasureInv, [Next]_vars
  PROVE  ErasureInv'
<1>1. CASE FulfilmentNext /\ UNCHANGED privacyVars
  BY <1>1, ShippingKeepsErasure
<1>2. CASE NotificationsNext /\ UNCHANGED <<sales, shipVars, privacyVars>>
  BY <1>2, OthersKeepErasure DEF ErasureInv
<1>3. CASE PrivacyNext
  BY <1>3, PrivacyKeepsErasure
<1>4. CASE UNCHANGED vars
  BY <1>4, OthersKeepErasure DEF vars, ErasureInv
<1> QED
  BY <1>1, <1>2, <1>3, <1>4 DEF Next

-----------------------------------------------------------------------------
(* The first theorem. *)

\* A fulfilled erasure leaves nothing of its subject, whoever ships, writes,
\* fails, stalls or erases meanwhile (DsarProcessor.erase,
\* GdprService.eraseCustomer).
THEOREM ErasuresComplete == Spec => [](PrivacyTypeOK /\ ErasureIsComplete)
<1>1. Init => ErasureInv
  BY ErasureStart
<1>2. ErasureInv /\ [Next]_vars => ErasureInv'
  BY ErasureStep
<1>3. ErasureInv => PrivacyTypeOK /\ ErasureIsComplete
  BY DEF ErasureInv
<1> QED
  BY <1>1, <1>2, <1>3, PTL DEF Spec

-----------------------------------------------------------------------------
(* A request is audited once.  An attempt that has not audited yet but may  *)
(* is pending: at most one of them owns the job, and each of the others was *)
(* left by a stall.                                                         *)

Pending(r) ==
  {k \in Clerks : RequestOf(k) = r /\ (ClerkAt(k, "fulfil") \/ (ClerkAt(k, "read") /\ audits[r] = 0))}

\* Until the request is audited, a job without an owner may bring one more.
Rest(r) == IF audits[r] = 0 /\ dsarJob[r].status # "active" THEN 0 ELSE 1

Bounded(r) ==
  /\ IsFiniteSet(Pending(r))
  /\ audits[r] + Cardinality(Pending(r)) <= dsarFaults["stall"] + Rest(r)

Recorded(r) ==
  /\ dsar[r] = None => audits[r] = 0
  /\ dsar[r] # None => (dsar[r].status = "COMPLETED" <=> audits[r] > 0)

\* A job exists once it was queued, and is queued once.
QueuedOnce(r) == dsarJob[r].status # "none" => dsar[r] # None /\ dsar[r].queued

AckInv == \A k \in Clerks : ClerkAt(k, "ack") => audits[RequestOf(k)] > 0

AuditInv ==
  /\ AckInv
  /\ \A r \in Requests : Recorded(r) /\ QueuedOnce(r) /\ Bounded(r)

\* Nobody starts on a request, and no more is recorded.
LEMMA NoMorePending ==
  ASSUME ErasureInv, ErasureInv', NEW r \in Requests, Bounded(r), Pending(r)' \subseteq Pending(r),
         audits'[r] = audits[r],
         dsarFaults'["stall"] + Rest(r)' >= dsarFaults["stall"] + Rest(r)
  PROVE  Bounded(r)'
<1>1. /\ IsFiniteSet(Pending(r)) /\ Cardinality(Pending(r)) \in Nat
      /\ IsFiniteSet(Pending(r)') /\ Cardinality(Pending(r)') \in Nat
      /\ Cardinality(Pending(r)') <= Cardinality(Pending(r))
  BY FS_Subset, FS_CardinalityType DEF Bounded
<1>2. /\ audits[r] \in Nat /\ dsarFaults["stall"] \in Nat /\ dsarFaults'["stall"] \in Nat
      /\ Rest(r) \in Nat /\ Rest(r)' \in Nat
  BY DEF ErasureInv, PrivacyTypeOK, Rest
<1>3. audits[r] + Cardinality(Pending(r)) <= dsarFaults["stall"] + Rest(r)
  BY DEF Bounded
<1>4. audits'[r] + Cardinality(Pending(r)') <= dsarFaults'["stall"] + Rest(r)'
  BY <1>1, <1>2, <1>3
<1> QED
  BY <1>1, <1>4 DEF Bounded

\* A pending attempt leaves: its place may go to an audit or to the job's
\* next attempt.
LEMMA OneLessPending ==
  ASSUME ErasureInv, ErasureInv', NEW r \in Requests, Bounded(r), NEW k \in Pending(r),
         Pending(r)' \subseteq Pending(r) \ {k}, dsarFaults'["stall"] = dsarFaults["stall"],
         audits'[r] - Rest(r)' <= audits[r] + 1 - Rest(r)
  PROVE  Bounded(r)'
<1> DEFINE S == Pending(r)
           T == Pending(r)'
<1>1. IsFiniteSet(S) /\ Cardinality(S) \in Nat
  BY FS_CardinalityType DEF Bounded
<1>2. IsFiniteSet(S \ {k}) /\ Cardinality(S \ {k}) = Cardinality(S) - 1
  BY <1>1, FS_RemoveElement
<1>3. IsFiniteSet(T) /\ Cardinality(T) \in Nat /\ Cardinality(T) <= Cardinality(S) - 1
  BY <1>2, FS_Subset, FS_CardinalityType
<1>4. /\ audits[r] \in Nat /\ audits'[r] \in Nat /\ dsarFaults["stall"] \in Nat
      /\ Rest(r) \in Nat /\ Rest(r)' \in Nat
  BY DEF ErasureInv, PrivacyTypeOK, Rest
<1>5. audits[r] + Cardinality(S) <= dsarFaults["stall"] + Rest(r)
  BY DEF Bounded
<1>6. audits'[r] + Cardinality(T) <= dsarFaults'["stall"] + Rest(r)'
  <2> HIDE DEF S, T
  <2> QED
    BY <1>1, <1>3, <1>4, <1>5
<1> QED
  BY <1>3, <1>6 DEF Bounded

\* Steps that neither work on a request nor change what is known of it.
LEMMA OthersKeepAudits ==
  ASSUME ErasureInv, ErasureInv', AuditInv, UNCHANGED <<dsar, dsarJob, clerk, audits>>,
         dsarFaults'["stall"] = dsarFaults["stall"]
  PROVE  AuditInv'
<1>1. AckInv'
  BY DEF AuditInv, AckInv, ClerkAt, RequestOf
<1>2. ASSUME NEW r \in Requests PROVE Recorded(r)' /\ QueuedOnce(r)' /\ Bounded(r)'
  BY DEF AuditInv, Recorded, QueuedOnce, Bounded, Pending, Rest, ClerkAt, RequestOf
<1> QED
  BY <1>1, <1>2 DEF AuditInv

\* What the slots do to what is pending.
LEMMA PendingFollows ==
  ASSUME ErasureInv, AuditInv, NEW r \in Requests,
         \A k \in Clerks : \/ clerk'[k] = clerk[k]
                           \/ clerk'[k].pc \in {"idle", "ack"}
                           \/ clerk'[k].request # r
                           \/ k \in Pending(r),
         audits[r] = 0 \/ audits'[r] > 0
  PROVE  Pending(r)' \subseteq Pending(r)
<1> SUFFICES ASSUME NEW k \in Clerks, k \in Pending(r)', k \notin Pending(r)
             PROVE  FALSE
  BY DEF Pending
<1>1. clerk'[k].request = r /\ (clerk'[k].pc = "fulfil" \/ (clerk'[k].pc = "read" /\ audits'[r] = 0))
  BY DEF Pending, ClerkAt, RequestOf
<1>2. clerk'[k] = clerk[k]
  BY <1>1
<1>3. audits'[r] = 0 => audits[r] = 0
  OBVIOUS
<1> QED
  BY <1>1, <1>2, <1>3 DEF Pending, ClerkAt, RequestOf

LEMMA FulfilKeepsAudits ==
  ASSUME ErasureInv, ErasureInv', AuditInv, NEW k \in Clerks, FulfilRequest(k)
  PROVE  AuditInv'
<1> DEFINE q == RequestOf(k)
           new == [dsar[q] EXCEPT !.status = "COMPLETED"]
<1>1. q \in Requests /\ dsar[q] # None /\ dsar[q] \in Dsar /\ clerk[k].request = q /\ clerk[k].pc = "fulfil"
  BY DEF ErasureInv, JobsHaveRequests, FulfilRequest, ClerkAt, PrivacyTypeOK, RequestOf
<1>2. audits[q] \in Nat /\ audits'[q] = audits[q] + 1 /\ \A r \in Requests : r # q => audits'[r] = audits[r]
  BY <1>1 DEF FulfilRequest, ErasureInv, PrivacyTypeOK
<1>3. clerk'[k].pc = "ack" /\ clerk'[k].request = q /\ \A j \in Clerks : j # k => clerk'[j] = clerk[j]
  BY <1>1 DEF FulfilRequest, ClerkGoes, ErasureInv, PrivacyTypeOK, Clerk
<1>4. new.status = "COMPLETED" /\ new.queued = dsar[q].queued
  BY <1>1 DEF Dsar
<1>5. dsar'[q] = new /\ (\A r \in Requests : r # q => dsar'[r] = dsar[r]) /\ UNCHANGED <<dsarJob, dsarFaults>>
  BY <1>1 DEF FulfilRequest, ErasureInv, PrivacyTypeOK
<1>6. new # None
  <2>1. new \in Dsar
    BY <1>1 DEF Dsar
  <2> HIDE DEF new
  <2> QED
    BY <2>1, AfterSaleAssumption
<1> HIDE DEF new, q
<1>7. AckInv'
  <2> SUFFICES ASSUME NEW j \in Clerks, clerk'[j].pc = "ack" PROVE audits'[clerk'[j].request] > 0
    BY DEF AckInv, ClerkAt, RequestOf
  <2>1. CASE j = k
    BY <2>1, <1>2, <1>3
  <2>2. CASE j # k
    <3>1. clerk[j].pc = "ack" /\ clerk[j].request = clerk'[j].request
      BY <2>2, <1>3
    <3>2. clerk[j].request \in Requests /\ audits[clerk[j].request] > 0
      BY <3>1 DEF AuditInv, AckInv, ClerkAt, RequestOf, ErasureInv, JobsHaveRequests
    <3> QED
      BY <3>1, <3>2, <1>2
  <2> QED
    BY <2>1, <2>2
<1>8. ASSUME NEW r \in Requests PROVE Recorded(r)' /\ QueuedOnce(r)'
  BY <1>1, <1>2, <1>4, <1>5, <1>6 DEF AuditInv, Recorded, QueuedOnce
<1>9. ASSUME NEW r \in Requests PROVE Bounded(r)'
  <2>1. Bounded(r)
    BY DEF AuditInv
  <2>2. Pending(r)' \subseteq Pending(r)
    <3>1. audits[r] = 0 \/ audits'[r] > 0
      BY <1>2 DEF ErasureInv, PrivacyTypeOK
    <3>2. \A j \in Clerks : clerk'[j] = clerk[j] \/ clerk'[j].pc \in {"idle", "ack"}
      BY <1>3
    <3> QED
      BY <3>1, <3>2, PendingFollows
  <2>3. CASE r # q
    <3>1. Rest(r)' = Rest(r) /\ dsarFaults'["stall"] + Rest(r)' >= dsarFaults["stall"] + Rest(r)
      BY <2>3, <1>2, <1>5 DEF Rest, ErasureInv, PrivacyTypeOK
    <3> QED
      BY <2>1, <2>2, <2>3, <3>1, <1>2, NoMorePending
  <2>4. CASE r = q
    <3>1. k \in Pending(r)
      BY <2>4, <1>1 DEF Pending, ClerkAt, RequestOf
    <3>2. k \notin Pending(r)'
      BY <1>3 DEF Pending, ClerkAt, RequestOf
    <3>3. audits'[r] - Rest(r)' <= audits[r] + 1 - Rest(r)
      BY <2>4, <1>2 DEF Rest
    <3> QED
      BY <2>1, <2>2, <3>1, <3>2, <3>3, <1>5, OneLessPending
  <2> QED
    BY <2>3, <2>4
<1> QED
  BY <1>7, <1>8, <1>9 DEF AuditInv

\* An attempt ends.  If it owned the job and had not audited the request, it
\* was pending.
LEMMA EndKeepsAudits ==
  ASSUME ErasureInv, ErasureInv', AuditInv, NEW k \in Clerks, ~ClerkAt(k, "idle"),
         NEW status \in {"waiting", "completed", "failed"}, EndRequest(k, status),
         UNCHANGED <<dsar, audits>>, dsarFaults'["stall"] = dsarFaults["stall"]
  PROVE  AuditInv'
<1> DEFINE q == RequestOf(k)
<1>1. q \in Requests /\ clerk[k].request = q
  BY DEF ErasureInv, JobsHaveRequests, RequestOf
<1>2. clerk'[k].pc = "idle" /\ \A j \in Clerks : j # k => clerk'[j] = clerk[j]
  BY DEF EndRequest, IdleClerk, ErasureInv, PrivacyTypeOK
<1>3. AckInv'
  BY <1>2 DEF AuditInv, AckInv, ClerkAt, RequestOf
<1>4. dsarJob[q] \in DsarJob
  BY <1>1 DEF ErasureInv, PrivacyTypeOK
<1>5. [dsarJob[q] EXCEPT !.status = status, !.owner = None].status = status
  BY <1>4 DEF DsarJob
<1>6. /\ \A r \in Requests : r # q => dsarJob'[r] = dsarJob[r]
      /\ ~OwnsRequest(k) => dsarJob'[q] = dsarJob[q]
      /\ OwnsRequest(k) => dsarJob'[q].status = status /\ dsarJob[q].status = "active"
  BY <1>1, <1>5 DEF EndRequest, OwnsRequest, ErasureInv, PrivacyTypeOK
<1>7. ASSUME NEW r \in Requests PROVE Recorded(r)' /\ QueuedOnce(r)'
  BY <1>6, <1>7 DEF AuditInv, Recorded, QueuedOnce
<1>8. ASSUME NEW r \in Requests PROVE Bounded(r)'
  <2>1. Bounded(r)
    BY DEF AuditInv
  <2>2. Pending(r)' \subseteq Pending(r) /\ k \notin Pending(r)'
    <3>1. Pending(r)' \subseteq Pending(r)
      BY <1>2, PendingFollows DEF ErasureInv, PrivacyTypeOK
    <3> QED
      BY <3>1, <1>2 DEF Pending, ClerkAt
  <2>3. CASE Rest(r)' = Rest(r)
    <3>1. dsarFaults'["stall"] + Rest(r)' >= dsarFaults["stall"] + Rest(r)
      BY <2>3 DEF ErasureInv, PrivacyTypeOK, Rest
    <3> QED
      BY <2>1, <2>2, <3>1, NoMorePending
  <2>4. CASE Rest(r)' # Rest(r)
    <3>1. r = q /\ OwnsRequest(k) /\ audits[r] = 0
      BY <2>4, <1>6 DEF Rest
    <3>2. clerk[k].pc \in {"read", "fulfil"}
      <4>1. clerk[k] \in Clerk /\ clerk[k].pc # "idle"
        BY DEF ErasureInv, PrivacyTypeOK, ClerkAt
      <4>2. clerk[k].pc # "ack"
        BY <3>1 DEF AuditInv, AckInv, ClerkAt
      <4> QED
        BY <4>1, <4>2 DEF Clerk
    <3>3. k \in Pending(r)
      BY <3>1, <3>2 DEF Pending, ClerkAt
    <3>4. audits'[r] - Rest(r)' <= audits[r] + 1 - Rest(r)
      BY <3>1 DEF Rest
    <3> QED
      BY <2>1, <2>2, <3>3, <3>4, OneLessPending
  <2> QED
    BY <2>3, <2>4
<1> QED
  BY <1>3, <1>7, <1>8 DEF AuditInv

\* The request is written down and its job queued.
LEMMA AskingKeepsAudits ==
  ASSUME ErasureInv, ErasureInv', AuditInv, NEW q \in Requests, CreateRequest(q) \/ QueueRequest(q)
  PROVE  AuditInv'
<1>1. UNCHANGED <<clerk, audits, dsarFaults>>
  BY DEF CreateRequest, QueueRequest
<1>2. AckInv'
  BY <1>1 DEF AuditInv, AckInv, ClerkAt, RequestOf
<1>3. \A r \in Requests : r # q => dsar'[r] = dsar[r] /\ dsarJob'[r] = dsarJob[r]
  BY DEF CreateRequest, QueueRequest, ErasureInv, PrivacyTypeOK
<1>4. /\ dsarJob[q].status # "active" /\ dsarJob'[q].status # "active"
      /\ Recorded(q)' /\ QueuedOnce(q)'
  <2>1. Recorded(q) /\ QueuedOnce(q)
    BY DEF AuditInv
  <2>2. CASE CreateRequest(q)
    <3> PICK type \in DsarType, c \in Customers :
          dsar' = [dsar EXCEPT ![q] = [type |-> type, subject |-> c, status |-> "RECEIVED", queued |-> FALSE]]
      BY <2>2 DEF CreateRequest
    <3>1. dsar[q] = None /\ audits[q] = 0 /\ dsarJob[q].status = "none" /\ UNCHANGED dsarJob
      BY <2>1, <2>2 DEF CreateRequest, Recorded, QueuedOnce
    <3>2. dsar'[q].status = "RECEIVED"
      BY DEF ErasureInv, PrivacyTypeOK
    <3> QED
      BY <3>1, <3>2, <1>1 DEF Recorded, QueuedOnce
  <2>3. CASE QueueRequest(q)
    <3> DEFINE new == [dsar[q] EXCEPT !.queued = TRUE]
               job == [dsarJob[q] EXCEPT !.status = "waiting"]
    <3>1. dsar[q] # None /\ dsar[q] \in Dsar /\ dsarJob[q] \in DsarJob /\ ~dsar[q].queued
      BY <2>3 DEF QueueRequest, ErasureInv, PrivacyTypeOK
    <3>2. new \in Dsar /\ new.status = dsar[q].status /\ new.queued
      BY <3>1 DEF Dsar
    <3>3. job.status = "waiting"
      BY <3>1 DEF DsarJob
    <3>4. dsar' = [dsar EXCEPT ![q] = new] /\ dsarJob' = [dsarJob EXCEPT ![q] = job]
      BY <2>3 DEF QueueRequest
    <3> HIDE DEF new, job
    <3>5. dsar'[q] = new /\ dsarJob'[q] = job /\ new # None
      BY <3>2, <3>4, AfterSaleAssumption DEF ErasureInv, PrivacyTypeOK
    <3>6. dsarJob[q].status = "none"
      BY <3>1, <2>1 DEF QueuedOnce
    <3> QED
      BY <3>1, <3>2, <3>3, <3>5, <3>6, <2>1, <1>1 DEF Recorded, QueuedOnce
  <2> QED
    BY <2>2, <2>3
<1>5. ASSUME NEW r \in Requests PROVE Recorded(r)' /\ QueuedOnce(r)' /\ Bounded(r)'
  <2>1. Bounded(r)
    BY DEF AuditInv
  <2>2. Pending(r)' = Pending(r) /\ Rest(r)' = Rest(r)
    BY <1>1, <1>3, <1>4 DEF Pending, Rest, ClerkAt, RequestOf
  <2>3. Bounded(r)'
    BY <1>1, <2>1, <2>2 DEF Bounded
  <2>4. CASE r = q
    BY <2>3, <2>4, <1>4
  <2>5. CASE r # q
    BY <2>3, <2>5, <1>1, <1>3 DEF AuditInv, Recorded, QueuedOnce
  <2> QED
    BY <2>4, <2>5
<1> QED
  BY <1>2, <1>5 DEF AuditInv

\* An attempt starts on a job that waits, and its owner may audit the request.
LEMMA StartKeepsAudits ==
  ASSUME ErasureInv, ErasureInv', AuditInv, NEW k \in Clerks, NEW q \in Requests, StartRequest(k, q)
  PROVE  AuditInv'
<1>1. UNCHANGED <<dsar, audits, dsarFaults>> /\ dsarJob[q].status = "waiting" /\ clerk[k].pc = "idle"
  BY DEF StartRequest, ClerkAt
<1>2. /\ clerk'[k].pc = "read" /\ clerk'[k].request = q
      /\ \A j \in Clerks : j # k => clerk'[j] = clerk[j]
  BY DEF StartRequest, ErasureInv, PrivacyTypeOK
<1>3. dsarJob'[q].status = "active" /\ \A r \in Requests : r # q => dsarJob'[r] = dsarJob[r]
  BY DEF StartRequest, ErasureInv, PrivacyTypeOK
<1>4. AckInv'
  BY <1>1, <1>2 DEF AuditInv, AckInv, ClerkAt, RequestOf
<1>5. ASSUME NEW r \in Requests PROVE Recorded(r)' /\ QueuedOnce(r)'
  BY <1>1, <1>3 DEF AuditInv, Recorded, QueuedOnce
<1>6. ASSUME NEW r \in Requests PROVE Bounded(r)'
  <2>1. Bounded(r) /\ audits[r] \in Nat /\ dsarFaults["stall"] \in Nat
    BY DEF AuditInv, ErasureInv, PrivacyTypeOK
  <2>2. CASE r # q \/ audits[r] # 0
    <3>1. Pending(r)' \subseteq Pending(r)
      <4> SUFFICES ASSUME NEW j \in Clerks, j \in Pending(r)' PROVE j \in Pending(r)
        BY DEF Pending
      <4>1. j # k
        BY <2>2, <1>1, <1>2 DEF Pending, ClerkAt, RequestOf
      <4> QED
        BY <4>1, <1>1, <1>2 DEF Pending, ClerkAt, RequestOf
    <3>2. dsarFaults'["stall"] + Rest(r)' >= dsarFaults["stall"] + Rest(r)
      BY <2>1, <2>2, <1>1, <1>3 DEF Rest
    <3> QED
      BY <2>1, <3>1, <3>2, <1>1, NoMorePending
  <2>3. CASE r = q /\ audits[r] = 0
    <3>1. Pending(r)' \subseteq Pending(r) \cup {k}
      BY <1>1, <1>2 DEF Pending, ClerkAt, RequestOf
    <3> DEFINE S == Pending(r)
               T == Pending(r)'
    <3>2. IsFiniteSet(S) /\ Cardinality(S) \in Nat /\ Cardinality(S) <= dsarFaults["stall"]
      BY <2>1, <2>3, <1>1, FS_CardinalityType DEF Bounded, Rest
    <3>3. IsFiniteSet(S \cup {k}) /\ Cardinality(S \cup {k}) \in Nat /\ Cardinality(S \cup {k}) <= Cardinality(S) + 1
      <4> HIDE DEF S
      <4>1. IsFiniteSet(S \cup {k}) /\ Cardinality(S \cup {k}) \in {Cardinality(S), Cardinality(S) + 1}
        BY <3>2, FS_AddElement
      <4> QED
        BY <3>2, <4>1
    <3>4. IsFiniteSet(T) /\ Cardinality(T) \in Nat /\ Cardinality(T) <= Cardinality(S \cup {k})
      BY <3>1, <3>3, FS_Subset, FS_CardinalityType
    <3>5. Rest(r)' = 1 /\ audits'[r] = 0 /\ dsarFaults' = dsarFaults
      BY <2>3, <1>1, <1>3 DEF Rest
    <3>6. audits'[r] + Cardinality(T) <= dsarFaults'["stall"] + Rest(r)'
      <4> HIDE DEF S, T
      <4> QED
        BY <2>1, <3>2, <3>3, <3>4, <3>5
    <3> QED
      BY <3>4, <3>6 DEF Bounded
  <2> QED
    BY <2>2, <2>3
<1> QED
  BY <1>4, <1>5, <1>6 DEF AuditInv

\* The status is read before it is relied on; an attempt that goes on was pending.
LEMMA ReadKeepsAudits ==
  ASSUME ErasureInv, ErasureInv', AuditInv, NEW k \in Clerks, ReadRequest(k)
  PROVE  AuditInv'
<1> DEFINE q == RequestOf(k)
<1>1. UNCHANGED <<dsar, dsarJob, audits, dsarFaults>> /\ ClerkAt(k, "read") /\ q \in Requests /\ dsar[q] # None
  BY DEF ReadRequest, ErasureInv, JobsHaveRequests, ClerkAt
<1>2. Recorded(q) /\ audits[q] \in Nat
  BY <1>1 DEF AuditInv, ErasureInv, PrivacyTypeOK
<1>3. clerk'[k].request = q /\ \A j \in Clerks : j # k => clerk'[j] = clerk[j]
  BY DEF ReadRequest, ClerkGoes, ErasureInv, PrivacyTypeOK, Clerk, RequestOf
<1>4. \/ clerk'[k].pc = "ack" /\ audits[q] > 0
      \/ clerk'[k].pc = "fulfil" /\ audits[q] = 0
  BY <1>1, <1>2 DEF ReadRequest, AlreadyFulfilled, ClerkGoes, Recorded, ErasureInv, PrivacyTypeOK, Clerk
<1>5. AckInv'
  BY <1>1, <1>3, <1>4 DEF AuditInv, AckInv, ClerkAt, RequestOf
<1>6. ASSUME NEW r \in Requests PROVE Recorded(r)' /\ QueuedOnce(r)' /\ Bounded(r)'
  <2>1. Bounded(r)
    BY DEF AuditInv
  <2>2. Pending(r)' \subseteq Pending(r)
    <3>1. clerk'[k].pc = "ack" \/ q # r \/ k \in Pending(r)
      BY <1>1, <1>4 DEF Pending
    <3>2. audits[r] = 0 \/ audits'[r] > 0
      BY <1>1 DEF ErasureInv, PrivacyTypeOK
    <3> QED
      BY <3>1, <3>2, <1>3, PendingFollows
  <2>3. dsarFaults'["stall"] + Rest(r)' >= dsarFaults["stall"] + Rest(r)
    BY <1>1 DEF Rest, ErasureInv, PrivacyTypeOK
  <2>4. Bounded(r)'
    BY <1>1, <2>1, <2>2, <2>3, NoMorePending
  <2> QED
    BY <2>4, <1>1 DEF AuditInv, Recorded, QueuedOnce
<1> QED
  BY <1>5, <1>6 DEF AuditInv

\* A stall takes the job from its owner, who goes on.
LEMMA StallKeepsAudits ==
  ASSUME ErasureInv, ErasureInv', AuditInv, NEW k \in Clerks, RequestStalls(k)
  PROVE  AuditInv'
<1> DEFINE q == RequestOf(k)
           job == [dsarJob[q] EXCEPT !.status = "waiting", !.owner = None]
<1>1. q \in Requests /\ dsar[q] # None /\ dsarJob[q] \in DsarJob /\ dsarJob[q].status = "active"
  BY DEF RequestStalls, OwnsRequest, ErasureInv, JobsHaveRequests, PrivacyTypeOK
<1>2. job.status = "waiting"
  BY <1>1 DEF DsarJob
<1>3. dsarJob' = [dsarJob EXCEPT ![q] = job] /\ UNCHANGED <<dsar, clerk, audits>>
  BY DEF RequestStalls
<1> HIDE DEF job, q
<1>4. dsarJob'[q] = job /\ \A r \in Requests : r # q => dsarJob'[r] = dsarJob[r]
  BY <1>1, <1>3 DEF ErasureInv, PrivacyTypeOK
<1>5. dsarFaults["stall"] \in Nat /\ dsarFaults'["stall"] = dsarFaults["stall"] + 1
  BY DEF RequestStalls, DsarFault, ErasureInv, PrivacyTypeOK
<1>6. AckInv'
  BY <1>3 DEF AuditInv, AckInv, ClerkAt, RequestOf
<1>7. ASSUME NEW r \in Requests PROVE Recorded(r)' /\ QueuedOnce(r)' /\ Bounded(r)'
  <2>1. Bounded(r) /\ Recorded(r) /\ QueuedOnce(r)
    BY DEF AuditInv
  <2>2. Pending(r)' \subseteq Pending(r)
    BY <1>3 DEF Pending, ClerkAt, RequestOf
  <2>3. dsarFaults'["stall"] + Rest(r)' >= dsarFaults["stall"] + Rest(r)
    BY <1>5 DEF Rest
  <2>4. Bounded(r)'
    BY <1>3, <2>1, <2>2, <2>3, NoMorePending
  <2> QED
    BY <2>1, <2>4, <1>1, <1>3, <1>4 DEF Recorded, QueuedOnce
<1> QED
  BY <1>6, <1>7 DEF AuditInv

LEMMA AuditStep ==
  ASSUME ErasureInv, ErasureInv', AuditInv, [Next]_vars
  PROVE  AuditInv'
<1>1. CASE UNCHANGED privacyVars
  BY <1>1, OthersKeepAudits DEF privacyVars
<1>2. ASSUME NEW c \in Customers, EraseCustomer(c) PROVE AuditInv'
  <2>1. dsarFaults'["stall"] = dsarFaults["stall"]
    BY <1>2 DEF EraseCustomer, DsarFault, ErasureInv, PrivacyTypeOK
  <2> QED
    BY <1>2, <2>1, OthersKeepAudits DEF EraseCustomer
<1>3. ASSUME NEW k \in Clerks, AckRequest(k) PROVE AuditInv'
  BY <1>3, EndKeepsAudits DEF AckRequest, ClerkAt
<1>4. ASSUME NEW k \in Clerks, RequestAttemptFails(k) PROVE AuditInv'
  <2>1. dsarFaults'["stall"] = dsarFaults["stall"]
    BY <1>4 DEF RequestAttemptFails, DsarFault, ErasureInv, PrivacyTypeOK
  <2>2. RetriedRequest(k) \in {"waiting", "completed", "failed"}
    BY DEF RetriedRequest
  <2> QED
    BY <1>4, <2>1, <2>2, EndKeepsAudits DEF RequestAttemptFails
<1>5. CASE PrivacyNext
  BY <1>2, <1>3, <1>4, <1>5, AskingKeepsAudits, StartKeepsAudits, ReadKeepsAudits, FulfilKeepsAudits,
     StallKeepsAudits DEF PrivacyNext, ClerkStep
<1>6. CASE UNCHANGED vars
  BY <1>1, <1>6 DEF vars
<1> QED
  BY <1>1, <1>5, <1>6 DEF Next

\* A request that is fulfilled is audited, and not more often than once and
\* once for every stall, whatever fails (DsarProcessor.process).
THEOREM RequestsAreAudited == Spec => []AuditedOnce
<1>1. Init => ErasureInv /\ AuditInv
  <2> SUFFICES ASSUME Init PROVE ErasureInv /\ AuditInv
    OBVIOUS
  <2>1. /\ \A r \in Requests : dsar[r] = None /\ audits[r] = 0 /\ dsarJob[r].status = "none"
        /\ \A k \in Clerks : clerk[k].pc = "idle"
        /\ dsarFaults["stall"] = 0
    BY DEF Init, PrivacyInit, NoDsarJob, IdleClerk
  <2>2. \A r \in Requests : Pending(r) = {} /\ Rest(r) = 0
    BY <2>1 DEF Pending, Rest, ClerkAt
  <2>3. \A r \in Requests : Bounded(r)
    <3>1. IsFiniteSet({}) /\ Cardinality({}) = 0
      BY FS_EmptySet
    <3> SUFFICES ASSUME NEW r \in Requests PROVE Bounded(r)
      OBVIOUS
    <3>2. IsFiniteSet(Pending(r)) /\ Cardinality(Pending(r)) = 0
      BY <2>2, <3>1
    <3> QED
      BY <2>1, <2>2, <3>2 DEF Bounded
  <2>4. \A r \in Requests : Recorded(r) /\ QueuedOnce(r)
    BY <2>1 DEF Recorded, QueuedOnce
  <2> QED
    BY <2>1, <2>3, <2>4, ErasureStart DEF AuditInv, AckInv, ClerkAt
<1>2. ErasureInv /\ AuditInv /\ [Next]_vars => ErasureInv' /\ AuditInv'
  BY ErasureStep, AuditStep
<1>3. ErasureInv /\ AuditInv => AuditedOnce
  <2> SUFFICES ASSUME ErasureInv, AuditInv, NEW r \in Requests
               PROVE  audits[r] <= 1 + dsarFaults["stall"] /\ Recorded(r)
    BY DEF AuditedOnce, Recorded
  <2>1. Bounded(r) /\ Recorded(r)
    BY DEF AuditInv
  <2>2. Cardinality(Pending(r)) \in Nat /\ audits[r] \in Nat /\ dsarFaults["stall"] \in Nat /\ Rest(r) \in {0, 1}
    BY <2>1, FS_CardinalityType DEF Bounded, ErasureInv, PrivacyTypeOK, Rest
  <2> QED
    BY <2>1, <2>2 DEF Bounded
<1> QED
  BY <1>1, <1>2, <1>3, PTL DEF Spec

-----------------------------------------------------------------------------
(* Types.  Whoever is at work has a shipment, and a note, that exists.      *)

ShippersKnow ==
  \A p \in Shippers :
    /\ ~ShipperAt(p, "idle") => ShipmentOf(p) \in DOMAIN shipments
    /\ ShipperAt(p, "write") => shipper[p].target \in ShipmentStatus
    /\ ShipperAt(p, "note") => shipper[p].to \in Addresses
    /\ ShipperAt(p, "queue") => shipper[p].note \in DOMAIN notes

MailersKnow ==
  /\ Len(mailJob) = Len(notes)
  /\ \A w \in Mailers : ~MailerAt(w, "idle") => NoteOf(w) \in DOMAIN notes

MailTypes == FulfilmentTypeOK /\ NotificationsTypeOK /\ ShippersKnow /\ MailersKnow

\* A note, and a job, that is written.
LEMMA NoteWritten ==
  ASSUME notes \in Seq(Note), NEW n \in DOMAIN notes, NEW row \in Note, notes' = [notes EXCEPT ![n] = row]
  PROVE  /\ notes' \in Seq(Note) /\ Len(notes') = Len(notes) /\ DOMAIN notes' = DOMAIN notes
         /\ notes'[n] = row /\ \A m \in DOMAIN notes : m # n => notes'[m] = notes[m]
BY ExceptSeq

LEMMA JobWritten ==
  ASSUME mailJob \in Seq(MailJob), NEW n \in DOMAIN mailJob, NEW job \in MailJob,
         mailJob' = [mailJob EXCEPT ![n] = job]
  PROVE  /\ mailJob' \in Seq(MailJob) /\ Len(mailJob') = Len(mailJob) /\ DOMAIN mailJob' = DOMAIN mailJob
         /\ mailJob'[n] = job /\ \A m \in DOMAIN mailJob : m # n => mailJob'[m] = mailJob[m]
BY ExceptSeq

LEMMA SlotMoved ==
  ASSUME mailer \in [Mailers -> Mailer], NEW w \in Mailers, NEW pc,
         pc \in {"idle", "read", "send", "sent", "refused", "ack"}, MailerGoes(w, pc)
  PROVE  /\ mailer' \in [Mailers -> Mailer] /\ mailer'[w].pc = pc /\ mailer'[w].note = mailer[w].note
         /\ \A v \in Mailers : v # w => mailer'[v] = mailer[v]
BY DEF MailerGoes, Mailer

\* What a note is after it was handed over, excused or marked.
LEMMA NoteRows ==
  ASSUME NEW row \in Note
  PROVE  /\ row.sent \in Nat /\ row.excused \in Nat /\ row.status \in {"PENDING", "SENT", "FAILED"}
         /\ [row EXCEPT !.sent = row.sent + 1] \in Note
         /\ [row EXCEPT !.sent = row.sent + 1].sent = row.sent + 1
         /\ [row EXCEPT !.sent = row.sent + 1].excused = row.excused
         /\ [row EXCEPT !.sent = row.sent + 1].status = row.status
         /\ [row EXCEPT !.sent = row.sent + 1].about = row.about
         /\ [row EXCEPT !.excused = row.excused + 1] \in Note
         /\ [row EXCEPT !.excused = row.excused + 1].sent = row.sent
         /\ [row EXCEPT !.excused = row.excused + 1].excused = row.excused + 1
         /\ [row EXCEPT !.excused = row.excused + 1].status = row.status
         /\ [row EXCEPT !.excused = row.excused + 1].about = row.about
         /\ \A status \in {"PENDING", "SENT", "FAILED"} :
              /\ [row EXCEPT !.status = status] \in Note
              /\ [row EXCEPT !.status = status].sent = row.sent
              /\ [row EXCEPT !.status = status].excused = row.excused
              /\ [row EXCEPT !.status = status].status = status
              /\ [row EXCEPT !.status = status].about = row.about
BY DEF Note

LEMMA JobRows ==
  ASSUME NEW job \in MailJob,
         NEW status \in {"none", "waiting", "active", "completed", "failed"}
  PROVE  /\ [job EXCEPT !.status = status, !.owner = None] \in MailJob
         /\ [job EXCEPT !.status = status, !.owner = None].status = status
         /\ [job EXCEPT !.status = status] \in MailJob
         /\ [job EXCEPT !.status = status].status = status
         /\ \A w \in Mailers : [status |-> "active", owner |-> w, tries |-> job.tries + 1] \in MailJob
<1>1. [job EXCEPT !.status = status, !.owner = None] \in MailJob
  BY DEF MailJob
<1>2. [job EXCEPT !.status = status, !.owner = None].status = status
  BY DEF MailJob
<1>3. [job EXCEPT !.status = status] \in MailJob /\ [job EXCEPT !.status = status].status = status
  BY DEF MailJob
<1>4. \A w \in Mailers : [status |-> "active", owner |-> w, tries |-> job.tries + 1] \in MailJob
  BY DEF MailJob
<1> QED
  BY <1>1, <1>2, <1>3, <1>4

\* The end of an attempt.
LEMMA MailEnds ==
  ASSUME MailTypes, NEW w \in Mailers, ~MailerAt(w, "idle"),
         NEW status \in {"waiting", "completed", "failed"}, EndMail(w, status)
  PROVE  /\ mailer' \in [Mailers -> Mailer] /\ mailer'[w].pc = "idle"
         /\ \A v \in Mailers : v # w => mailer'[v] = mailer[v]
         /\ mailJob' \in Seq(MailJob) /\ Len(mailJob') = Len(mailJob) /\ DOMAIN mailJob' = DOMAIN mailJob
         /\ \A m \in DOMAIN mailJob : m # NoteOf(w) => mailJob'[m] = mailJob[m]
         /\ OwnsMail(w) => mailJob'[NoteOf(w)].status = status
         /\ ~OwnsMail(w) => mailJob' = mailJob
<1>1. /\ mailer' \in [Mailers -> Mailer] /\ mailer'[w].pc = "idle"
      /\ \A v \in Mailers : v # w => mailer'[v] = mailer[v]
  BY DEF EndMail, IdleMailer, Mailer, MailTypes, NotificationsTypeOK
<1> DEFINE n == NoteOf(w)
           job == [mailJob[n] EXCEPT !.status = status, !.owner = None]
<1>2. mailJob \in Seq(MailJob) /\ n \in DOMAIN mailJob /\ mailJob[n] \in MailJob
  BY DEF MailTypes, NotificationsTypeOK, MailersKnow
<1>3. job \in MailJob /\ job.status = status
  <2>1. status \in {"none", "waiting", "active", "completed", "failed"}
    OBVIOUS
  <2> QED
    BY <1>2, <2>1, JobRows
<1>4. CASE OwnsMail(w)
  <2>1. mailJob' = [mailJob EXCEPT ![n] = job]
    BY <1>4 DEF EndMail
  <2> HIDE DEF job
  <2> QED
    BY <2>1, <1>1, <1>2, <1>3, <1>4, JobWritten
<1>5. CASE ~OwnsMail(w)
  <2>1. mailJob' = mailJob
    BY <1>5 DEF EndMail
  <2> QED
    BY <2>1, <1>1, <1>2, <1>5
<1> QED
  BY <1>4, <1>5

\* The types of a step of the notifications, from those of what it writes.
LEMMA MailTypesFollow ==
  ASSUME MailTypes, UNCHANGED <<sales, shipVars>>,
         notes' \in Seq(Note), mailJob' \in Seq(MailJob), mailer' \in [Mailers -> Mailer],
         mailFaults' \in [{"refuse", "die", "stall"} -> Nat],
         Len(notes') = Len(notes), Len(mailJob') = Len(mailJob),
         \A w \in Mailers : mailer'[w].pc # "idle" => mailer'[w].note \in DOMAIN notes
  PROVE  MailTypes'
<1>1. FulfilmentTypeOK' /\ NotificationsTypeOK'
  BY DEF MailTypes, FulfilmentTypeOK, NotificationsTypeOK, shipVars
<1>2. DOMAIN notes' = DOMAIN notes
  BY DEF MailTypes, NotificationsTypeOK
<1>3. ShippersKnow'
  BY <1>2 DEF MailTypes, ShippersKnow, ShipperAt, ShipmentOf, shipVars
<1>4. MailersKnow'
  BY <1>2 DEF MailTypes, MailersKnow, MailerAt, NoteOf
<1> QED
  BY <1>1, <1>3, <1>4 DEF MailTypes

LEMMA MailFaultType ==
  ASSUME MailTypes, NEW kind, NEW limit, NoFault \/ MailFault(kind, limit)
  PROVE  mailFaults' \in [{"refuse", "die", "stall"} -> Nat]
BY DEF NoFault, MailFault, MailTypes, NotificationsTypeOK

\* What each step does to the note, the job and the slot.  Slot w is at n.
AtNote(w, n) == ~MailerAt(w, "idle") /\ NoteOf(w) = n /\ n \in DOMAIN notes /\ notes[n] \in Note
SlotGoes(w, n, pc) ==
  /\ mailer' \in [Mailers -> Mailer] /\ mailer'[w].pc = pc
  /\ pc # "idle" => mailer'[w].note = n
  /\ \A v \in Mailers : v # w => mailer'[v] = mailer[v]
NoteGoes(n, status, sent, excused) ==
  /\ notes' \in Seq(Note) /\ Len(notes') = Len(notes)
  /\ notes'[n].status = status /\ notes'[n].sent = sent /\ notes'[n].excused = excused
  /\ notes'[n].about = notes[n].about
  /\ \A m \in DOMAIN notes : m # n => notes'[m] = notes[m]
\* Only an owner changes the job, and then nobody owns it.
JobGoes(w, n) ==
  /\ mailJob' \in Seq(MailJob) /\ Len(mailJob') = Len(mailJob)
  /\ \A m \in DOMAIN mailJob : m # n => mailJob'[m] = mailJob[m]
  /\ mailJob' = mailJob \/ (OwnsMail(w) /\ mailJob'[n].status \in {"waiting", "completed", "failed"})
JobEnds(w, n) == JobGoes(w, n) /\ (OwnsMail(w) => mailJob'[n].status # "active")
FaultsGo == mailFaults' \in [{"refuse", "die", "stall"} -> Nat]

LEMMA SlotIsAt ==
  ASSUME MailTypes, NEW w \in Mailers, ~MailerAt(w, "idle")
  PROVE  AtNote(w, NoteOf(w)) /\ NoteOf(w) \in DOMAIN mailJob /\ mailJob[NoteOf(w)] \in MailJob
BY DEF MailTypes, MailersKnow, NotificationsTypeOK, AtNote

LEMMA JobStays ==
  ASSUME MailTypes, NEW w, NEW n, UNCHANGED mailJob
  PROVE  JobGoes(w, n)
BY DEF JobGoes, MailTypes, NotificationsTypeOK

LEMMA NoteGets ==
  ASSUME MailTypes, NEW n \in DOMAIN notes, NEW row \in Note, row.about = notes[n].about,
         notes' = [notes EXCEPT ![n] = row]
  PROVE  NoteGoes(n, row.status, row.sent, row.excused)
BY NoteWritten DEF NoteGoes, MailTypes, NotificationsTypeOK

LEMMA ReadMoves ==
  ASSUME MailTypes, NEW w \in Mailers, ReadNote(w)
  PROVE  /\ AtNote(w, NoteOf(w)) /\ MailerAt(w, "read") /\ UNCHANGED <<notes, mailJob>> /\ FaultsGo
         /\ SlotGoes(w, NoteOf(w), IF AlreadySent(NoteOf(w)) THEN "ack" ELSE "send")
<1>1. MailerAt(w, "read") /\ UNCHANGED <<notes, mailJob, mailFaults>>
  BY DEF ReadNote
<1>2. CASE AlreadySent(NoteOf(w))
  BY <1>1, <1>2, SlotIsAt, SlotMoved DEF ReadNote, SlotGoes, NoteOf, MailerAt, FaultsGo, MailTypes, NotificationsTypeOK
<1>3. CASE ~AlreadySent(NoteOf(w))
  BY <1>1, <1>3, SlotIsAt, SlotMoved DEF ReadNote, SlotGoes, NoteOf, MailerAt, FaultsGo, MailTypes, NotificationsTypeOK
<1> QED
  BY <1>2, <1>3

LEMMA SendMoves ==
  ASSUME MailTypes, NEW w \in Mailers, SendMail(w)
  PROVE  LET n == NoteOf(w) IN
         /\ AtNote(w, n) /\ MailerAt(w, "send") /\ UNCHANGED mailJob /\ FaultsGo
         /\ \/ SlotGoes(w, n, "sent") /\ NoteGoes(n, notes[n].status, notes[n].sent + 1, notes[n].excused)
            \/ SlotGoes(w, n, "refused") /\ UNCHANGED notes
<1> DEFINE n == NoteOf(w)
<1>1. MailerAt(w, "send") /\ UNCHANGED mailJob /\ AtNote(w, n)
  BY SlotIsAt DEF SendMail, MailerAt
<1>2. CASE notes' = [notes EXCEPT ![n].sent = @ + 1] /\ MailerGoes(w, "sent") /\ NoFault
  <2> DEFINE row == [notes[n] EXCEPT !.sent = notes[n].sent + 1]
  <2>1. notes' = [notes EXCEPT ![n] = row]
    BY <1>2
  <2>2. /\ row \in Note /\ row.about = notes[n].about
      /\ row.sent = notes[n].sent + 1 /\ row.status = notes[n].status /\ row.excused = notes[n].excused
    BY <1>1, NoteRows DEF AtNote
  <2> HIDE DEF row
  <2>3. NoteGoes(n, notes[n].status, notes[n].sent + 1, notes[n].excused)
    BY <1>1, <2>1, <2>2, NoteGets DEF AtNote
  <2>4. SlotGoes(w, n, "sent")
    BY <1>2, SlotMoved DEF SlotGoes, MailTypes, NotificationsTypeOK, NoteOf
  <2>5. FaultsGo
    BY <1>2, MailFaultType DEF FaultsGo
  <2> QED
    BY <1>1, <2>3, <2>4, <2>5
<1>3. CASE MailFault("refuse", Refusals) /\ MailerGoes(w, "refused") /\ UNCHANGED notes
  <2>1. SlotGoes(w, n, "refused")
    BY <1>3, SlotMoved DEF SlotGoes, MailTypes, NotificationsTypeOK, NoteOf
  <2>2. FaultsGo
    BY <1>3, MailFaultType DEF FaultsGo
  <2> QED
    BY <1>1, <1>3, <2>1, <2>2
<1> QED
  BY <1>2, <1>3 DEF SendMail

LEMMA MarkSentMoves ==
  ASSUME MailTypes, NEW w \in Mailers, MarkSent(w)
  PROVE  LET n == NoteOf(w) IN
         /\ AtNote(w, n) /\ MailerAt(w, "sent") /\ UNCHANGED mailJob /\ FaultsGo
         /\ SlotGoes(w, n, "ack") /\ NoteGoes(n, "SENT", notes[n].sent, notes[n].excused)
<1> DEFINE n == NoteOf(w)
           row == [notes[n] EXCEPT !.status = "SENT"]
<1>1. MailerAt(w, "sent") /\ UNCHANGED <<mailJob, mailFaults>> /\ AtNote(w, n)
  BY SlotIsAt DEF MarkSent, MailerAt
<1>2. notes' = [notes EXCEPT ![n] = row]
  BY DEF MarkSent
<1>3. /\ row \in Note /\ row.about = notes[n].about
      /\ row.sent = notes[n].sent /\ row.status = "SENT" /\ row.excused = notes[n].excused
  BY <1>1, NoteRows DEF AtNote
<1> HIDE DEF row
<1>4. NoteGoes(n, "SENT", notes[n].sent, notes[n].excused)
  BY <1>1, <1>2, <1>3, NoteGets DEF AtNote
<1>5. SlotGoes(w, n, "ack")
  BY SlotMoved DEF MarkSent, SlotGoes, MailTypes, NotificationsTypeOK, NoteOf
<1> QED
  BY <1>1, <1>4, <1>5 DEF FaultsGo, MailTypes, NotificationsTypeOK

LEMMA MarkSentFailsMoves ==
  ASSUME MailTypes, NEW w \in Mailers, MarkSentFails(w)
  PROVE  LET n == NoteOf(w) IN
         /\ AtNote(w, n) /\ MailerAt(w, "sent") /\ UNCHANGED mailJob /\ FaultsGo
         /\ SlotGoes(w, n, "refused") /\ NoteGoes(n, notes[n].status, notes[n].sent, notes[n].excused + 1)
<1> DEFINE n == NoteOf(w)
           row == [notes[n] EXCEPT !.excused = notes[n].excused + 1]
<1>1. MailerAt(w, "sent") /\ UNCHANGED mailJob /\ AtNote(w, n)
  BY SlotIsAt DEF MarkSentFails, MailerAt
<1>2. notes' = [notes EXCEPT ![n] = row]
  BY DEF MarkSentFails
<1>3. /\ row \in Note /\ row.about = notes[n].about
      /\ row.sent = notes[n].sent /\ row.status = notes[n].status /\ row.excused = notes[n].excused + 1
  BY <1>1, NoteRows DEF AtNote
<1> HIDE DEF row
<1>4. NoteGoes(n, notes[n].status, notes[n].sent, notes[n].excused + 1)
  BY <1>1, <1>2, <1>3, NoteGets DEF AtNote
<1>5. SlotGoes(w, n, "refused")
  BY SlotMoved DEF MarkSentFails, SlotGoes, MailTypes, NotificationsTypeOK, NoteOf
<1>6. FaultsGo
  BY MailFaultType DEF MarkSentFails, FaultsGo
<1> QED
  BY <1>1, <1>4, <1>5, <1>6

LEMMA EndMoves ==
  ASSUME MailTypes, NEW w \in Mailers, ~MailerAt(w, "idle"),
         NEW status \in {"waiting", "completed", "failed"}, EndMail(w, status)
  PROVE  SlotGoes(w, NoteOf(w), "idle") /\ JobEnds(w, NoteOf(w))
BY MailEnds DEF SlotGoes, JobGoes, JobEnds

LEMMA MarkFailedMoves ==
  ASSUME MailTypes, NEW w \in Mailers, MarkFailed(w)
  PROVE  LET n == NoteOf(w) IN
         /\ AtNote(w, n) /\ MailerAt(w, "refused") /\ FaultsGo
         /\ SlotGoes(w, n, "idle") /\ JobEnds(w, n)
         /\ NoteGoes(n, "FAILED", notes[n].sent, notes[n].excused)
<1> DEFINE n == NoteOf(w)
           row == [notes[n] EXCEPT !.status = "FAILED"]
<1>1. MailerAt(w, "refused") /\ UNCHANGED mailFaults /\ AtNote(w, n)
  BY SlotIsAt DEF MarkFailed, MailerAt
<1>2. notes' = [notes EXCEPT ![n] = row]
  BY DEF MarkFailed
<1>3. /\ row \in Note /\ row.about = notes[n].about
      /\ row.sent = notes[n].sent /\ row.status = "FAILED" /\ row.excused = notes[n].excused
  BY <1>1, NoteRows DEF AtNote
<1> HIDE DEF row
<1>4. NoteGoes(n, "FAILED", notes[n].sent, notes[n].excused)
  BY <1>1, <1>2, <1>3, NoteGets DEF AtNote
<1>5. AfterRefusal(w) \in {"waiting", "completed", "failed"}
  BY DEF AfterRefusal, Retried
<1>6. EndMail(w, AfterRefusal(w))
  BY DEF MarkFailed
<1>7. SlotGoes(w, n, "idle") /\ JobEnds(w, n)
  BY <1>1, <1>5, <1>6, EndMoves DEF MailerAt
<1> QED
  BY <1>1, <1>4, <1>7 DEF FaultsGo, MailTypes, NotificationsTypeOK

LEMMA AckMoves ==
  ASSUME MailTypes, NEW w \in Mailers, AckMail(w)
  PROVE  LET n == NoteOf(w) IN
         /\ AtNote(w, n) /\ MailerAt(w, "ack") /\ FaultsGo /\ UNCHANGED notes
         /\ SlotGoes(w, n, "idle") /\ JobEnds(w, n)
<1>1. MailerAt(w, "ack") /\ UNCHANGED <<notes, mailFaults>> /\ ~MailerAt(w, "idle") /\ EndMail(w, "completed")
  BY DEF AckMail, MailerAt
<1>2. SlotGoes(w, NoteOf(w), "idle") /\ JobEnds(w, NoteOf(w))
  BY <1>1, EndMoves
<1> QED
  BY <1>1, <1>2, SlotIsAt DEF FaultsGo, MailTypes, NotificationsTypeOK

LEMMA DeathMoves ==
  ASSUME MailTypes, NEW w \in Mailers, MailerDies(w)
  PROVE  LET n == NoteOf(w) IN
         /\ AtNote(w, n) /\ FaultsGo
         /\ SlotGoes(w, n, "idle") /\ JobEnds(w, n)
         /\ IF MailerAt(w, "sent")
            THEN NoteGoes(n, notes[n].status, notes[n].sent, notes[n].excused + 1)
            ELSE NoteGoes(n, notes[n].status, notes[n].sent, notes[n].excused)
<1> DEFINE n == NoteOf(w)
           more == IF MailerAt(w, "sent") THEN notes[n].excused + 1 ELSE notes[n].excused
           row == [notes[n] EXCEPT !.excused = more]
<1>1. ~MailerAt(w, "idle") /\ AtNote(w, n)
  BY SlotIsAt DEF MailerDies
<1>2. notes' = [notes EXCEPT ![n] = row]
  BY DEF MailerDies
<1>3. /\ row \in Note /\ row.about = notes[n].about
      /\ row.sent = notes[n].sent /\ row.status = notes[n].status /\ row.excused = more
  <2>1. notes[n] \in Note
    BY <1>1 DEF AtNote
  <2>2. notes[n].excused \in Nat
    BY <2>1 DEF Note
  <2>3. more \in Nat
    BY <2>2
  <2> HIDE DEF more
  <2> QED
    BY <2>1, <2>3 DEF Note
<1> HIDE DEF row
<1>4. NoteGoes(n, notes[n].status, notes[n].sent, more)
  BY <1>1, <1>2, <1>3, NoteGets DEF AtNote
<1>5. Retried(w) \in {"waiting", "completed", "failed"} /\ EndMail(w, Retried(w))
  BY DEF Retried, MailerDies
<1>6. SlotGoes(w, n, "idle") /\ JobEnds(w, n)
  BY <1>1, <1>5, EndMoves
<1>7. FaultsGo
  BY MailFaultType DEF MailerDies, FaultsGo
<1> QED
  BY <1>1, <1>4, <1>6, <1>7

LEMMA StallMoves ==
  ASSUME MailTypes, NEW w \in Mailers, MailJobStalls(w)
  PROVE  LET n == NoteOf(w) IN
         /\ AtNote(w, n) /\ OwnsMail(w) /\ FaultsGo /\ UNCHANGED mailer
         /\ JobEnds(w, n)
         /\ NoteGoes(n, notes[n].status, notes[n].sent, notes[n].excused + 1)
<1> DEFINE n == NoteOf(w)
           row == [notes[n] EXCEPT !.excused = notes[n].excused + 1]
           job == [mailJob[n] EXCEPT !.status = "waiting", !.owner = None]
<1>1. ~MailerAt(w, "idle") /\ AtNote(w, n) /\ OwnsMail(w) /\ UNCHANGED mailer
  BY SlotIsAt DEF MailJobStalls
<1>2. notes' = [notes EXCEPT ![n] = row] /\ mailJob' = [mailJob EXCEPT ![n] = job]
  BY DEF MailJobStalls
<1>3. /\ row \in Note /\ row.about = notes[n].about
      /\ row.sent = notes[n].sent /\ row.status = notes[n].status /\ row.excused = notes[n].excused + 1
  BY <1>1, NoteRows DEF AtNote
<1>4. n \in DOMAIN mailJob /\ mailJob[n] \in MailJob /\ mailJob \in Seq(MailJob)
  BY <1>1, SlotIsAt DEF MailTypes, NotificationsTypeOK
<1>5. job \in MailJob /\ job.status = "waiting"
  BY <1>4, JobRows
<1> HIDE DEF row, job
<1>6. NoteGoes(n, notes[n].status, notes[n].sent, notes[n].excused + 1)
  BY <1>1, <1>2, <1>3, NoteGets DEF AtNote
<1>7. JobEnds(w, n)
  BY <1>1, <1>2, <1>4, <1>5, JobWritten DEF JobGoes, JobEnds
<1>8. FaultsGo
  BY MailFaultType DEF MailJobStalls, FaultsGo
<1> QED
  BY <1>1, <1>6, <1>7, <1>8

LEMMA StartMoves ==
  ASSUME MailTypes, NEW w \in Mailers, NEW n \in DOMAIN mailJob, StartMail(w, n)
  PROVE  /\ MailerAt(w, "idle") /\ mailJob[n].status = "waiting" /\ n \in DOMAIN notes
         /\ UNCHANGED notes /\ FaultsGo
         /\ SlotGoes(w, n, "read")
         /\ mailJob' \in Seq(MailJob) /\ Len(mailJob') = Len(mailJob)
         /\ mailJob'[n].status = "active" /\ mailJob'[n].owner = w
         /\ \A m \in DOMAIN mailJob : m # n => mailJob'[m] = mailJob[m]
<1> DEFINE job == [status |-> "active", owner |-> w, tries |-> mailJob[n].tries + 1]
<1>1. MailerAt(w, "idle") /\ mailJob[n].status = "waiting" /\ UNCHANGED <<notes, mailFaults>>
  BY DEF StartMail
<1>2. n \in DOMAIN notes /\ mailJob[n] \in MailJob /\ mailJob \in Seq(MailJob)
  BY DEF MailTypes, MailersKnow, NotificationsTypeOK
<1>3. job \in MailJob /\ job.status = "active" /\ job.owner = w
  BY <1>2, JobRows
<1>4. mailJob' = [mailJob EXCEPT ![n] = job]
  BY DEF StartMail
<1>5. SlotGoes(w, n, "read")
  <2>1. n \in Nat
    BY <1>2 DEF MailTypes, NotificationsTypeOK
  <2> QED
    BY <2>1 DEF StartMail, SlotGoes, Mailer, MailTypes, NotificationsTypeOK
<1> HIDE DEF job
<1> QED
  BY <1>1, <1>2, <1>3, <1>4, <1>5, JobWritten DEF FaultsGo, MailTypes, NotificationsTypeOK

\* A slot's step that keeps the types: everything it wrote is described above.
LEMMA SlotKeepsTypes ==
  ASSUME MailTypes, UNCHANGED <<sales, shipVars>>, NEW w \in Mailers, NEW n \in DOMAIN notes, NEW pc,
         SlotGoes(w, n, pc), FaultsGo,
         notes' \in Seq(Note), Len(notes') = Len(notes),
         mailJob' \in Seq(MailJob), Len(mailJob') = Len(mailJob)
  PROVE  MailTypes'
<1>1. \A v \in Mailers : mailer'[v].pc # "idle" => mailer'[v].note \in DOMAIN notes
  BY DEF SlotGoes, MailTypes, MailersKnow, MailerAt, NoteOf
<1> QED
  BY <1>1, MailTypesFollow DEF SlotGoes, FaultsGo

LEMMA MailKeepsTypes ==
  ASSUME MailTypes, NotificationsNext, UNCHANGED <<sales, shipVars>>
  PROVE  MailTypes'
<1>1. notes \in Seq(Note) /\ mailJob \in Seq(MailJob)
  BY DEF MailTypes, NotificationsTypeOK
<1> PICK w \in Mailers : \/ \E n \in DOMAIN mailJob : StartMail(w, n)
                         \/ MailerStep(w)
                         \/ MarkSentFails(w)
                         \/ MailerDies(w)
                         \/ MailJobStalls(w)
  BY DEF NotificationsNext
<1>2. ASSUME NEW n \in DOMAIN mailJob, StartMail(w, n) PROVE MailTypes'
  BY <1>1, <1>2, StartMoves, SlotKeepsTypes
<1>3. CASE ReadNote(w)
  <2>1. PICK pc : SlotGoes(w, NoteOf(w), pc)
    BY <1>3, ReadMoves
  <2> QED
    BY <1>1, <1>3, <2>1, ReadMoves, SlotKeepsTypes DEF AtNote
<1>4. CASE SendMail(w)
  BY <1>1, <1>4, SendMoves, SlotKeepsTypes DEF AtNote, NoteGoes
<1>5. CASE MarkSent(w)
  BY <1>1, <1>5, MarkSentMoves, SlotKeepsTypes DEF AtNote, NoteGoes
<1>6. CASE MarkSentFails(w)
  BY <1>1, <1>6, MarkSentFailsMoves, SlotKeepsTypes DEF AtNote, NoteGoes
<1>7. CASE MarkFailed(w)
  BY <1>1, <1>7, MarkFailedMoves, SlotKeepsTypes DEF AtNote, NoteGoes, JobEnds, JobGoes
<1>8. CASE AckMail(w)
  BY <1>1, <1>8, AckMoves, SlotKeepsTypes DEF AtNote, JobEnds, JobGoes
<1>9. CASE MailerDies(w)
  <2>1. notes' \in Seq(Note) /\ Len(notes') = Len(notes)
    BY <1>9, DeathMoves DEF NoteGoes
  <2> QED
    BY <2>1, <1>9, DeathMoves, SlotKeepsTypes DEF AtNote, JobEnds, JobGoes
<1>10. CASE MailJobStalls(w)
  <2>1. \A v \in Mailers : mailer[v].pc # "idle" => mailer[v].note \in DOMAIN notes
    BY DEF MailTypes, MailersKnow, MailerAt, NoteOf
  <2>2. mailer \in [Mailers -> Mailer]
    BY DEF MailTypes, NotificationsTypeOK
  <2> QED
    BY <2>1, <2>2, <1>10, StallMoves, MailTypesFollow DEF NoteGoes, JobEnds, JobGoes, FaultsGo
<1> QED
  BY <1>2, <1>3, <1>4, <1>5, <1>6, <1>7, <1>8, <1>9, <1>10 DEF MailerStep

\* Types once the shippers' state is as it was but for p's.
ShipperBecomes(p, new) ==
  /\ new \in Shipper /\ shipper' = [shipper EXCEPT ![p] = new]
  /\ shipments' \in Seq(Shipment) /\ Len(shipments') = Len(shipments)
  /\ shipBudget' \in [updates : Nat, deaths : Nat]
  /\ notes' \in Seq(Note) /\ mailJob' \in Seq(MailJob)
  /\ Len(mailJob') = Len(notes') /\ Len(notes') >= Len(notes)
  /\ mailer' = mailer /\ mailFaults' = mailFaults
  /\ new.pc # "idle" => new.shipment \in DOMAIN shipments
  /\ new.pc = "write" => new.target \in ShipmentStatus
  /\ new.pc = "note" => new.to \in Addresses
  /\ new.pc = "queue" => new.note \in DOMAIN notes'

LEMMA ShipTypesFollow ==
  ASSUME MailTypes, NEW p \in Shippers, NEW new, ShipperBecomes(p, new), sales' \in [Sales -> Sale]
  PROVE  MailTypes'
<1> USE DEF ShipperBecomes
<1>1. shipper' \in [Shippers -> Shipper] /\ shipper'[p] = new /\ \A x \in Shippers : x # p => shipper'[x] = shipper[x]
  BY DEF MailTypes, FulfilmentTypeOK
<1>2. FulfilmentTypeOK' /\ NotificationsTypeOK'
  BY <1>1 DEF MailTypes, FulfilmentTypeOK, NotificationsTypeOK
<1>3. DOMAIN shipments' = DOMAIN shipments /\ DOMAIN notes \subseteq DOMAIN notes'
  BY DEF MailTypes, FulfilmentTypeOK, NotificationsTypeOK
<1>4. ShippersKnow'
  <2> SUFFICES ASSUME NEW x \in Shippers
               PROVE  /\ shipper'[x].pc # "idle" => shipper'[x].shipment \in DOMAIN shipments'
                      /\ shipper'[x].pc = "write" => shipper'[x].target \in ShipmentStatus
                      /\ shipper'[x].pc = "note" => shipper'[x].to \in Addresses
                      /\ shipper'[x].pc = "queue" => shipper'[x].note \in DOMAIN notes'
    BY DEF ShippersKnow, ShipperAt, ShipmentOf
  <2>1. CASE x = p
    BY <2>1, <1>1, <1>3
  <2>2. CASE x # p
    BY <2>2, <1>1, <1>3 DEF MailTypes, ShippersKnow, ShipperAt, ShipmentOf
  <2> QED
    BY <2>1, <2>2
<1>5. MailersKnow'
  BY <1>3 DEF MailTypes, MailersKnow, MailerAt, NoteOf
<1> QED
  BY <1>2, <1>4, <1>5 DEF MailTypes

LEMMA NoUpdateType == NoUpdate \in Shipper /\ NoUpdate.pc = "idle"
BY DEF NoUpdate, Shipper

LEMMA ShipperType ==
  ASSUME MailTypes, NEW p \in Shippers
  PROVE  /\ shipper[p] \in Shipper
         /\ ~ShipperAt(p, "idle") => ShipmentOf(p) \in DOMAIN shipments /\ shipments[ShipmentOf(p)] \in Shipment
BY DEF MailTypes, FulfilmentTypeOK, ShippersKnow

LEMMA ShipmentWritten ==
  ASSUME shipments \in Seq(Shipment), NEW s \in DOMAIN shipments, NEW row \in Shipment,
         shipments' = [shipments EXCEPT ![s] = row]
  PROVE  shipments' \in Seq(Shipment) /\ Len(shipments') = Len(shipments)
BY ExceptSeq

LEMMA CreateKeepsTypes ==
  ASSUME MailTypes, NEW o \in Sales, CreateShipment(o)
  PROVE  MailTypes'
<1> PICK status \in {"PENDING", "LABEL_PURCHASED"} :
       shipments' = Append(shipments, [order |-> o, status |-> status, left |-> FALSE, untold |-> FALSE])
  BY DEF CreateShipment
<1> DEFINE row == [order |-> o, status |-> status, left |-> FALSE, untold |-> FALSE]
<1>1. row \in Shipment
  BY DEF Shipment, ShipmentStatus
<1>2. shipments' \in Seq(Shipment) /\ Len(shipments') = Len(shipments) + 1
  <2> HIDE DEF row
  <2> QED
    BY <1>1, AppendProperties DEF MailTypes, FulfilmentTypeOK, row
<1>3. UNCHANGED <<sales, shipper, shipBudget, notes, mailJob, mailer, mailFaults>>
  BY DEF CreateShipment, mailVars
<1>4. FulfilmentTypeOK' /\ NotificationsTypeOK'
  BY <1>2, <1>3 DEF MailTypes, FulfilmentTypeOK, NotificationsTypeOK
<1>5. DOMAIN shipments \subseteq DOMAIN shipments'
  BY <1>2 DEF MailTypes, FulfilmentTypeOK
<1>6. ShippersKnow' /\ MailersKnow'
  BY <1>3, <1>5 DEF MailTypes, ShippersKnow, MailersKnow, ShipperAt, ShipmentOf, MailerAt, NoteOf
<1> QED
  BY <1>4, <1>6 DEF MailTypes

LEMMA UpdateKeepsTypes ==
  ASSUME MailTypes, NEW p \in Shippers, sales' \in [Sales -> Sale],
         (\E s \in DOMAIN shipments, target \in Targets : ReadShipment(p, s, target)) \/ UpdateStep(p) \/ UpdateDies(p)
  PROVE  MailTypes'
<1> DEFINE r == shipper[p]
           s == ShipmentOf(p)
<1>1. /\ shipments \in Seq(Shipment) /\ notes \in Seq(Note) /\ mailJob \in Seq(MailJob)
      /\ Len(mailJob) = Len(notes) /\ shipBudget \in [updates : Nat, deaths : Nat]
  BY DEF MailTypes, FulfilmentTypeOK, NotificationsTypeOK, MailersKnow
<1>2. r \in Shipper
  BY ShipperType
<1>3. ASSUME NEW x \in DOMAIN shipments, NEW target \in Targets, ReadShipment(p, x, target)
      PROVE  MailTypes'
  <2> DEFINE new == [NoUpdate EXCEPT !.pc = "write", !.shipment = x, !.target = target,
                                     !.becoming = BecomingShipped(x, target)]
  <2>1. BecomingShipped(x, target) \in BOOLEAN /\ target \in ShipmentStatus /\ x \in Nat
    BY <1>1, AfterSaleAssumption DEF BecomingShipped
  <2>2. new \in Shipper /\ new.pc = "write" /\ new.shipment = x /\ new.target = target
    BY <2>1, NoUpdateType DEF NoUpdate, Shipper
  <2>3. shipper' = [shipper EXCEPT ![p] = new]
    BY <1>3 DEF ReadShipment
  <2>4. UNCHANGED <<shipments, notes, mailJob, mailer, mailFaults>>
    BY <1>3 DEF ReadShipment, mailVars
  <2>5. shipBudget' \in [updates : Nat, deaths : Nat]
    <3> DEFINE more == shipBudget.updates + 1
    <3>1. shipBudget \in [updates : Nat, deaths : Nat]
      BY <1>1
    <3>2. more \in Nat
      BY <3>1
    <3>3. shipBudget' = [shipBudget EXCEPT !.updates = more]
      BY <1>3 DEF ReadShipment
    <3> HIDE DEF more
    <3> QED
      BY <3>1, <3>2, <3>3
  <2> HIDE DEF new
  <2>6. ShipperBecomes(p, new)
    BY <1>1, <2>1, <2>2, <2>3, <2>4, <2>5 DEF ShipperBecomes
  <2> QED
    BY <2>6, ShipTypesFollow
<1>4. CASE WriteShipment(p)
  <2> DEFINE row == [shipments[s] EXCEPT !.status = r.target, !.left = @ \/ r.target = "IN_TRANSIT"]
             new == IF r.becoming THEN [r EXCEPT !.pc = "fulfil"] ELSE NoUpdate
  <2>1. /\ s \in DOMAIN shipments /\ shipments[s] \in Shipment /\ r.target \in ShipmentStatus /\ r.shipment = s
    BY <1>4, ShipperType DEF WriteShipment, ShipperAt, MailTypes, ShippersKnow, ShipmentOf
  <2>2. row \in Shipment
    BY <2>1 DEF Shipment
  <2>3. shipments' = [shipments EXCEPT ![s] = row] /\ shipper' = [shipper EXCEPT ![p] = new]
    BY <1>4 DEF WriteShipment
  <2>4. new \in Shipper /\ new.pc \in {"idle", "fulfil"} /\ (new.pc = "fulfil" => new.shipment = s)
    BY <1>2, <2>1, NoUpdateType DEF Shipper
  <2>5. UNCHANGED <<shipBudget, notes, mailJob, mailer, mailFaults>>
    BY <1>4 DEF WriteShipment, mailVars
  <2> HIDE DEF row, new
  <2>6. shipments' \in Seq(Shipment) /\ Len(shipments') = Len(shipments)
    BY <1>1, <2>1, <2>2, <2>3, ShipmentWritten
  <2>7. ShipperBecomes(p, new)
    BY <1>1, <2>1, <2>3, <2>4, <2>5, <2>6 DEF ShipperBecomes
  <2> QED
    BY <2>7, ShipTypesFollow
<1>5. CASE FulfilOrder(p)
  <2> DEFINE to == sales[shipments[s].order].email
             new == [r EXCEPT !.pc = "note", !.to = to]
  <2>1. s \in DOMAIN shipments /\ shipments[s] \in Shipment /\ r.shipment = s
    BY <1>5, ShipperType DEF FulfilOrder, ShipperAt, ShipmentOf
  <2>2. to \in Addresses
    BY <2>1 DEF Shipment, Sale, MailTypes, FulfilmentTypeOK
  <2>3. new \in Shipper /\ new.pc = "note" /\ new.to = to /\ new.shipment = s
    <3> HIDE DEF to
    <3> QED
      BY <1>2, <2>1, <2>2 DEF Shipper
  <2>4. shipper' = [shipper EXCEPT ![p] = new]
    BY <1>5 DEF FulfilOrder
  <2>5. UNCHANGED <<shipments, shipBudget, notes, mailJob, mailer, mailFaults>>
    BY <1>5 DEF FulfilOrder, mailVars
  <2> HIDE DEF new
  <2>6. ShipperBecomes(p, new)
    BY <1>1, <2>1, <2>2, <2>3, <2>4, <2>5 DEF ShipperBecomes
  <2> QED
    BY <2>6, ShipTypesFollow
<1>6. CASE NoteBuyer(p)
  <2> DEFINE row == [to |-> r.to, about |-> s, status |-> "PENDING", sent |-> 0, excused |-> 0]
             new == [r EXCEPT !.pc = "queue", !.note = Len(notes) + 1]
  <2>1. s \in DOMAIN shipments /\ r.shipment = s /\ r.to \in Addresses /\ s \in Nat
    BY <1>1, <1>6, ShipperType DEF NoteBuyer, ShipperAt, ShipmentOf, MailTypes, ShippersKnow
  <2>2. row \in Note
    BY <2>1 DEF Note
  <2>3. NoMailJob \in MailJob
    BY DEF NoMailJob, MailJob
  <2>4. notes' = Append(notes, row) /\ mailJob' = Append(mailJob, NoMailJob) /\ shipper' = [shipper EXCEPT ![p] = new]
    BY <1>6 DEF NoteBuyer, AddNote
  <2>5. new \in Shipper /\ new.pc = "queue" /\ new.note = Len(notes) + 1 /\ new.shipment = s
    <3> DEFINE next == Len(notes) + 1
    <3>1. next \in Nat
      BY <1>1
    <3> HIDE DEF next
    <3> QED
      BY <1>2, <2>1, <3>1 DEF Shipper, next
  <2>6. UNCHANGED <<shipments, shipBudget, mailer, mailFaults>>
    BY <1>6 DEF NoteBuyer
  <2> HIDE DEF row, new
  <2>7. notes' \in Seq(Note) /\ Len(notes') = Len(notes) + 1 /\ mailJob' \in Seq(MailJob) /\ Len(mailJob') = Len(mailJob) + 1
    BY <1>1, <2>2, <2>3, <2>4, AppendProperties
  <2>8. new.note \in DOMAIN notes' /\ Len(notes') >= Len(notes) /\ Len(mailJob') = Len(notes')
    BY <1>1, <2>5, <2>7
  <2>9. ShipperBecomes(p, new)
    BY <1>1, <2>1, <2>4, <2>5, <2>6, <2>7, <2>8 DEF ShipperBecomes
  <2> QED
    BY <2>9, ShipTypesFollow
<1>7. CASE QueueBuyerNote(p)
  <2> DEFINE n == r.note
             job == [mailJob[n] EXCEPT !.status = "waiting"]
  <2>1. n \in DOMAIN mailJob /\ mailJob[n] \in MailJob
    BY <1>1, <1>7 DEF QueueBuyerNote, MailTypes, ShippersKnow
  <2>2. job \in MailJob
    BY <2>1, JobRows
  <2>3. mailJob' = [mailJob EXCEPT ![n] = job] /\ shipper' = [shipper EXCEPT ![p] = NoUpdate]
    BY <1>7 DEF QueueBuyerNote, QueueNote
  <2>4. UNCHANGED <<shipments, shipBudget, notes, mailer, mailFaults>>
    BY <1>7 DEF QueueBuyerNote
  <2> HIDE DEF job
  <2>5. mailJob' \in Seq(MailJob) /\ Len(mailJob') = Len(mailJob)
    BY <1>1, <2>1, <2>2, <2>3, JobWritten
  <2>6. ShipperBecomes(p, NoUpdate)
    BY <1>1, <2>3, <2>4, <2>5, NoUpdateType DEF ShipperBecomes
  <2> QED
    BY <2>6, ShipTypesFollow
<1>8. CASE UpdateDies(p)
  <2> DEFINE row == [shipments[s] EXCEPT !.untold = TRUE]
  <2>1. s \in DOMAIN shipments /\ shipments[s] \in Shipment
    BY <1>8, ShipperType DEF UpdateDies, ShipperAt
  <2>2. row \in Shipment
    BY <2>1 DEF Shipment
  <2>3. shipments' = [shipments EXCEPT ![s] = row] /\ shipper' = [shipper EXCEPT ![p] = NoUpdate]
    BY <1>8 DEF UpdateDies
  <2>4. UNCHANGED <<notes, mailJob, mailer, mailFaults>>
    BY <1>8 DEF UpdateDies, mailVars
  <2>5. shipBudget' \in [updates : Nat, deaths : Nat]
    BY <1>1, <1>8 DEF UpdateDies
  <2> HIDE DEF row
  <2>6. shipments' \in Seq(Shipment) /\ Len(shipments') = Len(shipments)
    BY <1>1, <2>1, <2>2, <2>3, ShipmentWritten
  <2>7. ShipperBecomes(p, NoUpdate)
    BY <1>1, <2>3, <2>4, <2>5, <2>6, NoUpdateType DEF ShipperBecomes
  <2> QED
    BY <2>7, ShipTypesFollow
<1> QED
  BY <1>3, <1>4, <1>5, <1>6, <1>7, <1>8 DEF UpdateStep

LEMMA TypesStep ==
  ASSUME ErasureInv', MailTypes, [Next]_vars
  PROVE  MailTypes'
<1>1. sales' \in [Sales -> Sale]
  BY DEF ErasureInv
<1>2. CASE FulfilmentNext
  BY <1>1, <1>2, CreateKeepsTypes, UpdateKeepsTypes DEF FulfilmentNext
<1>3. CASE NotificationsNext /\ UNCHANGED <<sales, shipVars, privacyVars>>
  BY <1>3, MailKeepsTypes
<1>4. CASE UNCHANGED <<shipVars, mailVars>>
  BY <1>1, <1>4 DEF shipVars, mailVars, MailTypes, FulfilmentTypeOK, NotificationsTypeOK, ShippersKnow, MailersKnow,
     ShipperAt, ShipmentOf, MailerAt, NoteOf
<1>5. CASE PrivacyNext
  <2>1. UNCHANGED <<shipVars, mailVars>>
    BY <1>5 DEF PrivacyNext, CreateRequest, QueueRequest, StartRequest, ClerkStep, ReadRequest, FulfilRequest, AckRequest,
       RequestAttemptFails, RequestStalls, EraseCustomer
  <2> QED
    BY <2>1, <1>4
<1>6. CASE UNCHANGED vars
  BY <1>4, <1>6 DEF vars
<1> QED
  BY <1>2, <1>3, <1>5, <1>6 DEF Next

-----------------------------------------------------------------------------
(* The balance of a note.  Senders are the slots that may still hand it     *)
(* over, Room is one while a delivery needs no excuse: the job is with an   *)
(* attempt that has not given up, or the row is SENT.  What was sent and    *)
(* what may still be is covered by the excuses and the room.                *)

Closed(n) == notes[n].status = "SENT"
Owns(w, n) == mailJob[n].status = "active" /\ mailJob[n].owner = w

\* An attempt that owns the job and finds the row SENT acknowledges it; one that
\* lost it may find the row reopened by then.
MaySend(w, n) ==
  /\ NoteOf(w) = n
  /\ \/ mailer[w].pc \in {"send", "refused"}
     \/ mailer[w].pc = "read" /\ (~Closed(n) \/ ~Owns(w, n))
Senders(n) == {w \in Mailers : MaySend(w, n)}
HasRoom(n) == Closed(n) \/ \E w \in Mailers : Owns(w, n) /\ mailer[w].pc # "ack"
Room(n) == IF HasRoom(n) THEN 1 ELSE 0

Balanced(n) ==
  /\ IsFiniteSet(Senders(n))
  /\ notes[n].sent + Cardinality(Senders(n)) <= notes[n].excused + Room(n)
WasSent(n) ==
  /\ Closed(n) => notes[n].sent > 0
  /\ \A w \in Mailers : mailer[w].pc = "sent" /\ NoteOf(w) = n => notes[n].sent > 0
NoteInv(n) == Balanced(n) /\ WasSent(n)

OwnersWork ==
  \A n \in DOMAIN notes : mailJob[n].status = "active" =>
    \E w \in Mailers : mailJob[n].owner = w /\ ~MailerAt(w, "idle") /\ NoteOf(w) = n

\* A job is added to the queue once.
NotesQueuedOnce ==
  \A p \in Shippers : ShipperAt(p, "queue") =>
    /\ mailJob[shipper[p].note].status = "none"
    /\ \A q \in Shippers : q # p /\ ShipperAt(q, "queue") => shipper[q].note # shipper[p].note

MailInv == MailTypes /\ OwnersWork /\ NotesQueuedOnce /\ \A n \in DOMAIN notes : NoteInv(n)

-----------------------------------------------------------------------------
LEMMA Fewer ==
  ASSUME NEW S, IsFiniteSet(S), NEW T, T \subseteq S
  PROVE  IsFiniteSet(T) /\ Cardinality(T) \in Nat /\ Cardinality(S) \in Nat /\ Cardinality(T) <= Cardinality(S)
<1>1. IsFiniteSet(T) /\ Cardinality(T) <= Cardinality(S)
  BY FS_Subset
<1> QED
  BY <1>1, FS_CardinalityType

LEMMA OneMore ==
  ASSUME NEW S, IsFiniteSet(S), NEW w, NEW T, T \subseteq S \cup {w}
  PROVE  IsFiniteSet(T) /\ Cardinality(T) \in Nat /\ Cardinality(S) \in Nat /\ Cardinality(T) <= Cardinality(S) + 1
<1> DEFINE U == S \cup {w}
<1>1. IsFiniteSet(U) /\ (Cardinality(U) = Cardinality(S) \/ Cardinality(U) = Cardinality(S) + 1)
  BY FS_AddElement
<1>2. Cardinality(S) \in Nat
  BY FS_CardinalityType
<1>3. T \subseteq U
  OBVIOUS
<1> HIDE DEF U
<1>4. IsFiniteSet(T) /\ Cardinality(T) \in Nat /\ Cardinality(U) \in Nat /\ Cardinality(T) <= Cardinality(U)
  BY <1>1, <1>3, Fewer
<1> QED
  BY <1>1, <1>2, <1>4

LEMMA OneLess ==
  ASSUME NEW S, IsFiniteSet(S), NEW w \in S, NEW T, T \subseteq S \ {w}
  PROVE  IsFiniteSet(T) /\ Cardinality(T) \in Nat /\ Cardinality(S) \in Nat /\ Cardinality(T) + 1 <= Cardinality(S)
<1> DEFINE U == S \ {w}
<1>1. IsFiniteSet(U) /\ Cardinality(U) = Cardinality(S) - 1
  BY FS_RemoveElement
<1>2. Cardinality(S) \in Nat
  BY FS_CardinalityType
<1>3. T \subseteq U
  OBVIOUS
<1> HIDE DEF U
<1>4. IsFiniteSet(T) /\ Cardinality(T) \in Nat /\ Cardinality(T) <= Cardinality(U)
  BY <1>1, <1>3, Fewer
<1> QED
  BY <1>1, <1>2, <1>4

LEMMA OneSwapped ==
  ASSUME NEW S, IsFiniteSet(S), NEW w \in S, NEW v, NEW T, T \subseteq (S \ {w}) \cup {v}
  PROVE  IsFiniteSet(T) /\ Cardinality(T) \in Nat /\ Cardinality(S) \in Nat /\ Cardinality(T) <= Cardinality(S)
<1> DEFINE U == S \ {w}
<1>1. IsFiniteSet(U) /\ Cardinality(U) + 1 <= Cardinality(S) /\ Cardinality(U) \in Nat /\ Cardinality(S) \in Nat
  BY OneLess, FS_RemoveElement
<1>2. T \subseteq U \cup {v}
  OBVIOUS
<1> HIDE DEF U
<1>3. IsFiniteSet(T) /\ Cardinality(T) \in Nat /\ Cardinality(T) <= Cardinality(U) + 1
  BY <1>1, <1>2, OneMore
<1> QED
  BY <1>1, <1>3

LEMMA NoteNumbers ==
  ASSUME MailTypes, NEW n \in DOMAIN notes
  PROVE  notes[n].sent \in Nat /\ notes[n].excused \in Nat
<1>1. notes[n] \in Note
  BY DEF MailTypes, NotificationsTypeOK
<1> QED
  BY <1>1 DEF Note

\* The slots that are not w stay what they were, unless the row is reopened.
LEMMA OthersSend ==
  ASSUME MailTypes, NEW w \in Mailers, NEW n \in DOMAIN notes, NEW pc,
         SlotGoes(w, n, pc), JobGoes(w, n), NoteOf(w) = n, n \in DOMAIN mailJob, Closed(n) => Closed(n)'
  PROVE  Senders(n)' \ {w} \subseteq Senders(n) \ {w}
<1> SUFFICES ASSUME NEW v \in Mailers, v # w, MaySend(v, n)'
             PROVE  MaySend(v, n)
  BY DEF Senders
<1>1. mailer'[v] = mailer[v]
  BY DEF SlotGoes
<1>2. Owns(v, n) => Owns(v, n)'
  BY DEF JobGoes, Owns, OwnsMail
<1> QED
  BY <1>1, <1>2 DEF MaySend, NoteOf

LEMMA RoomOfOthers ==
  ASSUME MailTypes, NEW w \in Mailers, NEW n \in DOMAIN notes, NEW pc,
         SlotGoes(w, n, pc), JobGoes(w, n), NoteOf(w) = n, n \in DOMAIN mailJob, Closed(n) => Closed(n)',
         ~Owns(w, n), HasRoom(n)
  PROVE  HasRoom(n)'
<1>1. mailJob' = mailJob
  BY DEF JobGoes, Owns, OwnsMail
<1>2. CASE Closed(n)
  BY <1>2 DEF HasRoom
<1>3. ASSUME NEW v \in Mailers, Owns(v, n), mailer[v].pc # "ack" PROVE HasRoom(n)'
  <2>1. v # w /\ mailer'[v] = mailer[v] /\ Owns(v, n)'
    BY <1>1, <1>3 DEF Owns, SlotGoes
  <2> QED
    BY <1>3, <2>1 DEF HasRoom
<1> QED
  BY <1>2, <1>3 DEF HasRoom

LEMMA RoomOfOwner ==
  ASSUME NEW w \in Mailers, NEW n, NEW pc, SlotGoes(w, n, pc), pc # "ack", UNCHANGED mailJob, Owns(w, n)
  PROVE  HasRoom(n)'
BY DEF HasRoom, Owns, SlotGoes

LEMMA MovesOnKeepsRoom ==
  ASSUME MailTypes, NEW w \in Mailers, NEW n \in DOMAIN notes, NEW pc,
         SlotGoes(w, n, pc), JobGoes(w, n), NoteOf(w) = n, n \in DOMAIN mailJob, Closed(n) => Closed(n)',
         UNCHANGED mailJob, pc # "ack", HasRoom(n)
  PROVE  HasRoom(n)'
BY RoomOfOthers, RoomOfOwner

-----------------------------------------------------------------------------
(* One step of slot w keeps the balance of the note n it is at.             *)

LEMMA AtNoteFacts ==
  ASSUME MailTypes, NEW w \in Mailers, NEW n, n = NoteOf(w), AtNote(w, n)
  PROVE  /\ n \in DOMAIN notes /\ n \in DOMAIN mailJob
         /\ notes[n].sent \in Nat /\ notes[n].excused \in Nat
         /\ (OwnsMail(w) <=> Owns(w, n))
BY NoteNumbers DEF AtNote, MailTypes, MailersKnow, NotificationsTypeOK, OwnsMail, Owns

LEMMA WasSentFollows ==
  ASSUME NEW w \in Mailers, NEW n, NEW pc, SlotGoes(w, n, pc), WasSent(n),
         notes[n].sent \in Nat, notes'[n].sent \in Nat, notes'[n].sent >= notes[n].sent,
         Closed(n)' => Closed(n) \/ notes'[n].sent > 0, pc = "sent" => notes'[n].sent > 0
  PROVE  WasSent(n)'
<1>1. notes[n].sent > 0 => notes'[n].sent > 0
  OBVIOUS
<1> QED
  BY <1>1 DEF WasSent, SlotGoes, NoteOf

\* The room does not shrink, or shrinks by one.
LEMMA RoomKept ==
  ASSUME NEW n
  PROVE  /\ Room(n) \in {0, 1} /\ Room(n)' \in {0, 1}
         /\ (HasRoom(n) => HasRoom(n)') => Room(n) <= Room(n)'
         /\ HasRoom(n)' => Room(n)' = 1
         /\ Closed(n) => Room(n) = 1
         /\ Closed(n)' => Room(n)' = 1
BY DEF Room, HasRoom

LEMMA ReadBalances ==
  ASSUME MailTypes, NEW w \in Mailers, NEW n, n = NoteOf(w), ReadNote(w), NoteInv(n)
  PROVE  NoteInv(n)'
<1> DEFINE pc == IF Closed(n) THEN "ack" ELSE "send"
<1>1. /\ AtNote(w, n) /\ MailerAt(w, "read") /\ UNCHANGED <<notes, mailJob>>
      /\ SlotGoes(w, n, pc)
  BY ReadMoves DEF AlreadySent, Closed
<1>2. /\ n \in DOMAIN notes /\ n \in DOMAIN mailJob
      /\ notes[n].sent \in Nat /\ notes[n].excused \in Nat
  BY <1>1, AtNoteFacts
<1>3. JobGoes(w, n) /\ (Closed(n)' <=> Closed(n))
  BY <1>1, JobStays DEF Closed
<1>4. Senders(n)' \ {w} \subseteq Senders(n) \ {w}
  BY <1>1, <1>2, <1>3, OthersSend
<1>5. w \in Senders(n)' => w \in Senders(n)
  BY <1>1 DEF Senders, MaySend, SlotGoes, MailerAt, NoteOf
<1>6. HasRoom(n) => HasRoom(n)'
  <2>1. CASE Closed(n)
    BY <2>1, <1>3 DEF HasRoom
  <2>2. CASE ~Closed(n)
    BY <2>2, <1>1, <1>2, <1>3, MovesOnKeepsRoom
  <2> QED
    BY <2>1, <2>2
<1>7. Senders(n)' \subseteq Senders(n)
  BY <1>4, <1>5
<1>8. WasSent(n)'
  BY <1>1, <1>2, <1>3, WasSentFollows DEF NoteInv
<1>9. Balanced(n)'
  BY <1>1, <1>2, <1>6, <1>7, Fewer, RoomKept DEF NoteInv, Balanced
<1> QED
  BY <1>8, <1>9 DEF NoteInv

LEMMA SendBalances ==
  ASSUME MailTypes, NEW w \in Mailers, NEW n, n = NoteOf(w), SendMail(w), NoteInv(n)
  PROVE  NoteInv(n)'
<1>1. /\ AtNote(w, n) /\ MailerAt(w, "send") /\ UNCHANGED mailJob
      /\ \/ SlotGoes(w, n, "sent") /\ NoteGoes(n, notes[n].status, notes[n].sent + 1, notes[n].excused)
         \/ SlotGoes(w, n, "refused") /\ UNCHANGED notes
  BY SendMoves
<1>2. /\ n \in DOMAIN notes /\ n \in DOMAIN mailJob
      /\ notes[n].sent \in Nat /\ notes[n].excused \in Nat
  BY <1>1, AtNoteFacts
<1>3. JobGoes(w, n) /\ (Closed(n)' <=> Closed(n))
  BY <1>1, JobStays DEF Closed, NoteGoes
<1>4. Senders(n)' \ {w} \subseteq Senders(n) \ {w}
  BY <1>1, <1>2, <1>3, OthersSend
<1>5. w \in Senders(n)
  BY <1>1 DEF Senders, MaySend, MailerAt
<1>6. HasRoom(n) => HasRoom(n)'
  BY <1>1, <1>2, <1>3, MovesOnKeepsRoom
<1>7. CASE SlotGoes(w, n, "sent") /\ NoteGoes(n, notes[n].status, notes[n].sent + 1, notes[n].excused)
  <2>1. notes'[n].sent = notes[n].sent + 1 /\ notes'[n].excused = notes[n].excused
    BY <1>7 DEF NoteGoes
  <2>2. Senders(n)' \subseteq Senders(n) \ {w}
    BY <1>4, <1>7 DEF Senders, MaySend, SlotGoes
  <2>3. WasSent(n)'
    BY <1>2, <1>3, <1>7, <2>1, WasSentFollows DEF NoteInv
  <2>4. Balanced(n)'
    BY <1>2, <1>5, <1>6, <2>1, <2>2, OneLess, RoomKept DEF NoteInv, Balanced
  <2> QED
    BY <2>3, <2>4 DEF NoteInv
<1>8. CASE SlotGoes(w, n, "refused") /\ UNCHANGED notes
  <2>1. Senders(n)' \subseteq Senders(n)
    BY <1>4, <1>5
  <2>2. WasSent(n)'
    BY <1>2, <1>3, <1>8, WasSentFollows DEF NoteInv
  <2>3. Balanced(n)'
    BY <1>2, <1>6, <1>8, <2>1, Fewer, RoomKept DEF NoteInv, Balanced
  <2> QED
    BY <2>2, <2>3 DEF NoteInv
<1> QED
  BY <1>1, <1>7, <1>8

LEMMA MarkSentBalances ==
  ASSUME MailTypes, NEW w \in Mailers, NEW n, n = NoteOf(w), MarkSent(w), NoteInv(n)
  PROVE  NoteInv(n)'
<1>1. /\ AtNote(w, n) /\ MailerAt(w, "sent") /\ UNCHANGED mailJob
      /\ SlotGoes(w, n, "ack") /\ NoteGoes(n, "SENT", notes[n].sent, notes[n].excused)
  BY MarkSentMoves
<1>2. /\ n \in DOMAIN notes /\ n \in DOMAIN mailJob
      /\ notes[n].sent \in Nat /\ notes[n].excused \in Nat
  BY <1>1, AtNoteFacts
<1>3. JobGoes(w, n) /\ Closed(n)' /\ notes'[n].sent = notes[n].sent /\ notes'[n].excused = notes[n].excused
  BY <1>1, JobStays DEF Closed, NoteGoes
<1>4. Senders(n)' \ {w} \subseteq Senders(n) \ {w}
  BY <1>1, <1>2, <1>3, OthersSend
<1>5. Senders(n)' \subseteq Senders(n)
  BY <1>1, <1>4 DEF Senders, MaySend, SlotGoes
<1>6. notes[n].sent > 0
  BY <1>1 DEF NoteInv, WasSent, MailerAt
<1>7. WasSent(n)'
  BY <1>1, <1>2, <1>3, <1>6, WasSentFollows DEF NoteInv
<1>8. Balanced(n)'
  BY <1>2, <1>3, <1>5, Fewer, RoomKept DEF NoteInv, Balanced
<1> QED
  BY <1>7, <1>8 DEF NoteInv

LEMMA MarkSentFailsBalances ==
  ASSUME MailTypes, NEW w \in Mailers, NEW n, n = NoteOf(w), MarkSentFails(w), NoteInv(n)
  PROVE  NoteInv(n)'
<1>1. /\ AtNote(w, n) /\ UNCHANGED mailJob
      /\ SlotGoes(w, n, "refused") /\ NoteGoes(n, notes[n].status, notes[n].sent, notes[n].excused + 1)
  BY MarkSentFailsMoves
<1>2. /\ n \in DOMAIN notes /\ n \in DOMAIN mailJob
      /\ notes[n].sent \in Nat /\ notes[n].excused \in Nat
  BY <1>1, AtNoteFacts
<1>3. /\ JobGoes(w, n) /\ (Closed(n)' <=> Closed(n))
      /\ notes'[n].sent = notes[n].sent /\ notes'[n].excused = notes[n].excused + 1
  BY <1>1, JobStays DEF Closed, NoteGoes
<1>4. Senders(n)' \ {w} \subseteq Senders(n) \ {w}
  BY <1>1, <1>2, <1>3, OthersSend
<1>5. Senders(n)' \subseteq Senders(n) \cup {w}
  BY <1>4
<1>6. HasRoom(n) => HasRoom(n)'
  BY <1>1, <1>2, <1>3, MovesOnKeepsRoom
<1>7. WasSent(n)'
  BY <1>1, <1>2, <1>3, WasSentFollows DEF NoteInv
<1>8. Balanced(n)'
  BY <1>2, <1>3, <1>5, <1>6, OneMore, RoomKept DEF NoteInv, Balanced
<1> QED
  BY <1>7, <1>8 DEF NoteInv

\* The row may be reopened: the owner of the job, if it is about to read, then
\* takes the place of the slot that gave up.
LEMMA MarkFailedBalances ==
  ASSUME MailTypes, NEW w \in Mailers, NEW n, n = NoteOf(w), MarkFailed(w), NoteInv(n)
  PROVE  NoteInv(n)'
<1>1. /\ AtNote(w, n) /\ MailerAt(w, "refused") /\ SlotGoes(w, n, "idle") /\ JobEnds(w, n)
      /\ NoteGoes(n, "FAILED", notes[n].sent, notes[n].excused)
  BY MarkFailedMoves
<1>2. /\ n \in DOMAIN notes /\ n \in DOMAIN mailJob
      /\ notes[n].sent \in Nat /\ notes[n].excused \in Nat
      /\ (OwnsMail(w) <=> Owns(w, n))
  BY <1>1, AtNoteFacts
<1>3. ~Closed(n)' /\ notes'[n].sent = notes[n].sent /\ notes'[n].excused = notes[n].excused
  BY <1>1 DEF Closed, NoteGoes
<1>4. w \in Senders(n) /\ w \notin Senders(n)'
  BY <1>1 DEF Senders, MaySend, SlotGoes, MailerAt
<1>5. WasSent(n)'
  BY <1>1, <1>2, <1>3, WasSentFollows DEF NoteInv
<1>6. CASE \E v \in Mailers : v # w /\ Owns(v, n) /\ mailer[v].pc = "read"
  <2> PICK v \in Mailers : v # w /\ Owns(v, n) /\ mailer[v].pc = "read"
    BY <1>6
  <2>1. UNCHANGED mailJob /\ mailer'[v] = mailer[v]
    BY <1>1, <1>2 DEF JobEnds, JobGoes, Owns, SlotGoes
  <2>2. HasRoom(n)'
    BY <2>1 DEF HasRoom, Owns
  <2>3. Senders(n)' \subseteq (Senders(n) \ {w}) \cup {v}
    <3> SUFFICES ASSUME NEW u \in Mailers, u # v, MaySend(u, n)'
                 PROVE  u # w /\ MaySend(u, n)
      BY DEF Senders
    <3>1. u # w
      BY <1>4 DEF Senders
    <3>2. mailer'[u] = mailer[u] /\ ~Owns(u, n)
      BY <1>1, <3>1 DEF SlotGoes, Owns
    <3> QED
      BY <3>1, <3>2 DEF MaySend, NoteOf
  <2>4. /\ IsFiniteSet(Senders(n)') /\ Cardinality(Senders(n)') \in Nat /\ Cardinality(Senders(n)) \in Nat
        /\ Cardinality(Senders(n)') <= Cardinality(Senders(n))
    <3> DEFINE T == Senders(n)'
               S == Senders(n)
    <3>1. IsFiniteSet(S) /\ w \in S /\ T \subseteq (S \ {w}) \cup {v}
      BY <1>4, <2>3 DEF NoteInv, Balanced
    <3> HIDE DEF S, T
    <3>2. IsFiniteSet(T) /\ Cardinality(T) \in Nat /\ Cardinality(S) \in Nat /\ Cardinality(T) <= Cardinality(S)
      BY <3>1, OneSwapped
    <3> QED
      BY <3>2 DEF S, T
  <2>5. Balanced(n)'
    BY <1>2, <1>3, <2>2, <2>4, RoomKept DEF NoteInv, Balanced
  <2> QED
    BY <1>5, <2>5 DEF NoteInv
<1>7. CASE ~\E v \in Mailers : v # w /\ Owns(v, n) /\ mailer[v].pc = "read"
  <2>1. Senders(n)' \subseteq Senders(n) \ {w}
    <3> SUFFICES ASSUME NEW u \in Mailers, MaySend(u, n)'
                 PROVE  u # w /\ MaySend(u, n)
      BY DEF Senders
    <3>1. u # w
      BY <1>4 DEF Senders
    <3>2. mailer'[u] = mailer[u] /\ (mailer[u].pc = "read" => ~Owns(u, n))
      BY <1>1, <1>7, <3>1 DEF SlotGoes
    <3> QED
      BY <3>1, <3>2 DEF MaySend, NoteOf
  <2>2. Balanced(n)'
    BY <1>2, <1>3, <1>4, <2>1, OneLess, RoomKept DEF NoteInv, Balanced
  <2> QED
    BY <1>5, <2>2 DEF NoteInv
<1> QED
  BY <1>6, <1>7

LEMMA AckBalances ==
  ASSUME MailTypes, NEW w \in Mailers, NEW n, n = NoteOf(w), AckMail(w), NoteInv(n)
  PROVE  NoteInv(n)'
<1>1. /\ AtNote(w, n) /\ MailerAt(w, "ack") /\ UNCHANGED notes
      /\ SlotGoes(w, n, "idle") /\ JobEnds(w, n)
  BY AckMoves
<1>2. /\ n \in DOMAIN notes /\ n \in DOMAIN mailJob
      /\ notes[n].sent \in Nat /\ notes[n].excused \in Nat
      /\ (OwnsMail(w) <=> Owns(w, n))
  BY <1>1, AtNoteFacts
<1>3. JobGoes(w, n) /\ (Closed(n)' <=> Closed(n))
  BY <1>1 DEF Closed, JobEnds
<1>4. Senders(n)' \ {w} \subseteq Senders(n) \ {w}
  BY <1>1, <1>2, <1>3, OthersSend
<1>5. Senders(n)' \subseteq Senders(n)
  BY <1>1, <1>4 DEF Senders, MaySend, SlotGoes
<1>6. HasRoom(n) => HasRoom(n)'
  <2>1. CASE Closed(n)
    BY <2>1, <1>3 DEF HasRoom
  <2>2. CASE ~Closed(n) /\ Owns(w, n)
    BY <2>2, <1>1 DEF HasRoom, Owns, MailerAt
  <2>3. CASE ~Owns(w, n)
    BY <2>3, <1>1, <1>2, <1>3, RoomOfOthers
  <2> QED
    BY <2>1, <2>2, <2>3
<1>7. WasSent(n)'
  BY <1>1, <1>2, <1>3, WasSentFollows DEF NoteInv
<1>8. Balanced(n)'
  BY <1>1, <1>2, <1>5, <1>6, Fewer, RoomKept DEF NoteInv, Balanced
<1> QED
  BY <1>7, <1>8 DEF NoteInv

LEMMA DeathBalances ==
  ASSUME MailTypes, NEW w \in Mailers, NEW n, n = NoteOf(w), MailerDies(w), NoteInv(n)
  PROVE  NoteInv(n)'
<1>1. /\ AtNote(w, n) /\ SlotGoes(w, n, "idle") /\ JobEnds(w, n)
      /\ IF MailerAt(w, "sent")
         THEN NoteGoes(n, notes[n].status, notes[n].sent, notes[n].excused + 1)
         ELSE NoteGoes(n, notes[n].status, notes[n].sent, notes[n].excused)
  BY DeathMoves
<1>2. /\ n \in DOMAIN notes /\ n \in DOMAIN mailJob
      /\ notes[n].sent \in Nat /\ notes[n].excused \in Nat
      /\ (OwnsMail(w) <=> Owns(w, n))
  BY <1>1, AtNoteFacts
<1>3. JobGoes(w, n) /\ (Closed(n)' <=> Closed(n)) /\ notes'[n].sent = notes[n].sent
  BY <1>1 DEF Closed, JobEnds, NoteGoes
<1>4. Senders(n)' \ {w} \subseteq Senders(n) \ {w}
  BY <1>1, <1>2, <1>3, OthersSend
<1>5. w \notin Senders(n)'
  BY <1>1 DEF Senders, MaySend, SlotGoes
<1>6. Senders(n)' \subseteq Senders(n)
  BY <1>4, <1>5
<1>7. WasSent(n)'
  BY <1>1, <1>2, <1>3, WasSentFollows DEF NoteInv
<1>8. CASE MailerAt(w, "sent")
  <2>1. notes'[n].excused = notes[n].excused + 1
    BY <1>1, <1>8 DEF NoteGoes
  <2>2. Balanced(n)'
    BY <2>1, <1>2, <1>3, <1>6, Fewer, RoomKept DEF NoteInv, Balanced
  <2> QED
    BY <2>2, <1>7 DEF NoteInv
<1>9. CASE ~MailerAt(w, "sent")
  <2>1. notes'[n].excused = notes[n].excused
    BY <1>1, <1>9 DEF NoteGoes
  <2>2. CASE w \in Senders(n) /\ ~Closed(n)
    <3>1. Senders(n)' \subseteq Senders(n) \ {w}
      BY <1>4, <1>5
    <3>2. Balanced(n)'
      BY <2>1, <2>2, <3>1, <1>2, <1>3, OneLess, RoomKept DEF NoteInv, Balanced
    <3> QED
      BY <3>2, <1>7 DEF NoteInv
  <2>3. CASE w \notin Senders(n) \/ Closed(n)
    <3>1. HasRoom(n) => HasRoom(n)'
      <4>1. CASE Closed(n)
        BY <4>1, <1>3 DEF HasRoom
      <4>2. CASE ~Closed(n) /\ Owns(w, n)
        <5>1. mailer[w].pc = "ack"
          BY <1>1, <1>9, <2>3, <4>2 DEF Senders, MaySend, MailerAt, AtNote, MailTypes, NotificationsTypeOK, Mailer
        <5> QED
          BY <4>2, <5>1 DEF HasRoom, Owns
      <4>3. CASE ~Owns(w, n)
        BY <4>3, <1>1, <1>2, <1>3, RoomOfOthers
      <4> QED
        BY <4>1, <4>2, <4>3
    <3>2. Balanced(n)'
      BY <2>1, <3>1, <1>2, <1>3, <1>6, Fewer, RoomKept DEF NoteInv, Balanced
    <3> QED
      BY <3>2, <1>7 DEF NoteInv
  <2> QED
    BY <2>2, <2>3
<1> QED
  BY <1>8, <1>9

LEMMA StallBalances ==
  ASSUME MailTypes, NEW w \in Mailers, NEW n, n = NoteOf(w), MailJobStalls(w), NoteInv(n)
  PROVE  NoteInv(n)'
<1>1. /\ AtNote(w, n) /\ UNCHANGED mailer /\ JobEnds(w, n)
      /\ NoteGoes(n, notes[n].status, notes[n].sent, notes[n].excused + 1)
  BY StallMoves
<1>2. /\ n \in DOMAIN notes /\ n \in DOMAIN mailJob
      /\ notes[n].sent \in Nat /\ notes[n].excused \in Nat
  BY <1>1, AtNoteFacts
<1>3. /\ JobGoes(w, n) /\ (Closed(n)' <=> Closed(n))
      /\ notes'[n].sent = notes[n].sent /\ notes'[n].excused = notes[n].excused + 1
  BY <1>1 DEF Closed, JobEnds, NoteGoes
<1>4. SlotGoes(w, n, mailer[w].pc)
  BY <1>1 DEF SlotGoes, MailTypes, NotificationsTypeOK, NoteOf
<1>5. Senders(n)' \ {w} \subseteq Senders(n) \ {w}
  BY <1>2, <1>3, <1>4, OthersSend
<1>6. WasSent(n)'
  BY <1>1, <1>2, <1>3 DEF NoteInv, WasSent, NoteOf
<1>7. CASE Closed(n)
  <2>1. Senders(n)' \subseteq Senders(n) \cup {w}
    BY <1>5
  <2>2. Balanced(n)'
    BY <1>2, <1>3, <1>7, <2>1, OneMore, RoomKept DEF NoteInv, Balanced
  <2> QED
    BY <1>6, <2>2 DEF NoteInv
<1>8. CASE ~Closed(n)
  <2>1. w \in Senders(n)' => w \in Senders(n)
    BY <1>1, <1>8 DEF Senders, MaySend, NoteOf
  <2>2. Senders(n)' \subseteq Senders(n)
    BY <1>5, <2>1
  <2>3. Balanced(n)'
    BY <1>2, <1>3, <2>2, Fewer, RoomKept DEF NoteInv, Balanced
  <2> QED
    BY <1>6, <2>3 DEF NoteInv
<1> QED
  BY <1>7, <1>8

LEMMA StartBalances ==
  ASSUME MailTypes, NEW w \in Mailers, NEW n \in DOMAIN mailJob, StartMail(w, n), NoteInv(n)
  PROVE  NoteInv(n)'
<1>1. /\ MailerAt(w, "idle") /\ mailJob[n].status = "waiting" /\ n \in DOMAIN notes /\ UNCHANGED notes
      /\ SlotGoes(w, n, "read") /\ mailJob'[n].status = "active" /\ mailJob'[n].owner = w
  BY StartMoves
<1>2. notes[n].sent \in Nat /\ notes[n].excused \in Nat
  BY <1>1, NoteNumbers
<1>3. (Closed(n)' <=> Closed(n)) /\ HasRoom(n)' /\ Owns(w, n)'
  BY <1>1 DEF Closed, HasRoom, Owns, SlotGoes
<1>4. Senders(n)' \ {w} \subseteq Senders(n)
  BY <1>1 DEF Senders, MaySend, Owns, Closed, SlotGoes, NoteOf
<1>5. WasSent(n)'
  BY <1>1, <1>2, <1>3, WasSentFollows DEF NoteInv
<1>6. CASE Closed(n)
  <2>1. Senders(n)' \subseteq Senders(n)
    BY <1>1, <1>3, <1>4, <1>6 DEF Senders, MaySend, SlotGoes
  <2>2. Balanced(n)'
    BY <1>1, <1>2, <1>3, <2>1, Fewer, RoomKept DEF NoteInv, Balanced
  <2> QED
    BY <1>5, <2>2 DEF NoteInv
<1>7. CASE ~Closed(n)
  <2>1. Senders(n)' \subseteq Senders(n) \cup {w}
    BY <1>4
  <2>2. Room(n) = 0
    BY <1>1, <1>7 DEF Room, HasRoom, Owns
  <2>3. Balanced(n)'
    BY <1>1, <1>2, <1>3, <2>1, <2>2, OneMore, RoomKept DEF NoteInv, Balanced
  <2> QED
    BY <1>5, <2>3 DEF NoteInv
<1> QED
  BY <1>6, <1>7

-----------------------------------------------------------------------------
(* What else a step of the notifications keeps.                             *)

\* A note that slot w is not at keeps its balance.
LEMMA OtherNotes ==
  ASSUME OwnersWork, NEW w \in Mailers, NEW m \in DOMAIN notes, NoteInv(m),
         notes'[m] = notes[m], mailJob'[m] = mailJob[m],
         \A v \in Mailers : v # w => mailer'[v] = mailer[v],
         MailerAt(w, "idle") \/ NoteOf(w) # m,
         mailer'[w].pc = "idle" \/ mailer'[w].note # m
  PROVE  NoteInv(m)'
<1>1. (Closed(m)' <=> Closed(m)) /\ \A v \in Mailers : Owns(v, m)' <=> Owns(v, m)
  BY DEF Closed, Owns
<1>2. ~Owns(w, m)
  BY DEF OwnersWork, Owns
<1>3. \A v \in Mailers : MaySend(v, m)' <=> MaySend(v, m)
  BY <1>1 DEF MaySend, NoteOf, MailerAt
<1>4. Senders(m)' = Senders(m)
  BY <1>3 DEF Senders
<1>5. HasRoom(m)' <=> HasRoom(m)
  BY <1>1, <1>2 DEF HasRoom
<1>6. WasSent(m)'
  BY <1>1 DEF NoteInv, WasSent, NoteOf, MailerAt
<1>7. Balanced(m)'
  BY <1>4, <1>5 DEF NoteInv, Balanced, Room
<1> QED
  BY <1>6, <1>7 DEF NoteInv

LEMMA OwnersStep ==
  ASSUME MailTypes, OwnersWork, NEW w \in Mailers, NEW n, NEW pc, AtNote(w, n), SlotGoes(w, n, pc), JobGoes(w, n),
         pc = "idle" => JobEnds(w, n), Len(notes') = Len(notes), notes' \in Seq(Note)
  PROVE  OwnersWork'
<1>1. DOMAIN notes' = DOMAIN notes /\ DOMAIN notes = DOMAIN mailJob
  BY DEF MailTypes, MailersKnow, NotificationsTypeOK
<1> SUFFICES ASSUME NEW m \in DOMAIN notes, mailJob'[m].status = "active"
             PROVE  \E v \in Mailers : mailJob'[m].owner = v /\ mailer'[v].pc # "idle" /\ mailer'[v].note = m
  BY <1>1 DEF OwnersWork, MailerAt, NoteOf
<1>2. mailJob'[m] = mailJob[m]
  BY <1>1 DEF JobGoes
<1> PICK v \in Mailers : mailJob[m].owner = v /\ ~MailerAt(v, "idle") /\ NoteOf(v) = m
  BY <1>2 DEF OwnersWork
<1>3. CASE v # w
  BY <1>2, <1>3 DEF SlotGoes, MailerAt, NoteOf
<1>4. CASE v = w
  <2>1. m = n /\ OwnsMail(w)
    BY <1>2, <1>4 DEF AtNote, OwnsMail
  <2>2. pc # "idle"
    BY <2>1 DEF JobEnds
  <2> QED
    BY <1>2, <1>4, <2>1, <2>2 DEF SlotGoes
<1> QED
  BY <1>3, <1>4

LEMMA QueuedStep ==
  ASSUME MailTypes, NotesQueuedOnce, UNCHANGED shipper,
         \A m \in DOMAIN notes : mailJob[m].status = "none" => mailJob'[m].status = "none"
  PROVE  NotesQueuedOnce'
BY DEF NotesQueuedOnce, ShipperAt, MailTypes, ShippersKnow

\* A slot's step at a note, from what is known of that note.
LEMMA SlotKeepsMail ==
  ASSUME MailTypes, OwnersWork, NotesQueuedOnce, \A m \in DOMAIN notes : NoteInv(m),
         NEW w \in Mailers, NEW n, NEW pc, AtNote(w, n), SlotGoes(w, n, pc), JobGoes(w, n),
         pc = "idle" => JobEnds(w, n), Len(notes') = Len(notes), notes' \in Seq(Note),
         \A m \in DOMAIN notes : m # n => notes'[m] = notes[m],
         UNCHANGED shipper, NoteInv(n)'
  PROVE  OwnersWork' /\ NotesQueuedOnce' /\ \A m \in DOMAIN notes' : NoteInv(m)'
<1>1. DOMAIN notes' = DOMAIN notes /\ DOMAIN notes = DOMAIN mailJob
  BY DEF MailTypes, MailersKnow, NotificationsTypeOK
<1>2. OwnersWork'
  BY OwnersStep
<1>3. \A m \in DOMAIN notes : mailJob[m].status = "none" => mailJob'[m].status = "none"
  BY <1>1 DEF JobGoes, OwnsMail, AtNote
<1>4. NotesQueuedOnce'
  BY <1>3, QueuedStep
<1>5. ASSUME NEW m \in DOMAIN notes PROVE NoteInv(m)'
  <2>1. CASE m = n
    BY <2>1
  <2>2. CASE m # n
    <3>1. notes'[m] = notes[m] /\ mailJob'[m] = mailJob[m]
      BY <1>1, <2>2 DEF JobGoes
    <3>2. NoteOf(w) # m /\ (mailer'[w].pc = "idle" \/ mailer'[w].note # m)
      BY <2>2 DEF AtNote, SlotGoes
    <3>3. \A v \in Mailers : v # w => mailer'[v] = mailer[v]
      BY DEF SlotGoes
    <3> QED
      BY <3>1, <3>2, <3>3, OtherNotes
  <2> QED
    BY <2>1, <2>2
<1> QED
  BY <1>1, <1>2, <1>4, <1>5

LEMMA StartKeepsMail ==
  ASSUME MailInv, UNCHANGED shipper, NEW w \in Mailers, NEW n \in DOMAIN mailJob, StartMail(w, n)
  PROVE  OwnersWork' /\ NotesQueuedOnce' /\ \A m \in DOMAIN notes' : NoteInv(m)'
<1>0. MailTypes /\ OwnersWork /\ NotesQueuedOnce /\ \A m \in DOMAIN notes : NoteInv(m)
  BY DEF MailInv
<1>1. /\ MailerAt(w, "idle") /\ mailJob[n].status = "waiting" /\ n \in DOMAIN notes /\ UNCHANGED notes
      /\ SlotGoes(w, n, "read") /\ mailJob'[n].status = "active" /\ mailJob'[n].owner = w
      /\ \A m \in DOMAIN mailJob : m # n => mailJob'[m] = mailJob[m]
  BY <1>0, StartMoves
<1>2. DOMAIN notes = DOMAIN mailJob
  BY <1>0 DEF MailTypes, MailersKnow, NotificationsTypeOK
<1>3. OwnersWork'
  <2> SUFFICES ASSUME NEW m \in DOMAIN notes, mailJob'[m].status = "active"
               PROVE  \E v \in Mailers : mailJob'[m].owner = v /\ mailer'[v].pc # "idle" /\ mailer'[v].note = m
    BY <1>1 DEF OwnersWork, MailerAt, NoteOf
  <2>1. CASE m = n
    BY <2>1, <1>1 DEF SlotGoes
  <2>2. CASE m # n
    <3>1. mailJob'[m] = mailJob[m]
      BY <2>2, <1>1, <1>2
    <3> PICK v \in Mailers : mailJob[m].owner = v /\ ~MailerAt(v, "idle") /\ NoteOf(v) = m
      BY <3>1, <1>0 DEF OwnersWork
    <3>2. v # w /\ mailer'[v] = mailer[v]
      BY <1>1 DEF SlotGoes
    <3> QED
      BY <3>1, <3>2 DEF MailerAt, NoteOf
  <2> QED
    BY <2>1, <2>2
<1>4. NotesQueuedOnce'
  BY <1>0, <1>1, <1>2, QueuedStep
<1>5. ASSUME NEW m \in DOMAIN notes PROVE NoteInv(m)'
  <2>1. CASE m = n
    BY <2>1, <1>0, <1>1, StartBalances
  <2>2. CASE m # n
    <3>1. notes'[m] = notes[m] /\ mailJob'[m] = mailJob[m] /\ mailer'[w].note # m
      BY <1>1, <1>2, <2>2 DEF SlotGoes
    <3>2. \A v \in Mailers : v # w => mailer'[v] = mailer[v]
      BY <1>1 DEF SlotGoes
    <3> QED
      BY <1>0, <1>1, <3>1, <3>2, OtherNotes
  <2> QED
    BY <2>1, <2>2
<1> QED
  BY <1>1, <1>3, <1>4, <1>5

LEMMA MailKeepsMail ==
  ASSUME MailInv, NotificationsNext, UNCHANGED <<sales, shipVars>>
  PROVE  MailInv'
<1>1. MailTypes /\ OwnersWork /\ NotesQueuedOnce /\ \A m \in DOMAIN notes : NoteInv(m)
  BY DEF MailInv
<1>2. notes \in Seq(Note) /\ UNCHANGED shipper
  BY <1>1 DEF MailTypes, NotificationsTypeOK, shipVars
<1> SUFFICES OwnersWork' /\ NotesQueuedOnce' /\ \A m \in DOMAIN notes' : NoteInv(m)'
  BY <1>1, MailKeepsTypes DEF MailInv
<1> PICK w \in Mailers : \/ \E n \in DOMAIN mailJob : StartMail(w, n)
                         \/ MailerStep(w)
                         \/ MarkSentFails(w)
                         \/ MailerDies(w)
                         \/ MailJobStalls(w)
  BY DEF NotificationsNext
<1> PICK n : n = NoteOf(w)
  OBVIOUS
<1>3. AtNote(w, n) => n \in DOMAIN notes /\ NoteInv(n)
  BY <1>1 DEF AtNote
<1>4. UNCHANGED mailJob => JobGoes(w, n)
  BY <1>1, JobStays
<1>5. ASSUME NEW m \in DOMAIN mailJob, StartMail(w, m)
      PROVE  OwnersWork' /\ NotesQueuedOnce' /\ \A x \in DOMAIN notes' : NoteInv(x)'
  BY <1>2, <1>5, StartKeepsMail
<1>6. CASE ReadNote(w)
  <2>1. AtNote(w, n) /\ UNCHANGED <<notes, mailJob>>
    BY <1>1, <1>6, ReadMoves
  <2>2. PICK pc : pc # "idle" /\ SlotGoes(w, n, pc)
    BY <1>1, <1>6, ReadMoves
  <2>3. NoteInv(n)'
    BY <1>1, <1>3, <1>6, <2>1, ReadBalances
  <2> QED
    BY <1>1, <1>2, <1>4, <2>1, <2>2, <2>3, SlotKeepsMail
<1>7. CASE SendMail(w)
  <2>1. /\ AtNote(w, n) /\ UNCHANGED mailJob /\ Len(notes') = Len(notes) /\ notes' \in Seq(Note)
        /\ \A m \in DOMAIN notes : m # n => notes'[m] = notes[m]
    BY <1>1, <1>2, <1>7, SendMoves DEF NoteGoes
  <2>2. PICK pc : pc # "idle" /\ SlotGoes(w, n, pc)
    BY <1>1, <1>7, SendMoves
  <2>3. NoteInv(n)'
    BY <1>1, <1>3, <1>7, <2>1, SendBalances
  <2> QED
    BY <1>1, <1>2, <1>4, <2>1, <2>2, <2>3, SlotKeepsMail
<1>8. CASE MarkSent(w)
  <2>1. /\ AtNote(w, n) /\ UNCHANGED mailJob /\ SlotGoes(w, n, "ack")
        /\ Len(notes') = Len(notes) /\ notes' \in Seq(Note)
        /\ \A m \in DOMAIN notes : m # n => notes'[m] = notes[m]
    BY <1>1, <1>8, MarkSentMoves DEF NoteGoes
  <2>2. NoteInv(n)'
    BY <1>1, <1>3, <1>8, <2>1, MarkSentBalances
  <2> QED
    BY <1>1, <1>2, <1>4, <2>1, <2>2, SlotKeepsMail
<1>9. CASE MarkSentFails(w)
  <2>1. /\ AtNote(w, n) /\ UNCHANGED mailJob /\ SlotGoes(w, n, "refused")
        /\ Len(notes') = Len(notes) /\ notes' \in Seq(Note)
        /\ \A m \in DOMAIN notes : m # n => notes'[m] = notes[m]
    BY <1>1, <1>9, MarkSentFailsMoves DEF NoteGoes
  <2>2. NoteInv(n)'
    BY <1>1, <1>3, <1>9, <2>1, MarkSentFailsBalances
  <2> QED
    BY <1>1, <1>2, <1>4, <2>1, <2>2, SlotKeepsMail
<1>10. CASE MarkFailed(w)
  <2>1. /\ AtNote(w, n) /\ JobEnds(w, n) /\ SlotGoes(w, n, "idle")
        /\ Len(notes') = Len(notes) /\ notes' \in Seq(Note)
        /\ \A m \in DOMAIN notes : m # n => notes'[m] = notes[m]
    BY <1>1, <1>10, MarkFailedMoves DEF NoteGoes
  <2>2. NoteInv(n)' /\ JobGoes(w, n)
    BY <1>1, <1>3, <1>10, <2>1, MarkFailedBalances DEF JobEnds
  <2> QED
    BY <1>1, <1>2, <2>1, <2>2, SlotKeepsMail
<1>11. CASE AckMail(w)
  <2>1. AtNote(w, n) /\ JobEnds(w, n) /\ SlotGoes(w, n, "idle") /\ UNCHANGED notes
    BY <1>1, <1>11, AckMoves
  <2>2. NoteInv(n)' /\ JobGoes(w, n)
    BY <1>1, <1>3, <1>11, <2>1, AckBalances DEF JobEnds
  <2> QED
    BY <1>1, <1>2, <2>1, <2>2, SlotKeepsMail
<1>12. CASE MailerDies(w)
  <2>1. AtNote(w, n) /\ JobEnds(w, n) /\ SlotGoes(w, n, "idle")
    BY <1>1, <1>12, DeathMoves
  <2>2. /\ Len(notes') = Len(notes) /\ notes' \in Seq(Note)
        /\ \A m \in DOMAIN notes : m # n => notes'[m] = notes[m]
    BY <1>1, <1>12, DeathMoves DEF NoteGoes
  <2>3. NoteInv(n)' /\ JobGoes(w, n)
    BY <1>1, <1>3, <1>12, <2>1, DeathBalances DEF JobEnds
  <2> QED
    BY <1>1, <1>2, <2>1, <2>2, <2>3, SlotKeepsMail
<1>13. CASE MailJobStalls(w)
  <2>1. /\ AtNote(w, n) /\ JobEnds(w, n) /\ UNCHANGED mailer
        /\ Len(notes') = Len(notes) /\ notes' \in Seq(Note)
        /\ \A m \in DOMAIN notes : m # n => notes'[m] = notes[m]
    BY <1>1, <1>13, StallMoves DEF NoteGoes
  <2>2. SlotGoes(w, n, mailer[w].pc)
    BY <1>1, <2>1 DEF SlotGoes, MailTypes, NotificationsTypeOK, NoteOf
  <2>3. PICK pc : pc = mailer[w].pc
    OBVIOUS
  <2>4. NoteInv(n)' /\ JobGoes(w, n) /\ SlotGoes(w, n, pc)
    BY <1>1, <1>3, <1>13, <2>1, <2>2, <2>3, StallBalances DEF JobEnds
  <2> QED
    BY <1>1, <1>2, <2>1, <2>4, SlotKeepsMail
<1> QED
  BY <1>5, <1>6, <1>7, <1>8, <1>9, <1>10, <1>11, <1>12, <1>13 DEF MailerStep

-----------------------------------------------------------------------------
(* The shippers only add notes and queue their jobs.                        *)

\* A note nobody is writing at keeps its balance while no slot's job changes hands.
LEMMA NoteUntouched ==
  ASSUME NEW n, NoteInv(n), notes'[n] = notes[n], UNCHANGED mailer,
         \A w \in Mailers : Owns(w, n)' <=> Owns(w, n)
  PROVE  NoteInv(n)'
<1>1. Closed(n)' <=> Closed(n)
  BY DEF Closed
<1>2. Senders(n)' = Senders(n) /\ (HasRoom(n)' <=> HasRoom(n))
  BY <1>1 DEF Senders, MaySend, NoteOf, HasRoom
<1>3. WasSent(n)'
  BY <1>1 DEF NoteInv, WasSent, NoteOf
<1>4. Balanced(n)'
  BY <1>2 DEF NoteInv, Balanced, Room
<1> QED
  BY <1>3, <1>4 DEF NoteInv

\* A note that was just added.
LEMMA NoteIsNew ==
  ASSUME MailTypes, UNCHANGED mailer, NEW n, n \notin DOMAIN notes,
         notes'[n].status = "PENDING", notes'[n].sent = 0, notes'[n].excused = 0
  PROVE  NoteInv(n)'
<1>1. \A w \in Mailers : mailer[w].pc = "idle" \/ NoteOf(w) # n
  BY DEF MailTypes, MailersKnow, MailerAt
<1>2. Senders(n)' = {}
  BY <1>1 DEF Senders, MaySend, NoteOf
<1>3. WasSent(n)'
  BY <1>1 DEF WasSent, Closed, NoteOf
<1>4. Balanced(n)'
  BY <1>2, FS_EmptySet DEF Balanced, Room
<1> QED
  BY <1>3, <1>4 DEF NoteInv

\* The notifications are as they were and nobody came to queue a note.
LEMMA ShippersKeepMail ==
  ASSUME MailInv, UNCHANGED mailVars,
         \A p \in Shippers : shipper'[p].pc = "queue" => shipper'[p] = shipper[p]
  PROVE  OwnersWork' /\ NotesQueuedOnce' /\ \A n \in DOMAIN notes' : NoteInv(n)'
<1>1. UNCHANGED <<notes, mailJob, mailer>>
  BY DEF mailVars
<1>2. OwnersWork'
  BY <1>1 DEF MailInv, OwnersWork, MailerAt, NoteOf
<1>3. NotesQueuedOnce'
  BY <1>1 DEF MailInv, NotesQueuedOnce, ShipperAt
<1>4. ASSUME NEW n \in DOMAIN notes PROVE NoteInv(n)'
  BY <1>1, NoteUntouched DEF MailInv, Owns
<1> QED
  BY <1>1, <1>2, <1>3, <1>4

LEMMA NoteBuyerKeepsMail ==
  ASSUME MailInv, NEW p \in Shippers, NoteBuyer(p)
  PROVE  OwnersWork' /\ NotesQueuedOnce' /\ \A n \in DOMAIN notes' : NoteInv(n)'
<1> PICK next : next = Len(notes) + 1
  OBVIOUS
<1> DEFINE row == [to |-> shipper[p].to, about |-> ShipmentOf(p), status |-> "PENDING", sent |-> 0, excused |-> 0]
           new == [shipper[p] EXCEPT !.pc = "queue", !.note = next]
<1>0. MailTypes /\ OwnersWork /\ NotesQueuedOnce /\ \A n \in DOMAIN notes : NoteInv(n)
  BY DEF MailInv
<1>1. /\ notes \in Seq(Note) /\ mailJob \in Seq(MailJob) /\ Len(mailJob) = Len(notes)
      /\ shipper \in [Shippers -> Shipper] /\ shipper[p] \in Shipper
  BY <1>0 DEF MailTypes, FulfilmentTypeOK, NotificationsTypeOK, MailersKnow
<1>2. /\ notes' = Append(notes, row) /\ mailJob' = Append(mailJob, NoMailJob)
      /\ shipper' = [shipper EXCEPT ![p] = new] /\ UNCHANGED mailer
  BY DEF NoteBuyer, AddNote
<1>3. row.status = "PENDING" /\ row.sent = 0 /\ row.excused = 0 /\ NoMailJob.status = "none"
  BY DEF NoMailJob
<1>4. new.pc = "queue" /\ new.note = next
  BY <1>1 DEF Shipper
<1>5. row \in Note /\ NoMailJob \in MailJob
  <2>1. ShipmentOf(p) \in Nat /\ shipper[p].to \in Addresses
    BY <1>0, <1>1, ShipperType DEF NoteBuyer, ShipperAt, MailTypes, ShippersKnow, FulfilmentTypeOK
  <2> QED
    BY <2>1 DEF Note, NoMailJob, MailJob
<1> HIDE DEF row, new
<1>6. /\ DOMAIN notes' = 1..next /\ DOMAIN notes = 1..Len(notes) /\ next \in Nat
      /\ \A n \in DOMAIN notes : n # next /\ notes'[n] = notes[n] /\ mailJob'[n] = mailJob[n]
      /\ notes'[next] = row /\ mailJob'[next] = NoMailJob
  BY <1>1, <1>2, <1>5, AppendProperties
<1>7. \A n \in DOMAIN notes' : n \in DOMAIN notes \/ n = next
  BY <1>1, <1>6
<1>8. OwnersWork'
  <2> SUFFICES ASSUME NEW n \in DOMAIN notes', mailJob'[n].status = "active"
               PROVE  \E w \in Mailers : mailJob'[n].owner = w /\ mailer'[w].pc # "idle" /\ mailer'[w].note = n
    BY DEF OwnersWork, MailerAt, NoteOf
  <2>1. n \in DOMAIN notes /\ mailJob'[n] = mailJob[n] /\ mailer' = mailer
    BY <1>2, <1>3, <1>6, <1>7
  <2> QED
    BY <2>1, <1>0 DEF OwnersWork, MailerAt, NoteOf
<1>9. NotesQueuedOnce'
  <2>1. shipper'[p].note = next /\ \A q \in Shippers : q # p => shipper'[q] = shipper[q]
    BY <1>1, <1>2, <1>4
  <2>2. \A q \in Shippers : ShipperAt(q, "queue") => shipper[q].note \in DOMAIN notes /\ shipper[q].note # next
    BY <1>0, <1>6 DEF MailTypes, ShippersKnow
  <2> SUFFICES ASSUME NEW q \in Shippers, shipper'[q].pc = "queue"
               PROVE  /\ mailJob'[shipper'[q].note].status = "none"
                      /\ \A x \in Shippers : x # q /\ shipper'[x].pc = "queue" => shipper'[x].note # shipper'[q].note
    BY DEF NotesQueuedOnce, ShipperAt
  <2>3. CASE q = p
    <3>1. mailJob'[next].status = "none"
      BY <1>3, <1>6
    <3> QED
      BY <2>1, <2>2, <2>3, <3>1 DEF ShipperAt
  <2>4. CASE q # p
    <3>1. ShipperAt(q, "queue") /\ shipper'[q] = shipper[q] /\ shipper[q].note \in DOMAIN notes
      BY <2>1, <2>2, <2>4 DEF ShipperAt
    <3>2. mailJob'[shipper[q].note].status = "none"
      BY <3>1, <1>0, <1>6 DEF NotesQueuedOnce
    <3> QED
      BY <2>1, <2>2, <3>1, <3>2, <1>0 DEF NotesQueuedOnce, ShipperAt
  <2> QED
    BY <2>3, <2>4
<1>10. ASSUME NEW n \in DOMAIN notes PROVE NoteInv(n)'
  <2>1. notes'[n] = notes[n] /\ mailJob'[n] = mailJob[n]
    BY <1>6
  <2>2. \A w \in Mailers : Owns(w, n)' <=> Owns(w, n)
    BY <2>1 DEF Owns
  <2> QED
    BY <2>1, <2>2, <1>0, <1>2, NoteUntouched
<1>11. NoteInv(next)'
  <2>1. next \notin DOMAIN notes
    BY <1>6
  <2> QED
    BY <2>1, <1>0, <1>2, <1>3, <1>6, NoteIsNew
<1> QED
  BY <1>7, <1>8, <1>9, <1>10, <1>11

LEMMA QueueBuyerNoteKeepsMail ==
  ASSUME MailInv, NEW p \in Shippers, QueueBuyerNote(p)
  PROVE  OwnersWork' /\ NotesQueuedOnce' /\ \A n \in DOMAIN notes' : NoteInv(n)'
<1> DEFINE m == shipper[p].note
           job == [mailJob[m] EXCEPT !.status = "waiting"]
<1>0. MailTypes /\ OwnersWork /\ NotesQueuedOnce /\ \A n \in DOMAIN notes : NoteInv(n)
  BY DEF MailInv
<1>1. ShipperAt(p, "queue") /\ UNCHANGED <<notes, mailer>>
  BY DEF QueueBuyerNote
<1>2. /\ mailJob \in Seq(MailJob) /\ DOMAIN mailJob = DOMAIN notes /\ m \in DOMAIN mailJob /\ mailJob[m] \in MailJob
      /\ mailJob[m].status = "none" /\ shipper \in [Shippers -> Shipper]
  BY <1>0, <1>1 DEF MailTypes, ShippersKnow, MailersKnow, FulfilmentTypeOK, NotificationsTypeOK, NotesQueuedOnce
<1>3. mailJob' = [mailJob EXCEPT ![m] = job] /\ shipper' = [shipper EXCEPT ![p] = NoUpdate]
  BY DEF QueueBuyerNote, QueueNote
<1>4. job \in MailJob /\ job.status = "waiting"
  BY <1>2, JobRows
<1> HIDE DEF job
<1>5. mailJob'[m] = job /\ \A n \in DOMAIN notes : n # m => mailJob'[n] = mailJob[n]
  BY <1>2, <1>3, <1>4, JobWritten
<1>6. OwnersWork'
  BY <1>0, <1>1, <1>4, <1>5 DEF OwnersWork, MailerAt, NoteOf
<1>7. NotesQueuedOnce'
  <2>1. shipper'[p].pc = "idle" /\ \A q \in Shippers : q # p => shipper'[q] = shipper[q]
    BY <1>2, <1>3, NoUpdateType
  <2>2. \A q \in Shippers : q # p /\ ShipperAt(q, "queue") => shipper[q].note \in DOMAIN notes /\ shipper[q].note # m
    BY <1>0, <1>1 DEF MailTypes, ShippersKnow, NotesQueuedOnce
  <2> QED
    BY <2>1, <2>2, <1>0, <1>5 DEF NotesQueuedOnce, ShipperAt
<1>8. ASSUME NEW n \in DOMAIN notes PROVE NoteInv(n)'
  <2>1. \A w \in Mailers : Owns(w, n)' <=> Owns(w, n)
    BY <1>2, <1>4, <1>5 DEF Owns
  <2> QED
    BY <2>1, <1>0, <1>1, NoteUntouched
<1> QED
  BY <1>1, <1>6, <1>7, <1>8

LEMMA ShippingKeepsMail ==
  ASSUME MailInv, MailTypes', FulfilmentNext
  PROVE  MailInv'
<1> SUFFICES OwnersWork' /\ NotesQueuedOnce' /\ \A n \in DOMAIN notes' : NoteInv(n)'
  BY DEF MailInv
<1>1. shipper \in [Shippers -> Shipper]
  BY DEF MailInv, MailTypes, FulfilmentTypeOK
<1>2. ASSUME NEW o \in Sales, CreateShipment(o)
      PROVE  OwnersWork' /\ NotesQueuedOnce' /\ \A n \in DOMAIN notes' : NoteInv(n)'
  BY <1>2, ShippersKeepMail DEF CreateShipment
<1>3. ASSUME NEW p \in Shippers, NEW s \in DOMAIN shipments, NEW target \in Targets, ReadShipment(p, s, target)
      PROVE  OwnersWork' /\ NotesQueuedOnce' /\ \A n \in DOMAIN notes' : NoteInv(n)'
  <2>1. UNCHANGED mailVars
    BY <1>3 DEF ReadShipment
  <2>2. \A q \in Shippers : shipper'[q].pc = "queue" => shipper'[q] = shipper[q]
    BY <1>1, <1>3 DEF ReadShipment, NoUpdate
  <2> QED
    BY <2>1, <2>2, ShippersKeepMail
<1>4. ASSUME NEW p \in Shippers, WriteShipment(p)
      PROVE  OwnersWork' /\ NotesQueuedOnce' /\ \A n \in DOMAIN notes' : NoteInv(n)'
  <2>1. UNCHANGED mailVars
    BY <1>4 DEF WriteShipment
  <2>2. \A q \in Shippers : shipper'[q].pc = "queue" => shipper'[q] = shipper[q]
    <3>1. shipper[p] \in Shipper
      BY <1>1
    <3>2. shipper'[p].pc # "queue"
      BY <1>1, <1>4, <3>1, NoUpdateType DEF WriteShipment, Shipper
    <3>3. \A q \in Shippers : q # p => shipper'[q] = shipper[q]
      BY <1>1, <1>4 DEF WriteShipment
    <3> QED
      BY <3>2, <3>3
  <2> QED
    BY <2>1, <2>2, ShippersKeepMail
<1>5. ASSUME NEW p \in Shippers, FulfilOrder(p)
      PROVE  OwnersWork' /\ NotesQueuedOnce' /\ \A n \in DOMAIN notes' : NoteInv(n)'
  <2>1. UNCHANGED mailVars
    BY <1>5 DEF FulfilOrder
  <2>2. \A q \in Shippers : shipper'[q].pc = "queue" => shipper'[q] = shipper[q]
    <3> DEFINE to == sales[shipments[ShipmentOf(p)].order].email
               new == [shipper[p] EXCEPT !.pc = "note", !.to = to]
    <3>1. shipper' = [shipper EXCEPT ![p] = new]
      BY <1>5 DEF FulfilOrder
    <3> HIDE DEF to
    <3>2. new.pc = "note"
      BY <1>1 DEF Shipper
    <3> HIDE DEF new
    <3> QED
      BY <1>1, <3>1, <3>2
  <2> QED
    BY <2>1, <2>2, ShippersKeepMail
<1>6. ASSUME NEW p \in Shippers, UpdateDies(p)
      PROVE  OwnersWork' /\ NotesQueuedOnce' /\ \A n \in DOMAIN notes' : NoteInv(n)'
  <2>1. UNCHANGED mailVars
    BY <1>6 DEF UpdateDies
  <2>2. \A q \in Shippers : shipper'[q].pc = "queue" => shipper'[q] = shipper[q]
    BY <1>1, <1>6, NoUpdateType DEF UpdateDies
  <2> QED
    BY <2>1, <2>2, ShippersKeepMail
<1> QED
  BY <1>2, <1>3, <1>4, <1>5, <1>6, NoteBuyerKeepsMail, QueueBuyerNoteKeepsMail DEF FulfilmentNext, UpdateStep

LEMMA MailStart ==
  ASSUME Init
  PROVE  MailInv
<1>1. sales \in [Sales -> Sale]
  BY DEF Init, Sale, Addresses
<1>2. notes = <<>> /\ mailJob = <<>> /\ shipments = <<>>
  BY DEF Init, NotificationsInit, FulfilmentInit
<1>3. NotificationsTypeOK
  <2>1. notes \in Seq(Note) /\ mailJob \in Seq(MailJob)
    BY <1>2
  <2>2. mailer \in [Mailers -> Mailer] /\ mailFaults \in [{"refuse", "die", "stall"} -> Nat]
    BY DEF Init, NotificationsInit, IdleMailer, Mailer
  <2> QED
    BY <2>1, <2>2 DEF NotificationsTypeOK
<1>4. FulfilmentTypeOK
  <2>1. shipments \in Seq(Shipment)
    BY <1>2
  <2>2. shipper \in [Shippers -> Shipper] /\ shipBudget \in [updates : Nat, deaths : Nat]
    BY NoUpdateType DEF Init, FulfilmentInit
  <2> QED
    BY <1>1, <2>1, <2>2 DEF FulfilmentTypeOK
<1>5. \A p \in Shippers : shipper[p].pc = "idle"
  BY NoUpdateType DEF Init, FulfilmentInit
<1>6. \A w \in Mailers : mailer[w].pc = "idle"
  BY DEF Init, NotificationsInit, IdleMailer
<1>7. ShippersKnow /\ MailersKnow
  BY <1>2, <1>5, <1>6 DEF ShippersKnow, ShipperAt, MailersKnow, MailerAt
<1>8. DOMAIN notes = {}
  BY <1>2
<1>9. OwnersWork /\ NotesQueuedOnce /\ \A n \in DOMAIN notes : NoteInv(n)
  BY <1>5, <1>8 DEF OwnersWork, NotesQueuedOnce, ShipperAt
<1> QED
  BY <1>3, <1>4, <1>7, <1>9 DEF MailInv, MailTypes

LEMMA MailStep ==
  ASSUME ErasureInv', MailInv, [Next]_vars
  PROVE  MailInv'
<1>1. MailTypes /\ MailTypes'
  BY TypesStep DEF MailInv
<1>2. CASE FulfilmentNext
  BY <1>1, <1>2, ShippingKeepsMail
<1>3. CASE NotificationsNext /\ UNCHANGED <<sales, shipVars, privacyVars>>
  BY <1>3, MailKeepsMail
<1>4. CASE UNCHANGED <<shipVars, mailVars>>
  BY <1>1, <1>4, ShippersKeepMail DEF shipVars, MailInv
<1>5. CASE PrivacyNext
  <2>1. UNCHANGED <<shipVars, mailVars>>
    BY <1>5 DEF PrivacyNext, CreateRequest, QueueRequest, StartRequest, ClerkStep, ReadRequest, FulfilRequest, AckRequest,
       RequestAttemptFails, RequestStalls, EraseCustomer
  <2> QED
    BY <2>1, <1>4
<1>6. CASE UNCHANGED vars
  BY <1>4, <1>6 DEF vars
<1> QED
  BY <1>2, <1>3, <1>5, <1>6 DEF Next

\* A message is handed to the server once, and once more for every attempt that
\* died after it, failed to record it or lost its lock, and its row says SENT only
\* if it was handed over (NotificationsProcessor: "Idempotent").
THEOREM MailIsSentOnce == Spec => [](TypeOK /\ SentOncePerFault)
<1>1. Init => ErasureInv /\ MailInv
  BY ErasureStart, MailStart
<1>2. ErasureInv /\ MailInv /\ [Next]_vars => ErasureInv' /\ MailInv'
  BY ErasureStep, MailStep
<1>3. ErasureInv /\ MailInv => TypeOK /\ SentOncePerFault
  <2> SUFFICES ASSUME ErasureInv, MailInv PROVE TypeOK /\ SentOncePerFault
    OBVIOUS
  <2>1. TypeOK
    BY DEF ErasureInv, MailInv, MailTypes, TypeOK
  <2>2. ASSUME NEW n \in DOMAIN notes
        PROVE  (Closed(n) => notes[n].sent > 0) /\ notes[n].sent <= 1 + notes[n].excused
    <3>1. Balanced(n) /\ WasSent(n) /\ notes[n].sent \in Nat /\ notes[n].excused \in Nat
      BY NoteNumbers DEF MailInv, NoteInv
    <3>2. Cardinality(Senders(n)) \in Nat /\ Room(n) \in {0, 1}
      BY <3>1, FS_CardinalityType DEF Balanced, Room
    <3> QED
      BY <3>1, <3>2 DEF Balanced, WasSent
  <2> QED
    BY <2>1, <2>2 DEF SentOncePerFault, Closed
<1> QED
  BY <1>1, <1>2, <1>3, PTL DEF Spec

-----------------------------------------------------------------------------
(* A departure is told.  Whoever sets IN_TRANSIT and does not mark the order *)
(* found the shipment IN_TRANSIT, so somebody else set it before.           *)

Told(s) ==
  \/ shipments[s].untold
  \/ Updating(s) # {}
  \/ UpdatesQueued(s) # {} /\ sales[shipments[s].order].fulfilment = "FULFILLED"

ShipmentTells(s) ==
  /\ shipments[s].status = "IN_TRANSIT" => shipments[s].left
  /\ shipments[s].left => Told(s)

ShipperTells(p) ==
  /\ ShipperAt(p, "write") /\ shipper[p].target = "IN_TRANSIT" =>
       shipper[p].becoming \/ shipments[ShipmentOf(p)].left
  /\ ShipperAt(p, "note") \/ ShipperAt(p, "queue") =>
       sales[shipments[ShipmentOf(p)].order].fulfilment = "FULFILLED"
  /\ ShipperAt(p, "queue") => notes[shipper[p].note].about = ShipmentOf(p)

TellInv ==
  /\ \A s \in DOMAIN shipments : ShipmentTells(s)
  /\ \A p \in Shippers : ShipperTells(p)

\* What no step undoes.
SalesGo == \A o \in Sales : sales[o].fulfilment = "FULFILLED" => sales'[o].fulfilment = "FULFILLED"
NotesGo ==
  \A n \in DOMAIN notes :
    /\ n \in DOMAIN notes' /\ notes'[n].about = notes[n].about
    /\ mailJob[n].status # "none" => mailJob'[n].status # "none"
ShipmentsGo ==
  \A s \in DOMAIN shipments :
    /\ s \in DOMAIN shipments' /\ shipments'[s].order = shipments[s].order
    /\ shipments[s].left => shipments'[s].left
    /\ shipments[s].untold => shipments'[s].untold

LEMMA ToldStays ==
  ASSUME MailTypes, SalesGo, NotesGo, ShipmentsGo, NEW s \in DOMAIN shipments, Told(s),
         \A p \in Shippers : p \in Updating(s) => shipper'[p] = shipper[p] \/ Told(s)'
  PROVE  Told(s)'
<1>1. CASE shipments[s].untold
  BY <1>1 DEF Told, ShipmentsGo
<1>2. CASE Updating(s) # {}
  <2> PICK p \in Shippers : p \in Updating(s)
    BY <1>2 DEF Updating
  <2>1. CASE shipper'[p] = shipper[p]
    <3>1. p \in Updating(s)'
      BY <2>1 DEF Updating, ShipmentOf
    <3> QED
      BY <3>1 DEF Told
  <2> QED
    BY <2>1
<1>3. CASE UpdatesQueued(s) # {} /\ sales[shipments[s].order].fulfilment = "FULFILLED"
  <2> PICK n \in DOMAIN notes : notes[n].about = s /\ mailJob[n].status # "none"
    BY <1>3 DEF UpdatesQueued
  <2>1. n \in UpdatesQueued(s)'
    BY DEF UpdatesQueued, NotesGo
  <2>2. shipments[s].order \in Sales
    <3>1. shipments[s] \in Shipment
      BY DEF MailTypes, FulfilmentTypeOK
    <3> QED
      BY <3>1 DEF Shipment
  <2>3. sales'[shipments'[s].order].fulfilment = "FULFILLED"
    BY <1>3, <2>2 DEF SalesGo, ShipmentsGo
  <2> QED
    BY <2>1, <2>3 DEF Told
<1> QED
  BY <1>1, <1>2, <1>3 DEF Told

\* A step in which each shipper stays as it was, or says what it has to and leaves
\* its shipment told.
LEMMA TellFollows ==
  ASSUME MailTypes, TellInv, SalesGo, NotesGo, ShipmentsGo,
         \A q \in Shippers : shipper'[q] = shipper[q] \/
           (ShipperTells(q)' /\ \A s \in DOMAIN shipments : q \in Updating(s) => Told(s)'),
         \A s \in DOMAIN shipments' :
           /\ shipments'[s].status = "IN_TRANSIT" => shipments'[s].left
           /\ shipments'[s].left => (s \in DOMAIN shipments /\ shipments[s].left) \/ Told(s)'
  PROVE  TellInv'
<1>1. ASSUME NEW s \in DOMAIN shipments' PROVE ShipmentTells(s)'
  <2>1. CASE s \in DOMAIN shipments /\ shipments[s].left
    <3>1. Told(s)
      BY <2>1 DEF TellInv, ShipmentTells
    <3>2. Told(s)'
      BY <2>1, <3>1, ToldStays
    <3> QED
      BY <3>2 DEF ShipmentTells
  <2> QED
    BY <2>1 DEF ShipmentTells
<1>2. ASSUME NEW q \in Shippers PROVE ShipperTells(q)'
  <2>1. CASE shipper'[q] = shipper[q]
    <3>1. ShipperTells(q)
      BY DEF TellInv
    <3>2. CASE ShipperAt(q, "idle")
      BY <2>1, <3>2 DEF ShipperTells, ShipperAt
    <3>3. CASE ~ShipperAt(q, "idle")
      <4>1. ShipmentOf(q) \in DOMAIN shipments /\ shipments[ShipmentOf(q)].order \in Sales
        BY <3>3, ShipperType DEF Shipment
      <4>2. ShipperAt(q, "queue") => shipper[q].note \in DOMAIN notes
        BY DEF MailTypes, ShippersKnow
      <4> QED
        BY <2>1, <3>1, <4>1, <4>2 DEF ShipperTells, ShipperAt, ShipmentOf, SalesGo, NotesGo, ShipmentsGo
    <3> QED
      BY <3>2, <3>3
  <2> QED
    BY <2>1
<1> QED
  BY <1>1, <1>2 DEF TellInv

\* Steps that leave the shipments alone.
LEMMA ShipmentsStay ==
  ASSUME TellInv, UNCHANGED shipments
  PROVE  /\ ShipmentsGo
         /\ \A s \in DOMAIN shipments' :
              /\ shipments'[s].status = "IN_TRANSIT" => shipments'[s].left
              /\ shipments'[s].left => s \in DOMAIN shipments /\ shipments[s].left
BY DEF ShipmentsGo, TellInv, ShipmentTells

LEMMA NotesStayQueued ==
  ASSUME MailTypes, NotificationsNext
  PROVE  NotesGo
<1>1. notes \in Seq(Note) /\ DOMAIN mailJob = DOMAIN notes
  BY DEF MailTypes, NotificationsTypeOK, MailersKnow
<1>2. ASSUME NEW w \in Mailers, NEW n, AtNote(w, n), JobGoes(w, n),
             UNCHANGED notes \/ \E status, sent, excused : NoteGoes(n, status, sent, excused)
      PROVE  NotesGo
  <2>1. DOMAIN notes' = DOMAIN notes /\ \A m \in DOMAIN notes : notes'[m].about = notes[m].about
    BY <1>1, <1>2 DEF NoteGoes
  <2>2. \A m \in DOMAIN notes : mailJob'[m] = mailJob[m] \/ mailJob'[m].status \in {"waiting", "completed", "failed"}
    BY <1>1, <1>2 DEF JobGoes
  <2> QED
    BY <2>1, <2>2 DEF NotesGo
<1> PICK w \in Mailers : \/ \E n \in DOMAIN mailJob : StartMail(w, n)
                         \/ MailerStep(w)
                         \/ MarkSentFails(w)
                         \/ MailerDies(w)
                         \/ MailJobStalls(w)
  BY DEF NotificationsNext
<1> PICK n : n = NoteOf(w)
  OBVIOUS
<1>3. UNCHANGED mailJob => JobGoes(w, n)
  BY JobStays
<1>4. ASSUME NEW m \in DOMAIN mailJob, StartMail(w, m) PROVE NotesGo
  <2>1. UNCHANGED notes /\ mailJob'[m].status = "active" /\ \A x \in DOMAIN mailJob : x # m => mailJob'[x] = mailJob[x]
    BY <1>4, StartMoves
  <2> QED
    BY <2>1, <1>1 DEF NotesGo
<1>5. CASE ReadNote(w)
  BY <1>2, <1>3, <1>5, ReadMoves
<1>6. CASE SendMail(w)
  BY <1>2, <1>3, <1>6, SendMoves
<1>7. CASE MarkSent(w)
  BY <1>2, <1>3, <1>7, MarkSentMoves
<1>8. CASE MarkSentFails(w)
  BY <1>2, <1>3, <1>8, MarkSentFailsMoves
<1>9. CASE MarkFailed(w)
  BY <1>2, <1>9, MarkFailedMoves DEF JobEnds
<1>10. CASE AckMail(w)
  BY <1>2, <1>10, AckMoves DEF JobEnds
<1>11. CASE MailerDies(w)
  BY <1>2, <1>11, DeathMoves DEF JobEnds
<1>12. CASE MailJobStalls(w)
  BY <1>2, <1>12, StallMoves DEF JobEnds
<1> QED
  BY <1>4, <1>5, <1>6, <1>7, <1>8, <1>9, <1>10, <1>11, <1>12 DEF MailerStep

\* An erasure takes an address and nothing else.
LEMMA PrivacyKeepsSales ==
  ASSUME ErasureInv, PrivacyNext
  PROVE  SalesGo /\ UNCHANGED <<shipVars, mailVars>>
<1>1. ASSUME NEW c, sales' = Scrubbed(c) PROVE SalesGo
  <2> SUFFICES ASSUME NEW o \in Sales PROVE Scrubbed(c)[o].fulfilment = sales[o].fulfilment
    BY <1>1 DEF SalesGo
  <2>1. sales[o] \in Sale
    BY DEF ErasureInv
  <2>2. Scrubbed(c)[o] = sales[o] \/ Scrubbed(c)[o] = [sales[o] EXCEPT !.email = Anon]
    BY DEF Scrubbed
  <2>3. [sales[o] EXCEPT !.email = Anon].fulfilment = sales[o].fulfilment
    BY <2>1 DEF Sale
  <2> QED
    BY <2>2, <2>3
<1>2. UNCHANGED sales => SalesGo
  BY DEF SalesGo
<1>3. UNCHANGED <<shipVars, mailVars>>
  BY DEF PrivacyNext, CreateRequest, QueueRequest, StartRequest, ClerkStep, ReadRequest, FulfilRequest, AckRequest,
     RequestAttemptFails, RequestStalls, EraseCustomer
<1>4. UNCHANGED sales \/ \E c : sales' = Scrubbed(c)
  BY DEF PrivacyNext, CreateRequest, QueueRequest, StartRequest, ClerkStep, ReadRequest, FulfilRequest, AckRequest,
     RequestAttemptFails, RequestStalls, EraseCustomer
<1> QED
  BY <1>1, <1>2, <1>3, <1>4

LEMMA MailSame ==
  ASSUME UNCHANGED mailVars
  PROVE  NotesGo
BY DEF NotesGo, mailVars

LEMMA SalesSame ==
  ASSUME UNCHANGED sales
  PROVE  SalesGo
BY DEF SalesGo

\* The step of shipper p: the others stay.
OnlyShipper(p) == \A q \in Shippers : q # p => shipper'[q] = shipper[q]

LEMMA CreateTells ==
  ASSUME MailTypes, TellInv, NEW o \in Sales, CreateShipment(o)
  PROVE  TellInv'
<1> PICK status \in {"PENDING", "LABEL_PURCHASED"} :
       shipments' = Append(shipments, [order |-> o, status |-> status, left |-> FALSE, untold |-> FALSE])
  BY DEF CreateShipment
<1> DEFINE row == [order |-> o, status |-> status, left |-> FALSE, untold |-> FALSE]
<1>1. row.status # "IN_TRANSIT" /\ row.left = FALSE /\ row \in Shipment /\ shipments \in Seq(Shipment)
  BY DEF Shipment, ShipmentStatus, MailTypes, FulfilmentTypeOK
<1>2. shipments' = Append(shipments, row)
  OBVIOUS
<1> HIDE DEF row
<1>3. /\ \A s \in DOMAIN shipments : s \in DOMAIN shipments' /\ shipments'[s] = shipments[s]
      /\ \A s \in DOMAIN shipments' : s \in DOMAIN shipments \/ shipments'[s] = row
  BY <1>1, <1>2, AppendProperties
<1>4. ShipmentsGo
  BY <1>3 DEF ShipmentsGo
<1>5. \A s \in DOMAIN shipments' :
        /\ shipments'[s].status = "IN_TRANSIT" => shipments'[s].left
        /\ shipments'[s].left => s \in DOMAIN shipments /\ shipments[s].left
  BY <1>1, <1>3 DEF TellInv, ShipmentTells
<1>6. SalesGo /\ NotesGo /\ UNCHANGED shipper
  BY SalesSame, MailSame DEF CreateShipment
<1> QED
  BY <1>4, <1>5, <1>6, TellFollows

LEMMA ReadTells ==
  ASSUME MailTypes, TellInv, NEW p \in Shippers, NEW x \in DOMAIN shipments, NEW target \in Targets,
         ReadShipment(p, x, target)
  PROVE  TellInv'
<1> DEFINE new == [NoUpdate EXCEPT !.pc = "write", !.shipment = x, !.target = target,
                                   !.becoming = BecomingShipped(x, target)]
<1>1. new.pc = "write" /\ new.shipment = x /\ new.target = target /\ new.becoming = BecomingShipped(x, target)
  BY DEF NoUpdate
<1>2. shipper' = [shipper EXCEPT ![p] = new] /\ UNCHANGED <<sales, shipments, mailVars>> /\ ShipperAt(p, "idle")
  BY DEF ReadShipment
<1>3. shipper \in [Shippers -> Shipper]
  BY DEF MailTypes, FulfilmentTypeOK
<1> HIDE DEF new
<1>4. shipper'[p] = new /\ OnlyShipper(p)
  BY <1>2, <1>3 DEF OnlyShipper
<1>5. ShipperTells(p)'
  BY <1>1, <1>2, <1>4 DEF ShipperTells, ShipperAt, ShipmentOf, BecomingShipped, TellInv, ShipmentTells
<1>6. \A s \in DOMAIN shipments : p \notin Updating(s)
  BY <1>2 DEF Updating, ShipperAt
<1>7. SalesGo /\ NotesGo
  BY <1>2, SalesSame, MailSame
<1> QED
  BY <1>2, <1>4, <1>5, <1>6, <1>7, ShipmentsStay, TellFollows DEF OnlyShipper

LEMMA WriteTells ==
  ASSUME MailTypes, TellInv, NEW p \in Shippers, WriteShipment(p)
  PROVE  TellInv'
<1> PICK s : s = ShipmentOf(p)
  OBVIOUS
<1> DEFINE r == shipper[p]
           row == [shipments[s] EXCEPT !.status = r.target, !.left = @ \/ r.target = "IN_TRANSIT"]
           new == IF r.becoming THEN [r EXCEPT !.pc = "fulfil"] ELSE NoUpdate
<1>1. /\ ShipperAt(p, "write") /\ r \in Shipper /\ s \in DOMAIN shipments /\ shipments[s] \in Shipment
      /\ shipments \in Seq(Shipment) /\ shipper \in [Shippers -> Shipper] /\ ShipperTells(p) /\ r.shipment = s
  BY ShipperType DEF WriteShipment, ShipperAt, MailTypes, FulfilmentTypeOK, TellInv, ShipmentOf
<1>2. shipments' = [shipments EXCEPT ![s] = row] /\ shipper' = [shipper EXCEPT ![p] = new]
  BY DEF WriteShipment
<1>3. UNCHANGED <<sales, mailVars>>
  BY DEF WriteShipment
<1>4. /\ row.status = r.target /\ row.left = (shipments[s].left \/ r.target = "IN_TRANSIT")
      /\ row.order = shipments[s].order /\ row.untold = shipments[s].untold
  BY <1>1 DEF Shipment
<1>5. IF r.becoming THEN new.pc = "fulfil" /\ new.shipment = s ELSE new.pc = "idle"
  BY <1>1, NoUpdateType DEF Shipper
<1>6. r.target = "IN_TRANSIT" => r.becoming \/ shipments[s].left
  BY <1>1 DEF ShipperTells
<1> HIDE DEF row, new
<1>7. DOMAIN shipments' = DOMAIN shipments /\ shipments'[s] = row /\ \A x \in DOMAIN shipments : x # s => shipments'[x] = shipments[x]
  BY <1>1, <1>2
<1>8. shipper'[p] = new /\ OnlyShipper(p)
  BY <1>1, <1>2 DEF OnlyShipper
<1>9. ShipmentsGo
  BY <1>4, <1>7 DEF ShipmentsGo
<1>10. r.becoming => Told(s)'
  <2> SUFFICES ASSUME r.becoming PROVE p \in Updating(s)'
    BY DEF Told
  <2> QED
    BY <1>5, <1>8 DEF Updating, ShipmentOf
<1>11. \A x \in DOMAIN shipments' :
         /\ shipments'[x].status = "IN_TRANSIT" => shipments'[x].left
         /\ shipments'[x].left => (x \in DOMAIN shipments /\ shipments[x].left) \/ Told(x)'
  <2> SUFFICES ASSUME NEW x \in DOMAIN shipments
               PROVE  /\ shipments'[x].status = "IN_TRANSIT" => shipments'[x].left
                      /\ shipments'[x].left => shipments[x].left \/ Told(x)'
    BY <1>7
  <2>1. CASE x = s
    BY <2>1, <1>4, <1>6, <1>7, <1>10
  <2>2. CASE x # s
    BY <2>2, <1>7 DEF TellInv, ShipmentTells
  <2> QED
    BY <2>1, <2>2
<1>12. ShipperTells(p)'
  BY <1>5, <1>8 DEF ShipperTells, ShipperAt
<1>13. \A x \in DOMAIN shipments : p \notin Updating(x)
  BY <1>1 DEF Updating, ShipperAt
<1>14. SalesGo /\ NotesGo
  BY <1>3, SalesSame, MailSame
<1> QED
  BY <1>8, <1>9, <1>11, <1>12, <1>13, <1>14, TellFollows DEF OnlyShipper

LEMMA FulfilTells ==
  ASSUME MailTypes, TellInv, NEW p \in Shippers, FulfilOrder(p)
  PROVE  TellInv'
<1> PICK s : s = ShipmentOf(p)
  OBVIOUS
<1> PICK o : o = shipments[s].order
  OBVIOUS
<1> DEFINE to == sales[o].email
           new == [shipper[p] EXCEPT !.pc = "note", !.to = to]
           sale == [sales[o] EXCEPT !.fulfilment = "FULFILLED"]
<1>1. /\ shipper[p] \in Shipper /\ s \in DOMAIN shipments /\ shipments[s] \in Shipment
      /\ shipper \in [Shippers -> Shipper] /\ sales \in [Sales -> Sale]
  BY ShipperType DEF FulfilOrder, ShipperAt, MailTypes, FulfilmentTypeOK
<1>2. o \in Sales /\ sales[o] \in Sale /\ shipper[p].shipment = s
  BY <1>1 DEF Shipment, ShipmentOf
<1>3. sales' = [sales EXCEPT ![o] = sale] /\ shipper' = [shipper EXCEPT ![p] = new] /\ UNCHANGED <<shipments, mailVars>>
  BY DEF FulfilOrder
<1>4. sale.fulfilment = "FULFILLED"
  BY <1>2 DEF Sale
<1> HIDE DEF to, sale
<1>5. new.pc = "note" /\ new.shipment = s
  BY <1>1, <1>2 DEF Shipper
<1> HIDE DEF new
<1>6. sales'[o] = sale /\ \A x \in Sales : x # o => sales'[x] = sales[x]
  BY <1>1, <1>2, <1>3
<1>7. shipper'[p] = new /\ OnlyShipper(p)
  BY <1>1, <1>3 DEF OnlyShipper
<1>8. SalesGo /\ NotesGo
  BY <1>3, <1>4, <1>6, MailSame DEF SalesGo
<1>9. ShipperTells(p)'
  BY <1>3, <1>4, <1>5, <1>6, <1>7 DEF ShipperTells, ShipperAt, ShipmentOf
<1>10. \A x \in DOMAIN shipments : p \in Updating(x) => Told(x)'
  <2>1. \A x \in DOMAIN shipments : p \in Updating(x) => x = s
    BY DEF Updating
  <2>2. p \in Updating(s)'
    BY <1>5, <1>7 DEF Updating, ShipmentOf
  <2> QED
    BY <2>1, <2>2 DEF Told
<1> QED
  BY <1>3, <1>7, <1>8, <1>9, <1>10, ShipmentsStay, TellFollows DEF OnlyShipper

LEMMA NoteTells ==
  ASSUME MailTypes, TellInv, NEW p \in Shippers, NoteBuyer(p)
  PROVE  TellInv'
<1> PICK s : s = ShipmentOf(p)
  OBVIOUS
<1> PICK next : next = Len(notes) + 1
  OBVIOUS
<1> DEFINE row == [to |-> shipper[p].to, about |-> s, status |-> "PENDING", sent |-> 0, excused |-> 0]
           new == [shipper[p] EXCEPT !.pc = "queue", !.note = next]
<1>1. /\ shipper[p] \in Shipper /\ s \in DOMAIN shipments /\ ShipperAt(p, "note") /\ ShipperTells(p)
      /\ shipper \in [Shippers -> Shipper] /\ shipper[p].to \in Addresses
      /\ notes \in Seq(Note) /\ mailJob \in Seq(MailJob) /\ Len(mailJob) = Len(notes) /\ s \in Nat
  BY ShipperType DEF NoteBuyer, ShipperAt, MailTypes, ShippersKnow, MailersKnow, FulfilmentTypeOK, NotificationsTypeOK, TellInv
<1>2. shipper[p].shipment = s
  BY DEF ShipmentOf
<1>3. /\ notes' = Append(notes, row) /\ mailJob' = Append(mailJob, NoMailJob)
      /\ shipper' = [shipper EXCEPT ![p] = new] /\ UNCHANGED <<sales, shipments>>
  BY DEF NoteBuyer, AddNote
<1>4. row \in Note /\ row.about = s /\ NoMailJob \in MailJob
  BY <1>1 DEF Note, NoMailJob, MailJob
<1>5. new.pc = "queue" /\ new.shipment = s /\ new.note = next
  BY <1>1, <1>2 DEF Shipper
<1> HIDE DEF row, new
<1>6. /\ notes'[next] = row
      /\ \A n \in DOMAIN notes : n \in DOMAIN notes' /\ notes'[n] = notes[n] /\ mailJob'[n] = mailJob[n]
  BY <1>1, <1>3, <1>4, AppendProperties
<1>7. shipper'[p] = new /\ OnlyShipper(p)
  BY <1>1, <1>3 DEF OnlyShipper
<1>8. SalesGo /\ NotesGo
  BY <1>3, <1>6, SalesSame DEF NotesGo
<1>9. ShipperTells(p)'
  BY <1>1, <1>3, <1>4, <1>5, <1>6, <1>7 DEF ShipperTells, ShipperAt, ShipmentOf
<1>10. \A x \in DOMAIN shipments : p \in Updating(x) => Told(x)'
  <2>1. \A x \in DOMAIN shipments : p \in Updating(x) => x = s
    BY DEF Updating
  <2>2. p \in Updating(s)'
    BY <1>5, <1>7 DEF Updating, ShipmentOf
  <2> QED
    BY <2>1, <2>2 DEF Told
<1> QED
  BY <1>3, <1>7, <1>8, <1>9, <1>10, ShipmentsStay, TellFollows DEF OnlyShipper

LEMMA QueueTells ==
  ASSUME MailTypes, TellInv, NEW p \in Shippers, QueueBuyerNote(p)
  PROVE  TellInv'
<1> PICK s : s = ShipmentOf(p)
  OBVIOUS
<1> PICK m : m = shipper[p].note
  OBVIOUS
<1> DEFINE job == [mailJob[m] EXCEPT !.status = "waiting"]
<1>1. /\ ShipperAt(p, "queue") /\ m \in DOMAIN notes /\ ShipperTells(p) /\ shipper \in [Shippers -> Shipper]
      /\ mailJob \in Seq(MailJob) /\ DOMAIN mailJob = DOMAIN notes /\ mailJob[m] \in MailJob
  BY DEF QueueBuyerNote, MailTypes, ShippersKnow, MailersKnow, FulfilmentTypeOK, NotificationsTypeOK, TellInv
<1>2. /\ mailJob' = [mailJob EXCEPT ![m] = job] /\ shipper' = [shipper EXCEPT ![p] = NoUpdate]
      /\ UNCHANGED <<sales, shipments, notes>>
  BY DEF QueueBuyerNote, QueueNote
<1>3. job \in MailJob /\ job.status = "waiting"
  BY <1>1, JobRows
<1> HIDE DEF job
<1>4. mailJob'[m] = job /\ \A n \in DOMAIN notes : n # m => mailJob'[n] = mailJob[n]
  BY <1>1, <1>2, <1>3, JobWritten
<1>5. shipper'[p].pc = "idle" /\ OnlyShipper(p)
  BY <1>1, <1>2, NoUpdateType DEF OnlyShipper
<1>6. SalesGo /\ NotesGo
  BY <1>2, <1>3, <1>4, SalesSame DEF NotesGo
<1>7. ShipperTells(p)'
  BY <1>5 DEF ShipperTells, ShipperAt
<1>8. Told(s)'
  <2>1. notes[m].about = s /\ sales[shipments[s].order].fulfilment = "FULFILLED"
    BY <1>1 DEF ShipperTells
  <2>2. m \in UpdatesQueued(s)'
    BY <2>1, <1>1, <1>2, <1>3, <1>4 DEF UpdatesQueued
  <2> QED
    BY <2>1, <2>2, <1>2 DEF Told
<1>9. \A x \in DOMAIN shipments : p \in Updating(x) => x = s
  BY DEF Updating
<1> QED
  BY <1>2, <1>5, <1>6, <1>7, <1>8, <1>9, ShipmentsStay, TellFollows DEF OnlyShipper

LEMMA DeathTells ==
  ASSUME MailTypes, TellInv, NEW p \in Shippers, UpdateDies(p)
  PROVE  TellInv'
<1> PICK s : s = ShipmentOf(p)
  OBVIOUS
<1> DEFINE row == [shipments[s] EXCEPT !.untold = TRUE]
<1>1. /\ s \in DOMAIN shipments /\ shipments[s] \in Shipment
      /\ shipments \in Seq(Shipment) /\ shipper \in [Shippers -> Shipper]
  BY ShipperType DEF UpdateDies, ShipperAt, MailTypes, FulfilmentTypeOK
<1>2. /\ shipments' = [shipments EXCEPT ![s] = row] /\ shipper' = [shipper EXCEPT ![p] = NoUpdate]
      /\ UNCHANGED <<sales, mailVars>>
  BY DEF UpdateDies
<1>3. /\ row.status = shipments[s].status /\ row.left = shipments[s].left
      /\ row.order = shipments[s].order /\ row.untold
  BY <1>1 DEF Shipment
<1> HIDE DEF row
<1>4. DOMAIN shipments' = DOMAIN shipments /\ shipments'[s] = row /\ \A x \in DOMAIN shipments : x # s => shipments'[x] = shipments[x]
  BY <1>1, <1>2
<1>5. shipper'[p].pc = "idle" /\ OnlyShipper(p)
  BY <1>1, <1>2, NoUpdateType DEF OnlyShipper
<1>6. ShipmentsGo /\ SalesGo /\ NotesGo
  BY <1>2, <1>3, <1>4, SalesSame, MailSame DEF ShipmentsGo
<1>7. \A x \in DOMAIN shipments' :
        /\ shipments'[x].status = "IN_TRANSIT" => shipments'[x].left
        /\ shipments'[x].left => x \in DOMAIN shipments /\ shipments[x].left
  BY <1>3, <1>4 DEF TellInv, ShipmentTells
<1>8. Told(s)'
  BY <1>3, <1>4 DEF Told
<1>9. \A x \in DOMAIN shipments : p \in Updating(x) => x = s
  BY DEF Updating
<1>10. ShipperTells(p)'
  BY <1>5 DEF ShipperTells, ShipperAt
<1> QED
  BY <1>5, <1>6, <1>7, <1>8, <1>9, <1>10, TellFollows DEF OnlyShipper

LEMMA TellStep ==
  ASSUME ErasureInv, MailTypes, TellInv, [Next]_vars
  PROVE  TellInv'
<1>1. CASE FulfilmentNext
  BY <1>1, CreateTells, ReadTells, WriteTells, FulfilTells, NoteTells, QueueTells, DeathTells
     DEF FulfilmentNext, UpdateStep
<1>2. CASE SalesGo /\ NotesGo /\ UNCHANGED shipVars
  BY <1>2, ShipmentsStay, TellFollows DEF shipVars
<1>3. CASE NotificationsNext /\ UNCHANGED <<sales, shipVars, privacyVars>>
  BY <1>2, <1>3, NotesStayQueued, SalesSame
<1>4. CASE PrivacyNext
  BY <1>2, <1>4, PrivacyKeepsSales, MailSame
<1>5. CASE UNCHANGED vars
  BY <1>2, <1>5, SalesSame, MailSame DEF vars
<1> QED
  BY <1>1, <1>3, <1>4, <1>5 DEF Next

\* Once a shipment was IN_TRANSIT its order is FULFILLED and an e-mail queued,
\* unless the request that set it is still at it or died, however many people
\* update it at the same time (ShippingService.update, onShipped).
THEOREM DeparturesTold == Spec => []DeparturesAreTold
<1>1. Init => ErasureInv /\ MailInv /\ TellInv
  <2> SUFFICES ASSUME Init PROVE TellInv
    BY ErasureStart, MailStart
  <2>1. shipments = <<>> /\ \A p \in Shippers : shipper[p].pc = "idle"
    BY NoUpdateType DEF Init, FulfilmentInit
  <2> QED
    BY <2>1 DEF TellInv, ShipperTells, ShipperAt
<1>2. ErasureInv /\ MailInv /\ TellInv /\ [Next]_vars => ErasureInv' /\ MailInv' /\ TellInv'
  <2> SUFFICES ASSUME ErasureInv, MailInv, TellInv, [Next]_vars PROVE ErasureInv' /\ MailInv' /\ TellInv'
    OBVIOUS
  <2>1. MailTypes
    BY DEF MailInv
  <2> QED
    BY <2>1, ErasureStep, MailStep, TellStep
<1>3. TellInv => DeparturesAreTold
  BY DEF TellInv, ShipmentTells, Told, DeparturesAreTold
<1> QED
  BY <1>1, <1>2, <1>3, PTL DEF Spec
=============================================================================
