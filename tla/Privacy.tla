------------------------------ MODULE Privacy -------------------------------
(***************************************************************************)
(* Requests of data subjects.  GdprService commits a DsarRequest and then   *)
(* queues a job for it, or erases a customer at once for an admin;          *)
(* DsarProcessor fulfils a queued request in one transaction, which reads   *)
(* the request's status before it writes.  The job is delivered at least    *)
(* once.                                                                   *)
(***************************************************************************)
EXTENDS Fulfilment

CONSTANTS
  Requests,         \* requests of data subjects
  Clerks,           \* slots of the dsar worker
  MaxDsarAttempts,  \* `attempts` of a dsar job
  DsarDeaths,       \* bound on attempts that fail or die
  DsarStalls,       \* bound on jobs whose lock expires while they run
  MaxErasures       \* bound on erasures by an admin

VARIABLES
  customer,   \* the Customer row of each address, if there is one
  dsar,       \* DsarRequest rows
  dsarJob,    \* the queue's job of each request
  clerk,      \* what each worker slot is doing
  audits,     \* AuditLog rows about each request
  dsarFaults  \* deaths, stalls and erasures by an admin so far

privacyVars == <<customer, dsar, dsarJob, clerk, audits, dsarFaults>>

DsarType == {"EXPORT", "ERASURE"}
Dsar == [type : DsarType, subject : Customers, status : {"RECEIVED", "COMPLETED"}, queued : BOOLEAN]
DsarJob == [status : {"none", "waiting", "active", "completed", "failed"},
            owner : Clerks \cup {None}, tries : Nat]
Clerk == [pc : {"idle", "read", "fulfil", "ack"}, request : Requests \cup {None}]

IdleClerk == [pc |-> "idle", request |-> None]
NoDsarJob == [status |-> "none", owner |-> None, tries |-> 0]

DsarFault(kind, limit) ==
  /\ dsarFaults[kind] < limit
  /\ dsarFaults' = [dsarFaults EXCEPT ![kind] = @ + 1]

-----------------------------------------------------------------------------
\* createRequest: the row, then the job.
CreateRequest(r) ==
  /\ dsar[r] = None
  /\ \E type \in DsarType, c \in Customers :
       dsar' = [dsar EXCEPT ![r] = [type |-> type, subject |-> c, status |-> "RECEIVED", queued |-> FALSE]]
  /\ UNCHANGED <<sales, shipVars, mailVars, customer, dsarJob, clerk, audits, dsarFaults>>

QueueRequest(r) ==
  /\ dsar[r] # None
  /\ ~dsar[r].queued
  /\ dsar' = [dsar EXCEPT ![r].queued = TRUE]
  /\ dsarJob' = [dsarJob EXCEPT ![r].status = "waiting"]
  /\ UNCHANGED <<sales, shipVars, mailVars, customer, clerk, audits, dsarFaults>>

-----------------------------------------------------------------------------
RequestOf(k) == clerk[k].request
ClerkAt(k, pc) == clerk[k].pc = pc
ClerkGoes(k, pc) == clerk' = [clerk EXCEPT ![k].pc = pc]
OwnsRequest(k) == dsarJob[RequestOf(k)].status = "active" /\ dsarJob[RequestOf(k)].owner = k

StartRequest(k, r) ==
  /\ ClerkAt(k, "idle")
  /\ dsarJob[r].status = "waiting"
  /\ dsarJob' = [dsarJob EXCEPT ![r] = [status |-> "active", owner |-> k, tries |-> @.tries + 1]]
  /\ clerk' = [clerk EXCEPT ![k] = [pc |-> "read", request |-> r]]
  /\ UNCHANGED <<sales, shipVars, mailVars, customer, dsar, audits, dsarFaults>>

\* Mutant of AlreadyFulfilled: every delivery of the job fulfils the request.
NeverFulfilled(r) == FALSE
AlreadyFulfilled(r) == dsar[r].status = "COMPLETED"

ReadRequest(k) ==
  /\ ClerkAt(k, "read")
  /\ ClerkGoes(k, IF AlreadyFulfilled(RequestOf(k)) THEN "ack" ELSE "fulfil")
  /\ UNCHANGED <<sales, shipVars, mailVars, customer, dsar, dsarJob, audits, dsarFaults>>

\* Mutant of Scrubbed: the orders of buyers without a customer row are left.
ScrubbedOfCustomers(c) ==
  [o \in Sales |-> IF sales[o].email = c /\ customer[c] = "live"
                   THEN [sales[o] EXCEPT !.email = Anon] ELSE sales[o]]
\* Orders are found by their address, whether or not there is a customer row.
Scrubbed(c) ==
  [o \in Sales |-> IF sales[o].email = c THEN [sales[o] EXCEPT !.email = Anon] ELSE sales[o]]
\* Mutant of Erased: the row is deleted, where the code keeps an empty one.
ErasedForGood(c) == [customer EXCEPT ![c] = None]
Erased(c) == [customer EXCEPT ![c] = IF @ = "live" THEN "erased" ELSE @]

\* The rest of the transaction.  PROCESSING is overwritten before it is
\* committed, and an attempt that read the status earlier waits on the row
\* and then goes on.
FulfilRequest(k) ==
  LET r == RequestOf(k) IN
  /\ ClerkAt(k, "fulfil")
  /\ IF dsar[r].type = "ERASURE"
     THEN sales' = Scrubbed(dsar[r].subject) /\ customer' = Erased(dsar[r].subject)
     ELSE UNCHANGED <<sales, customer>>
  /\ audits' = [audits EXCEPT ![r] = @ + 1]
  /\ dsar' = [dsar EXCEPT ![r].status = "COMPLETED"]
  /\ ClerkGoes(k, "ack")
  /\ UNCHANGED <<shipVars, mailVars, dsarJob, dsarFaults>>

EndRequest(k, status) ==
  /\ clerk' = [clerk EXCEPT ![k] = IdleClerk]
  /\ dsarJob' = IF OwnsRequest(k)
                THEN [dsarJob EXCEPT ![RequestOf(k)] = [@ EXCEPT !.status = status, !.owner = None]]
                ELSE dsarJob

AckRequest(k) ==
  /\ ClerkAt(k, "ack")
  /\ EndRequest(k, "completed")
  /\ UNCHANGED <<sales, shipVars, mailVars, customer, dsar, audits, dsarFaults>>

\* Mutant of RetriedRequest: an attempt that fails is the last one.
GivenUp(k) == "failed"
RetriedRequest(k) == IF dsarJob[RequestOf(k)].tries < MaxDsarAttempts THEN "waiting" ELSE "failed"

\* An attempt fails or dies: its transaction is rolled back unless it was
\* committed.
RequestAttemptFails(k) ==
  /\ ~ClerkAt(k, "idle")
  /\ DsarFault("die", DsarDeaths)
  /\ EndRequest(k, RetriedRequest(k))
  /\ UNCHANGED <<sales, shipVars, mailVars, customer, dsar, audits>>

RequestStalls(k) ==
  /\ ~ClerkAt(k, "idle")
  /\ OwnsRequest(k)
  /\ DsarFault("stall", DsarStalls)
  /\ dsarJob' = [dsarJob EXCEPT ![RequestOf(k)] = [@ EXCEPT !.status = "waiting", !.owner = None]]
  /\ UNCHANGED <<sales, shipVars, mailVars, customer, dsar, clerk, audits>>

\* eraseCustomer, for the row an admin picked.
EraseCustomer(c) ==
  /\ customer[c] = "live"
  /\ DsarFault("erasure", MaxErasures)
  /\ sales' = Scrubbed(c)
  /\ customer' = Erased(c)
  /\ UNCHANGED <<shipVars, mailVars, dsar, dsarJob, clerk, audits>>

ClerkStep(k) == ReadRequest(k) \/ FulfilRequest(k) \/ AckRequest(k)

PrivacyInit ==
  /\ customer \in [Customers -> {"live", "none"}]
  /\ dsar = [r \in Requests |-> None]
  /\ dsarJob = [r \in Requests |-> NoDsarJob]
  /\ clerk = [k \in Clerks |-> IdleClerk]
  /\ audits = [r \in Requests |-> 0]
  /\ dsarFaults = [k \in {"die", "stall", "erasure"} |-> 0]

PrivacyNext ==
  \/ \E r \in Requests : CreateRequest(r) \/ QueueRequest(r)
  \/ \E k \in Clerks :
       \/ \E r \in Requests : StartRequest(k, r)
       \/ ClerkStep(k)
       \/ RequestAttemptFails(k)
       \/ RequestStalls(k)
  \/ \E c \in Customers : EraseCustomer(c)

PrivacyTypeOK ==
  /\ customer \in [Customers -> {"live", "erased", "none"}]
  /\ dsar \in [Requests -> Dsar \cup {None}]
  /\ dsarJob \in [Requests -> DsarJob]
  /\ clerk \in [Clerks -> Clerk]
  /\ audits \in [Requests -> Nat]
  /\ dsarFaults \in [{"die", "stall", "erasure"} -> Nat]
=============================================================================
