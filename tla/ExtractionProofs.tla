-------------------------- MODULE ExtractionProofs --------------------------
(***************************************************************************)
(* Proofs about Extraction, for every number of jobs, workers, reviewers,   *)
(* products, failures and stalls.                                           *)
(***************************************************************************)
EXTENDS Extraction, TLAPS, SequenceTheorems, FiniteSetTheorems

USE DEF apiVars, workVars, Sampling, MockOutcome, VisionOutcome

-----------------------------------------------------------------------------
(* Types. *)

\* Giving a job back to the queue, or giving it up, keeps the queue's types.
LEMMA GiveUpTypes ==
  ASSUME TypeOK, NEW w \in Workers, ~At(w, "idle"), GiveUp(w)
  PROVE  /\ queue' \in [Jobs -> QueueJob]
         /\ attempt' = [attempt EXCEPT ![w] = Idle]
<1>1. JobOf(w) \in Jobs /\ queue[JobOf(w)] \in QueueJob
  BY DEF TypeOK
<1> DEFINE Next1 == IF queue[JobOf(w)].tries < MaxAttempts THEN "waiting" ELSE "failed"
           Row == [queue[JobOf(w)] EXCEPT !.owner = None, !.status = Next1]
<1>2. Row \in QueueJob
  BY <1>1 DEF QueueJob
<1>3. CASE Owns(w)
  <2>1. queue' = [queue EXCEPT ![JobOf(w)] = Row]
    BY <1>3 DEF GiveUp
  <2> QED BY <2>1, <1>1, <1>2 DEF TypeOK, GiveUp
<1>4. CASE ~Owns(w)
  BY <1>4 DEF TypeOK, GiveUp
<1> QED BY <1>3, <1>4

\* Changing the status and the owner of a job the worker holds.
LEMMA QueueRow ==
  ASSUME TypeOK, NEW j \in Jobs, NEW st \in {"waiting", "completed"}
  PROVE  [queue EXCEPT ![j] = [@ EXCEPT !.status = st, !.owner = None]] \in [Jobs -> QueueJob]
<1>1. queue[j] \in QueueJob
  BY DEF TypeOK
<1>2. [queue[j] EXCEPT !.status = st, !.owner = None] \in QueueJob
  BY <1>1 DEF QueueJob
<1> QED BY <1>2 DEF TypeOK

\* An attempt that goes back to idle.
LEMMA AttemptEnds ==
  ASSUME TypeOK, NEW w \in Workers, attempt' = [attempt EXCEPT ![w] = Idle]
  PROVE  /\ attempt' \in [Workers -> Attempt]
         /\ \A v \in Workers : attempt'[v].pc # "idle" => attempt'[v].job \in Jobs
BY DEF TypeOK, At, JobOf, Idle, Attempt

\* An attempt that goes on.
LEMMA AttemptGoesOn ==
  ASSUME TypeOK, NEW w \in Workers, ~At(w, "idle"),
         NEW pc \in {"claim", "sample", "analyze", "ack"}, Continue(w, pc)
  PROVE  /\ attempt' \in [Workers -> Attempt]
         /\ \A v \in Workers : attempt'[v].pc # "idle" => attempt'[v].job \in Jobs
<1>1. attempt[w] \in Attempt /\ attempt[w].job \in Jobs
  BY DEF TypeOK, At, JobOf
<1>2. [attempt[w] EXCEPT !.pc = pc] \in Attempt
  BY <1>1 DEF Attempt
<1>3. attempt' = [attempt EXCEPT ![w] = [attempt[w] EXCEPT !.pc = pc]]
  BY DEF Continue
<1>4. \A v \in Workers : attempt'[v].pc # "idle" => attempt'[v].job \in Jobs
  <2> SUFFICES ASSUME NEW v \in Workers, attempt'[v].pc # "idle"
               PROVE  attempt'[v].job \in Jobs
    OBVIOUS
  <2>1. CASE v = w
    BY <2>1, <1>1, <1>3 DEF TypeOK, Attempt
  <2>2. CASE v # w
    BY <2>2, <1>3 DEF TypeOK, At, JobOf
  <2> QED BY <2>1, <2>2
<1> QED BY <1>2, <1>3, <1>4 DEF TypeOK

\* A fault counted once more.
LEMMA InjectTypes ==
  ASSUME TypeOK, NEW kind \in {"fail", "lost", "stall", "manual"}, NEW limit, Inject(kind, limit)
  PROVE  faults' \in [{"fail", "lost", "stall", "manual"} -> Nat]
BY DEF TypeOK, Inject

\* What an analysis can yield.
LEMMA AnalysisTypes ==
  ASSUME NEW sampled, NEW analysis \in Analysis(sampled)
  PROVE  analysis.count \in Nat /\ analysis.note \in BOOLEAN /\ analysis.origin \in Origin
<1> USE ExtractionAssumption
<1>1. CASE analysis \in [origin : {"mock"}, count : {MockCount}, note : {TRUE}]
  BY <1>1 DEF Origin
<1>2. CASE analysis \in [origin : {"vision"}, count : 1 .. MaxFound, note : {FALSE}]
  <2>1. analysis.count \in 1 .. MaxFound /\ analysis.note \in BOOLEAN
    BY <1>2
  <2>2. analysis.count \in Nat
    BY <2>1
  <2> QED BY <1>2, <2>1, <2>2 DEF Origin
<1>3. CASE sampled = 0
  BY <1>1, <1>3 DEF Analysis
<1>4. CASE sampled # 0
  BY <1>1, <1>2, <1>4 DEF Analysis
<1> QED BY <1>3, <1>4

LEMMA InitTypes == Init => TypeOK
<1> SUFFICES ASSUME Init PROVE TypeOK
  OBVIOUS
<1>1. /\ row \in [Jobs -> JobRow \cup {None}]
      /\ frames \in [Jobs -> Nat]
      /\ request \in [Jobs -> {"none", "inserted", "answered", "lost"}]
      /\ faults \in [{"fail", "lost", "stall", "manual"} -> Nat]
  BY DEF Init
<1>2. results \in Seq(Result \cup {None}) /\ products \in Seq(Nat \cup {None})
  BY DEF Init
<1>3. queue \in [Jobs -> QueueJob]
  BY DEF Init, QueueJob
<1>4. attempt \in [Workers -> Attempt] /\ \A w \in Workers : At(w, "idle")
  BY DEF Init, Attempt, Idle, At
<1>5. reviewer \in [Reviewers -> Review] /\ \A u \in Reviewers : reviewer[u].pc = "idle"
  BY DEF Init, Review, NoReview
<1> QED BY <1>1, <1>2, <1>3, <1>4, <1>5 DEF TypeOK

LEMMA TypeInductive == TypeOK /\ [Next]_vars => TypeOK'
<1> SUFFICES ASSUME TypeOK, [Next]_vars PROVE TypeOK'
  OBVIOUS
<1> USE ExtractionAssumption
<1>1. ASSUME NEW j \in Jobs, CreateJob(j) PROVE TypeOK'
  <2>1. row' \in [Jobs -> JobRow \cup {None}]
    BY <1>1 DEF CreateJob, TypeOK, JobRow, JobStatus
  <2> QED BY <1>1, <2>1 DEF CreateJob, TypeOK, At, JobOf
<1>2. ASSUME NEW j \in Jobs, EnqueueJob(j) PROVE TypeOK'
  <2>1. queue' \in [Jobs -> QueueJob]
    BY <1>2 DEF EnqueueJob, TypeOK, QueueJob
  <2> QED BY <1>2, <2>1 DEF EnqueueJob, TypeOK, At, JobOf
<1>3. ASSUME NEW j \in Jobs, CreateInterrupted(j) PROVE TypeOK'
  BY <1>3, InjectTypes DEF CreateInterrupted, TypeOK, At, JobOf
<1>4. ASSUME NEW j \in Jobs, RemoveJob(j) PROVE TypeOK'
  <2>1. results' \in Seq(Result \cup {None})
    <3>1. Len(results) \in Nat /\ DOMAIN results = 1 .. Len(results)
      BY DEF TypeOK
    <3>2. \A i \in 1 .. Len(results) :
            (IF i \in ResultsOf(j) THEN None ELSE results[i]) \in Result \cup {None}
      BY <3>1 DEF TypeOK
    <3>3. results' = [i \in 1 .. Len(results) |->
                        IF i \in ResultsOf(j) THEN None ELSE results[i]]
      BY <1>4, <3>1 DEF RemoveJob, Cascade
    <3> QED BY ONLY <3>1, <3>2, <3>3
  <2>2. products' \in Seq(Nat \cup {None})
    <3>1. Len(products) \in Nat /\ DOMAIN products = 1 .. Len(products)
      BY DEF TypeOK
    <3>2. \A p \in 1 .. Len(products) :
            (IF products[p] \in ResultsOf(j) THEN None ELSE products[p]) \in Nat \cup {None}
      BY <3>1 DEF TypeOK
    <3>3. products' = [p \in 1 .. Len(products) |->
                         IF products[p] \in ResultsOf(j) THEN None ELSE products[p]]
      BY <1>4, <3>1 DEF RemoveJob, Unlinked
    <3> QED BY ONLY <3>1, <3>2, <3>3
  <2> QED BY <1>4, <2>1, <2>2 DEF RemoveJob, TypeOK, At, JobOf
<1>5. ASSUME NEW w \in Workers, NEW j \in Jobs, StartAttempt(w, j) PROVE TypeOK'
  <2>1. queue' \in [Jobs -> QueueJob]
    BY <1>5 DEF StartAttempt, TypeOK, QueueJob
  <2>2. attempt' \in [Workers -> Attempt]
    BY <1>5 DEF StartAttempt, TypeOK, Attempt
  <2>3. \A v \in Workers : attempt'[v].pc # "idle" => attempt'[v].job \in Jobs
    BY <1>5 DEF StartAttempt, TypeOK, At, JobOf
  <2> QED BY <1>5, <2>1, <2>2, <2>3 DEF StartAttempt, TypeOK, At, JobOf
<1>6. ASSUME NEW w \in Workers, ReadJob(w) PROVE TypeOK'
  <2>1. /\ attempt' \in [Workers -> Attempt]
        /\ \A v \in Workers : attempt'[v].pc # "idle" => attempt'[v].job \in Jobs
    BY <1>6, AttemptGoesOn DEF ReadJob, At
  <2> QED BY <1>6, <2>1 DEF ReadJob, TypeOK, At, JobOf
<1>7. ASSUME NEW w \in Workers, ClaimJob(w) PROVE TypeOK'
  <2>1. /\ attempt' \in [Workers -> Attempt]
        /\ \A v \in Workers : attempt'[v].pc # "idle" => attempt'[v].job \in Jobs
    BY <1>7, AttemptGoesOn DEF ClaimJob, At
  <2>2. row' \in [Jobs -> JobRow \cup {None}]
    <3>1. row[JobOf(w)] \in JobRow
      BY <1>7 DEF ClaimJob, TypeOK, Exists, At
    <3>2. [row[JobOf(w)] EXCEPT !.status = "INGESTING"] \in JobRow
      BY <3>1 DEF JobRow, JobStatus
    <3>3. row' = [row EXCEPT ![JobOf(w)] = [row[JobOf(w)] EXCEPT !.status = "INGESTING"]]
      BY <1>7 DEF ClaimJob
    <3> QED BY <3>2, <3>3 DEF TypeOK
  <2> QED BY <1>7, <2>1, <2>2 DEF ClaimJob, TypeOK, At, JobOf
<1>8. ASSUME NEW w \in Workers, NEW sampled \in Sampling, SaveFrames(w, sampled)
      PROVE TypeOK'
  <2> DEFINE j == JobOf(w)
  <2>1. j \in Jobs /\ row[j] \in JobRow /\ attempt[w] \in Attempt
    BY <1>8 DEF SaveFrames, TypeOK, At, Exists
  <2>2. Stored(sampled) \in Nat
    BY DEF Stored
  <2>3. [row[j] EXCEPT !.status = "ANALYZING", !.framesExtracted = Stored(sampled)] \in JobRow
    BY <2>1, <2>2 DEF JobRow, JobStatus
  <2>4. row' \in [Jobs -> JobRow \cup {None}]
    BY <1>8, <2>3 DEF SaveFrames, TypeOK
  <2>5. frames' \in [Jobs -> Nat]
    <3>1. frames[j] + Stored(sampled) \in Nat
      BY <2>1, <2>2 DEF TypeOK
    <3> QED BY <1>8, <3>1 DEF SaveFrames, TypeOK
  <2>6. [attempt[w] EXCEPT !.pc = "analyze", !.sampled = sampled] \in Attempt
    <3>1. sampled \in Nat
      OBVIOUS
    <3> QED BY <2>1, <3>1 DEF Attempt
  <2>7. attempt' = [attempt EXCEPT ![w] = [attempt[w] EXCEPT !.pc = "analyze", !.sampled = sampled]]
    BY <1>8 DEF SaveFrames
  <2>8. attempt' \in [Workers -> Attempt]
    BY <2>6, <2>7 DEF TypeOK
  <2>9. attempt'[w].job = j
    BY <2>7, <2>1 DEF TypeOK, Attempt, JobOf
  <2>10. \A v \in Workers : attempt'[v].pc # "idle" => attempt'[v].job \in Jobs
    BY <2>7, <2>9, <2>1 DEF TypeOK, At, JobOf
  <2> QED BY <1>8, <2>4, <2>5, <2>8, <2>10 DEF SaveFrames, TypeOK, At, JobOf
<1>9. ASSUME NEW w \in Workers, NEW analysis \in Analysis(attempt[w].sampled),
             SaveResults(w, analysis)
      PROVE TypeOK'
  <2> DEFINE j == JobOf(w)
  <2>1. j \in Jobs /\ row[j] \in JobRow
    BY <1>9 DEF SaveResults, TypeOK, At, Exists
  <2>2. analysis.count \in Nat /\ analysis.note \in BOOLEAN /\ analysis.origin \in Origin
    BY AnalysisTypes
  <2>3. Drafts(j, analysis) \in Seq(Result \cup {None})
    BY <2>1, <2>2 DEF Drafts, Result
  <2>4. results' \in Seq(Result \cup {None})
    BY <1>9, <2>3 DEF SaveResults, TypeOK
  <2>5. [row[j] EXCEPT !.status = "AWAITING_REVIEW", !.productsFound = analysis.count,
                       !.note = analysis.note] \in JobRow
    BY <2>1, <2>2 DEF JobRow, JobStatus
  <2>6. row' \in [Jobs -> JobRow \cup {None}]
    BY <1>9, <2>5 DEF SaveResults, TypeOK
  <2>7. /\ attempt' \in [Workers -> Attempt]
        /\ \A v \in Workers : attempt'[v].pc # "idle" => attempt'[v].job \in Jobs
    BY <1>9, AttemptGoesOn DEF SaveResults, At
  <2> QED BY <1>9, <2>4, <2>6, <2>7 DEF SaveResults, TypeOK, At, JobOf
<1>10. ASSUME NEW w \in Workers, JobVanished(w) PROVE TypeOK'
  <2>1. ~At(w, "idle") /\ GiveUp(w)
    BY <1>10 DEF JobVanished, At
  <2>2. /\ attempt' \in [Workers -> Attempt]
        /\ \A v \in Workers : attempt'[v].pc # "idle" => attempt'[v].job \in Jobs
    BY <2>1, GiveUpTypes, AttemptEnds
  <2> QED BY <1>10, <2>1, <2>2, GiveUpTypes DEF JobVanished, TypeOK, At, JobOf
<1>11. ASSUME NEW w \in Workers, AttemptFails(w) PROVE TypeOK'
  <2>1. ~At(w, "idle") /\ GiveUp(w)
    BY <1>11 DEF AttemptFails
  <2>2. /\ attempt' \in [Workers -> Attempt]
        /\ \A v \in Workers : attempt'[v].pc # "idle" => attempt'[v].job \in Jobs
    BY <2>1, GiveUpTypes, AttemptEnds
  <2> QED BY <1>11, <2>1, <2>2, GiveUpTypes, InjectTypes DEF AttemptFails, TypeOK, At, JobOf
<1>12. ASSUME NEW w \in Workers, Ack(w) PROVE TypeOK'
  <2>1. JobOf(w) \in Jobs
    BY <1>12 DEF Ack, TypeOK, At
  <2>2. queue' \in [Jobs -> QueueJob]
    BY <1>12, <2>1, QueueRow DEF Ack, TypeOK
  <2>3. /\ attempt' \in [Workers -> Attempt]
        /\ \A v \in Workers : attempt'[v].pc # "idle" => attempt'[v].job \in Jobs
    BY <1>12, AttemptEnds DEF Ack
  <2> QED BY <1>12, <2>2, <2>3 DEF Ack, TypeOK, At, JobOf
<1>13. ASSUME NEW w \in Workers, JobStalls(w) PROVE TypeOK'
  <2>1. JobOf(w) \in Jobs
    BY <1>13 DEF JobStalls, TypeOK
  <2>2. queue' \in [Jobs -> QueueJob]
    BY <1>13, <2>1, QueueRow DEF JobStalls
  <2> QED BY <1>13, <2>2, InjectTypes DEF JobStalls, TypeOK, At, JobOf
<1>14. ASSUME NEW u \in Reviewers, ReviewerStep(u) PROVE TypeOK'
  <2>1. ASSUME NEW j \in Jobs, OpenBarcode(u, j) PROVE TypeOK'
    <3>1. reviewer' \in [Reviewers -> Review]
      BY <2>1 DEF OpenBarcode, TypeOK, Review
    <3> QED BY <2>1, <3>1, InjectTypes DEF OpenBarcode, TypeOK, At, JobOf
  <2>2. ASSUME AddBarcodeResult(u) PROVE TypeOK'
    <3>1. reviewer' \in [Reviewers -> Review]
      BY <2>2 DEF AddBarcodeResult, TypeOK, Review, NoReview
    <3>2. [job |-> reviewer[u].job, origin |-> "barcode", decision |-> "PENDING"] \in Result
      BY <2>2 DEF AddBarcodeResult, TypeOK, Result, Origin
    <3> QED BY <2>2, <3>1, <3>2 DEF AddBarcodeResult, TypeOK, At, JobOf, NoReview
  <2>3. ASSUME NEW i \in DOMAIN results, OpenAccept(u, i) PROVE TypeOK'
    <3>1. i \in Nat
      BY DEF TypeOK
    <3>2. reviewer' \in [Reviewers -> Review]
      BY <2>3, <3>1 DEF OpenAccept, TypeOK, Review
    <3> QED BY <2>3, <3>2 DEF OpenAccept, TypeOK, At, JobOf
  <2>4. ASSUME AcceptResult(u) PROVE TypeOK'
    <3> DEFINE i == reviewer[u].result
    <3>1. reviewer' \in [Reviewers -> Review]
      BY <2>4 DEF AcceptResult, TypeOK, Review, NoReview
    <3>2. i \in DOMAIN results /\ results[i] \in Result
      BY <2>4, ElementOfSeq DEF AcceptResult, CanLink, ResultExists, TypeOK
    <3>3. [results[i] EXCEPT !.decision = "ACCEPTED"] \in Result
      BY <3>2 DEF Result
    <3>4. results' = [results EXCEPT ![i] = [results[i] EXCEPT !.decision = "ACCEPTED"]]
      BY <2>4 DEF AcceptResult
    <3>5. results' \in Seq(Result \cup {None})
      BY <3>2, <3>3, <3>4 DEF TypeOK
    <3>6. products' \in Seq(Nat \cup {None})
      BY <2>4, <3>2 DEF AcceptResult, TypeOK
    <3> QED BY <2>4, <3>1, <3>5, <3>6 DEF AcceptResult, TypeOK, At, JobOf, NoReview
  <2>5. ASSUME ReviewRefused(u) PROVE TypeOK'
    <3>1. reviewer' \in [Reviewers -> Review]
      BY <2>5 DEF ReviewRefused, TypeOK, Review, NoReview
    <3> QED BY <2>5, <3>1 DEF ReviewRefused, TypeOK, At, JobOf, NoReview
  <2> QED BY <1>14, <2>1, <2>2, <2>3, <2>4, <2>5 DEF ReviewerStep
<1>15. CASE UNCHANGED vars
  BY <1>15 DEF vars, TypeOK, At, JobOf
<1> QED
  BY <1>1, <1>2, <1>3, <1>4, <1>5, <1>6, <1>7, <1>8, <1>9, <1>10, <1>11, <1>12, <1>13, <1>14,
     <1>15 DEF Next, WorkerStep

-----------------------------------------------------------------------------
(***************************************************************************)
(* The review desk.  AcceptedOnce and NothingOrphaned are inductive next to *)
(* the types: what the foreign keys and the unique link enforce at each     *)
(* insert is enough, although a worker and a reviewer act on what they read *)
(* one transaction earlier.                                                 *)
(***************************************************************************)
DeskInv == TypeOK /\ AcceptedOnce /\ NothingOrphaned

\* The part of DeskInv that most steps leave alone.
LEMMA DeskUntouched ==
  ASSUME DeskInv, TypeOK', UNCHANGED <<results, products, frames>>,
         \A j \in Jobs : Exists(j) => row'[j] # None
  PROVE  DeskInv'
<1>1. AcceptedOnce'
  BY DEF DeskInv, AcceptedOnce, ResultExists, ProductsOf
<1>2. NothingOrphaned'
  <2>1. \A i \in DOMAIN results : ResultExists(i) => results[i].job \in Jobs
    BY DEF DeskInv, TypeOK, ResultExists, Result
  <2> QED BY <2>1 DEF DeskInv, NothingOrphaned, ResultExists, Exists
<1> QED BY <1>1, <1>2 DEF DeskInv

\* Results are only added, to jobs that exist, and none of them is accepted.
LEMMA DeskGrows ==
  ASSUME DeskInv, TypeOK', UNCHANGED <<products, frames>>,
         \A j \in Jobs : Exists(j) => row'[j] # None,
         NEW j \in Jobs, row'[j] # None,
         NEW new \in Seq(Result), results' = results \o new,
         \A n \in DOMAIN new : new[n].job = j /\ new[n].decision = "PENDING"
  PROVE  DeskInv'
<1>1. /\ Len(results') = Len(results) + Len(new)
      /\ DOMAIN results' = 1 .. Len(results) + Len(new)
      /\ \A i \in 1 .. Len(results) : results'[i] = results[i]
      /\ \A i \in Len(results) + 1 .. Len(results) + Len(new) :
           i - Len(results) \in DOMAIN new /\ results'[i] = new[i - Len(results)]
  BY DEF DeskInv, TypeOK
<1>2. DOMAIN results = 1 .. Len(results) /\ Len(results) \in Nat /\ Len(new) \in Nat
  BY DEF DeskInv, TypeOK
<1>3. \A p \in DOMAIN products : products[p] # None => products[p] \in 1 .. Len(results)
  BY <1>2 DEF DeskInv, AcceptedOnce, ResultExists
<1>4. AcceptedOnce'
  <2>1. ASSUME NEW i \in DOMAIN results', results'[i] # None
        PROVE  (results'[i].decision = "ACCEPTED") = (ProductsOf(i)' # {})
    <3>1. CASE i \in 1 .. Len(results)
      BY <3>1, <2>1, <1>1, <1>2 DEF DeskInv, AcceptedOnce, ResultExists, ProductsOf
    <3>2. CASE i \notin 1 .. Len(results)
      <4>1. i \in Len(results) + 1 .. Len(results) + Len(new)
        BY <3>2, <1>1, <1>2
      <4>2. results'[i].decision = "PENDING"
        BY <4>1, <1>1
      <4>3. i # None
        BY <4>1, <1>2, ExtractionAssumption
      <4>4. ProductsOf(i)' = {}
        BY <3>2, <4>3, <1>3 DEF ProductsOf
      <4> QED BY <4>2, <4>4
    <3> QED BY <3>1, <3>2
  <2>2. \A p \in DOMAIN products' : products'[p] # None => ResultExists(products[p])'
    <3> SUFFICES ASSUME NEW p \in DOMAIN products, products[p] # None
                 PROVE  products[p] \in DOMAIN results' /\ results'[products[p]] # None
      BY DEF ResultExists
    <3>1. products[p] \in 1 .. Len(results) /\ results[products[p]] # None
      BY <1>3 DEF DeskInv, AcceptedOnce, ResultExists
    <3> QED BY <3>1, <1>1, <1>2
  <2> QED BY <2>1, <2>2 DEF DeskInv, AcceptedOnce, ResultExists
<1>5. NothingOrphaned'
  <2>1. ASSUME NEW i \in DOMAIN results', results'[i] # None
        PROVE  row'[results'[i].job] # None
    <3>1. CASE i \in 1 .. Len(results)
      <4>1. results'[i] = results[i] /\ results[i] \in Result
        BY <3>1, <2>1, <1>1, <1>2 DEF DeskInv, TypeOK
      <4> QED BY <3>1, <4>1, <2>1, <1>2 DEF DeskInv, NothingOrphaned, ResultExists, Result, Exists
    <3>2. CASE i \notin 1 .. Len(results)
      <4>1. i \in Len(results) + 1 .. Len(results) + Len(new)
        BY <3>2, <1>1, <1>2
      <4> QED BY <4>1, <1>1
    <3> QED BY <3>1, <3>2
  <2> QED BY <2>1 DEF DeskInv, NothingOrphaned, ResultExists, Exists
<1> QED BY <1>4, <1>5 DEF DeskInv

\* Deleting a job takes its results along and resets the links to them.
LEMMA DeskAfterRemoval ==
  ASSUME DeskInv, TypeOK', NEW j \in Jobs, RemoveJob(j)
  PROVE  DeskInv'
<1>1. /\ DOMAIN results' = DOMAIN results
      /\ DOMAIN products' = DOMAIN products
      /\ \A i \in DOMAIN results : results'[i] = IF i \in ResultsOf(j) THEN None ELSE results[i]
      /\ \A p \in DOMAIN products :
           products'[p] = IF products[p] \in ResultsOf(j) THEN None ELSE products[p]
  BY DEF RemoveJob, Cascade, Unlinked
<1>2. \A i \in DOMAIN results : results'[i] # None =>
        /\ i \notin ResultsOf(j)
        /\ results'[i] = results[i]
        /\ results[i] \in Result
        /\ results[i].job # j
  BY <1>1 DEF ResultsOf, ResultExists, DeskInv, TypeOK
<1>3. AcceptedOnce'
  <2>1. ASSUME NEW p \in DOMAIN products', NEW q \in DOMAIN products',
               products'[p] = products'[q], products'[p] # None
        PROVE  p = q
    BY <2>1, <1>1 DEF DeskInv, AcceptedOnce
  <2>2. ASSUME NEW i \in DOMAIN results', results'[i] # None
        PROVE  (results'[i].decision = "ACCEPTED") = (ProductsOf(i)' # {})
    <3>1. i \in DOMAIN results /\ i \notin ResultsOf(j) /\ results[i] = results'[i]
      BY <2>2, <1>1, <1>2
    <3>2. i # None
      BY <3>1, ExtractionAssumption DEF DeskInv, TypeOK
    <3>3. ProductsOf(i)' = ProductsOf(i)
      BY <1>1, <3>1, <3>2 DEF ProductsOf
    <3> QED BY <2>2, <3>1, <3>3 DEF DeskInv, AcceptedOnce, ResultExists
  <2>3. ASSUME NEW p \in DOMAIN products', products'[p] # None
        PROVE  ResultExists(products[p])' /\ products'[p] = products[p]
    <3>1. products'[p] = products[p] /\ products[p] \notin ResultsOf(j)
      BY <2>3, <1>1
    <3>2. products[p] \in DOMAIN results /\ results[products[p]] # None
      BY <2>3, <3>1, <1>1 DEF DeskInv, AcceptedOnce, ResultExists
    <3> QED BY <3>1, <3>2, <1>1 DEF ResultExists
  <2> QED BY <2>1, <2>2, <2>3 DEF AcceptedOnce, ResultExists
<1>4. NothingOrphaned'
  <2>1. \A k \in Jobs : frames'[k] > 0 => Exists(k)'
    BY DEF RemoveJob, DeskInv, NothingOrphaned, Exists, TypeOK
  <2>2. \A i \in DOMAIN results' : results'[i] # None => row'[results'[i].job] # None
    BY <1>1, <1>2 DEF RemoveJob, DeskInv, NothingOrphaned, ResultExists, Exists, Result, TypeOK
  <2> QED BY <2>1, <2>2 DEF NothingOrphaned, ResultExists, Exists
<1> QED BY <1>3, <1>4 DEF DeskInv

\* Accepting a result links one product to it and marks it.
LEMMA DeskAfterAccept ==
  ASSUME DeskInv, TypeOK', NEW u \in Reviewers, AcceptResult(u)
  PROVE  DeskInv'
<1> DEFINE k == reviewer[u].result
           N == Len(products)
<1>1. /\ k \in DOMAIN results /\ results[k] \in Result /\ k \in Nat /\ k # None
      /\ \A p \in DOMAIN products : products[p] # k
  BY ExtractionAssumption DEF AcceptResult, CanLink, ResultExists, ProductsOf, DeskInv, TypeOK
<1>2. /\ N \in Nat /\ DOMAIN products = 1 .. N /\ DOMAIN products' = 1 .. N + 1
      /\ products'[N + 1] = k
      /\ \A p \in 1 .. N : products'[p] = products[p]
  BY <1>1 DEF AcceptResult, DeskInv, TypeOK
<1>3. /\ DOMAIN results' = DOMAIN results
      /\ \A i \in DOMAIN results \ {k} : results'[i] = results[i]
      /\ results'[k] = [results[k] EXCEPT !.decision = "ACCEPTED"]
  BY <1>1 DEF AcceptResult
<1>4. results'[k] # None /\ results'[k].decision = "ACCEPTED" /\ results'[k].job = results[k].job
  BY <1>1, <1>3, ExtractionAssumption DEF Result
<1>5. AcceptedOnce'
  <2>1. \A p, q \in 1 .. N + 1 : products'[p] = products'[q] /\ products'[p] # None => p = q
    BY <1>1, <1>2 DEF DeskInv, AcceptedOnce
  <2>2. ASSUME NEW i \in DOMAIN results', results'[i] # None
        PROVE  (results'[i].decision = "ACCEPTED") = (ProductsOf(i)' # {})
    <3>1. CASE i = k
      <4>1. N + 1 \in ProductsOf(i)'
        BY <3>1, <1>2 DEF ProductsOf
      <4> QED BY <4>1, <3>1, <1>4
    <3>2. CASE i # k
      <4>1. ProductsOf(i)' = ProductsOf(i)
        BY <3>2, <1>2 DEF ProductsOf
      <4> QED BY <4>1, <3>2, <2>2, <1>3 DEF DeskInv, AcceptedOnce, ResultExists
    <3> QED BY <3>1, <3>2
  <2>3. ASSUME NEW p \in 1 .. N + 1, products'[p] # None
        PROVE  products'[p] \in DOMAIN results /\ results'[products'[p]] # None
    <3>1. CASE p = N + 1
      BY <3>1, <1>1, <1>2, <1>4
    <3>2. CASE p # N + 1
      <4>1. p \in 1 .. N /\ products'[p] = products[p]
        BY <3>2, <1>2
      <4> QED BY <4>1, <2>3, <1>2, <1>3, <1>4 DEF DeskInv, AcceptedOnce, ResultExists
    <3> QED BY <3>1, <3>2
  <2> QED BY <2>1, <2>2, <2>3, <1>2, <1>3 DEF AcceptedOnce, ResultExists
<1>6. NothingOrphaned'
  <2>1. \A i \in DOMAIN results' : results'[i] # None =>
          results[i] # None /\ results'[i].job = results[i].job
    BY <1>1, <1>3, <1>4, ExtractionAssumption
  <2> QED BY <2>1, <1>3 DEF AcceptResult, DeskInv, NothingOrphaned, ResultExists, Exists
<1> QED BY <1>5, <1>6 DEF DeskInv

LEMMA DeskInductive == DeskInv /\ [Next]_vars => DeskInv'
<1> SUFFICES ASSUME DeskInv, [Next]_vars PROVE DeskInv'
  OBVIOUS
<1> USE ExtractionAssumption
<1>0. TypeOK /\ TypeOK'
  BY TypeInductive DEF DeskInv
<1>1. ASSUME NEW j \in Jobs, CreateJob(j) \/ EnqueueJob(j) \/ CreateInterrupted(j) PROVE DeskInv'
  <2>1. UNCHANGED <<results, products, frames>> /\ \A k \in Jobs : Exists(k) => row'[k] # None
    <3> DEFINE r == [status |-> "QUEUED", framesExtracted |-> 0, productsFound |-> 0, note |-> FALSE]
    <3>1. r \in JobRow
      BY DEF JobRow, JobStatus
    <3>2. CASE CreateJob(j)
      <4>1. row' = [row EXCEPT ![j] = r] /\ r # None
        BY <3>1, <3>2 DEF CreateJob
      <4> QED BY <1>0, <3>2, <4>1 DEF CreateJob, Exists, TypeOK
    <3>3. CASE EnqueueJob(j) \/ CreateInterrupted(j)
      BY <3>3 DEF EnqueueJob, CreateInterrupted, Exists
    <3> QED BY <1>1, <3>2, <3>3
  <2> QED BY <1>0, <2>1, DeskUntouched
<1>2. ASSUME NEW j \in Jobs, RemoveJob(j) PROVE DeskInv'
  BY <1>0, <1>2, DeskAfterRemoval
<1>3. ASSUME NEW w \in Workers, WorkerStep(w) PROVE DeskInv'
  <2>1. ASSUME NEW j \in Jobs, StartAttempt(w, j) PROVE DeskInv'
    BY <1>0, <2>1, DeskUntouched DEF StartAttempt, Exists
  <2>2. CASE ReadJob(w)
    BY <1>0, <2>2, DeskUntouched DEF ReadJob, Exists
  <2>3. CASE ClaimJob(w)
    <3>1. JobOf(w) \in Jobs /\ row'[JobOf(w)] \in JobRow
      <4>1. JobOf(w) \in Jobs /\ row[JobOf(w)] \in JobRow
        BY <1>0, <2>3 DEF ClaimJob, TypeOK, At, Exists
      <4>2. [row[JobOf(w)] EXCEPT !.status = "INGESTING"] \in JobRow
        BY <4>1 DEF JobRow, JobStatus
      <4> QED BY <1>0, <2>3, <4>1, <4>2 DEF ClaimJob, TypeOK
    <3>2. \A k \in Jobs : Exists(k) => row'[k] # None
      BY <2>3, <3>1 DEF ClaimJob, Exists
    <3> QED BY <1>0, <2>3, <3>2, DeskUntouched DEF ClaimJob
  <2>4. ASSUME NEW sampled \in Sampling, SaveFrames(w, sampled) PROVE DeskInv'
    <3>1. JobOf(w) \in Jobs
      BY <1>0, <2>4 DEF SaveFrames, TypeOK, At
    <3>2. row'[JobOf(w)] # None
      <4>1. row[JobOf(w)] \in JobRow
        BY <1>0, <2>4, <3>1 DEF SaveFrames, TypeOK, Exists
      <4>2. Stored(sampled) \in Nat
        BY DEF Stored
      <4>3. [row[JobOf(w)] EXCEPT !.status = "ANALYZING", !.framesExtracted = Stored(sampled)]
              \in JobRow
        BY <4>1, <4>2 DEF JobRow, JobStatus
      <4>4. row'[JobOf(w)] =
              [row[JobOf(w)] EXCEPT !.status = "ANALYZING", !.framesExtracted = Stored(sampled)]
        BY <1>0, <2>4, <3>1 DEF SaveFrames, TypeOK
      <4> QED BY <4>3, <4>4
    <3>3. \A k \in Jobs : Exists(k) => row'[k] # None
      <4>1. \A k \in Jobs \ {JobOf(w)} : row'[k] = row[k]
        BY <1>0, <2>4 DEF SaveFrames, TypeOK
      <4> QED BY <3>2, <4>1 DEF Exists
    <3>4. \A k \in Jobs \ {JobOf(w)} : frames'[k] = frames[k] /\ row'[k] = row[k]
      BY <1>0, <2>4 DEF SaveFrames, TypeOK
    <3>5. AcceptedOnce'
      BY <2>4 DEF SaveFrames, DeskInv, AcceptedOnce, ResultExists, ProductsOf
    <3>6. \A i \in DOMAIN results : ResultExists(i) => results[i].job \in Jobs
      BY <1>0 DEF TypeOK, ResultExists, Result
    <3>7. NothingOrphaned'
      BY <2>4, <3>2, <3>3, <3>4, <3>6
      DEF SaveFrames, DeskInv, NothingOrphaned, ResultExists, Exists
    <3> QED BY <1>0, <3>5, <3>7 DEF DeskInv
  <2>5. ASSUME NEW analysis \in Analysis(attempt[w].sampled), SaveResults(w, analysis)
        PROVE DeskInv'
    <3> DEFINE j == JobOf(w)
               new == Drafts(j, analysis)
    <3>1. j \in Jobs /\ Exists(j)
      BY <1>0, <2>5 DEF SaveResults, TypeOK, At
    <3>2. analysis.count \in Nat /\ analysis.origin \in Origin
      BY AnalysisTypes
    <3>3. new \in Seq(Result) /\ \A n \in DOMAIN new : new[n].job = j /\ new[n].decision = "PENDING"
      <4> DEFINE r == [job |-> j, origin |-> analysis.origin, decision |-> "PENDING"]
      <4>1. r \in Result
        BY <3>1, <3>2 DEF Result
      <4>2. new = [n \in 1 .. analysis.count |-> r]
        BY DEF Drafts
      <4>3. new \in Seq(Result)
        BY ONLY <3>2, <4>1, <4>2
      <4> QED BY <4>2, <4>3
    <3>4. \A k \in Jobs : Exists(k) => row'[k] # None
      <4>1. row'[j] = [row[j] EXCEPT !.status = "AWAITING_REVIEW",
                         !.productsFound = analysis.count, !.note = analysis.note]
        BY <1>0, <2>5, <3>1 DEF SaveResults, TypeOK
      <4>2. row[j] \in JobRow /\ analysis.note \in BOOLEAN
        BY <1>0, <3>1, AnalysisTypes DEF TypeOK, Exists
      <4>3. row'[j] \in JobRow
        BY <4>1, <4>2, <3>2 DEF JobRow, JobStatus
      <4>4. \A k \in Jobs \ {j} : row'[k] = row[k]
        BY <1>0, <2>5 DEF SaveResults, TypeOK
      <4> QED BY <4>3, <4>4 DEF Exists
    <3>5. results' = results \o new /\ UNCHANGED <<products, frames>>
      BY <2>5 DEF SaveResults
    <3> QED BY <1>0, <3>1, <3>3, <3>4, <3>5, DeskGrows
  <2>6. CASE JobVanished(w)
    BY <1>0, <2>6, DeskUntouched DEF JobVanished, Exists
  <2>7. CASE Ack(w)
    BY <1>0, <2>7, DeskUntouched DEF Ack, Exists
  <2> QED BY <1>3, <2>1, <2>2, <2>3, <2>4, <2>5, <2>6, <2>7 DEF WorkerStep
<1>4. ASSUME NEW w \in Workers, AttemptFails(w) \/ JobStalls(w) PROVE DeskInv'
  BY <1>0, <1>4, DeskUntouched DEF AttemptFails, JobStalls, Exists
<1>5. ASSUME NEW u \in Reviewers, ReviewerStep(u) PROVE DeskInv'
  <2>1. ASSUME NEW j \in Jobs, OpenBarcode(u, j) PROVE DeskInv'
    BY <1>0, <2>1, DeskUntouched DEF OpenBarcode, Exists
  <2>2. CASE AddBarcodeResult(u)
    <3> DEFINE j == reviewer[u].job
               r == [job |-> j, origin |-> "barcode", decision |-> "PENDING"]
    <3>1. j \in Jobs /\ Exists(j)
      BY <1>0, <2>2 DEF AddBarcodeResult, TypeOK
    <3>2. r \in Result
      BY <3>1 DEF Result, Origin
    <3>3. results' = results \o <<r>>
      <4>1. results \in Seq(Result \cup {None}) /\ r \in Result \cup {None}
        BY <1>0, <3>2 DEF TypeOK
      <4>2. Append(results, r) = results \o <<r>>
        BY <4>1, AppendIsConcat
      <4> QED BY <2>2, <4>2 DEF AddBarcodeResult
    <3>4. <<r>> \in Seq(Result) /\ \A n \in DOMAIN <<r>> :
            <<r>>[n].job = j /\ <<r>>[n].decision = "PENDING"
      BY <3>2
    <3>5. UNCHANGED <<products, frames>> /\ \A k \in Jobs : Exists(k) => row'[k] # None
      BY <2>2 DEF AddBarcodeResult, Exists
    <3> QED BY <1>0, <3>1, <3>3, <3>4, <3>5, DeskGrows DEF Exists
  <2>3. ASSUME NEW i \in DOMAIN results, OpenAccept(u, i) PROVE DeskInv'
    BY <1>0, <2>3, DeskUntouched DEF OpenAccept, Exists
  <2>4. CASE AcceptResult(u)
    BY <1>0, <2>4, DeskAfterAccept
  <2>5. CASE ReviewRefused(u)
    BY <1>0, <2>5, DeskUntouched DEF ReviewRefused, Exists
  <2> QED BY <1>5, <2>1, <2>2, <2>3, <2>4, <2>5 DEF ReviewerStep
<1>6. CASE UNCHANGED vars
  BY <1>0, <1>6, DeskUntouched DEF vars, Exists
<1> QED BY <1>1, <1>2, <1>3, <1>4, <1>5, <1>6 DEF Next

LEMMA InitDesk == Init => DeskInv
BY InitTypes DEF Init, DeskInv, AcceptedOnce, NothingOrphaned, ResultExists

\* Whatever fails, stalls or is deleted, each accepted result has its one
\* product and no frame, result or link is left without its job.
THEOREM ReviewDeskCorrect == Spec => [](TypeOK /\ AcceptedOnce /\ NothingOrphaned)
<1>1. Init => DeskInv
  BY InitDesk
<1>2. DeskInv /\ [Next]_vars => DeskInv'
  BY DeskInductive
<1>3. DeskInv => TypeOK /\ AcceptedOnce /\ NothingOrphaned
  BY DEF DeskInv
<1> QED BY <1>1, <1>2, <1>3, PTL DEF Spec

-----------------------------------------------------------------------------
(***************************************************************************)
(* Without stalls a job has one attempt at a time: the attempt that runs    *)
(* owns the queue's job.  Then the check in tx1 still holds when tx2 and    *)
(* tx3 commit, which is what keeps a review final.                          *)
(***************************************************************************)
ClaimInv ==
  /\ \A w \in Workers : ~At(w, "idle") => Owns(w)
  /\ \A w \in Workers : attempt[w].pc \in {"claim", "sample", "analyze"} /\ Exists(JobOf(w)) =>
       row[JobOf(w)].status # "AWAITING_REVIEW"
  /\ \A j \in Jobs : request[j] # "answered" => queue[j].status = "none"
  /\ \A j \in Jobs : request[j] = "none" => ~Exists(j)

\* Of two attempts of one job, one is over.
LEMMA OneAttempt ==
  ASSUME ClaimInv, NEW v \in Workers, NEW w \in Workers, ~At(v, "idle"), ~At(w, "idle"),
         JobOf(v) = JobOf(w)
  PROVE  v = w
BY DEF ClaimInv, Owns

\* A step of the attempt of w that rewrites only its own job.
LEMMA ClaimStep ==
  ASSUME TypeOK, ClaimInv, NEW w \in Workers, ~At(w, "idle"),
         NEW pc \in {"claim", "sample", "analyze", "ack"},
         attempt' \in [Workers -> Attempt],
         attempt'[w].pc = pc, attempt'[w].job = JobOf(w),
         \A v \in Workers \ {w} : attempt'[v] = attempt[v],
         UNCHANGED <<queue, request>>,
         \A k \in Jobs \ {JobOf(w)} : row'[k] = row[k],
         Exists(JobOf(w))' => Exists(JobOf(w)),
         Exists(JobOf(w))' /\ pc # "ack" => row'[JobOf(w)].status # "AWAITING_REVIEW"
  PROVE  ClaimInv'
<1>0. JobOf(w) \in Jobs
  BY DEF TypeOK
<1>1. ASSUME NEW v \in Workers, attempt'[v].pc # "idle"
      PROVE  /\ attempt[v].pc # "idle"
             /\ attempt'[v].job = attempt[v].job
             /\ queue'[attempt'[v].job].status = "active" /\ queue'[attempt'[v].job].owner = v
  BY <1>1 DEF ClaimInv, Owns, At, JobOf
<1>2. ASSUME NEW v \in Workers, attempt'[v].pc \in {"claim", "sample", "analyze"},
             row'[attempt'[v].job] # None
      PROVE  row'[attempt'[v].job].status # "AWAITING_REVIEW"
  <2>1. CASE v = w
    BY <2>1, <1>2 DEF Exists, JobOf
  <2>2. CASE v # w
    <3>1. attempt[v] = attempt'[v] /\ JobOf(v) \in Jobs /\ ~At(v, "idle")
      BY <2>2, <1>2 DEF TypeOK, At, JobOf
    <3>2. JobOf(v) # JobOf(w)
      BY <2>2, <3>1, OneAttempt
    <3> QED BY <3>1, <3>2, <1>2 DEF ClaimInv, Exists, JobOf
  <2> QED BY <2>1, <2>2
<1>3. ASSUME NEW j \in Jobs, request'[j] = "none" PROVE row'[j] = None
  <2>1. row[j] = None
    BY <1>3 DEF ClaimInv, Exists
  <2>2. CASE j = JobOf(w)
    BY <2>1, <2>2 DEF Exists, JobOf
  <2>3. CASE j # JobOf(w)
    BY <2>1, <2>3
  <2> QED BY <2>2, <2>3
<1> QED BY <1>1, <1>2, <1>3 DEF ClaimInv, At, Owns, JobOf, Exists

\* A step of the attempt of w that ends it.
LEMMA ClaimEnd ==
  ASSUME TypeOK, ClaimInv, NEW w \in Workers, ~At(w, "idle"),
         attempt' = [attempt EXCEPT ![w] = Idle],
         \A k \in Jobs \ {JobOf(w)} : queue'[k] = queue[k],
         UNCHANGED <<row, request>>
  PROVE  ClaimInv'
<1>1. ASSUME NEW v \in Workers, attempt'[v].pc # "idle"
      PROVE  /\ v # w /\ attempt'[v] = attempt[v] /\ attempt[v].job \in Jobs
             /\ attempt[v].job # JobOf(w)
             /\ queue'[attempt'[v].job].status = "active" /\ queue'[attempt'[v].job].owner = v
  <2>1. v # w /\ attempt'[v] = attempt[v] /\ ~At(v, "idle") /\ attempt[v].job \in Jobs
    BY <1>1 DEF TypeOK, Idle, At, JobOf
  <2>2. attempt[v].job # JobOf(w)
    BY <2>1, OneAttempt DEF JobOf
  <2> QED BY <2>1, <2>2 DEF ClaimInv, Owns, JobOf
<1>2. JobOf(w) \in Jobs /\ request[JobOf(w)] = "answered"
  BY DEF TypeOK, ClaimInv, Owns
<1>3. \A v \in Workers : attempt'[v].pc \in {"claim", "sample", "analyze"} => attempt'[v].pc # "idle"
  OBVIOUS
<1> QED BY <1>1, <1>2, <1>3 DEF ClaimInv, At, Owns, JobOf, Exists

LEMMA ClaimInductive ==
  ASSUME Unstalled', TypeOK, TypeOK', ClaimInv, [Next]_vars
  PROVE  ClaimInv'
<1>1. ASSUME NEW j \in Jobs, CreateJob(j) PROVE ClaimInv'
  <2>1. row' = [row EXCEPT ![j] = row'[j]] /\ request[j] = "none" /\ request'[j] = "inserted"
    BY <1>1 DEF CreateJob, TypeOK
  <2>2. \A w \in Workers : ~At(w, "idle") => JobOf(w) # j /\ JobOf(w) \in Jobs
    BY <2>1 DEF ClaimInv, Owns, TypeOK
  <2>3. \A k \in Jobs \ {j} : row'[k] = row[k] /\ request'[k] = request[k]
    BY <1>1 DEF CreateJob, TypeOK
  <2> QED BY <1>1, <2>1, <2>2, <2>3 DEF CreateJob, ClaimInv, At, Owns, JobOf, Exists
<1>2. ASSUME NEW j \in Jobs, EnqueueJob(j) PROVE ClaimInv'
  <2>1. \A k \in Jobs \ {j} : queue'[k] = queue[k] /\ request'[k] = request[k]
    BY <1>2 DEF EnqueueJob, TypeOK
  <2>2. request'[j] = "answered"
    BY <1>2 DEF EnqueueJob, TypeOK
  <2>3. \A w \in Workers : ~At(w, "idle") => JobOf(w) # j /\ JobOf(w) \in Jobs
    BY <1>2 DEF EnqueueJob, ClaimInv, Owns, TypeOK
  <2> QED BY <1>2, <2>1, <2>2, <2>3 DEF EnqueueJob, ClaimInv, At, Owns, JobOf, Exists
<1>3. ASSUME NEW j \in Jobs, CreateInterrupted(j) PROVE ClaimInv'
  <2>1. \A k \in Jobs : request'[k] = IF k = j THEN "lost" ELSE request[k]
    BY <1>3 DEF CreateInterrupted, TypeOK
  <2> QED BY <1>3, <2>1 DEF CreateInterrupted, ClaimInv, At, Owns, JobOf, Exists
<1>4. ASSUME NEW j \in Jobs, RemoveJob(j) PROVE ClaimInv'
  <2>1. \A k \in Jobs : row'[k] = IF k = j THEN None ELSE row[k]
    BY <1>4 DEF RemoveJob, TypeOK
  <2>2. \A w \in Workers : ~At(w, "idle") => JobOf(w) \in Jobs
    BY DEF TypeOK
  <2> QED BY <1>4, <2>1, <2>2 DEF RemoveJob, ClaimInv, At, Owns, JobOf, Exists
<1>5. ASSUME NEW w \in Workers, NEW j \in Jobs, StartAttempt(w, j) PROVE ClaimInv'
  <2>1. /\ attempt'[w].pc = "read" /\ attempt'[w].job = j
        /\ \A v \in Workers \ {w} : attempt'[v] = attempt[v]
        /\ queue'[j].status = "active" /\ queue'[j].owner = w
        /\ \A k \in Jobs \ {j} : queue'[k] = queue[k]
    BY <1>5 DEF StartAttempt, TypeOK
  <2>2. \A v \in Workers : ~At(v, "idle") => JobOf(v) # j /\ JobOf(v) \in Jobs
    BY <1>5 DEF StartAttempt, ClaimInv, Owns, TypeOK
  <2>3. request[j] = "answered"
    BY <1>5 DEF StartAttempt, ClaimInv
  <2> QED BY <1>5, <2>1, <2>2, <2>3 DEF StartAttempt, ClaimInv, At, Owns, JobOf, Exists
<1>6. ASSUME NEW w \in Workers, ReadJob(w) PROVE ClaimInv'
  <2> DEFINE pc == IF ~Exists(JobOf(w)) \/ AlreadyProcessed(JobOf(w)) THEN "ack" ELSE "claim"
  <2>1. attempt[w] \in Attempt
    BY DEF TypeOK
  <2>2. /\ ~At(w, "idle")
        /\ pc \in {"claim", "sample", "analyze", "ack"}
        /\ attempt'[w].pc = pc /\ attempt'[w].job = JobOf(w)
        /\ \A v \in Workers \ {w} : attempt'[v] = attempt[v]
        /\ UNCHANGED <<queue, request, row>>
    BY <1>6, <2>1 DEF ReadJob, Continue, At, JobOf, TypeOK, Attempt
  <2>3. Exists(JobOf(w))' /\ pc # "ack" => row'[JobOf(w)].status # "AWAITING_REVIEW"
    BY <2>2 DEF AlreadyProcessed, Exists, JobOf
  <2>4. Exists(JobOf(w))' => Exists(JobOf(w))
    BY <2>2 DEF Exists, JobOf
  <2>5. attempt' \in [Workers -> Attempt]
    BY DEF TypeOK
  <2> QED BY <2>2, <2>3, <2>4, <2>5, ClaimStep
<1>7. ASSUME NEW w \in Workers, ClaimJob(w) PROVE ClaimInv'
  <2>1. /\ attempt[w] \in Attempt /\ JobOf(w) \in Jobs
        /\ row[JobOf(w)] \in JobRow /\ attempt' \in [Workers -> Attempt]
    BY <1>7 DEF TypeOK, ClaimJob, Exists, At
  <2>2. /\ ~At(w, "idle")
        /\ attempt'[w].pc = "sample" /\ attempt'[w].job = JobOf(w)
        /\ \A v \in Workers \ {w} : attempt'[v] = attempt[v]
        /\ UNCHANGED <<queue, request>>
        /\ \A k \in Jobs \ {JobOf(w)} : row'[k] = row[k]
    BY <1>7, <2>1 DEF ClaimJob, Continue, At, JobOf, TypeOK, Attempt
  <2>3. row'[JobOf(w)].status = "INGESTING"
    BY <1>7, <2>1 DEF ClaimJob, TypeOK, JobRow
  <2>4. Exists(JobOf(w))
    BY <1>7 DEF ClaimJob
  <2> QED BY <2>1, <2>2, <2>3, <2>4, ClaimStep
<1>8. ASSUME NEW w \in Workers, NEW sampled \in Sampling, SaveFrames(w, sampled)
      PROVE ClaimInv'
  <2> DEFINE a == [attempt[w] EXCEPT !.pc = "analyze", !.sampled = sampled]
             r == [row[JobOf(w)] EXCEPT !.status = "ANALYZING", !.framesExtracted = Stored(sampled)]
  <2>1. /\ attempt[w] \in Attempt /\ JobOf(w) \in Jobs
        /\ row[JobOf(w)] \in JobRow /\ attempt' \in [Workers -> Attempt]
    BY <1>8 DEF TypeOK, SaveFrames, Exists, At
  <2>2. a.pc = "analyze" /\ a.job = JobOf(w)
    BY <2>1 DEF Attempt, JobOf
  <2>3. r.status = "ANALYZING"
    BY <2>1 DEF JobRow
  <2>4. attempt' = [attempt EXCEPT ![w] = a] /\ row' = [row EXCEPT ![JobOf(w)] = r]
    BY <1>8 DEF SaveFrames
  <2>5. /\ attempt'[w] = a
        /\ \A v \in Workers \ {w} : attempt'[v] = attempt[v]
        /\ row'[JobOf(w)] = r
        /\ \A k \in Jobs \ {JobOf(w)} : row'[k] = row[k]
    BY <2>1, <2>4 DEF TypeOK
  <2>6. ~At(w, "idle") /\ UNCHANGED <<queue, request>> /\ Exists(JobOf(w))
    BY <1>8 DEF SaveFrames, At
  <2> QED BY <2>1, <2>2, <2>3, <2>5, <2>6, ClaimStep
<1>9. ASSUME NEW w \in Workers, NEW analysis \in Analysis(attempt[w].sampled),
             SaveResults(w, analysis)
      PROVE ClaimInv'
  <2>1. attempt[w] \in Attempt /\ JobOf(w) \in Jobs /\ attempt' \in [Workers -> Attempt]
    BY <1>9 DEF TypeOK, SaveResults, At
  <2>2. /\ ~At(w, "idle")
        /\ attempt'[w].pc = "ack" /\ attempt'[w].job = JobOf(w)
        /\ \A v \in Workers \ {w} : attempt'[v] = attempt[v]
        /\ UNCHANGED <<queue, request>>
    BY <1>9, <2>1 DEF SaveResults, Continue, At, JobOf, TypeOK, Attempt
  <2>3. \A k \in Jobs \ {JobOf(w)} : row'[k] = row[k]
    BY <1>9, <2>1 DEF SaveResults, TypeOK
  <2>4. Exists(JobOf(w))
    BY <1>9 DEF SaveResults
  <2> QED BY <2>1, <2>2, <2>3, <2>4, ClaimStep
<1>10. ASSUME NEW w \in Workers, JobVanished(w) \/ AttemptFails(w) PROVE ClaimInv'
  <2>1. ~At(w, "idle") /\ GiveUp(w) /\ UNCHANGED <<row, request>>
    BY <1>10 DEF JobVanished, AttemptFails, At
  <2>2. attempt' = [attempt EXCEPT ![w] = Idle]
    BY <2>1 DEF GiveUp
  <2>3. \A k \in Jobs \ {JobOf(w)} : queue'[k] = queue[k]
    BY <2>1 DEF GiveUp, TypeOK
  <2> QED BY <2>1, <2>2, <2>3, ClaimEnd
<1>11. ASSUME NEW w \in Workers, Ack(w) PROVE ClaimInv'
  <2>1. ~At(w, "idle") /\ UNCHANGED <<row, request>> /\ attempt' = [attempt EXCEPT ![w] = Idle]
    BY <1>11 DEF Ack, At
  <2>2. \A k \in Jobs \ {JobOf(w)} : queue'[k] = queue[k]
    BY <1>11 DEF Ack, TypeOK
  <2> QED BY <2>1, <2>2, ClaimEnd
<1>12. ASSUME NEW w \in Workers, JobStalls(w) PROVE FALSE
  BY <1>12 DEF JobStalls, Inject, TypeOK, Unstalled
<1>13. ASSUME NEW u \in Reviewers, ReviewerStep(u) PROVE ClaimInv'
  <2>1. UNCHANGED <<row, request, queue, attempt>>
    BY <1>13 DEF ReviewerStep, OpenBarcode, AddBarcodeResult, OpenAccept, AcceptResult, ReviewRefused
  <2> QED BY <2>1 DEF ClaimInv, At, Owns, JobOf, Exists
<1>14. CASE UNCHANGED vars
  BY <1>14 DEF vars, ClaimInv, At, Owns, JobOf, Exists
<1> QED
  BY <1>1, <1>2, <1>3, <1>4, <1>5, <1>6, <1>7, <1>8, <1>9, <1>10, <1>11, <1>12, <1>13, <1>14
  DEF Next, WorkerStep

-----------------------------------------------------------------------------
(***************************************************************************)
(* The drafts.  With one attempt at a time, tx3 always finds a job without  *)
(* drafts, so that what it writes are all the drafts the job has.           *)
(***************************************************************************)
DraftInv == TypeOK /\ NothingOrphaned /\ ClaimInv /\ DraftsAgree /\ MockIsExplained

\* A step that leaves the drafts of a job and its row alone.
LEMMA DraftsUntouched ==
  ASSUME DraftInv, NEW j \in Jobs,
         PipelineResults(j)' = PipelineResults(j),
         \A i \in PipelineResults(j) : results'[i].origin = results[i].origin,
         Exists(j)' => /\ Exists(j)
                       /\ row'[j].status = "AWAITING_REVIEW" <=> row[j].status = "AWAITING_REVIEW"
                       /\ row'[j].productsFound = row[j].productsFound
                       /\ row'[j].note = row[j].note
  PROVE  Exists(j)' =>
    /\ row'[j].status = "AWAITING_REVIEW" => Cardinality(PipelineResults(j)') = row'[j].productsFound
    /\ row'[j].status # "AWAITING_REVIEW" => PipelineResults(j)' = {}
    /\ \A i \in PipelineResults(j)' : (results'[i].origin = "mock") = row'[j].note
BY DEF DraftInv, DraftsAgree, MockIsExplained

\* A job that has no row has no drafts.
LEMMA NoJobNoDrafts ==
  ASSUME DraftInv, NEW j \in Jobs, ~Exists(j)
  PROVE  PipelineResults(j) = {}
BY DEF DraftInv, NothingOrphaned, PipelineResults, ResultsOf

\* A step that does not touch the results, nor what a review shows.
LEMMA RowsMove ==
  ASSUME DraftInv, TypeOK', NothingOrphaned', ClaimInv', UNCHANGED results,
         \A j \in Jobs : row'[j] # None /\ row[j] # None =>
           /\ row'[j].status = "AWAITING_REVIEW" <=> row[j].status = "AWAITING_REVIEW"
           /\ row'[j].productsFound = row[j].productsFound
           /\ row'[j].note = row[j].note,
         \A j \in Jobs : row'[j] # None /\ row[j] = None => row'[j].status # "AWAITING_REVIEW"
  PROVE  DraftInv'
<1> SUFFICES ASSUME NEW j \in Jobs, row'[j] # None
             PROVE  /\ row'[j].status = "AWAITING_REVIEW" =>
                         Cardinality(PipelineResults(j)') = row'[j].productsFound
                    /\ row'[j].status # "AWAITING_REVIEW" => PipelineResults(j)' = {}
                    /\ \A i \in PipelineResults(j)' : (results'[i].origin = "mock") = row'[j].note
  BY DEF DraftInv, DraftsAgree, MockIsExplained, Exists
<1>1. PipelineResults(j)' = PipelineResults(j)
  BY DEF PipelineResults, ResultsOf, ResultExists
<1>2. CASE Exists(j)
  BY <1>1, <1>2, DraftsUntouched DEF Exists
<1>3. CASE ~Exists(j)
  BY <1>1, <1>3, NoJobNoDrafts DEF Exists
<1> QED BY <1>2, <1>3

\* tx3: a job without drafts gets all it will have.
LEMMA DraftsWritten ==
  ASSUME DraftInv, TypeOK', NothingOrphaned', ClaimInv', NEW w \in Workers,
         NEW analysis \in Analysis(attempt[w].sampled), SaveResults(w, analysis)
  PROVE  DraftInv'
<1> DEFINE j == JobOf(w)
           N == Len(results)
           r == [job |-> j, origin |-> analysis.origin, decision |-> "PENDING"]
           new == Drafts(j, analysis)
<1>1. /\ j \in Jobs /\ Exists(j) /\ row[j] \in JobRow
      /\ row[j].status # "AWAITING_REVIEW"
  BY DEF SaveResults, DraftInv, ClaimInv, TypeOK, At, Exists
<1>2. analysis.count \in Nat /\ analysis.note \in BOOLEAN /\ analysis.origin \in Origin
      /\ (analysis.origin = "mock") = analysis.note /\ analysis.origin # "barcode"
  <2>1. CASE analysis \in [origin : {"mock"}, count : {MockCount}, note : {TRUE}]
    BY <2>1, AnalysisTypes
  <2>2. CASE analysis \in [origin : {"vision"}, count : 1 .. MaxFound, note : {FALSE}]
    BY <2>2, AnalysisTypes
  <2>3. CASE attempt[w].sampled = 0
    BY <2>1, <2>3 DEF Analysis
  <2>4. CASE attempt[w].sampled # 0
    BY <2>1, <2>2, <2>4 DEF Analysis
  <2> QED BY <2>3, <2>4
<1>3. r \in Result /\ r # None
  BY <1>1, <1>2, ExtractionAssumption DEF Result
<1>4. new = [n \in 1 .. analysis.count |-> r]
  BY DEF Drafts
<1>5. /\ N \in Nat /\ DOMAIN results = 1 .. N /\ results \in Seq(Result \cup {None})
      /\ new \in Seq(Result \cup {None}) /\ Len(new) = analysis.count
  <2>1. new \in Seq(Result \cup {None})
    BY ONLY <1>2, <1>3, <1>4
  <2>2. Len(new) = analysis.count
    BY ONLY <1>2, <1>4, <2>1
  <2> QED BY <2>1, <2>2 DEF DraftInv, TypeOK
<1>6. /\ DOMAIN results' = 1 .. N + analysis.count
      /\ \A i \in 1 .. N : results'[i] = results[i]
      /\ \A i \in N + 1 .. N + analysis.count : results'[i] = r
  <2>1. results' = results \o new
    BY DEF SaveResults
  <2>2. /\ DOMAIN results' = 1 .. N + Len(new)
        /\ \A i \in 1 .. N : results'[i] = results[i]
        /\ \A i \in N + 1 .. N + Len(new) :
             i - N \in 1 .. Len(new) /\ results'[i] = new[i - N]
    BY ONLY <1>5, <2>1
  <2> QED BY ONLY <2>2, <1>4, <1>5
<1>7. row' = [row EXCEPT ![j] = [row[j] EXCEPT !.status = "AWAITING_REVIEW",
                                   !.productsFound = analysis.count, !.note = analysis.note]]
  BY DEF SaveResults
<1>8. /\ row'[j].status = "AWAITING_REVIEW"
      /\ row'[j].productsFound = analysis.count /\ row'[j].note = analysis.note
      /\ \A k \in Jobs \ {j} : row'[k] = row[k]
  <2> DEFINE nr == [row[j] EXCEPT !.status = "AWAITING_REVIEW",
                      !.productsFound = analysis.count, !.note = analysis.note]
  <2>1. nr.status = "AWAITING_REVIEW" /\ nr.productsFound = analysis.count /\ nr.note = analysis.note
    BY <1>1 DEF JobRow
  <2>2. row' = [row EXCEPT ![j] = nr]
    BY <1>7
  <2>3. row'[j] = nr /\ \A k \in Jobs \ {j} : row'[k] = row[k]
    BY <1>1, <2>2 DEF DraftInv, TypeOK
  <2> QED BY <2>1, <2>3
<1>9. PipelineResults(j) = {}
  BY <1>1 DEF DraftInv, DraftsAgree
<1>10. PipelineResults(j)' = N + 1 .. N + analysis.count
  <2>1. \A i \in DOMAIN results' : i \in 1 .. N \/ i \in N + 1 .. N + analysis.count
    BY <1>2, <1>5, <1>6
  <2>2. \A i \in N + 1 .. N + analysis.count : i \in PipelineResults(JobOf(w))'
    <3> SUFFICES ASSUME NEW i \in N + 1 .. N + analysis.count
                 PROVE  i \in PipelineResults(j)'
      OBVIOUS
    <3>1. i \in DOMAIN results' /\ results'[i] = r
      BY <1>2, <1>5, <1>6
    <3>2. JobOf(w)' = j
      BY DEF SaveResults, Continue, JobOf, DraftInv, TypeOK, Attempt
    <3> QED BY <3>1, <3>2, <1>2, <1>3 DEF PipelineResults, ResultsOf, ResultExists
  <2>3. \A i \in 1 .. N : i \notin PipelineResults(JobOf(w))'
    <3> SUFFICES ASSUME NEW i \in 1 .. N, i \in PipelineResults(j)'
                 PROVE  FALSE
      OBVIOUS
    <3>1. JobOf(w)' = j
      BY DEF SaveResults, Continue, JobOf, DraftInv, TypeOK, Attempt
    <3>2. i \in PipelineResults(j)
      BY <3>1, <1>5, <1>6 DEF PipelineResults, ResultsOf, ResultExists
    <3> QED BY <3>2, <1>9
  <2>4. \A i \in PipelineResults(JobOf(w))' : i \in DOMAIN results'
    BY DEF PipelineResults, ResultsOf, ResultExists
  <2>5. \A i : i \in PipelineResults(JobOf(w))' => i \in N + 1 .. N + analysis.count
    BY ONLY <2>1, <2>3, <2>4
  <2>6. \A i : i \in N + 1 .. N + analysis.count => i \in PipelineResults(JobOf(w))'
    BY ONLY <2>2
  <2> QED BY ONLY <2>5, <2>6
<1>11. Cardinality(N + 1 .. N + analysis.count) = analysis.count
  <2>1. /\ N + 1 \in Int /\ N + analysis.count \in Int
        /\ N + 1 > N + analysis.count <=> analysis.count = 0
        /\ (N + analysis.count) - (N + 1) + 1 = analysis.count
    BY ONLY <1>2, <1>5
  <2>2. Cardinality(N + 1 .. N + analysis.count) =
          IF N + 1 > N + analysis.count THEN 0 ELSE (N + analysis.count) - (N + 1) + 1
    BY ONLY <2>1, FS_Interval
  <2> QED BY ONLY <2>1, <2>2
<1> SUFFICES ASSUME NEW k \in Jobs, row'[k] # None
             PROVE  /\ row'[k].status = "AWAITING_REVIEW" =>
                         Cardinality(PipelineResults(k)') = row'[k].productsFound
                    /\ row'[k].status # "AWAITING_REVIEW" => PipelineResults(k)' = {}
                    /\ \A i \in PipelineResults(k)' : (results'[i].origin = "mock") = row'[k].note
  BY DEF DraftInv, DraftsAgree, MockIsExplained, Exists
<1>12. JobOf(w)' = j
  BY DEF SaveResults, Continue, JobOf, DraftInv, TypeOK, Attempt
<1>13. CASE k = j
  <2>1. PipelineResults(k)' = N + 1 .. N + analysis.count
    BY <1>10, <1>12, <1>13
  <2> QED BY <2>1, <1>13, <1>2, <1>6, <1>8, <1>11
<1>14. CASE k # j
  <2>1. \A i \in N + 1 .. N + analysis.count : results'[i].job # k
    BY <1>6, <1>14
  <2>2. PipelineResults(k)' = PipelineResults(k)
    BY <2>1, <1>2, <1>5, <1>6 DEF PipelineResults, ResultsOf, ResultExists
  <2>3. \A i \in PipelineResults(k) : results'[i] = results[i]
    BY <1>5, <1>6 DEF PipelineResults, ResultsOf, ResultExists
  <2>4. row'[k] = row[k]
    BY <1>8, <1>14
  <2> QED BY <2>2, <2>3, <2>4, DraftsUntouched DEF Exists
<1> QED BY <1>13, <1>14

\* What people do to results does not touch the drafts of a job that stays.
LEMMA DraftsReviewed ==
  ASSUME DraftInv, TypeOK', NothingOrphaned', ClaimInv', NEW u \in Reviewers, ReviewerStep(u)
  PROVE  DraftInv'
<1>1. UNCHANGED row
  BY DEF ReviewerStep, OpenBarcode, AddBarcodeResult, OpenAccept, AcceptResult, ReviewRefused
<1>2. \A j \in Jobs : /\ PipelineResults(j)' = PipelineResults(j)
                      /\ \A i \in PipelineResults(j) : results'[i].origin = results[i].origin
  <2>1. CASE AddBarcodeResult(u)
    <3> DEFINE N == Len(results)
               r == [job |-> reviewer[u].job, origin |-> "barcode", decision |-> "PENDING"]
    <3>1. results \in Seq(Result \cup {None}) /\ r \in Result \cup {None}
      BY <2>1 DEF AddBarcodeResult, DraftInv, TypeOK, Result, Origin
    <3>2. /\ N \in Nat /\ DOMAIN results = 1 .. N /\ DOMAIN results' = 1 .. N + 1
          /\ results'[N + 1] = r
          /\ \A i \in 1 .. N : results'[i] = results[i]
      BY <2>1, <3>1 DEF AddBarcodeResult
    <3> QED BY <3>2 DEF PipelineResults, ResultsOf, ResultExists
  <2>2. CASE AcceptResult(u)
    <3> DEFINE k == reviewer[u].result
    <3>1. k \in DOMAIN results /\ results[k] \in Result
      BY <2>2 DEF AcceptResult, CanLink, ResultExists, DraftInv, TypeOK
    <3>2. /\ DOMAIN results' = DOMAIN results
          /\ \A i \in DOMAIN results \ {k} : results'[i] = results[i]
          /\ results'[k] = [results[k] EXCEPT !.decision = "ACCEPTED"]
      BY <2>2, <3>1 DEF AcceptResult
    <3>3. results'[k] \in Result
      BY <3>1, <3>2 DEF Result
    <3>4. /\ results'[k] # None /\ results[k] # None
          /\ results'[k].job = results[k].job /\ results'[k].origin = results[k].origin
      BY <3>1, <3>2, <3>3, ExtractionAssumption DEF Result
    <3>5. \A i \in DOMAIN results :
            /\ results'[i] # None <=> results[i] # None
            /\ results'[i].job = results[i].job /\ results'[i].origin = results[i].origin
      BY ONLY <3>2, <3>4
    <3>6. DOMAIN results' = DOMAIN results
      BY <3>2
    <3> QED
      <4> SUFFICES ASSUME NEW j \in Jobs
                   PROVE  /\ PipelineResults(j)' = PipelineResults(j)
                          /\ \A i \in PipelineResults(j) : results'[i].origin = results[i].origin
        OBVIOUS
      <4> QED BY ONLY <3>5, <3>6 DEF PipelineResults, ResultsOf, ResultExists
  <2>3. CASE UNCHANGED results
    BY <2>3 DEF PipelineResults, ResultsOf, ResultExists
  <2> QED BY <2>1, <2>2, <2>3 DEF ReviewerStep, OpenBarcode, OpenAccept, ReviewRefused
<1> SUFFICES ASSUME NEW j \in Jobs, row'[j] # None
             PROVE  /\ row'[j].status = "AWAITING_REVIEW" =>
                         Cardinality(PipelineResults(j)') = row'[j].productsFound
                    /\ row'[j].status # "AWAITING_REVIEW" => PipelineResults(j)' = {}
                    /\ \A i \in PipelineResults(j)' : (results'[i].origin = "mock") = row'[j].note
  BY DEF DraftInv, DraftsAgree, MockIsExplained, Exists
<1> QED BY <1>1, <1>2, DraftsUntouched DEF Exists

LEMMA DraftsRemoved ==
  ASSUME DraftInv, TypeOK', NothingOrphaned', ClaimInv', NEW d \in Jobs, RemoveJob(d)
  PROVE  DraftInv'
<1>1. \A j \in Jobs : row'[j] = IF j = d THEN None ELSE row[j]
  BY DEF RemoveJob, DraftInv, TypeOK
<1>2. ASSUME NEW j \in Jobs, j # d
      PROVE  /\ PipelineResults(j)' = PipelineResults(j)
             /\ \A i \in PipelineResults(j) : results'[i].origin = results[i].origin
  BY <1>2 DEF RemoveJob, Cascade, PipelineResults, ResultsOf, ResultExists
<1> SUFFICES ASSUME NEW j \in Jobs, row'[j] # None
             PROVE  /\ row'[j].status = "AWAITING_REVIEW" =>
                         Cardinality(PipelineResults(j)') = row'[j].productsFound
                    /\ row'[j].status # "AWAITING_REVIEW" => PipelineResults(j)' = {}
                    /\ \A i \in PipelineResults(j)' : (results'[i].origin = "mock") = row'[j].note
  BY DEF DraftInv, DraftsAgree, MockIsExplained, Exists
<1>3. j # d /\ row'[j] = row[j]
  BY <1>1
<1>4. /\ PipelineResults(j)' = PipelineResults(j)
      /\ \A i \in PipelineResults(j) : results'[i].origin = results[i].origin
  BY <1>2, <1>3
<1>5. Exists(j)
  BY <1>3 DEF Exists
<1> QED BY <1>3, <1>4, <1>5, DraftsUntouched DEF Exists

LEMMA DraftInductive ==
  ASSUME Unstalled', DeskInv, DraftInv, [Next]_vars
  PROVE  DraftInv'
<1>0. TypeOK /\ TypeOK' /\ NothingOrphaned' /\ ClaimInv'
  BY TypeInductive, DeskInductive, ClaimInductive DEF DeskInv, DraftInv
<1>1. CASE UNCHANGED <<results, row>>
  BY <1>0, <1>1, RowsMove
<1>2. ASSUME NEW j \in Jobs, CreateJob(j) PROVE DraftInv'
  <2>1. row[j] = None
    BY <1>2 DEF CreateJob, DraftInv, ClaimInv, Exists
  <2>2. row'[j].status = "QUEUED" /\ \A k \in Jobs \ {j} : row'[k] = row[k]
    BY <1>0, <1>2 DEF CreateJob, TypeOK
  <2>3. UNCHANGED results
    BY <1>2 DEF CreateJob
  <2> QED BY <1>0, <2>1, <2>2, <2>3, RowsMove
<1>3. ASSUME NEW w \in Workers, ClaimJob(w) PROVE DraftInv'
  <2>1. JobOf(w) \in Jobs /\ row[JobOf(w)] \in JobRow /\ row[JobOf(w)].status # "AWAITING_REVIEW"
    BY <1>0, <1>3 DEF ClaimJob, DraftInv, ClaimInv, TypeOK, At, Exists
  <2>2. row' = [row EXCEPT ![JobOf(w)] = [row[JobOf(w)] EXCEPT !.status = "INGESTING"]]
    BY <1>3 DEF ClaimJob
  <2>3. row'[JobOf(w)] = [row[JobOf(w)] EXCEPT !.status = "INGESTING"]
        /\ \A k \in Jobs \ {JobOf(w)} : row'[k] = row[k]
    BY <1>0, <2>1, <2>2 DEF TypeOK
  <2>4. /\ row'[JobOf(w)].status = "INGESTING"
        /\ row'[JobOf(w)].productsFound = row[JobOf(w)].productsFound
        /\ row'[JobOf(w)].note = row[JobOf(w)].note
    BY <2>1, <2>3 DEF JobRow
  <2>5. UNCHANGED results
    BY <1>3 DEF ClaimJob
  <2>6. row[JobOf(w)] # None
    BY <1>3 DEF ClaimJob, Exists
  <2> QED BY <1>0, <2>1, <2>3, <2>4, <2>5, <2>6, RowsMove
<1>4. ASSUME NEW w \in Workers, NEW sampled \in Sampling, SaveFrames(w, sampled)
      PROVE DraftInv'
  <2> DEFINE r == [row[JobOf(w)] EXCEPT !.status = "ANALYZING", !.framesExtracted = Stored(sampled)]
  <2>1. JobOf(w) \in Jobs /\ row[JobOf(w)] \in JobRow /\ row[JobOf(w)].status # "AWAITING_REVIEW"
    BY <1>0, <1>4 DEF SaveFrames, DraftInv, ClaimInv, TypeOK, At, Exists
  <2>2. row' = [row EXCEPT ![JobOf(w)] = r]
    BY <1>4 DEF SaveFrames
  <2>3. row'[JobOf(w)] = r /\ \A k \in Jobs \ {JobOf(w)} : row'[k] = row[k]
    BY <1>0, <2>1, <2>2 DEF TypeOK
  <2>4. /\ r.status = "ANALYZING"
        /\ r.productsFound = row[JobOf(w)].productsFound
        /\ r.note = row[JobOf(w)].note
    BY <2>1 DEF JobRow
  <2>5. UNCHANGED results
    BY <1>4 DEF SaveFrames
  <2>6. row[JobOf(w)] # None
    BY <1>4 DEF SaveFrames, Exists
  <2> QED BY <1>0, <2>1, <2>3, <2>4, <2>5, <2>6, RowsMove
<1>5. ASSUME NEW w \in Workers, NEW analysis \in Analysis(attempt[w].sampled),
             SaveResults(w, analysis)
      PROVE DraftInv'
  BY <1>0, <1>5, DraftsWritten
<1>6. ASSUME NEW u \in Reviewers, ReviewerStep(u) PROVE DraftInv'
  BY <1>0, <1>6, DraftsReviewed
<1>7. ASSUME NEW d \in Jobs, RemoveJob(d) PROVE DraftInv'
  BY <1>0, <1>7, DraftsRemoved
<1>8. ASSUME NEW j \in Jobs, EnqueueJob(j) \/ CreateInterrupted(j) PROVE DraftInv'
  BY <1>1, <1>8 DEF EnqueueJob, CreateInterrupted
<1>9. ASSUME NEW w \in Workers,
             \/ \E j \in Jobs : StartAttempt(w, j)
             \/ ReadJob(w) \/ JobVanished(w) \/ Ack(w) \/ AttemptFails(w) \/ JobStalls(w)
      PROVE DraftInv'
  BY <1>1, <1>9 DEF StartAttempt, ReadJob, JobVanished, Ack, AttemptFails, JobStalls
<1>10. CASE UNCHANGED vars
  BY <1>1, <1>10 DEF vars
<1> QED
  BY <1>2, <1>3, <1>4, <1>5, <1>6, <1>7, <1>8, <1>9, <1>10 DEF Next, WorkerStep

\* A review that is open stays open: every step of an attempt that would move
\* the job back belongs to an attempt that read it before the review opened.
LEMMA ReviewStaysOpen ==
  ASSUME TypeOK, ClaimInv, [Next]_vars, NEW j \in Jobs,
         Exists(j), row[j].status = "AWAITING_REVIEW"
  PROVE  row'[j] = None \/ row'[j].status = "AWAITING_REVIEW"
<1>1. ASSUME NEW k \in Jobs, CreateJob(k) PROVE row'[j] = row[j]
  <2>1. j # k
    BY <1>1 DEF CreateJob, ClaimInv
  <2> QED BY <1>1, <2>1 DEF CreateJob, TypeOK
<1>2. ASSUME NEW k \in Jobs, RemoveJob(k) PROVE row'[j] = None \/ row'[j] = row[j]
  BY <1>2 DEF RemoveJob, TypeOK
<1>3. ASSUME NEW w \in Workers, ClaimJob(w) PROVE row'[j] = row[j]
  <2>1. JobOf(w) # j
    BY <1>3 DEF ClaimJob, ClaimInv, At
  <2> QED BY <1>3, <2>1 DEF ClaimJob, TypeOK
<1>4. ASSUME NEW w \in Workers, NEW sampled \in Sampling, SaveFrames(w, sampled)
      PROVE row'[j] = row[j]
  <2>1. JobOf(w) # j
    BY <1>4 DEF SaveFrames, ClaimInv, At
  <2> QED BY <1>4, <2>1 DEF SaveFrames, TypeOK
<1>5. ASSUME NEW w \in Workers, NEW analysis \in Analysis(attempt[w].sampled),
             SaveResults(w, analysis)
      PROVE row'[j] = row[j]
  <2>1. JobOf(w) # j
    BY <1>5 DEF SaveResults, ClaimInv, At
  <2> QED BY <1>5, <2>1 DEF SaveResults, TypeOK
<1>6. CASE UNCHANGED row
  BY <1>6
<1>7. ASSUME NEW u \in Reviewers, ReviewerStep(u) PROVE UNCHANGED row
  BY <1>7 DEF ReviewerStep, OpenBarcode, AddBarcodeResult, OpenAccept, AcceptResult, ReviewRefused
<1>8. ASSUME NEW w \in Workers,
             \/ \E k \in Jobs : StartAttempt(w, k)
             \/ ReadJob(w) \/ JobVanished(w) \/ Ack(w) \/ AttemptFails(w) \/ JobStalls(w)
      PROVE UNCHANGED row
  BY <1>8 DEF StartAttempt, ReadJob, JobVanished, Ack, AttemptFails, JobStalls
<1>9. ASSUME NEW k \in Jobs, EnqueueJob(k) \/ CreateInterrupted(k) PROVE UNCHANGED row
  BY <1>9 DEF EnqueueJob, CreateInterrupted
<1>10. CASE UNCHANGED vars
  BY <1>10 DEF vars
<1> QED
  BY <1>1, <1>2, <1>3, <1>4, <1>5, <1>6, <1>7, <1>8, <1>9, <1>10 DEF Next, WorkerStep

\* A lock that has expired stays counted.
LEMMA StallsAreCounted ==
  ASSUME TypeOK, [Next]_vars, Unstalled'
  PROVE  Unstalled
<1>1. CASE UNCHANGED faults
  BY <1>1 DEF Unstalled
<1>2. ASSUME NEW kind \in {"fail", "lost", "stall", "manual"}, NEW limit, Inject(kind, limit)
      PROVE Unstalled
  <2>1. faults' = [faults EXCEPT ![kind] = faults[kind] + 1] /\ faults["stall"] \in Nat
    BY <1>2 DEF Inject, TypeOK
  <2> QED BY <2>1 DEF Unstalled, TypeOK
<1> QED
  BY <1>1, <1>2
  DEF Next, vars, WorkerStep, CreateJob, EnqueueJob, CreateInterrupted, RemoveJob, StartAttempt, ReadJob,
      JobVanished, ClaimJob, SaveFrames, SaveResults, Ack, AttemptFails, JobStalls, ReviewerStep,
      OpenBarcode, AddBarcodeResult, OpenAccept, AcceptResult, ReviewRefused

AttemptsInv == DeskInv /\ (Unstalled => DraftInv)

LEMMA AttemptsHold == Spec => []AttemptsInv
<1>1. Init => AttemptsInv
  <2> SUFFICES ASSUME Init PROVE AttemptsInv
    OBVIOUS
  <2>1. DeskInv
    BY InitDesk
  <2>2. ClaimInv
    BY DEF Init, ClaimInv, At, Idle, Exists
  <2>3. DraftsAgree /\ MockIsExplained
    BY DEF Init, DraftsAgree, MockIsExplained, Exists
  <2> QED BY <2>1, <2>2, <2>3 DEF AttemptsInv, DraftInv, DeskInv
<1>2. AttemptsInv /\ [Next]_vars => AttemptsInv'
  <2> SUFFICES ASSUME AttemptsInv, [Next]_vars PROVE AttemptsInv'
    OBVIOUS
  <2>0. DeskInv /\ (Unstalled => DraftInv)
    BY DEF AttemptsInv
  <2>1. DeskInv'
    BY <2>0, DeskInductive
  <2>2. ASSUME Unstalled' PROVE DraftInv'
    <3>1. DraftInv
      BY <2>0, <2>2, StallsAreCounted DEF DeskInv
    <3> QED BY <2>0, <2>2, <3>1, DraftInductive
  <2> QED BY <2>1, <2>2 DEF AttemptsInv
<1> QED BY <1>1, <1>2, PTL DEF Spec

\* Until a job stalls, attempts may fail and be retried after any of the three
\* transactions: the drafts are those of one analysis, and sample products are
\* explained.
THEOREM RetriesAreIdempotent == Spec => []DraftsOnce
<1>1. AttemptsInv => DraftsOnce
  BY DEF AttemptsInv, DraftInv, DraftsOnce
<1> QED BY <1>1, AttemptsHold, PTL

\* A retry, or an attempt that was delivered twice, never takes a job back from
\* its reviewers.
THEOREM OpenReviewsStay == Spec => ReviewIsFinal
<1> DEFINE Kept == Unstalled' => \A j \in Jobs : Exists(j) /\ row[j].status = "AWAITING_REVIEW" =>
                     row'[j] = None \/ row'[j].status = "AWAITING_REVIEW"
<1>1. AttemptsInv /\ [Next]_vars => [Kept]_vars
  <2> SUFFICES ASSUME AttemptsInv, [Next]_vars, Unstalled' PROVE Kept
    OBVIOUS
  <2>1. DeskInv /\ DraftInv
    BY StallsAreCounted DEF AttemptsInv, DeskInv
  <2> QED BY <2>1, ReviewStaysOpen DEF DraftInv
<1> QED BY <1>1, AttemptsHold, PTL DEF Spec, ReviewIsFinal
=============================================================================
