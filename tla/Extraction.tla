----------------------------- MODULE Extraction -----------------------------
(***************************************************************************)
(* AI product extraction.  The API creates an extraction job and enqueues   *)
(* it; ExtractionProcessor claims it, samples and stores its frames,        *)
(* analyses them and stores the draft products in three transactions with   *)
(* slow work between them; people then add results by barcode, accept       *)
(* results into DRAFT products, or delete the job at any moment.  The queue *)
(* delivers at least once: an attempt that fails is retried, and a stalled  *)
(* job is handed to a second worker while the first attempt is running.     *)
(***************************************************************************)
EXTENDS Naturals, Sequences, FiniteSets

CONSTANTS
  None,         \* the absent value
  Jobs,         \* extraction jobs
  Workers,      \* job slots, over all worker processes
  Reviewers,    \* people using the review page
  FrameCount,   \* FRAME_COUNT, the frames asked of the sampler
  MockCount,    \* products of the analyzer's mock
  MaxFound,     \* bound on the products found by one analysis
  MaxAttempts,  \* `attempts` of an extraction job
  MaxManual,    \* bound on the requests to add a result by barcode
  Faults,       \* bound on attempts that fail or die
  Lost,         \* bound on create requests that die before they enqueue
  Stalls        \* bound on jobs whose lock expires while they still run

VARIABLES
  row,       \* ExtractionJob rows
  frames,    \* number of ExtractionFrame rows of each job
  results,   \* ExtractionResult rows with their review items, by age
  products,  \* Product rows made from results, by age
  request,   \* the create request of each job
  queue,     \* the queue's job for each extraction job
  attempt,   \* what each worker is doing
  reviewer,  \* what each person is doing
  faults     \* faults injected and manual requests made so far, by kind

apiVars == <<request, reviewer>>
workVars == <<queue, attempt>>
vars == <<row, frames, results, products, request, queue, attempt, reviewer, faults>>

\* The statuses the code ever writes.
JobStatus == {"QUEUED", "INGESTING", "ANALYZING", "AWAITING_REVIEW"}
Origin == {"vision", "mock", "barcode"}
JobRow == [status : JobStatus, framesExtracted : Nat, productsFound : Nat, note : BOOLEAN]
Result == [job : Jobs, origin : Origin, decision : {"PENDING", "ACCEPTED"}]
QueueJob == [status : {"none", "waiting", "active", "completed", "failed"},
             owner : Workers \cup {None}, tries : Nat]
Attempt == [pc : {"idle", "read", "claim", "sample", "analyze", "ack"},
            job : Jobs \cup {None}, sampled : Nat]
Review == [pc : {"idle", "lookup", "accept"}, job : Jobs \cup {None}, result : Nat]

\* None is the null of every column it appears in.
ASSUME ExtractionAssumption ==
  /\ FrameCount \in Nat
  /\ MockCount \in Nat
  /\ MaxFound \in Nat
  /\ None \notin Jobs \cup JobRow \cup Result \cup Nat

Idle == [pc |-> "idle", job |-> None, sampled |-> 0]
NoReview == [pc |-> "idle", job |-> None, result |-> 0]

Exists(j) == row[j] # None
ResultExists(i) == i \in DOMAIN results /\ results[i] # None
ResultsOf(j) == {i \in DOMAIN results : ResultExists(i) /\ results[i].job = j}
ProductsOf(i) == {p \in DOMAIN products : products[p] = i}

Inject(kind, limit) ==
  /\ faults[kind] < limit
  /\ faults' = [faults EXCEPT ![kind] = @ + 1]

-----------------------------------------------------------------------------
\* create: the row is committed first, the queue job added next.
CreateJob(j) ==
  /\ request[j] = "none"
  /\ row' = [row EXCEPT ![j] = [status |-> "QUEUED", framesExtracted |-> 0,
                                productsFound |-> 0, note |-> FALSE]]
  /\ request' = [request EXCEPT ![j] = "inserted"]
  /\ UNCHANGED <<frames, results, products, workVars, reviewer, faults>>

EnqueueJob(j) ==
  /\ request[j] = "inserted"
  /\ request' = [request EXCEPT ![j] = "answered"]
  /\ queue' = [queue EXCEPT ![j].status = "waiting"]
  /\ UNCHANGED <<row, frames, results, products, attempt, reviewer, faults>>

\* The process dies, or the queue is down, between the two.
CreateInterrupted(j) ==
  /\ request[j] = "inserted"
  /\ request' = [request EXCEPT ![j] = "lost"]
  /\ Inject("lost", Lost)
  /\ UNCHANGED <<row, frames, results, products, workVars, reviewer>>

-----------------------------------------------------------------------------
JobOf(w) == attempt[w].job
At(w, pc) == attempt[w].pc = pc
Owns(w) == queue[JobOf(w)].status = "active" /\ queue[JobOf(w)].owner = w
Continue(w, pc) == attempt' = [attempt EXCEPT ![w].pc = pc]

StartAttempt(w, j) ==
  /\ At(w, "idle")
  /\ queue[j].status = "waiting"
  /\ queue' = [queue EXCEPT ![j] = [status |-> "active", owner |-> w, tries |-> @.tries + 1]]
  /\ attempt' = [attempt EXCEPT ![w] = [pc |-> "read", job |-> j, sampled |-> 0]]
  /\ UNCHANGED <<row, frames, results, products, apiVars, faults>>

\* An attempt that throws or dies: its open transaction is rolled back, and
\* the job is retried until its attempts are spent.
GiveUp(w) ==
  /\ attempt' = [attempt EXCEPT ![w] = Idle]
  /\ queue' = IF Owns(w)
              THEN [queue EXCEPT ![JobOf(w)] = [@ EXCEPT !.owner = None,
                      !.status = IF queue[JobOf(w)].tries < MaxAttempts
                                 THEN "waiting" ELSE "failed"]]
              ELSE queue

\* Mutant of AlreadyProcessed: an attempt that began is not taken up again.
ProcessedOrBegun(j) == row[j].status # "QUEUED"
\* Mutant of AlreadyProcessed: nothing is skipped.
NeverProcessed(j) == FALSE

AlreadyProcessed(j) == row[j].status = "AWAITING_REVIEW"

\* tx1 reads the job ...
ReadJob(w) ==
  /\ At(w, "read")
  /\ Continue(w, IF ~Exists(JobOf(w)) \/ AlreadyProcessed(JobOf(w)) THEN "ack" ELSE "claim")
  /\ UNCHANGED <<row, frames, results, products, queue, apiVars, faults>>

\* ... and claims it: nothing locked the row in between.
ClaimJob(w) ==
  /\ At(w, "claim")
  /\ Exists(JobOf(w))
  /\ row' = [row EXCEPT ![JobOf(w)].status = "INGESTING"]
  /\ Continue(w, "sample")
  /\ UNCHANGED <<frames, results, products, queue, apiVars, faults>>

\* What the sampler returns: up to FrameCount frames that are sharp and differ
\* from one another, or none when there is no object store, no ffmpeg or a
\* decoding error.
Sampling == 0 .. FrameCount

\* Placeholders stand in for frames that could not be sampled.
Stored(sampled) == IF sampled = 0 THEN FrameCount ELSE sampled

\* tx2 stores the frames and moves on to ANALYZING.
SaveFrames(w, sampled) ==
  /\ At(w, "sample")
  /\ Exists(JobOf(w))
  /\ frames' = [frames EXCEPT ![JobOf(w)] = @ + Stored(sampled)]
  /\ row' = [row EXCEPT ![JobOf(w)] = [@ EXCEPT !.status = "ANALYZING",
                                         !.framesExtracted = Stored(sampled)]]
  /\ attempt' = [attempt EXCEPT ![w] = [@ EXCEPT !.pc = "analyze", !.sampled = sampled]]
  /\ UNCHANGED <<results, products, queue, apiVars, faults>>

\* The analyzer's sample products, with a note that says why they are shown.
MockOutcome == [origin : {"mock"}, count : {MockCount}, note : {TRUE}]

\* Products seen by the model or looked up by barcode.
VisionOutcome == [origin : {"vision"}, count : 1 .. MaxFound, note : {FALSE}]

\* Analysis falls back to the mock whenever the model and the barcodes find
\* nothing; without frames there is nothing to find.
Analysis(sampled) == MockOutcome \cup (IF sampled = 0 THEN {} ELSE VisionOutcome)

Drafts(j, analysis) ==
  [n \in 1 .. analysis.count |->
     [job |-> j, origin |-> analysis.origin, decision |-> "PENDING"]]

\* tx3 stores the results with their review items and opens the review.
SaveResults(w, analysis) ==
  /\ At(w, "analyze")
  /\ Exists(JobOf(w))
  /\ results' = results \o Drafts(JobOf(w), analysis)
  /\ row' = [row EXCEPT ![JobOf(w)] = [@ EXCEPT !.status = "AWAITING_REVIEW",
                !.productsFound = analysis.count, !.note = analysis.note]]
  /\ Continue(w, "ack")
  /\ UNCHANGED <<frames, products, queue, apiVars, faults>>

\* The job was deleted meanwhile: the update finds no row, or the insert
\* breaks its foreign key, and the attempt throws.
JobVanished(w) ==
  /\ attempt[w].pc \in {"claim", "sample", "analyze"}
  /\ ~Exists(JobOf(w))
  /\ GiveUp(w)
  /\ UNCHANGED <<row, frames, results, products, apiVars, faults>>

Ack(w) ==
  /\ At(w, "ack")
  /\ queue' = IF Owns(w) THEN [queue EXCEPT ![JobOf(w)] = [@ EXCEPT !.status = "completed",
                                                             !.owner = None]]
                         ELSE queue
  /\ attempt' = [attempt EXCEPT ![w] = Idle]
  /\ UNCHANGED <<row, frames, results, products, apiVars, faults>>

AttemptFails(w) ==
  /\ ~At(w, "idle")
  /\ GiveUp(w)
  /\ Inject("fail", Faults)
  /\ UNCHANGED <<row, frames, results, products, apiVars>>

\* The lock of a running job expires: it goes back to the queue while the
\* attempt goes on.
JobStalls(w) ==
  /\ ~At(w, "idle")
  /\ Owns(w)
  /\ queue' = [queue EXCEPT ![JobOf(w)] = [@ EXCEPT !.status = "waiting", !.owner = None]]
  /\ Inject("stall", Stalls)
  /\ UNCHANGED <<row, frames, results, products, attempt, apiVars>>

WorkerStep(w) ==
  \/ \E j \in Jobs : StartAttempt(w, j)
  \/ ReadJob(w)
  \/ ClaimJob(w)
  \/ \E sampled \in Sampling : SaveFrames(w, sampled)
  \/ \E analysis \in Analysis(attempt[w].sampled) : SaveResults(w, analysis)
  \/ JobVanished(w)
  \/ Ack(w)

-----------------------------------------------------------------------------
\* addBarcodeResult: the job is looked up, the barcode resolved outside the
\* database, and the result inserted if the job is still there.
OpenBarcode(u, j) ==
  /\ reviewer[u].pc = "idle"
  /\ Exists(j)
  /\ Inject("manual", MaxManual)
  /\ reviewer' = [reviewer EXCEPT ![u] = [pc |-> "lookup", job |-> j, result |-> 0]]
  /\ UNCHANGED <<row, frames, results, products, request, workVars>>

AddBarcodeResult(u) ==
  /\ reviewer[u].pc = "lookup"
  /\ Exists(reviewer[u].job)
  /\ results' = Append(results, [job |-> reviewer[u].job, origin |-> "barcode",
                                 decision |-> "PENDING"])
  /\ reviewer' = [reviewer EXCEPT ![u] = NoReview]
  /\ UNCHANGED <<row, frames, products, request, workVars, faults>>

\* acceptResult reads the result and refuses one that has a product; a product
\* that was deleted still counts, as deletion only sets deletedAt.
OpenAccept(u, i) ==
  /\ reviewer[u].pc = "idle"
  /\ ResultExists(i)
  /\ ProductsOf(i) = {}
  /\ reviewer' = [reviewer EXCEPT ![u] = [pc |-> "accept", job |-> None, result |-> i]]
  /\ UNCHANGED <<row, frames, results, products, request, workVars, faults>>

\* Mutant of CanLink: `extractionResultId` is not unique.
CanLinkTwice(i) == ResultExists(i)

\* Product.extractionResultId is unique and references a result that exists.
CanLink(i) == ResultExists(i) /\ ProductsOf(i) = {}

\* The DRAFT product is created, then the review item is marked.
AcceptResult(u) ==
  LET i == reviewer[u].result IN
  /\ reviewer[u].pc = "accept"
  /\ CanLink(i)
  /\ products' = Append(products, i)
  /\ results' = [results EXCEPT ![i].decision = "ACCEPTED"]
  /\ reviewer' = [reviewer EXCEPT ![u] = NoReview]
  /\ UNCHANGED <<row, frames, request, workVars, faults>>

\* A request whose job or result vanished, or whose result was accepted by
\* someone else, is answered with an error and rolled back.
ReviewRefused(u) ==
  /\ \/ reviewer[u].pc = "lookup" /\ ~Exists(reviewer[u].job)
     \/ reviewer[u].pc = "accept" /\ ~CanLink(reviewer[u].result)
  /\ reviewer' = [reviewer EXCEPT ![u] = NoReview]
  /\ UNCHANGED <<row, frames, results, products, request, workVars, faults>>

\* ON DELETE CASCADE from the job to its results and review items.
Cascade(j) == [i \in DOMAIN results |-> IF i \in ResultsOf(j) THEN None ELSE results[i]]

\* Products of a deleted job are kept; their link is set to null.
Unlinked(j) == [p \in DOMAIN products |->
                  IF products[p] \in ResultsOf(j) THEN None ELSE products[p]]

\* remove: the row goes, and with it its frames, results and review items;
\* the queue's job stays.
RemoveJob(j) ==
  /\ Exists(j)
  /\ row' = [row EXCEPT ![j] = None]
  /\ frames' = [frames EXCEPT ![j] = 0]
  /\ results' = Cascade(j)
  /\ products' = Unlinked(j)
  /\ UNCHANGED <<request, workVars, reviewer, faults>>

ReviewerStep(u) ==
  \/ \E j \in Jobs : OpenBarcode(u, j)
  \/ AddBarcodeResult(u)
  \/ \E i \in DOMAIN results : OpenAccept(u, i)
  \/ AcceptResult(u)
  \/ ReviewRefused(u)

-----------------------------------------------------------------------------
Init ==
  /\ row = [j \in Jobs |-> None]
  /\ frames = [j \in Jobs |-> 0]
  /\ results = <<>>
  /\ products = <<>>
  /\ request = [j \in Jobs |-> "none"]
  /\ queue = [j \in Jobs |-> [status |-> "none", owner |-> None, tries |-> 0]]
  /\ attempt = [w \in Workers |-> Idle]
  /\ reviewer = [u \in Reviewers |-> NoReview]
  /\ faults = [fail |-> 0, lost |-> 0, stall |-> 0, manual |-> 0]

Next ==
  \/ \E j \in Jobs : CreateJob(j) \/ EnqueueJob(j) \/ CreateInterrupted(j) \/ RemoveJob(j)
  \/ \E w \in Workers : WorkerStep(w) \/ AttemptFails(w) \/ JobStalls(w)
  \/ \E u \in Reviewers : ReviewerStep(u)

Spec == Init /\ [][Next]_vars

TypeOK ==
  /\ row \in [Jobs -> JobRow \cup {None}]
  /\ frames \in [Jobs -> Nat]
  /\ results \in Seq(Result \cup {None})
  /\ products \in Seq(Nat \cup {None})
  /\ request \in [Jobs -> {"none", "inserted", "answered", "lost"}]
  /\ queue \in [Jobs -> QueueJob]
  /\ attempt \in [Workers -> Attempt]
  /\ \A w \in Workers : ~At(w, "idle") => JobOf(w) \in Jobs
  /\ reviewer \in [Reviewers -> Review]
  /\ \A u \in Reviewers : reviewer[u].pc = "lookup" => reviewer[u].job \in Jobs
  /\ faults \in [{"fail", "lost", "stall", "manual"} -> Nat]

-----------------------------------------------------------------------------
(***************************************************************************)
(* Safety.                                                                  *)
(***************************************************************************)

PipelineResults(j) == {i \in ResultsOf(j) : results[i].origin # "barcode"}

\* No lock has expired under a job that still ran.
Unstalled == faults.stall = 0

DraftsAgree ==
  \A j \in Jobs : Exists(j) =>
    /\ row[j].status = "AWAITING_REVIEW" => Cardinality(PipelineResults(j)) = row[j].productsFound
    /\ row[j].status # "AWAITING_REVIEW" => PipelineResults(j) = {}

MockIsExplained ==
  \A j \in Jobs : Exists(j) =>
    \A i \in PipelineResults(j) : (results[i].origin = "mock") = row[j].note

\* Until a job stalls, its drafts are exactly those one analysis found, although
\* its attempts may fail after any of the three transactions of
\* ExtractionProcessor.process and be retried; and a review that shows sample
\* products says so, one that shows products somebody detected does not.
DraftsOnce == Unstalled => DraftsAgree /\ MockIsExplained

\* However reviewers race and jobs are deleted, a result is turned into at
\* most one product, exactly the accepted ones are, and no product refers to a
\* result that is gone (ExtractionService.acceptResult and remove).
AcceptedOnce ==
  /\ \A p, q \in DOMAIN products : products[p] = products[q] /\ products[p] # None => p = q
  /\ \A i \in DOMAIN results : ResultExists(i) =>
       (results[i].decision = "ACCEPTED") = (ProductsOf(i) # {})
  /\ \A p \in DOMAIN products : products[p] # None => ResultExists(products[p])

\* Frames and results belong to a job: a worker or a reviewer that comes back
\* after the job was deleted leaves nothing behind.
NothingOrphaned ==
  /\ \A j \in Jobs : frames[j] > 0 => Exists(j)
  /\ \A i \in DOMAIN results : ResultExists(i) => Exists(results[i].job)

\* Once open for review a job never goes back into processing: "a job already
\* AWAITING_REVIEW/PUBLISHED is skipped" (ExtractionProcessor), unless a second
\* attempt runs because the first one stalled.
ReviewIsFinal ==
  [][Unstalled' => \A j \in Jobs : Exists(j) /\ row[j].status = "AWAITING_REVIEW" =>
          row'[j] = None \/ row'[j].status = "AWAITING_REVIEW"]_vars

-----------------------------------------------------------------------------
(***************************************************************************)
(* Liveness.  BullMQ and the worker keep running: a waiting job is          *)
(* eventually taken and an attempt that goes on takes its next step.        *)
(***************************************************************************)
FairSpec == Spec /\ \A w \in Workers : WF_vars(WorkerStep(w))

\* A job that reached the queue ends up in front of a reviewer or is deleted,
\* as long as fewer attempts fail than it has.
QueuedIsReviewed ==
  \A j \in Jobs : queue[j].status = "waiting" ~>
    (~Exists(j) \/ row[j].status = "AWAITING_REVIEW")
=============================================================================
