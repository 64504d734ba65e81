------------------------------- MODULE Analysis -------------------------------
(***************************************************************************)
(* What one attempt at an extraction makes of a clip: the frames it looks   *)
(* at, the barcodes and products it reads, what the product databases say,  *)
(* and the drafts that come of it.  Every source may be missing or fail.    *)
(***************************************************************************)
EXTENDS FrameSampler

CONSTANTS
  Clips,       \* the frames that ffmpeg may cut from a clip
  Keys, Forms, \* a title is <<key, form>>: its letters, and how they are spelt
  Codes,       \* barcodes
  Hosts,       \* the product databases, a sequence
  Known,       \* what they know: host -> code -> title or None
  Sightings    \* what a model may answer, sequences of products

Titles == Keys \X Forms
Products == [title : Titles, code : Codes \union {None}, confidence : 0..3]
Frames == [at : Nat, hash : {None} \union SUBSET Bits, blur : {None} \union Nat, shot : Shots,
           code : Codes \union {None}]

\* ffmpeg cuts frames at later and later times, a cosine is symmetric, and the
\* samples are of no title that is read.
ASSUME AnalysisAssumption ==
  /\ HashH \in Nat /\ DedupHamming \in Nat /\ MinKeep \in Nat
  /\ \A s, t \in Shots : <<s, t>> \in SimilarShots => <<t, s>> \in SimilarShots
  /\ Clips \subseteq Seq(Frames)
  /\ \A cut \in Clips : \A i, j \in DOMAIN cut : i < j => cut[i].at < cut[j].at
  /\ Sightings \subseteq Seq(Products)
  /\ \A i \in DOMAIN Hosts : Known[Hosts[i]] \in [Codes -> Titles \union {None}]
  /\ DOMAIN Hosts \subseteq Nat
  /\ "mock" \notin Keys
  /\ None \notin Codes /\ None \notin Products
  /\ None \notin Titles /\ None # "sample products"

VARIABLES
  stage,
  clip,        \* the frames cut from the clip
  frames,      \* the frames that are analysed
  seeds,       \* barcodes read from the frames, by ZXing and by the first model
  vision,      \* products named by the second model, if it answered
  left,        \* codes still to be looked up
  looked,      \* code -> the product a database has for it, or None
  drafts, note

vars == <<stage, clip, frames, seeds, vision, left, looked, drafts, note>>

Sure == 2      \* the confidence of a database; a model may be surer, or less
Product(title, code, confidence) == [title |-> title, code |-> code, confidence |-> confidence]
Mock == <<[title |-> <<"mock", "a">>, code |-> None, confidence |-> 3]>>

\* The first provider of the chain that is registered and implemented answers
\* or fails; no later one is asked.
Dispatch(chain, state) ==
  LET able == {i \in DOMAIN chain : state[chain[i]] \in {"works", "errs"}}
  IN IF able = {} THEN "none" ELSE state[chain[CHOOSE i \in able : \A j \in able : i <= j]]

ExtractionPrimary == <<"gemini", "anthropic", "openai">>
\* The other two are stubs; without a key of Gemini's the router is not asked.
Providers == {[gemini |-> g, anthropic |-> "stub", openai |-> "stub"] : g \in {"stub", "works", "errs"}}

\* Without repetitions, the first of each kept; without absent values.
Distinct(list) == AtIndices(list, {i \in DOMAIN list : \A j \in DOMAIN list : j < i => list[j] # list[i]})
Present(list) == AtIndices(list, {i \in DOMAIN list : list[i] # None})

SameTitle(products, i, j) == products[i].title[1] = products[j].title[1]

\* The title of i is seen before that of j.
SeenBefore(products, i, j) ==
  \E k \in DOMAIN products :
    SameTitle(products, k, i) /\ \A l \in DOMAIN products : SameTitle(products, l, j) => k < l

Preferred(products, i, j) ==
  \/ products[i].confidence > products[j].confidence
  \/ products[i].confidence = products[j].confidence /\ SeenBefore(products, i, j)

\* The surest first, else in the order in which the titles were seen.
BestFirst(products, keep) ==
  Arranged(products, keep, {p \in keep \X keep : Preferred(products, p[1], p[2])})

\* Mutant of EnrichProducts: the later of two products of a title replaces the earlier.
EnrichLatest(products) ==
  BestFirst(products, {i \in DOMAIN products : \A j \in DOMAIN products : SameTitle(products, i, j) => j <= i})

\* The surest product of each title, the earliest of those that are equally sure.
Surest(products) ==
  {i \in DOMAIN products :
     \A j \in DOMAIN products : SameTitle(products, i, j) =>
       \/ products[j].confidence < products[i].confidence
       \/ products[j].confidence = products[i].confidence /\ i <= j}

EnrichProducts(products) == BestFirst(products, Surest(products))

-----------------------------------------------------------------------------

Init ==
  /\ stage = "sampling" /\ clip \in Clips
  /\ frames = <<>> /\ seeds = <<>> /\ vision = <<>> /\ left = <<>>
  /\ looked = [c \in Codes |-> None]
  /\ drafts = <<>> /\ note = None

\* sample(): nothing without a store, a readable object or ffmpeg.
Sample ==
  /\ stage = "sampling" /\ stage' = "reading"
  /\ \E kept \in {<<>>, ExtractVideoFrames(clip)} :
       frames' \in {kept, SemanticDedupe(kept)}   \* embeddings are optional, and may fail
  /\ UNCHANGED <<clip, seeds, vision, left, looked, drafts, note>>

\* ZXing decodes the code in a frame or does not; the clip's files are gone.
Scan ==
  /\ stage = "reading" /\ stage' = "finding"
  /\ \E decoded \in SUBSET DOMAIN frames :
       seeds' = Distinct(Present([i \in DOMAIN frames |-> IF i \in decoded THEN frames[i].code ELSE None]))
  /\ clip' = <<>>
  /\ UNCHANGED <<frames, vision, left, looked, drafts, note>>

\* The first model reads digits, rightly or not; it may be off or fail.
FindBarcodes ==
  /\ stage = "finding" /\ stage' = "analysing"
  /\ \/ UNCHANGED seeds
     \/ frames # <<>> /\ \E c \in Codes : seeds' = Distinct(Append(seeds, c))
  /\ UNCHANGED <<clip, frames, vision, left, looked, drafts, note>>

\* The second model names products; nothing that can be used is an answer too.
Analyze ==
  /\ stage = "analysing" /\ stage' = "looking up"
  /\ \E state \in Providers, seen \in Sightings :
       LET answers == frames # <<>> /\ Dispatch(ExtractionPrimary, state) = "works"
           enriched == EnrichProducts(seen)
       IN /\ vision' = IF answers THEN enriched ELSE <<>>
          /\ note' = IF answers /\ enriched # <<>> THEN None ELSE "sample products"
  /\ left' = Distinct(seeds \o Present([i \in DOMAIN vision' |-> vision'[i].code]))
  /\ UNCHANGED <<clip, frames, seeds, looked, drafts>>

\* lookup(): one database after the other, until one knows the code; each may
\* fail or time out.
LookUp ==
  /\ stage = "looking up" /\ left # <<>>
  /\ LET c == Head(left)
         knows == {i \in DOMAIN Hosts : Known[Hosts[i]][c] # None}
     IN \E up \in SUBSET knows :
          looked' = [looked EXCEPT ![c] =
            IF up = {} THEN None
            ELSE LET h == CHOOSE i \in up : \A j \in up : i <= j IN Product(Known[Hosts[h]][c], c, Sure)]
  /\ left' = Tail(left)
  /\ UNCHANGED <<stage, clip, frames, seeds, vision, drafts, note>>

CodesOf(list) == {list[i].code : i \in DOMAIN list} \ {None}

\* What a database says of a code replaces what the model said of the product.
Corrected ==
  [i \in DOMAIN vision |-> IF vision[i].code # None /\ looked[vision[i].code] # None THEN looked[vision[i].code] ELSE vision[i]]

Standalone ==
  LET found == {i \in DOMAIN seeds : looked[seeds[i]] # None /\ seeds[i] \notin CodesOf(vision)}
  IN AtIndices([i \in DOMAIN seeds |-> looked[seeds[i]]], found)

RealProducts == Standalone \o Corrected

Draft ==
  /\ stage = "looking up" /\ left = <<>> /\ stage' = "done"
  /\ IF RealProducts # <<>> THEN drafts' = EnrichProducts(RealProducts) /\ note' = None
     ELSE drafts' = Mock /\ UNCHANGED note
  /\ UNCHANGED <<clip, frames, seeds, vision, left, looked>>

Stages == {"sampling", "reading", "finding", "analysing", "looking up", "done"}

TypeOK ==
  /\ stage \in Stages
  /\ clip \in Clips \union {<<>>} /\ frames \in Seq(Frames)
  /\ seeds \in Seq(Codes) /\ left \in Seq(Codes)
  /\ looked \in [Codes -> Products \union {None}]
  /\ vision \in Seq(Products) /\ drafts \in Seq(Products \union Range(Mock))
  /\ note \in {None, "sample products"}

Next == Sample \/ Scan \/ FindBarcodes \/ Analyze \/ LookUp \/ Draft
Spec == Init /\ [][Next]_vars

-----------------------------------------------------------------------------

Softer(f, g) == f.blur # None /\ g.blur # None /\ 2 * f.blur < g.blur
LooksLike(f, g) ==
  \/ f.hash # None /\ g.hash # None /\ Hamming(f.hash, g.hash) < DedupHamming
  \/ <<f.shot, g.shot>> \in SimilarShots

\* The analysed frames stand for the clip: they keep its order, no two look
\* alike, and a frame that was dropped was blurred or looks like another of the
\* clip, by its hash or as a shot.
FramesStandForTheClip ==
  stage = "reading" /\ frames # <<>> =>
    /\ \A i, j \in DOMAIN frames : i < j =>
         /\ frames[i].at < frames[j].at
         /\ Measured(clip, "hash") => Hamming(frames[i].hash, frames[j].hash) >= DedupHamming
    /\ \A f \in Range(clip) \ Range(frames) : \E g \in Range(clip) \ {f} : Softer(f, g) \/ LooksLike(f, g)

\* A draft with a code that a database knows is what the database says; there is
\* one draft per title, at least as sure as anything read of that title; and
\* samples are drafted, with the reason, exactly when nothing was read.
DraftsFollowWhatWasRead ==
  stage = "done" =>
    /\ (note # None) = (RealProducts = <<>>) /\ (note # None) = (drafts = Mock)
    /\ \A d \in Range(drafts) : d.code # None /\ looked[d.code] # None => d = looked[d.code]
    /\ \A i, j \in DOMAIN drafts : i < j =>
         drafts[i].title[1] # drafts[j].title[1] /\ drafts[i].confidence >= drafts[j].confidence
    /\ \A p \in Range(RealProducts) : \E d \in Range(drafts) : d.title[1] = p.title[1] /\ d.confidence >= p.confidence

\* However the sources fail, the drafts follow from what the others read off
\* frames that stand for the clip.
DraftsAreGrounded == FramesStandForTheClip /\ DraftsFollowWhatWasRead
=============================================================================
