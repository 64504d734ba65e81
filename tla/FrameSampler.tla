----------------------------- MODULE FrameSampler -----------------------------
(***************************************************************************)
(* Which frames of a clip are analysed: blurred ones are dropped, then ones *)
(* that look like an earlier one.  A hash is the set of its bits.           *)
(***************************************************************************)
EXTENDS Integers, Sequences, FiniteSets, Functions

CONSTANTS
  None,
  HashW, HashH,   \* columns and rows of the strip that is hashed, 9 and 8 in the code
  DedupHamming,   \* hashes closer than this are of the same picture
  MinKeep,        \* blur never leaves fewer frames than this
  Shots,          \* embeddings of frames
  SimilarShots    \* pairs of embeddings that point the same way

\* The members of S one by one, as before orders them.
InOrder(S, before) ==
  CHOOSE s \in [1..Cardinality(S) -> S] : \A m, n \in DOMAIN s : m < n => <<s[m], s[n]>> \in before

\* The members of a list at the indices in keep, in the order before or in theirs.
Arranged(list, keep, before) ==
  LET order == InOrder(keep, before) IN [n \in 1..Cardinality(keep) |-> list[order[n]]]
AtIndices(list, keep) == Arranged(list, keep, {p \in keep \X keep : p[1] < p[2]})

-----------------------------------------------------------------------------

Bits == (0..HashH - 1) \X (0..HashH - 1)

\* A bit per pair of neighbours: whether the left one is brighter.  A strip has
\* one column more than rows.
DHash(gray) == {bit \in Bits : gray[bit[1] * HashW + bit[2]] > gray[bit[1] * HashW + bit[2] + 1]}

Hamming(a, b) == Cardinality((a \ b) \union (b \ a))

\* Of 1..n, those that are like none of those kept before; alike has pairs.
UnlikeKept(n, alike) ==
  CHOOSE kept \in SUBSET (1..n) : kept = {i \in 1..n : \A k \in kept : k < i => <<k, i>> \notin alike}

\* A frame is kept if it differs from every frame kept before.
DedupeByHash(frames) ==
  LET near == {p \in (1..Len(frames)) \X (1..Len(frames)) : Hamming(frames[p[1]].hash, frames[p[2]].hash) < DedupHamming}
  IN AtIndices(frames, UnlikeKept(Len(frames), near))

\* Sharp enough: at least half as sharp as the median; else the sharpest few,
\* the earlier of two that are equally sharp.
Median(blurs) ==
  LET softer == {p \in (1..Len(blurs)) \X (1..Len(blurs)) :
                   blurs[p[1]] < blurs[p[2]] \/ (blurs[p[1]] = blurs[p[2]] /\ p[1] < p[2])}
  IN Arranged(blurs, DOMAIN blurs, softer)[(Len(blurs) \div 2) + 1]

Sharp(blurs) == {i \in DOMAIN blurs : 2 * blurs[i] >= Median(blurs)}
Sharper(blurs, i) == {j \in DOMAIN blurs : blurs[j] > blurs[i] \/ (blurs[j] = blurs[i] /\ j < i)}

SharpFrameIndices(blurs) ==
  IF Len(blurs) <= MinKeep THEN DOMAIN blurs
  ELSE IF Cardinality(Sharp(blurs)) >= MinKeep THEN Sharp(blurs)
  ELSE {i \in DOMAIN blurs : Cardinality(Sharper(blurs, i)) < MinKeep}

\* Either step needs its measure of every frame.
Measured(frames, field) == frames # <<>> /\ \A i \in DOMAIN frames : frames[i][field] # None

Unblurred(frames) ==
  IF Measured(frames, "blur") THEN AtIndices(frames, SharpFrameIndices([i \in DOMAIN frames |-> frames[i].blur]))
  ELSE frames

ExtractVideoFrames(frames) ==
  LET sharp == Unblurred(frames) IN IF Measured(sharp, "hash") THEN DedupeByHash(sharp) ELSE sharp

\* The same on shots, for which two embeddings are alike that point the same way.
SemanticDedupe(frames) ==
  LET near == {p \in (1..Len(frames)) \X (1..Len(frames)) : <<frames[p[1]].shot, frames[p[2]].shot>> \in SimilarShots}
  IN AtIndices(frames, UnlikeKept(Len(frames), near))
=============================================================================
