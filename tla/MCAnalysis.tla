------------------------------ MODULE MCAnalysis ------------------------------
(***************************************************************************)
(* Constants for model-checking the analysis of a clip: strips of three     *)
(* columns and two rows, clips of two and three frames, two titles and two  *)
(* barcodes.                                                                *)
(***************************************************************************)
EXTENDS Analysis, TLC

LOCAL INSTANCE SequencesExt

CONSTANTS c1, c2

Strips == {<<2, 1, 0, 1, 1, 1>>, <<1, 1, 0, 1, 1, 1>>, <<0, 1, 2, 1, 1, 1>>}
Gray(strip) == [i \in 0..5 |-> strip[i + 1]]
Frame(at, strip, blur, shot, code) ==
  [at |-> at, hash |-> IF strip = None THEN None ELSE DHash(Gray(strip)), blur |-> blur, shot |-> shot, code |-> code]

\* Clips of n frames; the code is in one of them.
ClipsOf(n) ==
  {[i \in 1..n |-> Frame(i, strips[i], blurs[i], i, IF i = 1 THEN c1 ELSE None)] :
     strips \in [1..n -> Strips], blurs \in [1..n -> {1, 3}]}

SomeClips ==
  ClipsOf(2) \union ClipsOf(3)
  \union {<<Frame(1, <<2, 1, 0, 1, 1, 1>>, None, 1, c1), Frame(2, None, 1, 3, c2)>>}

\* Shots of a camera that moves on: each is like the next.
CloseShots == {p \in (1..3) \X (1..3) : p[1] - p[2] \in -1..1}

SomeTitles == Keys \X Forms
AllKnown == [h1 |-> [c \in {c1, c2} |-> IF c = c1 THEN <<"cola", "a">> ELSE None],
             h2 |-> [c \in {c1, c2} |-> <<"water", "b">>]]
TwoHosts == <<"h1", "h2">>

Seen == [title : SomeTitles, code : {None, c1}, confidence : {1, 3}]
Dull == [title : {<<"cola", "a">>, <<"water", "b">>}, code : {None}, confidence : {1}]
SomeSightings == {<<>>} \union {<<p>> : p \in Seen} \union {<<p, q>> : p \in Seen, q \in Dull}

-----------------------------------------------------------------------------
(* The loops of the code, which the definitions state as sets of indices.   *)

LoopDistinct(list) == FoldLeft(LAMBDA seen, x : IF x \in Range(seen) THEN seen ELSE Append(seen, x), <<>>, list)

LoopDedupe(some) ==
  LET Keep(kept, f) == IF \A k \in Range(kept) : Hamming(k.hash, f.hash) >= DedupHamming THEN Append(kept, f) ELSE kept
  IN FoldLeft(Keep, <<>>, some)

\* A map from titles to products, whose entries are then sorted.
LoopEnrich(list) ==
  LET Surer(p, q) == IF p.title[1] = q.title[1] /\ p.confidence > q.confidence THEN p ELSE q
      Add(seen, p) ==
        IF \E q \in Range(seen) : q.title[1] = p.title[1] THEN [i \in DOMAIN seen |-> Surer(p, seen[i])] ELSE Append(seen, p)
      all == FoldLeft(Add, <<>>, list)
      SureBy(c) == SelectSeq(all, LAMBDA p : p.confidence = c)
  IN SureBy(3) \o SureBy(2) \o SureBy(1) \o SureBy(0)

UpTo(n, S) == UNION {[1..m -> S] : m \in 0..n}
Some == [title : {"cola", "water", "tea"} \X {"a"}, code : {c1, c2}, confidence : 1..2]
Hashed == [hash : {{}, {1}, {1, 2}, {1, 2, 3}}]

ASSUME LoopsAgree ==
  /\ \A list \in UpTo(4, 1..3) : Distinct(list) = LoopDistinct(list)
  /\ \A some \in UpTo(4, Hashed) : DedupeByHash(some) = LoopDedupe(some)
  /\ \A list \in UpTo(3, Some) : BestFirst(list, Surest(list)) = LoopEnrich(list)
  /\ \A blurs \in UpTo(4, 0..3) \ {<<>>} : Median(blurs) = SortSeq(blurs, <)[(Len(blurs) \div 2) + 1]
==============================================================================
