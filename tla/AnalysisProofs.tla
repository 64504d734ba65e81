---------------------------- MODULE AnalysisProofs ----------------------------
(***************************************************************************)
(* What an attempt makes of a clip: the frames it analyses stand for the    *)
(* clip and its drafts follow from what was read of them, for clips, lists  *)
(* of products and databases of any size.                                   *)
(***************************************************************************)
EXTENDS Analysis, FiniteSetTheorems, SequenceTheorems, TLAPS

-----------------------------------------------------------------------------
(* Lists in order.                                                          *)

LEMMA LeastNatural ==
  ASSUME NEW S, S \subseteq Nat, S # {}
  PROVE  \E x \in S : \A y \in S : x <= y
<1> DEFINE less == OpToRel(<, Nat)
<1>1. IsWellFoundedOn(less, Nat)
  BY NatLessThanWellFounded, Zenon
<1>2. \A x, y \in Nat : <<y, x>> \in less <=> y < x
  BY DEF OpToRel
<1> HIDE DEF less
<1>3. PICK x \in S : \A y \in S : ~(<<y, x>> \in less)
  BY <1>1, WFMin, Zenon
<1>4. ASSUME NEW y \in S PROVE x <= y
  <2>1. ~(y < x)
    BY <1>2, <1>3
  <2> QED BY <2>1
<1> QED BY <1>3, <1>4

\* before is a strict total order on S.
Orders(before, S) ==
  /\ \A x \in S : <<x, x>> \notin before
  /\ \A x, y, z \in S : <<x, y>> \in before /\ <<y, z>> \in before => <<x, z>> \in before
  /\ \A x, y \in S : x = y \/ <<x, y>> \in before \/ <<y, x>> \in before

\* s goes through S as before orders it and leaves nothing out.
Enumerates(s, S, before) ==
  /\ s \in [1..Cardinality(S) -> S]
  /\ \A m, n \in 1..Cardinality(S) : m < n => <<s[m], s[n]>> \in before
  /\ \A x \in S : \E n \in 1..Cardinality(S) : s[n] = x

\* The place of a member is one more than the number of those before it.
LEMMA RankExists ==
  ASSUME NEW S, IsFiniteSet(S), NEW before, Orders(before, S)
  PROVE  \E rank \in [S -> 1..Cardinality(S)] :
           \A x, y \in S : <<x, y>> \in before => rank[x] < rank[y]
<1> DEFINE Below(x) == {y \in S : <<y, x>> \in before}
           rank == [x \in S |-> Cardinality(Below(x)) + 1]
           N == Cardinality(S)
<1>1. N \in Nat
  BY FS_CardinalityType
<1>2. ASSUME NEW x \in S
      PROVE  IsFiniteSet(Below(x)) /\ Cardinality(Below(x)) \in Nat
  <2>1. Below(x) \in SUBSET S
    OBVIOUS
  <2> HIDE DEF Below
  <2>2. IsFiniteSet(Below(x))
    BY <2>1, FS_Subset
  <2> QED BY <2>2, FS_CardinalityType
<1>3. ASSUME NEW x \in S, NEW T \in SUBSET S, Below(x) \subseteq T, x \in T
      PROVE  Cardinality(Below(x)) + 1 <= Cardinality(T)
  <2>1. x \notin Below(x)
    BY DEF Orders
  <2>2. Below(x) \union {x} \in SUBSET T /\ IsFiniteSet(T)
    BY <1>3, FS_Subset
  <2> HIDE DEF Below
  <2>3. IsFiniteSet(Below(x) \union {x}) /\ Cardinality(Below(x) \union {x}) = Cardinality(Below(x)) + 1
    BY <1>2, <2>1, FS_AddElement
  <2>4. Cardinality(Below(x) \union {x}) <= Cardinality(T)
    BY <2>2, FS_Subset
  <2> QED BY <2>3, <2>4
<1>4. \A x \in S : rank[x] \in 1..N
  <2> SUFFICES ASSUME NEW x \in S PROVE rank[x] \in 1..N
    OBVIOUS
  <2>1. Below(x) \subseteq S
    OBVIOUS
  <2>2. Cardinality(Below(x)) + 1 <= N
    BY <1>3, <2>1
  <2>3. rank[x] = Cardinality(Below(x)) + 1
    OBVIOUS
  <2> HIDE DEF Below, rank, N
  <2> QED BY <1>1, <1>2, <2>2, <2>3
<1>5. ASSUME NEW x \in S, NEW y \in S, <<x, y>> \in before PROVE rank[x] < rank[y]
  <2>1. Below(x) \subseteq Below(y) /\ x \in Below(y) /\ Below(y) \in SUBSET S
    BY <1>5 DEF Orders
  <2>2. rank[x] = Cardinality(Below(x)) + 1 /\ rank[y] = Cardinality(Below(y)) + 1
    OBVIOUS
  <2> HIDE DEF Below, rank
  <2>3. Cardinality(Below(x)) + 1 <= Cardinality(Below(y))
    BY <1>3, <2>1
  <2> QED BY <1>2, <2>2, <2>3
<1>6. rank \in [S -> 1..N]
  <2>1. rank = [x \in S |-> rank[x]]
    OBVIOUS
  <2> HIDE DEF rank, N
  <2> QED BY <1>4, <2>1
<1> HIDE DEF rank
<1> QED BY <1>5, <1>6

LEMMA OrderExists ==
  ASSUME NEW S, IsFiniteSet(S), NEW before, Orders(before, S)
  PROVE  \E s \in [1..Cardinality(S) -> S] :
           \A m, n \in 1..Cardinality(S) : m < n => <<s[m], s[n]>> \in before
<1> DEFINE N == Cardinality(S)
<1>1. PICK rank \in [S -> 1..N] : \A x, y \in S : <<x, y>> \in before => rank[x] < rank[y]
  BY RankExists
<1>2. N \in Nat /\ IsFiniteSet(1..N) /\ Cardinality(1..N) = N
  <2>1. N \in Nat
    BY FS_CardinalityType
  <2> HIDE DEF N
  <2> QED BY <2>1, FS_Interval
<1> HIDE DEF N
<1>3. \A x \in S : rank[x] \in Int
  BY <1>1, <1>2
<1>4. \A x, y \in S : rank[x] = rank[y] => x = y
  <2> SUFFICES ASSUME NEW x \in S, NEW y \in S, rank[x] = rank[y] PROVE x = y
    OBVIOUS
  <2>1. ~(rank[x] < rank[y]) /\ ~(rank[y] < rank[x])
    BY <1>3
  <2> QED BY <1>1, <2>1 DEF Orders
<1>5. rank \in Injection(S, 1..N)
  BY <1>1, <1>4 DEF Injection, IsInjective
<1>6. rank \in Surjection(S, 1..N)
  BY <1>2, <1>5, FS_Injection DEF N
<1>7. \A n \in 1..N : \E x \in S : rank[x] = n
  BY <1>6 DEF Surjection
<1> DEFINE s == [n \in 1..N |-> CHOOSE x \in S : rank[x] = n]
<1>8. \A n \in 1..N : s[n] \in S /\ rank[s[n]] = n
  BY <1>7
<1>9. s \in [1..N -> S]
  BY <1>8
<1> HIDE DEF s
<1>10. ASSUME NEW m \in 1..N, NEW n \in 1..N, m < n PROVE <<s[m], s[n]>> \in before
  <2>1. s[m] # s[n]
    BY <1>2, <1>8, <1>10
  <2>2. <<s[n], s[m]>> \notin before
    <3>1. SUFFICES ~(rank[s[n]] < rank[s[m]])
      BY <1>1, <1>8
    <3> QED BY <1>2, <1>8, <1>10
  <2> QED BY <1>8, <2>1, <2>2 DEF Orders
<1> QED BY <1>9, <1>10 DEF N

LEMMA InOrderEnumerates ==
  ASSUME NEW S, IsFiniteSet(S), NEW before, Orders(before, S)
  PROVE  Enumerates(InOrder(S, before), S, before)
<1> DEFINE N == Cardinality(S)
           s == InOrder(S, before)
<1>1. s \in [1..N -> S] /\ \A m, n \in 1..N : m < n => <<s[m], s[n]>> \in before
  <2>1. PICK t \in [1..N -> S] : \A m, n \in 1..N : m < n => <<t[m], t[n]>> \in before
    BY OrderExists
  <2>2. \A m, n \in DOMAIN t : m < n => <<t[m], t[n]>> \in before
    BY <2>1
  <2>3. s \in [1..N -> S] /\ \A m, n \in DOMAIN s : m < n => <<s[m], s[n]>> \in before
    BY <2>2 DEF InOrder
  <2> QED BY <2>3
<1>2. N \in Nat /\ IsFiniteSet(1..N) /\ Cardinality(1..N) = N
  <2>1. N \in Nat
    BY FS_CardinalityType
  <2> HIDE DEF N
  <2> QED BY <2>1, FS_Interval
<1> HIDE DEF N, s
<1>3. \A m, n \in 1..N : s[m] = s[n] => m = n
  <2> SUFFICES ASSUME NEW m \in 1..N, NEW n \in 1..N, s[m] = s[n] PROVE m = n
    OBVIOUS
  <2>1. s[m] \in S /\ s[n] \in S
    BY <1>1
  <2>2. ~(m < n) /\ ~(n < m)
    BY <1>1, <2>1 DEF Orders
  <2> QED BY <1>2, <2>2
<1>4. s \in Injection(1..N, S)
  BY <1>1, <1>3 DEF Injection, IsInjective
<1>5. s \in Surjection(1..N, S)
  BY <1>2, <1>4, FS_Injection DEF N
<1>6. \A x \in S : \E n \in 1..N : s[n] = x
  BY <1>5 DEF Surjection
<1> QED BY <1>1, <1>6 DEF Enumerates, N, s

\* What is arranged is part of the list, all that is to be kept, in order.
LEMMA ArrangedIs ==
  ASSUME NEW T, NEW list \in Seq(T), NEW keep \in SUBSET DOMAIN list, NEW before, Orders(before, keep)
  PROVE  /\ Arranged(list, keep, before) \in Seq(T)
         /\ Len(Arranged(list, keep, before)) = Cardinality(keep)
         /\ \E order : /\ Enumerates(order, keep, before)
                       /\ \A n \in 1..Cardinality(keep) : Arranged(list, keep, before)[n] = list[order[n]]
<1> DEFINE order == InOrder(keep, before)
           N == Cardinality(keep)
           out == Arranged(list, keep, before)
<1>1. IsFiniteSet(keep)
  <2>1. Len(list) \in Nat /\ keep \in SUBSET (1..Len(list))
    OBVIOUS
  <2>2. IsFiniteSet(1..Len(list))
    BY <2>1, FS_Interval
  <2> QED BY <2>1, <2>2, FS_Subset
<1>2. Enumerates(order, keep, before)
  BY <1>1, InOrderEnumerates
<1>3. N \in Nat
  BY <1>1, FS_CardinalityType
<1>4. out = [n \in 1..N |-> list[order[n]]]
  BY DEF Arranged
<1>5. \A n \in 1..N : order[n] \in keep
  BY <1>2 DEF Enumerates
<1> HIDE DEF order, N, out
<1>6. out \in [1..N -> T]
  BY <1>4, <1>5
<1>7. out \in Seq(T) /\ Len(out) = N
  BY <1>3, <1>6
<1>8. \A n \in 1..N : out[n] = list[order[n]]
  BY <1>4
<1> QED BY <1>2, <1>7, <1>8 DEF N, out

\* out is the part of a list at the indices in keep, and order where each comes from.
Selects(order, out, list, keep) ==
  /\ order \in [DOMAIN out -> keep]
  /\ \A m, n \in DOMAIN out : m < n => order[m] < order[n]
  /\ \A i \in keep : \E n \in DOMAIN out : order[n] = i
  /\ \A n \in DOMAIN out : out[n] = list[order[n]]

\* The same for indices in their own order.
LEMMA AtIndicesIs ==
  ASSUME NEW T, NEW list \in Seq(T), NEW keep \in SUBSET DOMAIN list
  PROVE  /\ AtIndices(list, keep) \in Seq(T)
         /\ \E order : Selects(order, AtIndices(list, keep), list, keep)
<1> DEFINE before == {p \in keep \X keep : p[1] < p[2]}
           out == AtIndices(list, keep)
           N == Cardinality(keep)
<1>1. keep \subseteq Nat
  OBVIOUS
<1>2. \A i, j \in keep : <<i, j>> \in before <=> i < j
  OBVIOUS
<1>3. out = Arranged(list, keep, before)
  BY DEF AtIndices
<1> HIDE DEF before, out
<1>4. Orders(before, keep)
  <2>1. \A i \in keep : <<i, i>> \notin before
    BY <1>1, <1>2
  <2>2. \A i, j, k \in keep : <<i, j>> \in before /\ <<j, k>> \in before => <<i, k>> \in before
    <3> SUFFICES ASSUME NEW i \in keep, NEW j \in keep, NEW k \in keep, i < j, j < k PROVE i < k
      BY <1>2
    <3> QED BY <1>1
  <2>3. \A i, j \in keep : i = j \/ <<i, j>> \in before \/ <<j, i>> \in before
    <3> SUFFICES ASSUME NEW i \in keep, NEW j \in keep PROVE i = j \/ i < j \/ j < i
      BY <1>2
    <3> QED BY <1>1
  <2> QED BY <2>1, <2>2, <2>3 DEF Orders
<1>5. /\ out \in Seq(T) /\ Len(out) = N
      /\ \E order : Enumerates(order, keep, before) /\ \A n \in 1..N : out[n] = list[order[n]]
  BY <1>3, <1>4, ArrangedIs
<1>6. PICK order : Enumerates(order, keep, before) /\ \A n \in 1..N : out[n] = list[order[n]]
  BY <1>5
<1>7. DOMAIN out = 1..N
  BY <1>5
<1>8. order \in [1..N -> keep] /\ \A i \in keep : \E n \in 1..N : order[n] = i
  BY <1>6 DEF Enumerates
<1>9. \A m, n \in 1..N : m < n => order[m] < order[n]
  <2> SUFFICES ASSUME NEW m \in 1..N, NEW n \in 1..N, m < n PROVE order[m] < order[n]
    OBVIOUS
  <2>1. <<order[m], order[n]>> \in before
    BY <1>6 DEF Enumerates
  <2> QED BY <1>2, <1>8, <2>1
<1> HIDE DEF N
<1>10. Selects(order, out, list, keep)
  BY <1>6, <1>7, <1>8, <1>9 DEF Selects
<1> QED BY <1>5, <1>10 DEF out

LEMMA DistinctIsAList ==
  ASSUME NEW T, NEW list \in Seq(T)
  PROVE  Distinct(list) \in Seq(T)
<1>1. {i \in DOMAIN list : \A j \in DOMAIN list : j < i => list[j] # list[i]} \in SUBSET DOMAIN list
  OBVIOUS
<1> QED BY <1>1, AtIndicesIs DEF Distinct

LEMMA PresentIsAList ==
  ASSUME NEW T, NEW list \in Seq(T \union {None})
  PROVE  Present(list) \in Seq(T)
<1> DEFINE keep == {i \in DOMAIN list : list[i] # None}
           out == Present(list)
<1>1. keep \in SUBSET DOMAIN list /\ \A i \in keep : list[i] \in T
  OBVIOUS
<1>2. out = AtIndices(list, keep)
  BY DEF Present
<1> HIDE DEF keep, out
<1>3. out \in Seq(T \union {None}) /\ \E order : Selects(order, out, list, keep)
  BY <1>1, <1>2, AtIndicesIs
<1>4. \A n \in DOMAIN out : out[n] \in T
  BY <1>1, <1>3 DEF Selects
<1>5. Len(out) \in Nat /\ out = [n \in 1..Len(out) |-> out[n]] /\ DOMAIN out = 1..Len(out)
  BY <1>3
<1>6. out \in [1..Len(out) -> T]
  BY <1>4, <1>5
<1> QED BY <1>5, <1>6 DEF out

-----------------------------------------------------------------------------
(* Frames.                                                                  *)

\* What is kept: exactly those that are like nothing kept before them.
LEMMA KeptExists ==
  ASSUME NEW alike, NEW n \in Nat
  PROVE  \E kept \in SUBSET (1..n) : kept = {i \in 1..n : \A k \in kept : k < i => <<k, i>> \notin alike}
<1> DEFINE Keeps(m) == \E kept \in SUBSET (1..m) : kept = {i \in 1..m : \A k \in kept : k < i => <<k, i>> \notin alike}
           fails == {m \in Nat : ~Keeps(m)}
<1>1. Keeps(0)
  <2>1. {} \in SUBSET (1..0) /\ {} = {i \in 1..0 : \A k \in {} : k < i => <<k, i>> \notin alike}
    OBVIOUS
  <2> QED BY <2>1
<1>2. ASSUME NEW m \in Nat, Keeps(m) PROVE Keeps(m + 1)
  <2>1. PICK kept \in SUBSET (1..m) : kept = {i \in 1..m : \A k \in kept : k < i => <<k, i>> \notin alike}
    BY <1>2
  <2>2. CASE \A k \in kept : <<k, m + 1>> \notin alike
    <3> DEFINE more == kept \union {m + 1}
    <3>1. more \in SUBSET (1..(m + 1))
      OBVIOUS
    <3>2. ASSUME NEW i \in 1..(m + 1)
          PROVE  i \in more <=> \A k \in more : k < i => <<k, i>> \notin alike
      <4>1. CASE i = m + 1
        BY <2>2, <4>1
      <4>2. CASE i \in 1..m
        <5>1. i \in more <=> i \in kept
          BY <4>2
        <5>2. \A k \in more : k < i => k \in kept
          BY <4>2
        <5> QED BY <2>1, <4>2, <5>1, <5>2
      <4> QED BY <4>1, <4>2
    <3> QED BY <3>1, <3>2
  <2>3. CASE \E k \in kept : <<k, m + 1>> \in alike
    <3>1. ASSUME NEW i \in 1..(m + 1)
          PROVE  i \in kept <=> \A k \in kept : k < i => <<k, i>> \notin alike
      <4>1. CASE i = m + 1
        BY <2>1, <2>3, <4>1
      <4>2. CASE i \in 1..m
        BY <2>1, <4>2
      <4> QED BY <4>1, <4>2
    <3>2. kept \in SUBSET (1..(m + 1))
      OBVIOUS
    <3> QED BY <3>1, <3>2
  <2> QED BY <2>2, <2>3
<1>3. fails = {}
  <2> SUFFICES ASSUME fails # {} PROVE FALSE
    OBVIOUS
  <2>1. \A m \in Nat : m \in fails <=> ~Keeps(m)
    OBVIOUS
  <2>2. fails \subseteq Nat
    OBVIOUS
  <2> HIDE DEF fails, Keeps
  <2>3. PICK m \in fails : \A x \in fails : m <= x
    BY <2>2, LeastNatural
  <2>4. m # 0
    BY <1>1, <2>1, <2>3
  <2>5. m - 1 \in Nat /\ ~(m <= m - 1) /\ (m - 1) + 1 = m
    BY <2>2, <2>3, <2>4
  <2>6. m - 1 \notin fails
    BY <2>3, <2>5
  <2>7. Keeps(m - 1)
    BY <2>1, <2>5, <2>6
  <2>8. Keeps((m - 1) + 1)
    BY <1>2, <2>5, <2>7
  <2> QED BY <2>1, <2>2, <2>3, <2>5, <2>8
<1> QED BY <1>3

LEMMA UnlikeKeptIs ==
  ASSUME NEW alike, NEW n \in Nat
  PROVE  /\ UnlikeKept(n, alike) \in SUBSET (1..n)
         /\ \A i \in 1..n : i \in UnlikeKept(n, alike) <=>
              \A k \in UnlikeKept(n, alike) : k < i => <<k, i>> \notin alike
<1> DEFINE kept == UnlikeKept(n, alike)
<1>1. kept \in SUBSET (1..n) /\ kept = {i \in 1..n : \A k \in kept : k < i => <<k, i>> \notin alike}
  BY KeptExists DEF UnlikeKept
<1> HIDE DEF kept
<1>2. \A i \in 1..n : i \in kept <=> \A k \in kept : k < i => <<k, i>> \notin alike
  BY <1>1
<1> QED BY <1>1, <1>2 DEF kept

\* Frames of the clip cut, in its order; what is missing was blurred or looks
\* like another frame of the clip.
Represents(some, cut) ==
  /\ some \in Seq(Frames)
  /\ \A i, j \in DOMAIN some : i < j => some[i].at < some[j].at
  /\ \A i \in DOMAIN some : some[i] \in Range(cut)
  /\ \A f \in Range(cut) \ Range(some) : \E g \in Range(cut) \ {f} : Softer(f, g) \/ LooksLike(f, g)

Apart(some) ==
  \A i, j \in DOMAIN some : i < j => Hamming(some[i].hash, some[j].hash) >= DedupHamming

LEMMA Sizes == HashH \in Nat /\ DedupHamming \in Nat /\ MinKeep \in Nat
BY AnalysisAssumption, Zenon

LEMMA FrameFields ==
  ASSUME NEW f \in Frames
  PROVE  /\ f.at \in Nat /\ f.hash \in {None} \union SUBSET Bits /\ f.blur \in {None} \union Nat
         /\ f.shot \in Shots /\ f.code \in Codes \union {None}
BY DEF Frames

LEMMA ClipRepresentsItself ==
  ASSUME NEW cut \in Clips
  PROVE  Represents(cut, cut)
<1>1. cut \in Seq(Frames) /\ \A i, j \in DOMAIN cut : i < j => cut[i].at < cut[j].at
  BY AnalysisAssumption
<1>2. \A i \in DOMAIN cut : cut[i] \in Range(cut)
  BY DEF Range
<1> QED BY <1>1, <1>2 DEF Represents

\* What may be dropped: a frame for which the clip has a sharper one or another like it.
LEMMA Thinned ==
  ASSUME NEW cut, NEW some, Represents(some, cut), NEW keep \in SUBSET DOMAIN some,
         \A i \in DOMAIN some \ keep : \E g \in Range(cut) \ {some[i]} : Softer(some[i], g) \/ LooksLike(some[i], g)
  PROVE  Represents(AtIndices(some, keep), cut) /\ (Apart(some) => Apart(AtIndices(some, keep)))
<1> DEFINE out == AtIndices(some, keep)
<1>1. some \in Seq(Frames)
  BY DEF Represents
<1>2. out = AtIndices(some, keep)
  OBVIOUS
<1> HIDE DEF out
<1>3. out \in Seq(Frames) /\ \E order : Selects(order, out, some, keep)
  BY <1>1, <1>2, AtIndicesIs
<1>4. PICK order : Selects(order, out, some, keep)
  BY <1>3
<1>5. /\ order \in [DOMAIN out -> keep]
      /\ \A m, n \in DOMAIN out : m < n => order[m] < order[n]
      /\ \A i \in keep : \E n \in DOMAIN out : order[n] = i
      /\ \A n \in DOMAIN out : out[n] = some[order[n]]
  BY <1>4 DEF Selects
<1>6. \A n \in DOMAIN out : order[n] \in DOMAIN some
  BY <1>5
<1>7. \A m, n \in DOMAIN out : m < n => out[m].at < out[n].at
  <2> SUFFICES ASSUME NEW m \in DOMAIN out, NEW n \in DOMAIN out, m < n PROVE out[m].at < out[n].at
    OBVIOUS
  <2>1. order[m] < order[n] /\ out[m] = some[order[m]] /\ out[n] = some[order[n]]
    BY <1>5
  <2> QED BY <1>6, <2>1 DEF Represents
<1>8. \A n \in DOMAIN out : out[n] \in Range(cut)
  BY <1>5, <1>6 DEF Represents
<1>9. ASSUME NEW f \in Range(cut) \ Range(out)
      PROVE  \E g \in Range(cut) \ {f} : Softer(f, g) \/ LooksLike(f, g)
  <2>1. CASE f \notin Range(some)
    BY <1>9, <2>1 DEF Represents
  <2>2. CASE f \in Range(some)
    <3>1. PICK i \in DOMAIN some : f = some[i]
      BY <2>2 DEF Range
    <3>2. i \notin keep
      BY <1>5, <1>9, <3>1 DEF Range
    <3> QED BY <3>1, <3>2
  <2> QED BY <2>1, <2>2
<1>10. ASSUME Apart(some), NEW m \in DOMAIN out, NEW n \in DOMAIN out, m < n
       PROVE  Hamming(out[m].hash, out[n].hash) >= DedupHamming
  <2>1. order[m] < order[n] /\ out[m] = some[order[m]] /\ out[n] = some[order[n]]
    BY <1>5, <1>10
  <2> QED BY <1>6, <1>10, <2>1 DEF Apart
<1>11. Represents(out, cut)
  BY <1>3, <1>7, <1>8, <1>9 DEF Represents
<1>12. Apart(some) => Apart(out)
  BY <1>10 DEF Apart
<1> QED BY <1>11, <1>12 DEF out

\* Two frames at different places of a representation differ.
LEMMA PlacesDiffer ==
  ASSUME NEW cut, NEW some, Represents(some, cut), NEW i \in DOMAIN some, NEW j \in DOMAIN some, i # j
  PROVE  some[i] # some[j]
<1>1. some \in Seq(Frames) /\ some[i] \in Frames /\ some[j] \in Frames
  BY DEF Represents
<1>2. some[i].at \in Nat /\ some[j].at \in Nat
  BY <1>1, FrameFields
<1>3. i < j \/ j < i
  BY <1>1
<1>4. some[i].at < some[j].at \/ some[j].at < some[i].at
  BY <1>3 DEF Represents
<1> QED BY <1>2, <1>4

LEMMA HammingIs ==
  ASSUME NEW a \in SUBSET Bits, NEW b \in SUBSET Bits
  PROVE  Hamming(a, b) \in Nat /\ Hamming(a, b) = Hamming(b, a)
<1>1. IsFiniteSet(Bits)
  <2>1. 0 \in Int /\ HashH - 1 \in Int
    BY Sizes
  <2>2. IsFiniteSet(0..HashH - 1)
    BY <2>1, FS_Interval
  <2> QED BY <2>2, FS_Product DEF Bits
<1>2. (a \ b) \union (b \ a) \in SUBSET Bits /\ (a \ b) \union (b \ a) = (b \ a) \union (a \ b)
  OBVIOUS
<1>3. IsFiniteSet((a \ b) \union (b \ a))
  BY <1>1, <1>2, FS_Subset
<1> QED BY <1>2, <1>3, FS_CardinalityType DEF Hamming

\* Deduplication keeps a representation, with no two frames alike.
LEMMA DedupeRepresents ==
  ASSUME NEW cut, NEW some, Represents(some, cut), Measured(some, "hash")
  PROVE  Represents(DedupeByHash(some), cut) /\ Apart(DedupeByHash(some))
<1> DEFINE near == {p \in (1..Len(some)) \X (1..Len(some)) : Hamming(some[p[1]].hash, some[p[2]].hash) < DedupHamming}
           keep == UnlikeKept(Len(some), near)
           out == AtIndices(some, keep)
<1>1. some \in Seq(Frames) /\ Len(some) \in Nat /\ DOMAIN some = 1..Len(some)
  BY DEF Represents
<1>2. \A i \in DOMAIN some : some[i].hash \in SUBSET Bits
  <2> SUFFICES ASSUME NEW i \in DOMAIN some PROVE some[i].hash \in SUBSET Bits
    OBVIOUS
  <2>1. some[i] \in Frames /\ some[i].hash # None
    BY <1>1 DEF Measured
  <2> QED BY <2>1, FrameFields
<1>3. \A i, j \in DOMAIN some : <<i, j>> \in near <=> Hamming(some[i].hash, some[j].hash) < DedupHamming
  BY <1>1
<1>4. DedupeByHash(some) = out
  BY DEF DedupeByHash
<1> HIDE DEF near
<1>5. /\ keep \in SUBSET (1..Len(some))
      /\ \A i \in 1..Len(some) : i \in keep <=> \A k \in keep : k < i => <<k, i>> \notin near
  BY <1>1, UnlikeKeptIs
<1> HIDE DEF keep
<1>6. ASSUME NEW i \in DOMAIN some \ keep
      PROVE  \E g \in Range(cut) \ {some[i]} : Softer(some[i], g) \/ LooksLike(some[i], g)
  <2>1. PICK k \in keep : k < i /\ <<k, i>> \in near
    BY <1>1, <1>5
  <2>2. k \in DOMAIN some /\ k # i
    BY <1>1, <1>5, <2>1
  <2>3. some[k] \in Range(cut) /\ some[k] # some[i]
    BY <2>2, PlacesDiffer DEF Represents
  <2>4. Hamming(some[i].hash, some[k].hash) < DedupHamming
    BY <1>2, <1>3, <2>1, <2>2, HammingIs
  <2>5. LooksLike(some[i], some[k])
    BY <2>2, <2>4 DEF LooksLike, Measured
  <2> QED BY <2>3, <2>5
<1>7. Represents(out, cut)
  BY <1>1, <1>5, <1>6, Thinned
<1>8. out = AtIndices(some, keep) /\ keep \in SUBSET DOMAIN some
  BY <1>1, <1>5
<1> HIDE DEF out
<1>9. \E order : Selects(order, out, some, keep)
  BY <1>1, <1>8, AtIndicesIs
<1>10. PICK order : Selects(order, out, some, keep)
  BY <1>9
<1>11. /\ order \in [DOMAIN out -> keep]
       /\ \A m, n \in DOMAIN out : m < n => order[m] < order[n]
       /\ \A n \in DOMAIN out : out[n] = some[order[n]]
  BY <1>10 DEF Selects
<1>12. ASSUME NEW m \in DOMAIN out, NEW n \in DOMAIN out, m < n
       PROVE  Hamming(out[m].hash, out[n].hash) >= DedupHamming
  <2>1. /\ order[m] \in keep /\ order[n] \in keep /\ order[m] < order[n]
        /\ out[m] = some[order[m]] /\ out[n] = some[order[n]]
    BY <1>11, <1>12
  <2>2. order[m] \in DOMAIN some /\ order[n] \in DOMAIN some
    BY <1>1, <1>5, <2>1
  <2>3. <<order[m], order[n]>> \notin near
    BY <1>5, <2>1
  <2>4. ~(Hamming(out[m].hash, out[n].hash) < DedupHamming)
    BY <1>3, <2>1, <2>2, <2>3
  <2>5. Hamming(out[m].hash, out[n].hash) \in Nat
    BY <1>2, <2>1, <2>2, HammingIs
  <2> QED BY <2>4, <2>5, Sizes
<1>13. Apart(out)
  BY <1>12 DEF Apart
<1> QED BY <1>4, <1>7, <1>13

LEMMA ShotsRepresent ==
  ASSUME NEW cut, NEW some, Represents(some, cut)
  PROVE  Represents(SemanticDedupe(some), cut) /\ (Apart(some) => Apart(SemanticDedupe(some)))
<1> DEFINE near == {p \in (1..Len(some)) \X (1..Len(some)) : <<some[p[1]].shot, some[p[2]].shot>> \in SimilarShots}
           keep == UnlikeKept(Len(some), near)
<1>1. some \in Seq(Frames) /\ Len(some) \in Nat /\ DOMAIN some = 1..Len(some)
  BY DEF Represents
<1>2. \A i \in DOMAIN some : some[i].shot \in Shots
  <2> SUFFICES ASSUME NEW i \in DOMAIN some PROVE some[i].shot \in Shots
    OBVIOUS
  <2>1. some[i] \in Frames
    BY <1>1
  <2> QED BY <2>1, FrameFields
<1>3. \A i, j \in DOMAIN some : <<i, j>> \in near <=> <<some[i].shot, some[j].shot>> \in SimilarShots
  BY <1>1
<1>4. SemanticDedupe(some) = AtIndices(some, keep)
  BY DEF SemanticDedupe
<1> HIDE DEF near
<1>5. /\ keep \in SUBSET (1..Len(some))
      /\ \A i \in 1..Len(some) : i \in keep <=> \A k \in keep : k < i => <<k, i>> \notin near
  BY <1>1, UnlikeKeptIs
<1> HIDE DEF keep
<1>6. ASSUME NEW i \in DOMAIN some \ keep
      PROVE  \E g \in Range(cut) \ {some[i]} : Softer(some[i], g) \/ LooksLike(some[i], g)
  <2>1. PICK k \in keep : k < i /\ <<k, i>> \in near
    BY <1>1, <1>5
  <2>2. k \in DOMAIN some /\ k # i
    BY <1>1, <1>5, <2>1
  <2>3. some[k] \in Range(cut) /\ some[k] # some[i]
    BY <2>2, PlacesDiffer DEF Represents
  <2>4. <<some[i].shot, some[k].shot>> \in SimilarShots
    BY <1>2, <1>3, <2>1, <2>2, AnalysisAssumption
  <2>5. LooksLike(some[i], some[k])
    BY <2>4 DEF LooksLike
  <2> QED BY <2>3, <2>5
<1>7. keep \in SUBSET DOMAIN some
  BY <1>1, <1>5
<1>8. \A i \in DOMAIN some \ keep :
        \E g \in Range(cut) \ {some[i]} : Softer(some[i], g) \/ LooksLike(some[i], g)
  BY <1>6
<1>9. Represents(AtIndices(some, keep), cut) /\ (Apart(some) => Apart(AtIndices(some, keep)))
  BY <1>7, <1>8, Thinned
<1> QED BY <1>4, <1>9
\* The median is one of the values.
LEMMA MedianIsOne ==
  ASSUME NEW blurs \in Seq(Nat), blurs # <<>>
  PROVE  \E i \in DOMAIN blurs : Median(blurs) = blurs[i]
<1> DEFINE softer == {p \in (1..Len(blurs)) \X (1..Len(blurs)) :
                        blurs[p[1]] < blurs[p[2]] \/ (blurs[p[1]] = blurs[p[2]] /\ p[1] < p[2])}
           D == DOMAIN blurs
           out == Arranged(blurs, D, softer)
           m == (Len(blurs) \div 2) + 1
<1>1. D = 1..Len(blurs) /\ Len(blurs) \in Nat /\ Len(blurs) # 0 /\ \A i \in D : i \in Nat /\ blurs[i] \in Nat
  OBVIOUS
<1>2. \A i, j \in D : <<i, j>> \in softer <=> blurs[i] < blurs[j] \/ (blurs[i] = blurs[j] /\ i < j)
  OBVIOUS
<1>3. Median(blurs) = out[m]
  BY DEF Median
<1>4. out = Arranged(blurs, D, softer) /\ D = DOMAIN blurs
  OBVIOUS
<1>5. m \in 1..Len(blurs)
  BY <1>1
<1> HIDE DEF softer, out, D, m
<1>6. Orders(softer, D)
  <2>1. \A i \in D : <<i, i>> \notin softer
    BY <1>1, <1>2
  <2>2. \A i, j, k \in D : <<i, j>> \in softer /\ <<j, k>> \in softer => <<i, k>> \in softer
    <3> SUFFICES ASSUME NEW i \in D, NEW j \in D, NEW k \in D, <<i, j>> \in softer, <<j, k>> \in softer
                 PROVE  blurs[i] < blurs[k] \/ (blurs[i] = blurs[k] /\ i < k)
      BY <1>2
    <3>1. blurs[i] < blurs[j] \/ (blurs[i] = blurs[j] /\ i < j)
      BY <1>2
    <3>2. blurs[j] < blurs[k] \/ (blurs[j] = blurs[k] /\ j < k)
      BY <1>2
    <3> QED BY <1>1, <3>1, <3>2
  <2>3. \A i, j \in D : i = j \/ <<i, j>> \in softer \/ <<j, i>> \in softer
    <3> SUFFICES ASSUME NEW i \in D, NEW j \in D, i # j
                 PROVE  \/ blurs[i] < blurs[j] \/ (blurs[i] = blurs[j] /\ i < j)
                        \/ blurs[j] < blurs[i] \/ (blurs[j] = blurs[i] /\ j < i)
      BY <1>2
    <3> QED BY <1>1
  <2> QED BY <2>1, <2>2, <2>3 DEF Orders
<1>7. Cardinality(D) = Len(blurs)
  <2>1. Cardinality(1..Len(blurs)) = Len(blurs)
    BY <1>1, FS_Interval
  <2> QED BY <1>1, <2>1
<1>8. D \in SUBSET DOMAIN blurs
  BY <1>4
<1>9. /\ out \in Seq(Nat) /\ Len(out) = Cardinality(D)
      /\ \E order : Enumerates(order, D, softer) /\ \A n \in 1..Cardinality(D) : out[n] = blurs[order[n]]
  BY <1>4, <1>6, <1>8, ArrangedIs
<1>10. PICK order : Enumerates(order, D, softer) /\ \A n \in 1..Cardinality(D) : out[n] = blurs[order[n]]
  BY <1>9
<1>11. order[m] \in D /\ out[m] = blurs[order[m]]
  BY <1>5, <1>7, <1>10 DEF Enumerates
<1> QED BY <1>3, <1>4, <1>11

\* A frame is dropped for its blur only if another is more than twice as sharp.
LEMMA SharpFramesKept ==
  ASSUME NEW blurs \in Seq(Nat)
  PROVE  /\ SharpFrameIndices(blurs) \in SUBSET DOMAIN blurs
         /\ \A i \in DOMAIN blurs \ SharpFrameIndices(blurs) : \E j \in DOMAIN blurs : 2 * blurs[i] < blurs[j]
<1>1. SharpFrameIndices(blurs) \in SUBSET DOMAIN blurs
  BY DEF SharpFrameIndices, Sharp
<1>2. ASSUME NEW i \in DOMAIN blurs \ SharpFrameIndices(blurs)
      PROVE  i \notin Sharp(blurs)
  <2>1. ~(Len(blurs) <= MinKeep)
    BY <1>2 DEF SharpFrameIndices
  <2>2. CASE Cardinality(Sharp(blurs)) >= MinKeep
    BY <1>2, <2>1, <2>2 DEF SharpFrameIndices
  <2>3. CASE ~(Cardinality(Sharp(blurs)) >= MinKeep)
    <3>1. SUFFICES ASSUME i \in Sharp(blurs) PROVE FALSE
      OBVIOUS
    <3>2. ~(Cardinality(Sharper(blurs, i)) < MinKeep)
      BY <1>2, <2>1, <2>3 DEF SharpFrameIndices
    <3>3. IsFiniteSet(Sharp(blurs))
      <4>1. Len(blurs) \in Nat /\ Sharp(blurs) \in SUBSET (1..Len(blurs))
        BY DEF Sharp
      <4>2. IsFiniteSet(1..Len(blurs))
        BY <4>1, FS_Interval
      <4> QED BY <4>1, <4>2, FS_Subset
    <3>4. Sharper(blurs, i) \in SUBSET Sharp(blurs)
      <4>1. PICK k \in DOMAIN blurs : Median(blurs) = blurs[k]
        BY <1>2, MedianIsOne
      <4>2. ASSUME NEW j \in Sharper(blurs, i) PROVE j \in Sharp(blurs)
        <5>1. j \in DOMAIN blurs /\ blurs[j] \in Nat /\ blurs[i] \in Nat /\ blurs[j] >= blurs[i]
          BY <1>2 DEF Sharper
        <5>2. 2 * blurs[i] >= blurs[k] /\ blurs[k] \in Nat
          BY <3>1, <4>1 DEF Sharp
        <5>3. 2 * blurs[j] >= blurs[k]
          BY <5>1, <5>2
        <5> QED BY <4>1, <5>1, <5>3 DEF Sharp
      <4> QED BY <4>2
    <3>5. Cardinality(Sharper(blurs, i)) \in Nat /\ Cardinality(Sharp(blurs)) \in Nat
      BY <3>3, <3>4, FS_Subset, FS_CardinalityType
    <3>6. Cardinality(Sharper(blurs, i)) <= Cardinality(Sharp(blurs))
      BY <3>3, <3>4, FS_Subset
    <3> QED BY <2>3, <3>2, <3>5, <3>6, Sizes
  <2> QED BY <2>2, <2>3
<1>3. ASSUME NEW i \in DOMAIN blurs \ SharpFrameIndices(blurs)
      PROVE  \E j \in DOMAIN blurs : 2 * blurs[i] < blurs[j]
  <2>1. PICK j \in DOMAIN blurs : Median(blurs) = blurs[j]
    BY <1>3, MedianIsOne
  <2>2. ~(2 * blurs[i] >= blurs[j])
    BY <1>2, <1>3, <2>1 DEF Sharp
  <2>3. blurs[i] \in Nat /\ blurs[j] \in Nat
    BY <1>3
  <2> QED BY <2>2, <2>3
<1> QED BY <1>1, <1>3

LEMMA UnblurredRepresents ==
  ASSUME NEW cut, NEW some, Represents(some, cut)
  PROVE  Represents(Unblurred(some), cut)
<1>1. CASE ~Measured(some, "blur")
  BY <1>1 DEF Unblurred
<1>2. CASE Measured(some, "blur")
  <2> DEFINE blurs == [i \in DOMAIN some |-> some[i].blur]
             keep == SharpFrameIndices(blurs)
  <2>1. some \in Seq(Frames)
    BY DEF Represents
  <2>2. \A i \in DOMAIN some : some[i].blur \in Nat /\ some[i].blur # None
    <3> SUFFICES ASSUME NEW i \in DOMAIN some PROVE some[i].blur \in Nat /\ some[i].blur # None
      OBVIOUS
    <3>1. some[i] \in Frames /\ some[i].blur # None
      BY <1>2, <2>1 DEF Measured
    <3> QED BY <3>1, FrameFields
  <2>3. blurs \in Seq(Nat) /\ DOMAIN blurs = DOMAIN some
    BY <2>1, <2>2
  <2>4. \A i \in DOMAIN some : blurs[i] = some[i].blur
    OBVIOUS
  <2>5. Unblurred(some) = AtIndices(some, keep)
    BY <1>2 DEF Unblurred
  <2> HIDE DEF blurs
  <2>6. /\ keep \in SUBSET DOMAIN some
        /\ \A i \in DOMAIN some \ keep : \E j \in DOMAIN some : 2 * blurs[i] < blurs[j]
    BY <2>3, SharpFramesKept
  <2> HIDE DEF keep
  <2>7. \A i \in DOMAIN some \ keep :
          \E g \in Range(cut) \ {some[i]} : Softer(some[i], g) \/ LooksLike(some[i], g)
    <3> SUFFICES ASSUME NEW i \in DOMAIN some \ keep
                 PROVE  \E g \in Range(cut) \ {some[i]} : Softer(some[i], g)
      OBVIOUS
    <3>1. PICK j \in DOMAIN some : 2 * blurs[i] < blurs[j]
      BY <2>6
    <3>2. 2 * some[i].blur < some[j].blur
      BY <2>4, <3>1
    <3>3. some[i].blur \in Nat /\ some[i].blur # None /\ some[j].blur # None
      BY <2>2
    <3>4. some[j] # some[i]
      BY <3>2, <3>3
    <3>5. some[j] \in Range(cut)
      BY DEF Represents
    <3> QED BY <3>2, <3>3, <3>4, <3>5 DEF Softer
  <2>8. Represents(AtIndices(some, keep), cut)
    BY <2>6, <2>7, Thinned
  <2> QED BY <2>5, <2>8
<1> QED BY <1>1, <1>2

LEMMA ExtractedRepresent ==
  ASSUME NEW cut \in Clips
  PROVE  /\ Represents(ExtractVideoFrames(cut), cut)
         /\ Measured(cut, "hash") => Apart(ExtractVideoFrames(cut))
<1> DEFINE sharp == Unblurred(cut)
<1>1. Represents(sharp, cut)
  BY ClipRepresentsItself, UnblurredRepresents
<1>2. ExtractVideoFrames(cut) = IF Measured(sharp, "hash") THEN DedupeByHash(sharp) ELSE sharp
  BY DEF ExtractVideoFrames
<1> HIDE DEF sharp
<1>3. CASE Measured(sharp, "hash")
  <2>1. Represents(DedupeByHash(sharp), cut) /\ Apart(DedupeByHash(sharp))
    BY <1>1, <1>3, DedupeRepresents
  <2> QED BY <1>2, <1>3, <2>1
<1>4. CASE ~Measured(sharp, "hash")
  <2>1. ASSUME Measured(cut, "hash") PROVE sharp = <<>>
    <3>1. \A i \in DOMAIN sharp : sharp[i].hash # None
      BY <1>1, <2>1 DEF Represents, Measured, Range
    <3> QED BY <1>4, <3>1 DEF Measured
  <2>2. Apart(<<>>)
    BY DEF Apart
  <2> QED BY <1>1, <1>2, <1>4, <2>1, <2>2
<1> QED BY <1>3, <1>4
-----------------------------------------------------------------------------
(* Products.                                                                *)

LEMMA ProductFields ==
  ASSUME NEW p \in Products
  PROVE  p.title \in Titles /\ p.code \in Codes \union {None} /\ p.confidence \in 0..3
BY DEF Products

\* out is what a list of products comes to: its own products, a title once,
\* the surest first, and none of its titles lost or less sure.
Enriches(out, list) ==
  /\ out \in Seq(Products)
  /\ \A n \in DOMAIN out : out[n] \in Range(list)
  /\ \A m, n \in DOMAIN out : m < n =>
       out[m].title[1] # out[n].title[1] /\ out[m].confidence >= out[n].confidence
  /\ \A p \in Range(list) : \E d \in Range(out) : d.title[1] = p.title[1] /\ d.confidence >= p.confidence

\* Every title is seen first somewhere.
LEMMA FirstSeen ==
  ASSUME NEW list \in Seq(Products)
  PROVE  \E first \in [DOMAIN list -> DOMAIN list] :
           \A i \in DOMAIN list : /\ SameTitle(list, first[i], i)
                                  /\ \A l \in DOMAIN list : SameTitle(list, l, i) => first[i] <= l
<1> DEFINE D == DOMAIN list
           First(i, k) == SameTitle(list, k, i) /\ \A l \in D : SameTitle(list, l, i) => k <= l
           first == [i \in D |-> CHOOSE k \in D : First(i, k)]
<1>1. ASSUME NEW i \in D PROVE \E k \in D : First(i, k)
  <2> DEFINE same == {k \in D : SameTitle(list, k, i)}
  <2>1. same \subseteq Nat /\ i \in same
    BY DEF SameTitle
  <2> HIDE DEF same
  <2>2. PICK k \in same : \A l \in same : k <= l
    BY <2>1, LeastNatural
  <2>3. k \in D /\ SameTitle(list, k, i) /\ \A l \in D : SameTitle(list, l, i) => k <= l
    BY <2>2 DEF same
  <2> QED BY <2>3
<1> HIDE DEF First
<1>2. \A i \in D : first[i] \in D /\ First(i, first[i])
  BY <1>1
<1>3. first \in [D -> D]
  BY <1>2
<1> HIDE DEF first
<1> QED BY <1>2, <1>3 DEF First

\* No two of the surest products have one title.
LEMMA SurestDiffer ==
  ASSUME NEW list \in Seq(Products), NEW i \in Surest(list), NEW j \in Surest(list), SameTitle(list, i, j)
  PROVE  i = j
<1>1. i \in DOMAIN list /\ j \in DOMAIN list /\ i \in Nat /\ j \in Nat
  BY DEF Surest
<1>2. list[i] \in Products /\ list[j] \in Products
  BY <1>1
<1>3. list[i].confidence \in 0..3 /\ list[j].confidence \in 0..3
  BY <1>2, ProductFields
<1>4. SameTitle(list, j, i)
  BY DEF SameTitle
<1>5. list[j].confidence < list[i].confidence \/ (list[j].confidence = list[i].confidence /\ i <= j)
  BY <1>1 DEF Surest
<1>6. list[i].confidence < list[j].confidence \/ (list[i].confidence = list[j].confidence /\ j <= i)
  BY <1>1, <1>4 DEF Surest
<1> QED BY <1>1, <1>3, <1>5, <1>6

\* For every product, one of the surest has its title and is as sure.
LEMMA SurestExists ==
  ASSUME NEW list \in Seq(Products), NEW a \in DOMAIN list
  PROVE  \E i \in Surest(list) : SameTitle(list, i, a) /\ list[i].confidence >= list[a].confidence
<1> DEFINE D == DOMAIN list
           same == {k \in D : SameTitle(list, k, a)}
           doubts == {3 - list[k].confidence : k \in same}
<1>1. \A k \in D : k \in Nat /\ list[k].confidence \in 0..3
  BY ProductFields
<1>2. a \in same /\ \A k \in same : k \in D
  BY DEF SameTitle
<1>3. doubts \subseteq Nat /\ doubts # {}
  <2>1. \A k \in same : 3 - list[k].confidence \in Nat
    BY <1>1, <1>2
  <2> HIDE DEF same
  <2> QED BY <1>2, <2>1
<1>4. \A k \in same : 3 - list[k].confidence \in doubts
  OBVIOUS
<1> HIDE DEF doubts
<1>5. PICK doubt \in doubts : \A x \in doubts : doubt <= x
  BY <1>3, LeastNatural
<1> DEFINE least == {k \in same : 3 - list[k].confidence = doubt}
<1>6. least \subseteq Nat /\ least # {}
  <2>1. \E k \in same : doubt = 3 - list[k].confidence
    BY <1>5 DEF doubts
  <2> QED BY <1>1, <1>2, <2>1
<1>7. \A k \in D : k \in least <=> SameTitle(list, k, a) /\ 3 - list[k].confidence = doubt
  OBVIOUS
<1>8. \A k \in least : k \in D
  OBVIOUS
<1> HIDE DEF least
<1>9. PICK i \in least : \A l \in least : i <= l
  BY <1>6, LeastNatural
<1>10. i \in D /\ SameTitle(list, i, a) /\ 3 - list[i].confidence = doubt
  BY <1>7, <1>8, <1>9
<1>11. ASSUME NEW j \in D, SameTitle(list, i, j)
       PROVE  \/ list[j].confidence < list[i].confidence
              \/ list[j].confidence = list[i].confidence /\ i <= j
  <2>1. SameTitle(list, j, a)
    BY <1>10, <1>11 DEF SameTitle
  <2>2. doubt <= 3 - list[j].confidence
    BY <1>4, <1>5, <2>1
  <2>3. list[j].confidence = list[i].confidence => i <= j
    BY <1>7, <1>9, <1>10, <2>1
  <2>4. list[i].confidence \in 0..3 /\ list[j].confidence \in 0..3
    BY <1>1, <1>10
  <2>5. ~(list[i].confidence < list[j].confidence)
    BY <1>10, <2>2, <2>4
  <2> QED BY <2>3, <2>4, <2>5
<1>12. i \in Surest(list)
  BY <1>10, <1>11 DEF Surest
<1>13. list[i].confidence >= list[a].confidence
  <2>1. doubt <= 3 - list[a].confidence
    BY <1>2, <1>4, <1>5
  <2> QED BY <1>1, <1>10, <2>1
<1> QED BY <1>10, <1>12, <1>13

LEMMA PreferredOrders ==
  ASSUME NEW list \in Seq(Products)
  PROVE  Orders({p \in Surest(list) \X Surest(list) : Preferred(list, p[1], p[2])}, Surest(list))
<1> DEFINE S == Surest(list)
           before == {p \in S \X S : Preferred(list, p[1], p[2])}
           conf(i) == list[i].confidence
<1>1. \A i \in S : i \in DOMAIN list /\ conf(i) \in 0..3
  BY ProductFields DEF Surest
<1>2. PICK first \in [DOMAIN list -> DOMAIN list] :
        \A i \in DOMAIN list : /\ SameTitle(list, first[i], i)
                               /\ \A l \in DOMAIN list : SameTitle(list, l, i) => first[i] <= l
  BY FirstSeen
<1>3. \A i \in S : first[i] \in DOMAIN list /\ first[i] \in Nat
  BY <1>1
<1>4. ASSUME NEW i \in S, NEW j \in S PROVE SeenBefore(list, i, j) <=> first[i] < first[j]
  <2>1. ASSUME SeenBefore(list, i, j) PROVE first[i] < first[j]
    <3>1. PICK k \in DOMAIN list : SameTitle(list, k, i) /\ \A l \in DOMAIN list : SameTitle(list, l, j) => k < l
      BY <2>1 DEF SeenBefore
    <3>2. first[i] <= k /\ k < first[j] /\ k \in Nat
      BY <1>1, <1>2, <1>3, <3>1
    <3> QED BY <1>3, <3>2
  <2>2. ASSUME first[i] < first[j] PROVE SeenBefore(list, i, j)
    <3>1. SameTitle(list, first[i], i)
      BY <1>1, <1>2
    <3>2. ASSUME NEW l \in DOMAIN list, SameTitle(list, l, j) PROVE first[i] < l
      <4>1. first[j] <= l /\ l \in Nat
        BY <1>1, <1>2, <3>2
      <4> QED BY <1>3, <2>2, <4>1
    <3> QED BY <1>3, <3>1, <3>2 DEF SeenBefore
  <2> QED BY <2>1, <2>2
<1>5. ASSUME NEW i \in S, NEW j \in S, first[i] = first[j] PROVE i = j
  <2>1. SameTitle(list, first[i], i) /\ SameTitle(list, first[j], j)
    BY <1>1, <1>2
  <2>2. SameTitle(list, i, j)
    BY <1>5, <2>1 DEF SameTitle
  <2> QED BY <2>2, SurestDiffer
<1>6. \A i, j \in S : <<i, j>> \in before <=> conf(i) > conf(j) \/ (conf(i) = conf(j) /\ first[i] < first[j])
  <2> SUFFICES ASSUME NEW i \in S, NEW j \in S
               PROVE  Preferred(list, i, j) <=> conf(i) > conf(j) \/ (conf(i) = conf(j) /\ first[i] < first[j])
    OBVIOUS
  <2> QED BY <1>4 DEF Preferred
<1> HIDE DEF before, conf, S
<1>7. \A i \in S : <<i, i>> \notin before
  BY <1>1, <1>3, <1>6
<1>8. \A i, j, k \in S : <<i, j>> \in before /\ <<j, k>> \in before => <<i, k>> \in before
  <2> SUFFICES ASSUME NEW i \in S, NEW j \in S, NEW k \in S, <<i, j>> \in before, <<j, k>> \in before
               PROVE  conf(i) > conf(k) \/ (conf(i) = conf(k) /\ first[i] < first[k])
    BY <1>6
  <2>1. conf(i) > conf(j) \/ (conf(i) = conf(j) /\ first[i] < first[j])
    BY <1>6
  <2>2. conf(j) > conf(k) \/ (conf(j) = conf(k) /\ first[j] < first[k])
    BY <1>6
  <2>3. conf(i) \in Int /\ conf(j) \in Int /\ conf(k) \in Int
    BY <1>1
  <2>4. first[i] \in Int /\ first[j] \in Int /\ first[k] \in Int
    BY <1>3
  <2> QED BY <2>1, <2>2, <2>3, <2>4
<1>9. \A i, j \in S : i = j \/ <<i, j>> \in before \/ <<j, i>> \in before
  <2> SUFFICES ASSUME NEW i \in S, NEW j \in S, i # j
               PROVE  \/ conf(i) > conf(j) \/ (conf(i) = conf(j) /\ first[i] < first[j])
                      \/ conf(j) > conf(i) \/ (conf(j) = conf(i) /\ first[j] < first[i])
    BY <1>6
  <2>1. first[i] # first[j]
    BY <1>5
  <2> QED BY <1>1, <1>3, <2>1
<1>10. Orders(before, S)
  BY <1>7, <1>8, <1>9 DEF Orders
<1> QED BY <1>10 DEF before, S

LEMMA EnrichesProducts ==
  ASSUME NEW list \in Seq(Products)
  PROVE  Enriches(EnrichProducts(list), list)
<1> DEFINE S == Surest(list)
           before == {p \in S \X S : Preferred(list, p[1], p[2])}
           out == EnrichProducts(list)
           N == Cardinality(S)
<1>1. S \in SUBSET DOMAIN list
  BY DEF Surest
<1>2. Orders(before, S)
  BY PreferredOrders
<1>3. out = Arranged(list, S, before)
  BY DEF EnrichProducts, BestFirst
<1>4. \A i, j \in S : <<i, j>> \in before => Preferred(list, i, j)
  OBVIOUS
<1> HIDE DEF S, before, out
<1>5. /\ out \in Seq(Products) /\ Len(out) = Cardinality(S)
      /\ \E order : Enumerates(order, S, before) /\ \A n \in 1..Cardinality(S) : out[n] = list[order[n]]
  BY <1>1, <1>2, <1>3, ArrangedIs
<1>6. PICK order : Enumerates(order, S, before) /\ \A n \in 1..Cardinality(S) : out[n] = list[order[n]]
  BY <1>5
<1>7. DOMAIN out = 1..N
  BY <1>5
<1> HIDE DEF N
<1>8. \A n \in 1..N : order[n] \in S /\ order[n] \in DOMAIN list /\ out[n] = list[order[n]]
  BY <1>1, <1>6 DEF Enumerates, N
<1>9. \A n \in DOMAIN out : out[n] \in Range(list)
  BY <1>7, <1>8 DEF Range
<1>10. ASSUME NEW m \in DOMAIN out, NEW n \in DOMAIN out, m < n
       PROVE  out[m].title[1] # out[n].title[1] /\ out[m].confidence >= out[n].confidence
  <2>1. <<order[m], order[n]>> \in before
    BY <1>6, <1>7, <1>10 DEF Enumerates, N
  <2>2. order[m] # order[n]
    BY <1>2, <1>7, <1>8, <2>1 DEF Orders
  <2>3. ~SameTitle(list, order[m], order[n])
    BY <1>7, <1>8, <2>2, SurestDiffer DEF S
  <2>4. Preferred(list, order[m], order[n])
    BY <1>4, <1>7, <1>8, <2>1
  <2>5. list[order[m]].confidence \in 0..3 /\ list[order[n]].confidence \in 0..3
    BY <1>7, <1>8, ProductFields
  <2>6. list[order[m]].confidence >= list[order[n]].confidence
    BY <2>4, <2>5 DEF Preferred
  <2> QED BY <1>7, <1>8, <2>3, <2>6 DEF SameTitle
<1>11. ASSUME NEW p \in Range(list)
       PROVE  \E d \in Range(out) : d.title[1] = p.title[1] /\ d.confidence >= p.confidence
  <2>1. PICK a \in DOMAIN list : p = list[a]
    BY DEF Range
  <2>2. PICK i \in S : SameTitle(list, i, a) /\ list[i].confidence >= list[a].confidence
    BY SurestExists DEF S
  <2>3. PICK n \in 1..N : order[n] = i
    BY <1>6 DEF Enumerates, N
  <2>4. out[n] = list[i] /\ out[n] \in Range(out)
    BY <1>7, <1>8, <2>3 DEF Range
  <2> QED BY <2>1, <2>2, <2>4 DEF SameTitle
<1>12. Enriches(out, list)
  BY <1>5, <1>9, <1>10, <1>11 DEF Enriches
<1> QED BY <1>12 DEF out

\* Nothing comes of nothing, and something of something.
LEMMA EnrichedIsEmpty ==
  ASSUME NEW list \in Seq(Products), NEW out, Enriches(out, list)
  PROVE  out = <<>> <=> list = <<>>
<1>1. ASSUME out = <<>> PROVE list = <<>>
  <2>1. Range(out) = {}
    BY <1>1 DEF Range
  <2>2. Range(list) = {}
    BY <2>1 DEF Enriches
  <2>3. \A i \in DOMAIN list : list[i] \in Range(list)
    BY DEF Range
  <2>4. Len(list) \in Nat /\ DOMAIN list = 1..Len(list)
    OBVIOUS
  <2>5. ~(Len(list) >= 1)
    BY <2>2, <2>3, <2>4
  <2> QED BY <2>4, <2>5
<1>2. ASSUME list = <<>> PROVE out = <<>>
  <2>1. Range(list) = {}
    BY <1>2 DEF Range
  <2>2. out \in Seq(Products) /\ \A n \in DOMAIN out : FALSE
    BY <2>1 DEF Enriches
  <2>3. Len(out) \in Nat /\ DOMAIN out = 1..Len(out)
    BY <2>2
  <2>4. ~(Len(out) >= 1)
    BY <2>2, <2>3
  <2> QED BY <2>2, <2>3, <2>4
<1> QED BY <1>1, <1>2
LEMMA NothingToDedupe == SemanticDedupe(<<>>) = <<>>
<1> DEFINE none == <<>>
           near == {p \in (1..Len(none)) \X (1..Len(none)) : <<none[p[1]].shot, none[p[2]].shot>> \in SimilarShots}
           keep == UnlikeKept(Len(none), near)
           out == AtIndices(none, keep)
<1>1. none \in Seq(Frames) /\ Len(none) = 0 /\ 1..Len(none) = {} /\ DOMAIN none = {} /\ none = <<>>
  OBVIOUS
<1>2. SemanticDedupe(<<>>) = out
  BY DEF SemanticDedupe
<1> HIDE DEF near, none
<1>3. keep \in SUBSET (1..Len(none))
  BY <1>1, UnlikeKeptIs
<1>4. keep \in SUBSET DOMAIN none /\ keep = {}
  BY <1>1, <1>3
<1>5. out = AtIndices(none, keep)
  OBVIOUS
<1> HIDE DEF keep, out
<1>6. out \in Seq(Frames) /\ \E order : Selects(order, out, none, keep)
  BY <1>1, <1>4, <1>5, AtIndicesIs
<1>7. PICK order : Selects(order, out, none, keep)
  BY <1>6
<1>8. \A n \in DOMAIN out : FALSE
  BY <1>4, <1>7 DEF Selects
<1>9. Len(out) \in Nat /\ DOMAIN out = 1..Len(out)
  BY <1>6
<1>10. ~(Len(out) >= 1)
  BY <1>8, <1>9
<1> QED BY <1>2, <1>6, <1>9, <1>10

-----------------------------------------------------------------------------
(* What a draft is made of.                                                 *)

\* What a database said of a code bears that code.
AnswersBearTheirCode == \A c \in Codes : looked[c] # None => looked[c].code = c

LEMMA CorrectedIs ==
  ASSUME TypeOK, AnswersBearTheirCode
  PROVE  /\ Corrected \in Seq(Products) /\ Len(Corrected) = Len(vision)
         /\ \A i \in DOMAIN Corrected :
              Corrected[i].code # None /\ looked[Corrected[i].code] # None => Corrected[i] = looked[Corrected[i].code]
<1>1. vision \in Seq(Products) /\ looked \in [Codes -> Products \union {None}]
  BY DEF TypeOK
<1>2. ASSUME NEW i \in DOMAIN vision
      PROVE  /\ Corrected[i] \in Products
             /\ Corrected[i].code # None /\ looked[Corrected[i].code] # None => Corrected[i] = looked[Corrected[i].code]
  <2> DEFINE c == vision[i].code
  <2>1. vision[i] \in Products
    BY <1>1
  <2>2. c \in Codes \union {None}
    BY <2>1, ProductFields
  <2>3. Corrected[i] = IF c # None /\ looked[c] # None THEN looked[c] ELSE vision[i]
    BY DEF Corrected
  <2>4. CASE c # None /\ looked[c] # None
    <3>1. Corrected[i] = looked[c] /\ c \in Codes
      BY <2>2, <2>3, <2>4
    <3>2. looked[c] \in Products /\ looked[c].code = c
      BY <1>1, <2>4, <3>1 DEF AnswersBearTheirCode
    <3> QED BY <3>1, <3>2
  <2>5. CASE ~(c # None /\ looked[c] # None)
    <3>1. Corrected[i] = vision[i]
      BY <2>3, <2>5
    <3> QED BY <2>1, <2>5, <3>1
  <2> QED BY <2>4, <2>5
<1>3. Len(vision) \in Nat /\ DOMAIN vision = 1..Len(vision) /\ DOMAIN Corrected = DOMAIN vision
      /\ Corrected = [i \in 1..Len(vision) |-> Corrected[i]]
  BY <1>1 DEF Corrected
<1>4. Corrected \in [1..Len(vision) -> Products]
  BY <1>2, <1>3
<1>5. Corrected \in Seq(Products) /\ Len(Corrected) = Len(vision)
  BY <1>3, <1>4
<1> QED BY <1>2, <1>3, <1>5

LEMMA StandaloneIs ==
  ASSUME TypeOK, AnswersBearTheirCode
  PROVE  /\ Standalone \in Seq(Products)
         /\ \A n \in DOMAIN Standalone : Standalone[n] = looked[Standalone[n].code]
<1> DEFINE found == {i \in DOMAIN seeds : looked[seeds[i]] # None /\ seeds[i] \notin CodesOf(vision)}
           list == [i \in DOMAIN seeds |-> looked[seeds[i]]]
           out == Standalone
<1>1. seeds \in Seq(Codes) /\ looked \in [Codes -> Products \union {None}]
  BY DEF TypeOK
<1>2. list \in Seq(Products \union {None}) /\ found \in SUBSET DOMAIN list
  BY <1>1
<1>3. \A i \in found : list[i] \in Products /\ list[i] = looked[list[i].code]
  <2> SUFFICES ASSUME NEW i \in found PROVE list[i] \in Products /\ list[i] = looked[list[i].code]
    OBVIOUS
  <2>1. seeds[i] \in Codes /\ looked[seeds[i]] # None /\ list[i] = looked[seeds[i]]
    BY <1>1
  <2>2. list[i] \in Products /\ list[i].code = seeds[i]
    BY <1>1, <2>1 DEF AnswersBearTheirCode
  <2> QED BY <2>1, <2>2
<1>4. out = AtIndices(list, found)
  BY DEF Standalone
<1> HIDE DEF found, list, out
<1>5. out \in Seq(Products \union {None}) /\ \E order : Selects(order, out, list, found)
  BY <1>2, <1>4, AtIndicesIs
<1>6. PICK order : Selects(order, out, list, found)
  BY <1>5
<1>7. \A n \in DOMAIN out : out[n] \in Products /\ out[n] = looked[out[n].code]
  BY <1>3, <1>6 DEF Selects
<1>8. Len(out) \in Nat /\ DOMAIN out = 1..Len(out) /\ out = [n \in 1..Len(out) |-> out[n]]
  BY <1>5
<1>9. out \in [1..Len(out) -> Products]
  BY <1>7, <1>8
<1> QED BY <1>7, <1>8, <1>9 DEF out

\* What was read agrees with the databases, and comes of nothing only if the
\* second model named nothing.
LEMMA RealProductsAre ==
  ASSUME TypeOK, AnswersBearTheirCode
  PROVE  /\ RealProducts \in Seq(Products)
         /\ RealProducts = <<>> => vision = <<>>
         /\ \A d \in Range(RealProducts) : d.code # None /\ looked[d.code] # None => d = looked[d.code]
<1> DEFINE s == Standalone
           c == Corrected
           real == RealProducts
<1>1. s \in Seq(Products) /\ \A n \in DOMAIN s : s[n] = looked[s[n].code]
  BY StandaloneIs
<1>2. /\ c \in Seq(Products) /\ Len(c) = Len(vision)
      /\ \A i \in DOMAIN c : c[i].code # None /\ looked[c[i].code] # None => c[i] = looked[c[i].code]
  BY CorrectedIs
<1>3. real = s \o c
  BY DEF RealProducts
<1>4. vision \in Seq(Products)
  BY DEF TypeOK
<1> HIDE DEF s, c, real
<1>5. real \in Seq(Products) /\ Len(real) = Len(s) + Len(c)
  <2>1. s \in Seq(Products) /\ c \in Seq(Products)
    BY <1>1, <1>2
  <2>2. s \o c \in Seq(Products) /\ Len(s \o c) = Len(s) + Len(c)
    BY <2>1, ConcatProperties, Zenon
  <2> QED BY <1>3, <2>2
<1>6. real = <<>> => vision = <<>>
  <2>1. Len(s) \in Nat /\ Len(c) \in Nat
    BY <1>1, <1>2
  <2>2. real = <<>> => Len(real) = 0
    OBVIOUS
  <2>3. Len(vision) = 0 => vision = <<>>
    BY <1>4
  <2> QED BY <1>2, <1>5, <2>1, <2>2, <2>3
<1>7. ASSUME NEW n \in DOMAIN real
      PROVE  real[n].code # None /\ looked[real[n].code] # None => real[n] = looked[real[n].code]
  <2>1. Len(s) \in Nat /\ Len(c) \in Nat /\ DOMAIN s = 1..Len(s) /\ DOMAIN c = 1..Len(c) /\ n \in 1..(Len(s) + Len(c))
    BY <1>1, <1>2, <1>5
  <2>2. CASE n <= Len(s)
    <3>1. real[n] = s[n] /\ n \in DOMAIN s
      BY <1>1, <1>2, <1>3, <2>1, <2>2
    <3> QED BY <1>1, <3>1
  <2>3. CASE ~(n <= Len(s))
    <3>1. n - Len(s) \in DOMAIN c /\ real[n] = c[n - Len(s)]
      BY <1>1, <1>2, <1>3, <2>1, <2>3
    <3> QED BY <1>2, <3>1
  <2> QED BY <2>2, <2>3
<1>8. \A d \in Range(real) : d.code # None /\ looked[d.code] # None => d = looked[d.code]
  BY <1>7 DEF Range
<1> QED BY <1>5, <1>6, <1>8 DEF real

LEMMA MockIsNoProduct ==
  /\ \A list \in Seq(Products) : list # Mock
  /\ Mock # <<>> /\ Mock \in Seq(Range(Mock)) /\ DOMAIN Mock = {1}
  /\ \A d \in Range(Mock) : d.code = None
<1> DEFINE m == [title |-> <<"mock", "a">>, code |-> None, confidence |-> 3]
<1>1. Mock = <<m>> /\ m.code = None /\ m.title = <<"mock", "a">>
  BY DEF Mock
<1> HIDE DEF m
<1>2. DOMAIN Mock = {1} /\ Mock[1] = m /\ Mock # <<>> /\ Len(Mock) = 1
  BY <1>1
<1>3. Range(Mock) = {m}
  BY <1>2 DEF Range
<1>4. ASSUME NEW list \in Seq(Products), list = Mock PROVE FALSE
  <2>1. list[1] \in Products
    BY <1>2, <1>4
  <2>2. m \in Products
    BY <1>2, <1>4, <2>1
  <2>3. m.title \in Keys \X Forms
    BY <2>2, ProductFields DEF Titles
  <2>4. "mock" \in Keys
    BY <1>1, <2>3
  <2> QED BY <2>4, AnalysisAssumption
<1>5. Mock \in Seq(Range(Mock))
  BY <1>1, <1>3
<1> QED BY <1>1, <1>2, <1>3, <1>4, <1>5
-----------------------------------------------------------------------------
(* The invariant.                                                           *)

\* The inductive invariant: the clip is there to be sampled, an answer bears its
\* code, and there is a reason for samples exactly while no product is named.
AnalysisInv ==
  /\ TypeOK
  /\ stage = "sampling" => clip \in Clips
  /\ AnswersBearTheirCode
  /\ stage = "looking up" => (note = None <=> vision # <<>>)
  /\ DraftsAreGrounded

LEMMA InitInv == Init => AnalysisInv
<1> SUFFICES ASSUME Init PROVE AnalysisInv
  OBVIOUS
<1>1. stage = "sampling" /\ clip \in Clips /\ frames = <<>> /\ seeds = <<>> /\ vision = <<>> /\ left = <<>>
      /\ looked = [c \in Codes |-> None] /\ drafts = <<>> /\ note = None
  BY DEF Init
<1>2. TypeOK
  BY <1>1 DEF TypeOK, Stages
<1>3. AnswersBearTheirCode
  BY <1>1 DEF AnswersBearTheirCode
<1>4. DraftsAreGrounded
  BY <1>1 DEF DraftsAreGrounded, FramesStandForTheClip, DraftsFollowWhatWasRead
<1> QED BY <1>1, <1>2, <1>3, <1>4 DEF AnalysisInv

\* What the sampler hands over stands for the clip.
LEMMA SamplesStand ==
  ASSUME NEW cut \in Clips, NEW kept \in {<<>>, ExtractVideoFrames(cut)}, NEW some \in {kept, SemanticDedupe(kept)}
  PROVE  some = <<>> \/ (Represents(some, cut) /\ (Measured(cut, "hash") => Apart(some)))
<1>1. CASE kept = <<>>
  BY <1>1, NothingToDedupe
<1>2. CASE kept = ExtractVideoFrames(cut)
  <2>1. Represents(kept, cut) /\ (Measured(cut, "hash") => Apart(kept))
    BY <1>2, ExtractedRepresent
  <2>2. Represents(SemanticDedupe(kept), cut) /\ (Apart(kept) => Apart(SemanticDedupe(kept)))
    BY <2>1, ShotsRepresent
  <2> QED BY <2>1, <2>2
<1> QED BY <1>1, <1>2

LEMMA SampleStep == AnalysisInv /\ Sample => AnalysisInv'
<1> SUFFICES ASSUME AnalysisInv, Sample PROVE AnalysisInv'
  OBVIOUS
<1>1. /\ stage = "sampling" /\ stage' = "reading" /\ clip' = clip /\ clip \in Clips
      /\ UNCHANGED <<seeds, vision, left, looked, drafts, note>>
  BY DEF Sample, AnalysisInv
<1>2. PICK kept \in {<<>>, ExtractVideoFrames(clip)} : frames' \in {kept, SemanticDedupe(kept)}
  BY DEF Sample
<1>3. frames' = <<>> \/ (Represents(frames', clip) /\ (Measured(clip, "hash") => Apart(frames')))
  BY <1>1, <1>2, SamplesStand
<1>4. frames' \in Seq(Frames)
  <2>1. CASE frames' = <<>>
    BY <2>1
  <2>2. CASE Represents(frames', clip)
    <3>1. \A some : Represents(some, clip) => some \in Seq(Frames)
      BY DEF Represents
    <3> QED BY <2>2, <3>1
  <2> QED BY <1>3, <2>1, <2>2
<1>5. TypeOK'
  BY <1>1, <1>4 DEF AnalysisInv, TypeOK, Stages
<1>6. AnswersBearTheirCode'
  BY <1>1 DEF AnalysisInv, AnswersBearTheirCode
<1>7. FramesStandForTheClip'
  <2>1. CASE frames' = <<>>
    BY <2>1 DEF FramesStandForTheClip
  <2>2. CASE frames' # <<>>
    BY <1>1, <1>3, <2>2 DEF FramesStandForTheClip, Represents, Apart, Measured, Range, Hamming
  <2> QED BY <2>1, <2>2
<1>8. DraftsFollowWhatWasRead'
  BY <1>1 DEF DraftsFollowWhatWasRead
<1> QED BY <1>1, <1>5, <1>6, <1>7, <1>8 DEF AnalysisInv, DraftsAreGrounded

\* A step that neither samples nor drafts has only its types to keep.
LEMMA QuietStep ==
  ASSUME TypeOK', AnswersBearTheirCode', stage' \notin {"sampling", "reading", "done"},
         stage' = "looking up" => (note' = None <=> vision' # <<>>)
  PROVE  AnalysisInv'
BY DEF AnalysisInv, DraftsAreGrounded, FramesStandForTheClip, DraftsFollowWhatWasRead

LEMMA ScanStep == AnalysisInv /\ Scan => AnalysisInv'
<1> SUFFICES ASSUME AnalysisInv, Scan PROVE AnalysisInv'
  OBVIOUS
<1>1. /\ stage' = "finding" /\ clip' = <<>> /\ UNCHANGED <<frames, vision, left, looked, drafts, note>>
      /\ frames \in Seq(Frames)
  BY DEF Scan, AnalysisInv, TypeOK
<1>2. PICK decoded \in SUBSET DOMAIN frames :
        seeds' = Distinct(Present([i \in DOMAIN frames |-> IF i \in decoded THEN frames[i].code ELSE None]))
  BY DEF Scan
<1> DEFINE read == [i \in DOMAIN frames |-> IF i \in decoded THEN frames[i].code ELSE None]
<1>3. read \in Seq(Codes \union {None})
  <2>1. \A i \in DOMAIN frames : frames[i] \in Frames
    BY <1>1
  <2>2. \A i \in DOMAIN frames : read[i] \in Codes \union {None}
    BY <2>1, FrameFields
  <2>3. Len(frames) \in Nat /\ DOMAIN frames = 1..Len(frames)
    BY <1>1
  <2>4. read = [i \in 1..Len(frames) |-> read[i]]
    BY <2>3
  <2> HIDE DEF read
  <2>5. read \in [1..Len(frames) -> Codes \union {None}]
    BY <2>2, <2>3, <2>4
  <2> QED BY <2>3, <2>5
<1>4. seeds' = Distinct(Present(read))
  BY <1>2
<1> HIDE DEF read
<1>5. seeds' \in Seq(Codes)
  BY <1>3, <1>4, PresentIsAList, DistinctIsAList
<1>6. TypeOK'
  BY <1>1, <1>5 DEF AnalysisInv, TypeOK, Stages
<1>7. AnswersBearTheirCode'
  BY <1>1 DEF AnalysisInv, AnswersBearTheirCode
<1> QED BY <1>1, <1>6, <1>7, QuietStep

LEMMA FindBarcodesStep == AnalysisInv /\ FindBarcodes => AnalysisInv'
<1> SUFFICES ASSUME AnalysisInv, FindBarcodes PROVE AnalysisInv'
  OBVIOUS
<1>1. stage' = "analysing" /\ UNCHANGED <<clip, frames, vision, left, looked, drafts, note>> /\ seeds \in Seq(Codes)
  BY DEF FindBarcodes, AnalysisInv, TypeOK
<1>2. seeds' \in Seq(Codes)
  <2>1. CASE UNCHANGED seeds
    BY <1>1, <2>1
  <2>2. CASE \E c \in Codes : seeds' = Distinct(Append(seeds, c))
    <3>1. PICK c \in Codes : seeds' = Distinct(Append(seeds, c))
      BY <2>2
    <3>2. Append(seeds, c) \in Seq(Codes)
      BY <1>1
    <3> QED BY <3>1, <3>2, DistinctIsAList
  <2> QED BY <2>1, <2>2 DEF FindBarcodes
<1>3. TypeOK'
  BY <1>1, <1>2 DEF AnalysisInv, TypeOK, Stages
<1>4. AnswersBearTheirCode'
  BY <1>1 DEF AnalysisInv, AnswersBearTheirCode
<1> QED BY <1>1, <1>3, <1>4, QuietStep

LEMMA AnalyzeStep == AnalysisInv /\ Analyze => AnalysisInv'
<1> SUFFICES ASSUME AnalysisInv, Analyze PROVE AnalysisInv'
  OBVIOUS
<1>1. /\ stage' = "looking up" /\ UNCHANGED <<clip, frames, seeds, looked, drafts>> /\ seeds \in Seq(Codes)
      /\ left' = Distinct(seeds \o Present([i \in DOMAIN vision' |-> vision'[i].code]))
  BY DEF Analyze, AnalysisInv, TypeOK
<1>2. PICK seen \in Sightings, answers \in BOOLEAN :
        /\ vision' = IF answers THEN EnrichProducts(seen) ELSE <<>>
        /\ note' = IF answers /\ EnrichProducts(seen) # <<>> THEN None ELSE "sample products"
  BY DEF Analyze
<1> DEFINE enriched == EnrichProducts(seen)
<1>3. enriched \in Seq(Products)
  <2>1. seen \in Seq(Products)
    BY AnalysisAssumption
  <2> QED BY <2>1, EnrichesProducts DEF Enriches
<1>4. /\ vision' = IF answers THEN enriched ELSE <<>>
      /\ note' = IF answers /\ enriched # <<>> THEN None ELSE "sample products"
  BY <1>2
<1> HIDE DEF enriched
<1>5. None # "sample products"
  BY AnalysisAssumption, Zenon
<1>6. note' \in {None, "sample products"} /\ (note' = None <=> vision' # <<>>)
  BY <1>4, <1>5
<1>7. vision' \in Seq(Products)
  <2>1. CASE vision' = enriched
    BY <1>3, <2>1
  <2>2. CASE vision' = <<>>
    BY <2>2
  <2> QED BY <1>4, <2>1, <2>2
<1> DEFINE bare == [i \in DOMAIN vision' |-> vision'[i].code]
<1>8. bare \in Seq(Codes \union {None})
  <2>1. \A i \in DOMAIN vision' : vision'[i] \in Products
    BY <1>7
  <2>2. \A i \in DOMAIN vision' : bare[i] \in Codes \union {None}
    BY <2>1, ProductFields
  <2>3. Len(vision') \in Nat /\ DOMAIN vision' = 1..Len(vision')
    BY <1>7
  <2>4. bare = [i \in 1..Len(vision') |-> bare[i]]
    BY <2>3
  <2> HIDE DEF bare
  <2>5. bare \in [1..Len(vision') -> Codes \union {None}]
    BY <2>2, <2>3, <2>4
  <2> QED BY <2>3, <2>5
<1>9. left' = Distinct(seeds \o Present(bare))
  BY <1>1
<1> HIDE DEF bare
<1>10. left' \in Seq(Codes)
  <2>1. Present(bare) \in Seq(Codes)
    BY <1>8, PresentIsAList
  <2>2. seeds \in Seq(Codes)
    BY <1>1
  <2>3. seeds \o Present(bare) \in Seq(Codes)
    BY <2>2, <2>1, ConcatProperties, Zenon
  <2> QED BY <1>9, <2>3, DistinctIsAList
<1>11. TypeOK'
  BY <1>1, <1>7, <1>10, <1>6 DEF AnalysisInv, TypeOK, Stages
<1>12. AnswersBearTheirCode'
  BY <1>1 DEF AnalysisInv, AnswersBearTheirCode
<1> QED BY <1>1, <1>11, <1>12, <1>6, QuietStep

LEMMA LookUpStep == AnalysisInv /\ LookUp => AnalysisInv'
<1> SUFFICES ASSUME AnalysisInv, LookUp PROVE AnalysisInv'
  OBVIOUS
<1>1. /\ stage = "looking up" /\ left # <<>> /\ left' = Tail(left)
      /\ UNCHANGED <<stage, clip, frames, seeds, vision, drafts, note>>
      /\ left \in Seq(Codes) /\ looked \in [Codes -> Products \union {None}]
  BY DEF LookUp, AnalysisInv, TypeOK
<1>2. Head(left) \in Codes /\ left' \in Seq(Codes)
  <2>1. left \in Seq(Codes) /\ left # <<>> /\ left' = Tail(left)
    BY <1>1
  <2> QED BY <2>1, HeadTailProperties, Zenon
<1> DEFINE c == Head(left)
<1>3. \E answer \in Products \union {None} : looked' = [looked EXCEPT ![c] = answer] /\ (answer # None => answer.code = c)
  <2> DEFINE knows == {i \in DOMAIN Hosts : Known[Hosts[i]][c] # None}
  <2>1. PICK up \in SUBSET knows :
          looked' = [looked EXCEPT ![c] =
            IF up = {} THEN None
            ELSE LET h == CHOOSE i \in up : \A j \in up : i <= j IN Product(Known[Hosts[h]][c], c, Sure)]
    BY DEF LookUp
  <2>2. CASE up = {}
    BY <2>1, <2>2
  <2>3. CASE up # {}
    <3> DEFINE h == CHOOSE i \in up : \A j \in up : i <= j
               answer == Product(Known[Hosts[h]][c], c, Sure)
    <3>1. up \subseteq Nat
      BY AnalysisAssumption
    <3>2. \E i \in up : \A j \in up : i <= j
      BY <2>3, <3>1, LeastNatural
    <3>3. h \in up
      BY <3>2
    <3>4. h \in DOMAIN Hosts /\ Known[Hosts[h]][c] # None
      BY <3>3
    <3>5. looked' = [looked EXCEPT ![c] = answer]
      BY <2>1, <2>3
    <3> HIDE DEF h
    <3>6. Known[Hosts[h]] \in [Codes -> Titles \union {None}]
      BY <3>4, AnalysisAssumption
    <3>7. Known[Hosts[h]][c] \in Titles
      BY <1>2, <3>4, <3>6
    <3>8. answer = [title |-> Known[Hosts[h]][c], code |-> c, confidence |-> 2]
      BY DEF Product, Sure
    <3> HIDE DEF c, answer
    <3>9. answer \in Products /\ answer.code = c
      BY <1>2, <3>7, <3>8 DEF Products, c
    <3> QED BY <3>5, <3>9
  <2> QED BY <2>2, <2>3
<1> HIDE DEF c
<1>4. PICK answer \in Products \union {None} :
        looked' = [looked EXCEPT ![c] = answer] /\ (answer # None => answer.code = c)
  BY <1>3
<1>5. looked' \in [Codes -> Products \union {None}]
  BY <1>1, <1>4
<1>6. AnswersBearTheirCode'
  BY <1>1, <1>4 DEF AnalysisInv, AnswersBearTheirCode
<1>7. TypeOK'
  BY <1>1, <1>2, <1>5 DEF AnalysisInv, TypeOK
<1> QED BY <1>1, <1>6, <1>7, QuietStep DEF AnalysisInv

LEMMA DraftStep == AnalysisInv /\ Draft => AnalysisInv'
<1> SUFFICES ASSUME AnalysisInv, Draft PROVE AnalysisInv'
  OBVIOUS
<1> DEFINE real == RealProducts
<1>1. /\ stage = "looking up" /\ stage' = "done" /\ UNCHANGED <<clip, frames, seeds, vision, left, looked>>
      /\ IF real # <<>> THEN drafts' = EnrichProducts(real) /\ note' = None
         ELSE drafts' = Mock /\ note' = note
  BY DEF Draft
<1>2. TypeOK /\ AnswersBearTheirCode /\ (note = None <=> vision # <<>>)
  BY <1>1 DEF AnalysisInv
<1>3. /\ real \in Seq(Products) /\ (real = <<>> => vision = <<>>)
      /\ \A d \in Range(real) : d.code # None /\ looked[d.code] # None => d = looked[d.code]
  BY <1>2, RealProductsAre
<1>4. UNCHANGED <<seeds, vision, looked>>
  BY <1>1
<1>5. real' = real
  BY <1>4 DEF RealProducts, Standalone, Corrected, CodesOf, AtIndices, Arranged, InOrder
<1> HIDE DEF real
<1>6. Enriches(EnrichProducts(real), real)
  BY <1>3, EnrichesProducts
<1>7. AnswersBearTheirCode'
  BY <1>1, <1>2 DEF AnswersBearTheirCode
<1>8. CASE real # <<>>
  <2>1. drafts' = EnrichProducts(real) /\ note' = None
    BY <1>1, <1>8
  <2>2. Enriches(drafts', real)
    BY <1>6, <2>1
  <2>3. drafts' \in Seq(Products)
    BY <2>2 DEF Enriches
  <2>4. drafts' \in Seq(Products \union Range(Mock))
    BY <2>3
  <2>5. drafts' # Mock
    BY <2>3, MockIsNoProduct
  <2>6. \A d \in Range(drafts') : d.code # None /\ looked[d.code] # None => d = looked[d.code]
    BY <1>3, <2>2 DEF Enriches, Range
  <2>7. /\ \A i, j \in DOMAIN drafts' : i < j =>
             drafts'[i].title[1] # drafts'[j].title[1] /\ drafts'[i].confidence >= drafts'[j].confidence
        /\ \A p \in Range(real) : \E d \in Range(drafts') : d.title[1] = p.title[1] /\ d.confidence >= p.confidence
    BY <2>2 DEF Enriches
  <2>8. DraftsFollowWhatWasRead'
    <3>1. looked' = looked /\ RealProducts' = real
      BY <1>5, <1>4 DEF real
    <3>2. (note' # None) = (RealProducts' = <<>>)
      BY <1>8, <2>1, <3>1
    <3>3. (note' # None) = (drafts' = Mock)
      BY <2>1, <2>5
    <3> QED BY <2>6, <2>7, <3>1, <3>2, <3>3 DEF DraftsFollowWhatWasRead
  <2>9. TypeOK'
    BY <1>1, <1>2, <2>1, <2>4 DEF TypeOK, Stages
  <2> QED BY <1>1, <1>7, <2>8, <2>9 DEF AnalysisInv, DraftsAreGrounded, FramesStandForTheClip
<1>9. CASE real = <<>>
  <2>1. drafts' = Mock /\ note' = note /\ note # None
    BY <1>1, <1>2, <1>3, <1>9
  <2>2. drafts' \in Seq(Products \union Range(Mock))
    BY <2>1, MockIsNoProduct
  <2>3. \A d \in Range(drafts') : d.code = None
    BY <2>1, MockIsNoProduct DEF Range
  <2>4. DOMAIN drafts' = {1}
    BY <2>1, MockIsNoProduct
  <2>5. Range(real) = {}
    BY <1>9 DEF Range
  <2>6. DraftsFollowWhatWasRead'
    <3>1. looked' = looked /\ RealProducts' = real
      BY <1>5, <1>4 DEF real
    <3>2. (note' # None) = (RealProducts' = <<>>)
      BY <1>9, <2>1, <3>1
    <3>3. (note' # None) = (drafts' = Mock)
      BY <2>1
    <3>4. \A d \in Range(drafts') : d.code # None /\ looked'[d.code] # None => d = looked'[d.code]
      BY <2>3
    <3>5. \A i, j \in DOMAIN drafts' : i < j =>
            drafts'[i].title[1] # drafts'[j].title[1] /\ drafts'[i].confidence >= drafts'[j].confidence
      BY <2>4
    <3>6. \A p \in Range(RealProducts') :
            \E d \in Range(drafts') : d.title[1] = p.title[1] /\ d.confidence >= p.confidence
      BY <2>5, <3>1
    <3> QED BY <3>2, <3>3, <3>4, <3>5, <3>6 DEF DraftsFollowWhatWasRead
  <2>7. TypeOK'
    BY <1>1, <1>2, <2>1, <2>2 DEF TypeOK, Stages
  <2> QED BY <1>1, <1>7, <2>6, <2>7 DEF AnalysisInv, DraftsAreGrounded, FramesStandForTheClip
<1> QED BY <1>8, <1>9

LEMMA StutterStep == AnalysisInv /\ UNCHANGED vars => AnalysisInv'
<1> SUFFICES ASSUME AnalysisInv, UNCHANGED vars PROVE AnalysisInv'
  OBVIOUS
<1>1. UNCHANGED <<stage, clip, frames, seeds, vision, left, looked, drafts, note>>
  BY DEF vars
<1>2. TypeOK' /\ AnswersBearTheirCode'
  BY <1>1 DEF AnalysisInv, TypeOK, AnswersBearTheirCode
<1>3. FramesStandForTheClip'
  BY <1>1 DEF AnalysisInv, DraftsAreGrounded, FramesStandForTheClip, Measured, Range, Hamming
<1>4. RealProducts' = RealProducts
  BY <1>1 DEF RealProducts, Standalone, Corrected, CodesOf, AtIndices, Arranged, InOrder
<1>5. DraftsFollowWhatWasRead'
  BY <1>1, <1>4 DEF AnalysisInv, DraftsAreGrounded, DraftsFollowWhatWasRead, Range
<1> QED BY <1>1, <1>2, <1>3, <1>5 DEF AnalysisInv, DraftsAreGrounded

LEMMA AnalysisInvHolds == Spec => []AnalysisInv
<1>1. AnalysisInv /\ [Next]_vars => AnalysisInv'
  <2> SUFFICES ASSUME AnalysisInv, [Next]_vars PROVE AnalysisInv'
    OBVIOUS
  <2> QED BY SampleStep, ScanStep, FindBarcodesStep, AnalyzeStep, LookUpStep, DraftStep, StutterStep DEF Next
<1> QED BY InitInv, <1>1, PTL DEF Spec

\* Whatever the clip and however its sources fail (frame-sampler.service.ts,
\* semantic-deduper.service.ts, extraction-analyzer.service.ts and
\* extraction.processor.ts): the analysed frames keep the order of the clip, no
\* two that were hashed look alike, and one is left out only for a sharper one or
\* one like it; a draft is what a database says of its code, there is one per
\* title, at least as sure as anything read of it, and samples are drafted, with
\* the reason, exactly when nothing was read.
THEOREM DraftsGrounded == Spec => [](TypeOK /\ DraftsAreGrounded)
<1>1. AnalysisInv => TypeOK /\ DraftsAreGrounded
  BY DEF AnalysisInv
<1> QED BY <1>1, AnalysisInvHolds, PTL
=============================================================================
