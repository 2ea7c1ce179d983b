--------------------------- MODULE PatchToolsProofs ---------------------------
(***************************************************************************)
(* The tools that rewrite a patch keep what they promise, for every patch  *)
(* and number of runs.                                                     *)
(*                                                                         *)
(* t06, which repairs the roads: the soundness of a finished run           *)
(* (RepairsAreSound) follows from what is known of every road come past    *)
(* and every node made so far (Mended).  That a node is not lost where the *)
(* road reaches it rests on the existence of a run of the clip up to that  *)
(* end (HeldEndIsReached) and on the order in which segments are chosen.   *)
(* That what lies in the directory belongs together (PublishedStaysClosed) *)
(* follows from the order of the files and their clearing (Publishing).    *)
(*                                                                         *)
(* t02, which cleans clouds of layers: a row that passes is only as good   *)
(* as what patch_stats.json said when it was written, so the invariant     *)
(* (Booked) relates the copies and the statistics of every patch, also of  *)
(* those the batch has not come to: as long as nothing was cut short, what *)
(* exists in the format of the batches is what the statistics speak of     *)
(* (UncutKept); when all batches ask for the same, statistics in that      *)
(* format are final, whatever was cut short (AlikeKept).                   *)
(***************************************************************************)
EXTENDS MultilayerBatch, PatchPreprocess, FiniteSetTheorems, WellFoundedInduction, TLAPS

LEMMA LeastOfSome ==
    ASSUME NEW S, S \subseteq Nat, S # {}
    PROVE  \E n \in S : \A m \in S : n <= m
<1> DEFINE Less == OpToRel(<, Nat)
<1>1. PICK n \in S : \A m \in S : <<m, n>> \notin Less
  BY NatLessThanWellFounded, WFMin
<1>2. Less = {s \in Nat \X Nat : s[1] < s[2]}
  BY DEF OpToRel
<1>3. \A m \in Nat : m < n => <<m, n>> \in Less
  BY <1>2
<1> HIDE DEF Less
<1>4. \A m \in S : ~(m < n)
  BY <1>1, <1>3
<1> QED
  BY <1>4

-----------------------------------------------------------------------------
(* A node, by its id.                                                      *)

LEMMA FirstIsThere ==
    ASSUME NEW nodes, IsSeq(nodes), NEW id \in IdsOf(nodes)
    PROVE  First(nodes, id) \in ToSet(nodes) /\ First(nodes, id).id = id
<1> DEFINE S == {i \in DOMAIN nodes : nodes[i].id = id}
<1>1. nodes \in Seq(ToSet(nodes))
  BY DEF IsSeq
<1>2. DOMAIN nodes \subseteq Nat
  BY <1>1
<1>3. S \subseteq Nat /\ S # {}
  BY <1>2 DEF IdsOf, ToSet
<1>4. \A i \in S : i \in DOMAIN nodes /\ nodes[i].id = id
  OBVIOUS
<1>5. First(nodes, id) = nodes[Min(S)]
  BY DEF First
<1> HIDE DEF S
<1>6. PICK n \in S : \A m \in S : n <= m
  BY <1>3, LeastOfSome
<1>7. Min(S) \in S
  BY <1>6 DEF Min
<1> QED
  BY <1>4, <1>5, <1>7 DEF ToSet

(* A generated id is in use nowhere else.                                  *)
LEMMA NewIdIsNew ==
    ASSUME NEW inUse, IsFiniteSet(inUse), NEW key, NEW side, NEW p
    PROVE  /\ NewId(key, side, p, inUse) \notin inUse
           /\ Virtual(NewId(key, side, p, inUse))
<1> DEFINE N == Cardinality(inUse)
           Salted(n) == <<key, side, p, n>>
           f == [n \in 0..N |-> Salted(n)]
           Free == {n \in 0..N : Salted(n) \notin inUse}
<1>1. N \in Nat
  BY FS_CardinalityType
<1>2. Free # {}
  <2> SUFFICES ASSUME \A n \in 0..N : Salted(n) \in inUse PROVE FALSE
    OBVIOUS
  <2>1. f \in [0..N -> inUse]
    OBVIOUS
  <2>2. \A m, n \in 0..N : f[m] = f[n] => m = n
    OBVIOUS
  <2>3. IsFiniteSet(0..N) /\ Cardinality(0..N) = N + 1
    BY <1>1, FS_Interval
  <2> HIDE DEF f
  <2>4. Cardinality(0..N) <= Cardinality(inUse)
    BY <2>1, <2>2, FS_Injection DEF ExistsInjection, Injection, IsInjective
  <2> QED
    BY <1>1, <2>3, <2>4
<1>3. Free \subseteq Nat
  BY <1>1
<1>4. \E n \in Free : \A m \in Free : n <= m
  <2> HIDE DEF Free
  <2> QED
    BY <1>2, <1>3, LeastOfSome
<1>5. \E n \in 0..N : Salted(n) \notin inUse /\ \A m \in 0..(n - 1) : Salted(m) \in inUse
  BY <1>1, <1>4
<1> DEFINE chosen == CHOOSE n \in 0..N : Salted(n) \notin inUse /\ \A m \in 0..(n - 1) : Salted(m) \in inUse
<1>6. Salted(chosen) \notin inUse
  BY <1>5
<1>7. NewId(key, side, p, inUse) = Salted(chosen)
  BY DEF NewId
<1>8. Len(Salted(chosen)) > 1
  <2> HIDE DEF chosen
  <2> QED
    OBVIOUS
<1> QED
  BY <1>6, <1>7, <1>8 DEF Virtual

-----------------------------------------------------------------------------
(* What lies in the clip, in runs as long as possible.                     *)

LEMMA RunsLieInTheClip ==
    ASSUME NEW l \in Int \X Int, l[1] # l[2], NEW clip, NEW m \in RunsOf(l, clip)
    PROVE  /\ m \in Int \X Int /\ m[1] # m[2]
           /\ CellsOf(m) \subseteq clip /\ CellsOf(m) \subseteq CellsOf(l)
<1> DEFINE in == CellsOf(l) \cap clip
           pieces == {p \in in \X {c + 1 : c \in in} :
                        p[1] < p[2] /\ CellsOf(p) \subseteq in /\ p[1] - 1 \notin in /\ p[2] \notin in}
<1>1. in \subseteq Int
  BY DEF CellsOf
<1>2. ASSUME NEW p \in pieces PROVE
         /\ p \in Int \X Int /\ p[1] # p[2] /\ CellsOf(p) \subseteq in
         /\ Flip(p) \in Int \X Int /\ Flip(p)[1] # Flip(p)[2] /\ CellsOf(Flip(p)) \subseteq in
  <2>1. {c + 1 : c \in in} \subseteq Int
    BY <1>1
  <2>2. p \in Int \X Int /\ p[1] < p[2] /\ CellsOf(p) \subseteq in
    BY <1>1, <2>1
  <2>3. CellsOf(Flip(p)) = CellsOf(p)
    BY <2>2 DEF CellsOf, Flip
  <2> QED
    BY <2>2, <2>3 DEF Flip
<1>3. m \in pieces \/ \E p \in pieces : m = Flip(p)
  BY DEF RunsOf
<1> HIDE DEF pieces
<1> QED
  BY <1>2, <1>3

(* A run reaches every end of the line that the clip holds.                *)
LEMMA LowEndIsReached ==
    ASSUME NEW lo \in Int, NEW hi \in Int, lo < hi, NEW in, in \subseteq lo..(hi - 1), lo \in in
    PROVE  \E b \in {c + 1 : c \in in} : lo < b /\ lo..(b - 1) \subseteq in /\ b \notin in
<1> DEFINE Out == {n \in Nat : lo + n \notin in}
<1>1. Out \subseteq Nat /\ Out # {}
  <2>1. hi - lo \in Nat /\ lo + (hi - lo) \notin in
    OBVIOUS
  <2> QED
    BY <2>1
<1>2. \E n \in Out : \A m \in Out : n <= m
  <2> HIDE DEF Out
  <2> QED
    BY <1>1, LeastOfSome
<1>3. PICK n \in Nat : lo + n \notin in /\ \A m \in Nat : lo + m \notin in => n <= m
  BY <1>2
<1>4. n # 0
  BY <1>3
<1>5. \A c \in lo..(lo + n - 1) : c \in in
  <2> SUFFICES ASSUME NEW c \in lo..(lo + n - 1), c \notin in PROVE FALSE
    OBVIOUS
  <2>1. c - lo \in Nat /\ lo + (c - lo) = c /\ c - lo < n
    OBVIOUS
  <2> QED
    BY <1>3, <2>1
<1>6. lo + n - 1 \in in /\ lo + n = (lo + n - 1) + 1
  BY <1>4, <1>5
<1> QED
  BY <1>3, <1>4, <1>5, <1>6

LEMMA HighEndIsReached ==
    ASSUME NEW lo \in Int, NEW hi \in Int, lo < hi, NEW in, in \subseteq lo..(hi - 1), hi - 1 \in in
    PROVE  \E a \in in : a..(hi - 1) \subseteq in /\ a - 1 \notin in
<1> DEFINE Out == {n \in Nat : hi - 1 - n \notin in}
<1>1. Out \subseteq Nat /\ Out # {}
  <2>1. hi - lo \in Nat /\ hi - 1 - (hi - lo) \notin in
    OBVIOUS
  <2> QED
    BY <2>1
<1>2. \E n \in Out : \A m \in Out : n <= m
  <2> HIDE DEF Out
  <2> QED
    BY <1>1, LeastOfSome
<1>3. PICK n \in Nat : hi - 1 - n \notin in /\ \A m \in Nat : hi - 1 - m \notin in => n <= m
  BY <1>2
<1>4. n # 0
  BY <1>3
<1>5. \A c \in (hi - n)..(hi - 1) : c \in in
  <2> SUFFICES ASSUME NEW c \in (hi - n)..(hi - 1), c \notin in PROVE FALSE
    OBVIOUS
  <2>1. hi - 1 - c \in Nat /\ hi - 1 - (hi - 1 - c) = c /\ hi - 1 - c < n
    OBVIOUS
  <2> QED
    BY <1>3, <2>1
<1>6. hi - n \in in /\ (hi - n) - 1 = hi - 1 - n
  BY <1>4, <1>5
<1> QED
  BY <1>3, <1>4, <1>5, <1>6

LEMMA HeldEndIsReached ==
    ASSUME NEW l \in Int \X Int, l[1] # l[2], NEW clip, NEW p \in {l[1], l[2]},
           NEW c \in CellsOf(l) \cap clip, p \in {c, c + 1}
    PROVE  \E m \in RunsOf(l, clip) : p \in {m[1], m[2]}
<1> DEFINE in == CellsOf(l) \cap clip
           pieces == {x \in in \X {d + 1 : d \in in} :
                        x[1] < x[2] /\ CellsOf(x) \subseteq in /\ x[1] - 1 \notin in /\ x[2] \notin in}
           lo == IF l[1] < l[2] THEN l[1] ELSE l[2]
           hi == IF l[1] < l[2] THEN l[2] ELSE l[1]
<1>1. /\ lo \in Int /\ hi \in Int /\ lo < hi /\ p \in {lo, hi}
      /\ CellsOf(l) = lo..(hi - 1)
  BY DEF CellsOf
<1>2. in \subseteq lo..(hi - 1) /\ in \subseteq Int
  BY <1>1
<1>3. RunsOf(l, clip) = IF l[1] < l[2] THEN pieces ELSE {Flip(x) : x \in pieces}
  BY DEF RunsOf
<1>4. \A x \in pieces : p \in {x[1], x[2]} => p \in {Flip(x)[1], Flip(x)[2]}
  BY DEF Flip
<1>5. c \in in
  OBVIOUS
<1> SUFFICES \E x \in pieces : p \in {x[1], x[2]}
  <2> HIDE DEF pieces
  <2> QED
    BY <1>3, <1>4
<1>6. ASSUME NEW a \in in, NEW b \in {d + 1 : d \in in}, a < b, a..(b - 1) \subseteq in,
             a - 1 \notin in, b \notin in, p \in {a, b}
      PROVE  \E x \in pieces : p \in {x[1], x[2]}
  <2>1. {d + 1 : d \in in} \subseteq Int
    BY <1>2
  <2>2. CellsOf(<<a, b>>) = a..(b - 1)
    BY <1>2, <1>6, <2>1 DEF CellsOf
  <2>3. <<a, b>> \in pieces
    BY <1>6, <2>2
  <2> QED
    BY <1>6, <2>3
<1> HIDE DEF in, lo, hi
<1>7. CASE p = lo
  <2>1. lo \in in
    BY <1>1, <1>2, <1>5, <1>7
  <2>2. PICK b \in {d + 1 : d \in in} : lo < b /\ lo..(b - 1) \subseteq in /\ b \notin in
    BY <1>1, <1>2, <2>1, LowEndIsReached
  <2>3. lo - 1 \notin in
    BY <1>1, <1>2
  <2> QED
    BY <1>6, <1>7, <2>1, <2>2, <2>3
<1>8. CASE p = hi
  <2>1. hi - 1 \in in
    BY <1>1, <1>2, <1>5, <1>8
  <2>2. PICK a \in in : a..(hi - 1) \subseteq in /\ a - 1 \notin in
    BY <1>1, <1>2, <2>1, HighEndIsReached
  <2>3. hi \in {d + 1 : d \in in}
    BY <1>1, <2>1
  <2>4. hi \notin in /\ a < hi
    BY <1>1, <1>2, <2>2
  <2> QED
    BY <1>6, <1>8, <2>2, <2>3, <2>4
<1> QED
  BY <1>1, <1>7, <1>8

LEMMA RunsLieOnTheLine ==
    ASSUME NEW l \in Int \X Int, l[1] # l[2], NEW m \in Int \X Int, m[1] # m[2],
           CellsOf(m) \subseteq CellsOf(l)
    PROVE  /\ l[1] < l[2] => \A i \in 1..2 : l[1] <= m[i] /\ m[i] <= l[2]
           /\ l[2] < l[1] => \A i \in 1..2 : l[2] <= m[i] /\ m[i] <= l[1]
<1>1. CASE m[1] < m[2]
  <2>1. m[1] \in CellsOf(m) /\ m[2] - 1 \in CellsOf(m)
    BY <1>1 DEF CellsOf
  <2>2. m[1] \in CellsOf(l) /\ m[2] - 1 \in CellsOf(l)
    BY <2>1
  <2> QED
    BY <1>1, <2>2 DEF CellsOf
<1>2. CASE m[2] < m[1]
  <2>1. m[2] \in CellsOf(m) /\ m[1] - 1 \in CellsOf(m)
    BY <1>2 DEF CellsOf
  <2>2. m[2] \in CellsOf(l) /\ m[1] - 1 \in CellsOf(l)
    BY <2>1
  <2> QED
    BY <1>2, <2>2 DEF CellsOf
<1> QED
  BY <1>1, <1>2

(* An end of the line where its node is, and that the clip holds, is an    *)
(* end of the segment that is chosen, on the side of that node.            *)
LEMMA BestReachesTheNode ==
    ASSUME NEW l \in Int \X Int, l[1] # l[2], NEW clip, NEW p \in {l[1], l[2]},
           NEW c \in CellsOf(l) \cap clip, p \in {c, c + 1},
           NEW m \in BestSegments(RunsOf(l, clip), {p})
    PROVE  p \in {m[1], m[2]}
<1>1. PICK n \in RunsOf(l, clip) : p \in {n[1], n[2]}
  BY HeldEndIsReached
<1>2. Connects(n, {p}) /\ (Connects(m, {p}) => p \in {m[1], m[2]})
  BY <1>1 DEF Connects
<1>3. ~Better(n, m, {p})
  BY <1>1 DEF BestSegments
<1> QED
  BY <1>2, <1>3 DEF Better

LEMMA NodeStaysAtItsSide ==
    ASSUME NEW l \in Int \X Int, l[1] # l[2], NEW clip, NEW p \in {l[1], l[2]},
           NEW c \in CellsOf(l) \cap clip, p \in {c, c + 1},
           NEW m \in BestSegments(RunsOf(l, clip), {p})
    PROVE  /\ LET before == OriginalSides(l, {p}, {})
              IN  before[1] = p /\ ByReferences(m, p, before[2])[1] = p
           /\ LET before == OriginalSides(l, {}, {p})
              IN  before[2] = p /\ ByReferences(m, before[1], p)[2] = p
<1>1. m \in RunsOf(l, clip)
  BY DEF BestSegments
<1>2. /\ m \in Int \X Int /\ m[1] # m[2]
      /\ CellsOf(m) \subseteq CellsOf(l)
  BY <1>1, RunsLieInTheClip
<1>3. /\ l[1] < l[2] => \A i \in 1..2 : l[1] <= m[i] /\ m[i] <= l[2]
      /\ l[2] < l[1] => \A i \in 1..2 : l[2] <= m[i] /\ m[i] <= l[1]
  BY <1>2, RunsLieOnTheLine
<1>4. p \in {m[1], m[2]}
  BY BestReachesTheNode
<1>5. PICK q \in {l[1], l[2]} : q # p
  OBVIOUS
<1>6. p \in Int /\ q \in Int /\ {l[1], l[2]} = {p, q}
  BY <1>5
<1>7. /\ OriginalSides(l, {p}, {}) = <<p, q>>
      /\ OriginalSides(l, {}, {p}) = <<q, p>>
  <2>1. l = <<p, q>> \/ l = <<q, p>>
    BY <1>5
  <2>2. CASE l = <<p, q>>
    BY <1>5, <1>6, <2>2 DEF OriginalSides, Flip, Gap
  <2>3. CASE l = <<q, p>>
    BY <1>5, <1>6, <2>3 DEF OriginalSides, Flip, Gap
  <2> QED
    BY <2>1, <2>2, <2>3
<1>8. p < q => \A i \in 1..2 : p <= m[i] /\ m[i] <= q
  BY <1>3, <1>5, <1>6
<1>9. q < p => \A i \in 1..2 : q <= m[i] /\ m[i] <= p
  BY <1>3, <1>5, <1>6
<1>10. p < q \/ q < p
  BY <1>5, <1>6
<1>11. ByReferences(m, p, q)[1] = p /\ ByReferences(m, q, p)[2] = p
  <2>1. CASE p = m[1]
    BY <1>2, <1>6, <1>8, <1>9, <1>10, <2>1 DEF ByReferences, Flip, Gap
  <2>2. CASE p = m[2]
    BY <1>2, <1>6, <1>8, <1>9, <1>10, <2>2 DEF ByReferences, Flip, Gap
  <2> QED
    BY <1>4, <2>1, <2>2
<1> QED
  BY <1>7, <1>11

-----------------------------------------------------------------------------
(* What is known of the roads that a run has come past: each was dropped   *)
(* or is kept once, at ids in use; no two roads share a generated id,      *)
(* whose node lies where the road ends.                                    *)

EndFits(w, i, nodes, id, p) ==
    IF Virtual(id) THEN \E n \in nodes : n.id = id /\ n.at = p
                   ELSE \E l \in ReferenceLines(w.roads[i]) : p \in {l[1], l[2]}

EndsFit(w, nodes, r) ==
    LET line == r.parts[1] IN
    /\ CellsOf(line) \subseteq Clip(w) /\ r.s # r.e
    /\ \/ EndFits(w, r.of, nodes, r.s, line[1]) /\ EndFits(w, r.of, nodes, r.e, line[2])
       \/ EndFits(w, r.of, nodes, r.s, line[2]) /\ EndFits(w, r.of, nodes, r.e, line[1])

StaysAt(w, line, id) ==
    /\ id \in Ids(w) /\ At(w, id) \in ToSet(line)
    /\ \E c \in CellsOf(line) \cap Clip(w) : At(w, id) \in {c, c + 1}

KeepsItsEnds(w, r) ==
    LET road == w.roads[r.of] IN
    Len(road.parts) = 1 =>
        /\ StaysAt(w, road.parts[1], road.s) => r.s = road.s
        /\ StaysAt(w, road.parts[1], road.e) => r.e = road.e

AsItWas(w, r) ==
    LET road == w.roads[r.of] IN
    {road.s, road.e} \subseteq Ids(w) => r.s = road.s /\ r.e = road.e /\ r.parts = road.parts

RunTypes ==
    /\ plan \in Plans /\ runs \in Seq(BOOLEAN) /\ Len(runs) <= Len(plan)
    /\ place # "idle" => runs # <<>>
    /\ next \in Nat \ {0}

IdsInUse ==
    /\ IsFiniteSet(ids) /\ IsSeq(created)
    /\ ids = Ids(patch) \cup {n.id : n \in ToSet(created)}
    /\ \A n \in ToSet(created) : Virtual(n.id)
    /\ \A m, n \in ToSet(created) : m.id = n.id => m = n

RoadsPassed ==
    /\ next <= Len(patch.roads) + 1
    /\ \A i \in dropped : i \in 1..(next - 1) /\ Segments(patch, patch.roads[i]) = {}
    /\ \A i \in 1..(next - 1) : i \in dropped \/ \E r \in kept : r.of = i
    /\ \A r \in kept : r.of \in 1..(next - 1) /\ r.of \notin dropped
    /\ \A r, x \in kept : r.of = x.of => r = x

RoadsKept ==
    /\ \A r \in kept : r.s \in ids /\ r.e \in ids /\ AsItWas(patch, r)
    /\ \A r \in kept : r.fixed => EndsFit(patch, ToSet(created), r) /\ KeepsItsEnds(patch, r)
    /\ \A r, x \in kept : \A id \in {r.s, r.e} : Virtual(id) /\ id \in {x.s, x.e} => x = r

Mended == place = "repair" => IdsInUse /\ RoadsPassed /\ RoadsKept

LEMMA PatchFits ==
    ASSUME PlansFit, RunTypes, place # "idle"
    PROVE  NodesFit(patch) /\ RoadsFit(patch)
<1>1. Len(runs) \in Nat /\ Len(runs) # 0
  BY DEF RunTypes
<1>2. IsSeq(plan)
  BY DEF PlansFit, RunTypes
<1>3. Len(runs) \in DOMAIN plan
  BY <1>1, <1>2 DEF RunTypes, IsSeq
<1> QED
  BY <1>3 DEF PlansFit, RunTypes, patch, ToSet

LEMMA InputIdsAreShort ==
    ASSUME NEW w, NodesFit(w)
    PROVE  /\ \A id \in Ids(w) : ~Virtual(id) /\ At(w, id) \in Int
           /\ IsFiniteSet(Ids(w))
<1>1. \A id \in Ids(w) : ~Virtual(id) /\ At(w, id) \in Int
  <2> SUFFICES ASSUME NEW id \in Ids(w) PROVE ~Virtual(id) /\ At(w, id) \in Int
    OBVIOUS
  <2>1. PICK n \in ToSet(w.nodes) : n = First(w.nodes, id) /\ n.id = id
    BY FirstIsThere DEF NodesFit, Ids
  <2>2. ~Virtual(n.id) /\ n.at \in Int
    BY DEF NodesFit
  <2> QED
    BY <2>1, <2>2 DEF At
<1>2. IsFiniteSet(Ids(w))
  <2> DEFINE f == [i \in DOMAIN w.nodes |-> w.nodes[i].id]
             T == {n.id : n \in ToSet(w.nodes)}
  <2>1. w.nodes \in Seq(ToSet(w.nodes))
    BY DEF NodesFit, IsSeq
  <2>2. IsFiniteSet(DOMAIN w.nodes)
    BY <2>1, FS_Interval
  <2>3. T = {w.nodes[i].id : i \in DOMAIN w.nodes}
    BY DEF ToSet
  <2>4. f \in Surjection(DOMAIN w.nodes, T)
    BY <2>3 DEF Surjection
  <2>5. IsFiniteSet(T)
    <3> HIDE DEF f, T
    <3> QED
      BY <2>2, <2>4, FS_Surjection DEF ExistsSurjection
  <2>6. Ids(w) \subseteq T
    BY DEF Ids, IdsOf
  <2> HIDE DEF T
  <2> QED
    BY <2>5, <2>6, FS_Subset
<1> QED
  BY <1>1, <1>2

LEMMA SeqWider ==
    ASSUME NEW S, NEW T, S \subseteq T, NEW q \in Seq(S)
    PROVE  q \in Seq(T)
OBVIOUS

LEMMA AppendedSets ==
    ASSUME NEW S, NEW p \in Seq(S), NEW q \in Seq(S)
    PROVE  p \o q \in Seq(S) /\ ToSet(p \o q) = ToSet(p) \cup ToSet(q)
<1>1. /\ p \o q \in Seq(S) /\ Len(p \o q) = Len(p) + Len(q)
      /\ \A i \in 1..Len(p) : (p \o q)[i] = p[i]
      /\ \A i \in 1..Len(q) : (p \o q)[Len(p) + i] = q[i]
  OBVIOUS
<1>2. /\ ToSet(p) = {p[i] : i \in 1..Len(p)} /\ ToSet(q) = {q[i] : i \in 1..Len(q)}
      /\ ToSet(p \o q) = {(p \o q)[i] : i \in 1..(Len(p) + Len(q))}
  BY <1>1 DEF ToSet
<1>3. Len(p) \in Nat /\ Len(q) \in Nat
  OBVIOUS
<1>4. ASSUME NEW x \in ToSet(p \o q) PROVE x \in ToSet(p) \cup ToSet(q)
  <2>1. PICK i \in 1..(Len(p) + Len(q)) : x = (p \o q)[i]
    BY <1>2
  <2>2. CASE i <= Len(p)
    BY <1>1, <1>2, <1>3, <2>1, <2>2
  <2>3. CASE ~(i <= Len(p))
    <3>1. i - Len(p) \in 1..Len(q) /\ Len(p) + (i - Len(p)) = i
      BY <1>3, <2>3
    <3>2. x = q[i - Len(p)]
      BY <1>1, <2>1, <3>1
    <3> QED
      BY <1>2, <3>1, <3>2
  <2> QED
    BY <2>2, <2>3
<1>5. ASSUME NEW x \in ToSet(p) PROVE x \in ToSet(p \o q)
  <2>1. PICK i \in 1..Len(p) : x = p[i]
    BY <1>2
  <2>2. i \in 1..(Len(p) + Len(q))
    BY <1>3
  <2> QED
    BY <1>1, <1>2, <2>1, <2>2
<1>6. ASSUME NEW x \in ToSet(q) PROVE x \in ToSet(p \o q)
  <2>1. PICK i \in 1..Len(q) : x = q[i]
    BY <1>2
  <2>2. Len(p) + i \in 1..(Len(p) + Len(q))
    BY <1>3
  <2>3. (p \o q)[Len(p) + i] = x
    BY <1>1, <2>1
  <2> QED
    BY <1>2, <2>2, <2>3
<1> QED
  BY <1>1, <1>4, <1>5, <1>6

-----------------------------------------------------------------------------
(* One road more: what it adds to the kept roads, the nodes and the ids.   *)

Adds(r, new) ==
    /\ kept' = kept \cup {r} /\ r.of = next
    /\ IsSeq(created') /\ ToSet(created') = ToSet(created) \cup new
    /\ ids' = ids \cup {n.id : n \in new}
    /\ IsFiniteSet({n.id : n \in new})
    /\ \A n \in new : Virtual(n.id) /\ n.id \notin ids
    /\ \A m, n \in new : m.id = n.id => m = n
    /\ \A id \in {r.s, r.e} : (id \in ids /\ ~Virtual(id)) \/ \E n \in new : id = n.id
    /\ AsItWas(patch, r)
    /\ r.fixed => EndsFit(patch, new, r) /\ KeepsItsEnds(patch, r)

LEMMA RoadFits ==
    ASSUME RunTypes, RoadsFit(patch), AtRoad
    PROVE  /\ next \in DOMAIN patch.roads /\ Road \in ToSet(patch.roads)
           /\ ~Virtual(Road.s) /\ ~Virtual(Road.e) /\ IsSeq(Road.parts)
           /\ \A l \in ToSet(Road.parts) : l \in Int \X Int /\ l[1] # l[2]
<1>1. patch.roads \in Seq(ToSet(patch.roads))
  BY DEF RoadsFit, IsSeq
<1>2. next \in DOMAIN patch.roads
  BY <1>1 DEF RunTypes, AtRoad
<1>3. Road \in ToSet(patch.roads)
  BY <1>2 DEF Road, ToSet
<1> QED
  BY <1>2, <1>3 DEF RoadsFit

LEMMA KeepRoadAdds ==
    ASSUME RunTypes, NodesFit(patch), RoadsFit(patch), IdsInUse, KeepRoad
    PROVE  \E r \in kept' : Adds(r, {})
<1> DEFINE r == [of |-> next, s |-> Road.s, e |-> Road.e, parts |-> Road.parts, fixed |-> FALSE]
<1>1. kept' = kept \cup {r} /\ created' = created /\ ids' = ids
  BY DEF KeepRoad, Output
<1>2. r.of = next /\ r.s = Road.s /\ r.e = Road.e /\ r.parts = Road.parts
  OBVIOUS
<1>3. ~r.fixed
  OBVIOUS
<1>4. AsItWas(patch, r)
  BY <1>2 DEF AsItWas, Road
<1>5. ~Virtual(r.s) /\ ~Virtual(r.e) /\ r.s \in ids /\ r.e \in ids
  BY <1>2, RoadFits DEF KeepRoad, SrcKnown, DstKnown
<1>6. IsSeq(created')
  BY <1>1 DEF IdsInUse
<1> HIDE DEF r
<1>7. Adds(r, {})
  BY <1>1, <1>2, <1>3, <1>4, <1>5, <1>6, FS_EmptySet DEF Adds
<1> QED
  BY <1>1, <1>7

LEMMA OneMoreRoad ==
    ASSUME RunTypes, NodesFit(patch), IdsInUse, RoadsPassed, RoadsKept,
           NEW r, NEW new, Adds(r, new), next <= Len(patch.roads),
           next' = next + 1, UNCHANGED <<plan, runs, dropped>>
    PROVE  (IdsInUse /\ RoadsPassed /\ RoadsKept)'
<1>1. patch' = patch
  BY DEF patch
<1>2. ids \subseteq ids' /\ {n.id : n \in new} \subseteq ids'
  BY DEF Adds
<1>3. IdsInUse'
  <2>1. IsFiniteSet(ids')
    BY FS_Union DEF Adds, IdsInUse
  <2>2. ids' = Ids(patch') \cup {n.id : n \in ToSet(created')}
    BY <1>1 DEF Adds, IdsInUse
  <2>3. \A n \in ToSet(created') : Virtual(n.id)
    BY DEF Adds, IdsInUse
  <2>4. \A n \in ToSet(created) : n.id \in ids
    BY DEF IdsInUse
  <2>5. \A m, n \in ToSet(created') : m.id = n.id => m = n
    BY <2>4 DEF Adds, IdsInUse
  <2> QED
    BY <2>1, <2>2, <2>3, <2>5 DEF Adds, IdsInUse
<1>4. RoadsPassed'
  <2>1. /\ next \in Nat \ {0} /\ next' = next + 1
        /\ \A i \in 1..(next - 1) : i \in 1..(next' - 1)
        /\ \A i \in 1..(next' - 1) : i \in 1..(next - 1) \/ i = next
        /\ next \in 1..(next' - 1) /\ next \notin 1..(next - 1)
    BY DEF RunTypes
  <2>2. kept' = kept \cup {r} /\ r.of = next
    BY DEF Adds
  <2>3. next' <= Len(patch.roads) + 1
    BY <2>1 DEF RoadsPassed
  <2>4. \A i \in dropped : i \in 1..(next' - 1) /\ Segments(patch, patch.roads[i]) = {}
    BY <2>1 DEF RoadsPassed
  <2>5. \A i \in 1..(next' - 1) : i \in dropped \/ \E x \in kept' : x.of = i
    BY <2>1, <2>2 DEF RoadsPassed
  <2>6. \A x \in kept' : x.of \in 1..(next' - 1) /\ x.of \notin dropped
    BY <2>1, <2>2 DEF RoadsPassed
  <2>7. \A x, y \in kept' : x.of = y.of => x = y
    BY <2>1, <2>2 DEF RoadsPassed
  <2> QED
    BY <1>1, <2>3, <2>4, <2>5, <2>6, <2>7 DEF RoadsPassed
<1>5. RoadsKept'
  <2>1. kept' = kept \cup {r}
    BY DEF Adds
  <2>2. ASSUME NEW x \in kept' PROVE x.s \in ids' /\ x.e \in ids' /\ AsItWas(patch, x)
    <3>1. r.s \in ids' /\ r.e \in ids'
      BY <1>2 DEF Adds
    <3> QED
      BY <1>2, <2>1, <3>1 DEF RoadsKept, Adds
  <2>3. ASSUME NEW x \in kept', x.fixed
        PROVE  EndsFit(patch, ToSet(created'), x) /\ KeepsItsEnds(patch, x)
    <3>1. ASSUME NEW nodes, nodes \subseteq ToSet(created'), EndsFit(patch, nodes, x)
          PROVE  EndsFit(patch, ToSet(created'), x)
      <4>1. \A i, id, p : EndFits(patch, i, nodes, id, p) => EndFits(patch, i, ToSet(created'), id, p)
        BY <3>1 DEF EndFits
      <4> QED
        BY <3>1, <4>1 DEF EndsFit
    <3>2. ToSet(created) \subseteq ToSet(created') /\ new \subseteq ToSet(created')
      BY DEF Adds
    <3>3. CASE x \in kept
      BY <2>3, <3>1, <3>2, <3>3 DEF RoadsKept
    <3>4. CASE x = r
      BY <2>3, <3>1, <3>2, <3>4 DEF Adds
    <3> QED
      BY <2>1, <3>3, <3>4
  <2>4. ASSUME NEW x \in kept', NEW y \in kept', NEW id \in {x.s, x.e}, Virtual(id), id \in {y.s, y.e}
        PROVE  y = x
    <3>1. \A z \in kept : z.s \in ids /\ z.e \in ids
      BY DEF RoadsKept
    <3>2. id \in {r.s, r.e} => id \notin ids
      BY <2>4 DEF Adds
    <3>3. CASE x \in kept /\ y \in kept
      BY <2>4, <3>3 DEF RoadsKept
    <3> QED
      BY <2>1, <2>4, <3>1, <3>2, <3>3
  <2> QED
    BY <1>1, <2>2, <2>3, <2>4 DEF RoadsKept
<1> QED
  BY <1>3, <1>4, <1>5

LEMMA RepairRoadAdds ==
    ASSUME RunTypes, NodesFit(patch), RoadsFit(patch), IdsInUse, RepairRoad
    PROVE  \E new : \E r \in kept' : Adds(r, new)
<1>1. PICK ref \in ReferenceLines(Road),
           segment \in BestSegments(Segments(patch, Road), NodeAt(Road.s) \cup NodeAt(Road.e)) :
          LET before == OriginalSides(ref, NodeAt(Road.s), NodeAt(Road.e))
              From(id, p) == IF id \in ids THEN At(patch, id) ELSE p
              after == ByReferences(segment, From(Road.s, before[1]), From(Road.e, before[2]))
              newSrc == before[1] # after[1] \/ ~SrcKnown
              newDst == before[2] # after[2] \/ ~DstKnown
              s == IF newSrc THEN NewId(Road.key, "src", after[1], ids) ELSE Road.s
              withSrc == ids \cup {s}
              e == IF newDst THEN NewId(Road.key, "dst", after[2], withSrc) ELSE Road.e
          IN  /\ Output(s, e, <<segment>>, TRUE)
              /\ ids' = withSrc \cup {e}
              /\ created' = created \o (IF newSrc THEN <<[id |-> s, at |-> after[1]]>> ELSE <<>>)
                                    \o (IF newDst THEN <<[id |-> e, at |-> after[2]]>> ELSE <<>>)
  BY DEF RepairRoad
<1> DEFINE before == OriginalSides(ref, NodeAt(Road.s), NodeAt(Road.e))
           From(id, p) == IF id \in ids THEN At(patch, id) ELSE p
           after == ByReferences(segment, From(Road.s, before[1]), From(Road.e, before[2]))
           newSrc == before[1] # after[1] \/ ~SrcKnown
           newDst == before[2] # after[2] \/ ~DstKnown
           s == IF newSrc THEN NewId(Road.key, "src", after[1], ids) ELSE Road.s
           e == IF newDst THEN NewId(Road.key, "dst", after[2], ids \cup {s}) ELSE Road.e
           srcNode == [id |-> s, at |-> after[1]]
           dstNode == [id |-> e, at |-> after[2]]
           new == (IF newSrc THEN {srcNode} ELSE {}) \cup (IF newDst THEN {dstNode} ELSE {})
           r == [of |-> next, s |-> s, e |-> e, parts |-> <<segment>>, fixed |-> TRUE]
<1>2. /\ kept' = kept \cup {r}
      /\ ids' = (ids \cup {s}) \cup {e}
      /\ created' = created \o (IF newSrc THEN <<srcNode>> ELSE <<>>)
                            \o (IF newDst THEN <<dstNode>> ELSE <<>>)
  BY <1>1 DEF Output
<1>3. /\ next \in DOMAIN patch.roads /\ Road \in ToSet(patch.roads)
      /\ ~Virtual(Road.s) /\ ~Virtual(Road.e) /\ IsSeq(Road.parts)
      /\ \A l \in ToSet(Road.parts) : l \in Int \X Int /\ l[1] # l[2]
  BY RoadFits DEF RepairRoad
<1>4. ~(Road.s \in ids /\ Road.e \in ids)
  BY DEF RepairRoad, SrcKnown, DstKnown
<1>5. ref \in ToSet(Road.parts) /\ ref \in Int \X Int
  BY <1>3 DEF ReferenceLines
<1>6. segment \in Segments(patch, Road)
  BY DEF BestSegments
<1>7. segment \in Int \X Int /\ CellsOf(segment) \subseteq Clip(patch)
  <2>1. PICK l \in ToSet(Road.parts) : segment \in RunsOf(l, Clip(patch))
    BY <1>6 DEF Segments
  <2> QED
    BY <1>3, <2>1, RunsLieInTheClip
<1>8. /\ after = segment \/ after = Flip(segment)
      /\ before = ref \/ before = Flip(ref)
  BY DEF ByReferences, OriginalSides
<1>9. /\ before[1] \in {ref[1], ref[2]} /\ before[2] \in {ref[1], ref[2]}
      /\ \/ after[1] = segment[1] /\ after[2] = segment[2]
         \/ after[1] = segment[2] /\ after[2] = segment[1]
  BY <1>8 DEF Flip
<1> HIDE DEF before, after
<1>10. /\ newSrc => s \notin ids /\ Virtual(s)
       /\ ~newSrc => s = Road.s /\ s \in ids /\ after[1] = before[1]
  BY NewIdIsNew DEF IdsInUse, SrcKnown
<1>11. IsFiniteSet(ids \cup {s})
  BY FS_AddElement DEF IdsInUse
<1>12. /\ newDst => e \notin ids \cup {s} /\ Virtual(e)
       /\ ~newDst => e = Road.e /\ e \in ids /\ after[2] = before[2]
  BY <1>11, NewIdIsNew DEF DstKnown
<1>13. newSrc \/ newDst
  BY <1>4 DEF SrcKnown, DstKnown
<1>14. s # e
  BY <1>4, <1>10, <1>12
<1>15. /\ r.of = next /\ r.s = s /\ r.e = e /\ r.parts = <<segment>> /\ r.fixed
       /\ r.parts[1] = segment
       /\ srcNode.id = s /\ srcNode.at = after[1] /\ dstNode.id = e /\ dstNode.at = after[2]
  OBVIOUS
<1>16. /\ \A n \in new : (n = srcNode /\ newSrc) \/ (n = dstNode /\ newDst)
       /\ newSrc => srcNode \in new
       /\ newDst => dstNode \in new
  <2> HIDE DEF srcNode, dstNode, newSrc, newDst
  <2> QED
    OBVIOUS
<1>17. IsSeq(created') /\ ToSet(created') = ToSet(created) \cup new
  <2> DEFINE T == ToSet(created)
             one == IF newSrc THEN <<srcNode>> ELSE <<>>
             two == IF newDst THEN <<dstNode>> ELSE <<>>
  <2>1. created \in Seq(T)
    BY DEF IdsInUse, IsSeq
  <2>2. /\ one \in Seq(T \cup new) /\ two \in Seq(T \cup new)
        /\ ToSet(one) = IF newSrc THEN {srcNode} ELSE {}
        /\ ToSet(two) = IF newDst THEN {dstNode} ELSE {}
    <3> HIDE DEF srcNode, dstNode, newSrc, newDst
    <3>1. \A x : ToSet(<<x>>) = {x} /\ \A S : x \in S => <<x>> \in Seq(S)
      BY DEF ToSet
    <3>2. ToSet(<<>>) = {} /\ \A S : <<>> \in Seq(S)
      BY DEF ToSet
    <3> HIDE DEF new
    <3>3. CASE newSrc /\ newDst
      BY <1>16, <3>1, <3>3
    <3>4. CASE newSrc /\ ~newDst
      BY <1>16, <3>1, <3>2, <3>4
    <3>5. CASE ~newSrc /\ newDst
      BY <1>16, <3>1, <3>2, <3>5
    <3>6. CASE ~newSrc /\ ~newDst
      BY <3>2, <3>6
    <3> QED
      BY <3>3, <3>4, <3>5, <3>6
  <2>3. created' = (created \o one) \o two
    BY <1>2
  <2> HIDE DEF one, two
  <2>4. new = ToSet(one) \cup ToSet(two)
    BY <2>2
  <2> HIDE DEF new
  <2>5. \A p, q \in Seq(T \cup new) : p \o q \in Seq(T \cup new) /\ ToSet(p \o q) = ToSet(p) \cup ToSet(q)
    BY AppendedSets
  <2>6. created \in Seq(T \cup new)
    BY <2>1, SeqWider
  <2>7. created \o one \in Seq(T \cup new) /\ ToSet(created \o one) = T \cup ToSet(one)
    BY <2>2, <2>5, <2>6
  <2>8. created' \in Seq(T \cup new) /\ ToSet(created') = T \cup ToSet(one) \cup ToSet(two)
    BY <2>2, <2>3, <2>5, <2>7
  <2> QED
    BY <2>4, <2>8 DEF IsSeq
<1> HIDE DEF s, e, newSrc, newDst
<1>18. {n.id : n \in new} = (IF newSrc THEN {s} ELSE {}) \cup (IF newDst THEN {e} ELSE {})
  <2> HIDE DEF srcNode, dstNode
  <2> QED
    BY <1>15
<1>19. ids' = ids \cup {n.id : n \in new}
  BY <1>2, <1>10, <1>12, <1>18
<1>20. IsFiniteSet({n.id : n \in new})
  <2>1. IsFiniteSet({}) /\ IsFiniteSet({s}) /\ IsFiniteSet({e})
    BY FS_EmptySet, FS_Singleton
  <2>2. IsFiniteSet(IF newSrc THEN {s} ELSE {}) /\ IsFiniteSet(IF newDst THEN {e} ELSE {})
    BY <2>1
  <2> QED
    BY <1>18, <2>2, FS_Union
<1> HIDE DEF r, srcNode, dstNode, new
<1>21. /\ \A n \in new : Virtual(n.id) /\ n.id \notin ids
       /\ \A m, n \in new : m.id = n.id => m = n
  BY <1>10, <1>12, <1>14, <1>15, <1>16
<1>22. \A id \in {r.s, r.e} : (id \in ids /\ ~Virtual(id)) \/ \E n \in new : id = n.id
  BY <1>3, <1>10, <1>12, <1>15, <1>16
<1>23. AsItWas(patch, r)
  BY <1>4, <1>15 DEF AsItWas, Road, IdsInUse
<1>24. EndsFit(patch, new, r)
  <2>1. EndFits(patch, next, new, s, after[1])
    <3>1. CASE newSrc
      BY <1>10, <1>15, <1>16, <3>1 DEF EndFits
    <3>2. CASE ~newSrc
      BY <1>3, <1>9, <1>10, <3>2 DEF EndFits, Road
    <3> QED
      BY <3>1, <3>2
  <2>2. EndFits(patch, next, new, e, after[2])
    <3>1. CASE newDst
      BY <1>12, <1>15, <1>16, <3>1 DEF EndFits
    <3>2. CASE ~newDst
      BY <1>3, <1>9, <1>12, <3>2 DEF EndFits, Road
    <3> QED
      BY <3>1, <3>2
  <2> QED
    BY <1>7, <1>9, <1>14, <1>15, <2>1, <2>2 DEF EndsFit
<1>25. KeepsItsEnds(patch, r)
  <2> SUFFICES ASSUME Len(Road.parts) = 1
               PROVE  /\ StaysAt(patch, Road.parts[1], Road.s) => ~newSrc
                      /\ StaysAt(patch, Road.parts[1], Road.e) => ~newDst
    BY <1>10, <1>12, <1>15 DEF KeepsItsEnds, Road
  <2> DEFINE l == Road.parts[1]
  <2>1. ToSet(Road.parts) = {l} /\ l \in ToSet(Road.parts)
    BY <1>3 DEF IsSeq, ToSet
  <2>2. ref = l /\ l \in Int \X Int /\ l[1] # l[2]
    BY <1>3, <1>5, <2>1
  <2>3. Segments(patch, Road) = RunsOf(l, Clip(patch))
    BY <2>1 DEF Segments
  <2>4. ToSet(l) = {l[1], l[2]}
    BY <2>2 DEF ToSet
  <2> HIDE DEF l
  <2>5. ASSUME StaysAt(patch, l, Road.s) PROVE ~newSrc
    <3> DEFINE p == At(patch, Road.s)
    <3>1. /\ Road.s \in ids /\ Road.e \notin ids /\ p \in {l[1], l[2]}
      BY <1>4, <2>4, <2>5 DEF StaysAt, IdsInUse
    <3>2. PICK c \in CellsOf(l) \cap Clip(patch) : p \in {c, c + 1}
      BY <2>5 DEF StaysAt
    <3>3. NodeAt(Road.s) = {p} /\ NodeAt(Road.e) = {}
      BY <3>1 DEF NodeAt
    <3>4. /\ before = OriginalSides(l, {p}, {})
          /\ after = ByReferences(segment, p, before[2])
          /\ segment \in BestSegments(RunsOf(l, Clip(patch)), {p})
      BY <2>2, <2>3, <3>1, <3>3 DEF before, after
    <3> HIDE DEF p
    <3>5. /\ OriginalSides(l, {p}, {})[1] = p
          /\ ByReferences(segment, p, OriginalSides(l, {p}, {})[2])[1] = p
      BY <2>2, <3>1, <3>2, <3>4, NodeStaysAtItsSide
    <3> QED
      BY <3>1, <3>4, <3>5 DEF newSrc, SrcKnown
  <2>6. ASSUME StaysAt(patch, l, Road.e) PROVE ~newDst
    <3> DEFINE p == At(patch, Road.e)
    <3>1. /\ Road.e \in ids /\ Road.s \notin ids /\ p \in {l[1], l[2]}
      BY <1>4, <2>4, <2>6 DEF StaysAt, IdsInUse
    <3>2. PICK c \in CellsOf(l) \cap Clip(patch) : p \in {c, c + 1}
      BY <2>6 DEF StaysAt
    <3>3. NodeAt(Road.e) = {p} /\ NodeAt(Road.s) = {}
      BY <3>1 DEF NodeAt
    <3>4. /\ before = OriginalSides(l, {}, {p})
          /\ after = ByReferences(segment, before[1], p)
          /\ segment \in BestSegments(RunsOf(l, Clip(patch)), {p})
      BY <2>2, <2>3, <3>1, <3>3 DEF before, after
    <3> HIDE DEF p
    <3>5. /\ OriginalSides(l, {}, {p})[2] = p
          /\ ByReferences(segment, OriginalSides(l, {}, {p})[1], p)[2] = p
      BY <2>2, <3>1, <3>2, <3>4, NodeStaysAtItsSide
    <3> QED
      BY <3>1, <3>4, <3>5 DEF newDst, DstKnown
  <2> QED
    BY <2>5, <2>6 DEF l
<1>26. Adds(r, new)
  BY <1>2, <1>15, <1>17, <1>19, <1>20, <1>21, <1>22, <1>23, <1>24, <1>25 DEF Adds
<1> QED
  BY <1>2, <1>26

-----------------------------------------------------------------------------
(* When the roads have been worked through.                                *)

LEMMA CollectTakesAll ==
    ASSUME RunTypes, NodesFit(patch), IdsInUse, RoadsKept, Collect
    PROVE  /\ made'.roads = kept
           /\ \A n \in ToSet(created) : VirtualAt(n.id)' = n.at
<1> DEFINE all == patch.nodes \o created
           S == ToSet(patch.nodes) \cup ToSet(created)
           nodes == {First(all, id) : id \in IdsOf(all)}
           named == {n.id : n \in nodes}
<1>1. made' = [nodes |-> nodes, roads |-> {r \in kept : r.s \in named /\ r.e \in named}]
  BY DEF Collect
<1>2. IsSeq(all) /\ ToSet(all) = S
  <2>1. patch.nodes \in Seq(S)
    BY SeqWider DEF NodesFit, IsSeq
  <2>2. created \in Seq(S)
    BY SeqWider DEF IdsInUse, IsSeq
  <2> HIDE DEF S
  <2>3. all \in Seq(S) /\ ToSet(all) = ToSet(patch.nodes) \cup ToSet(created)
    BY <2>1, <2>2, AppendedSets
  <2> QED
    BY <2>3 DEF IsSeq, S
<1>3. ~Virtual(NoId)
  BY DEF Virtual, NoId
<1> HIDE DEF all
<1>4. IdsOf(all) = ids
  BY <1>2, <1>3 DEF IdsOf, IdsInUse, Ids
<1>5. \A id \in ids : First(all, id) \in S /\ First(all, id).id = id
  BY <1>2, <1>4, FirstIsThere
<1>6. nodes = {First(all, id) : id \in ids}
  BY <1>4
<1> HIDE DEF S, nodes
<1>7. ids \subseteq named
  <2> SUFFICES ASSUME NEW id \in ids PROVE id \in named
    OBVIOUS
  <2>1. First(all, id) \in nodes /\ First(all, id).id = id
    BY <1>5, <1>6
  <2> QED
    BY <2>1
<1> HIDE DEF named
<1>8. made'.roads = kept
  BY <1>1, <1>7 DEF RoadsKept
<1>9. ASSUME NEW n \in ToSet(created) PROVE VirtualAt(n.id)' = n.at
  <2>1. n.id \in ids /\ Virtual(n.id)
    BY DEF IdsInUse
  <2>2. First(all, n.id) \in nodes /\ First(all, n.id).id = n.id
    BY <1>5, <1>6, <2>1
  <2>3. ASSUME NEW m \in nodes, m.id = n.id PROVE m = n
    <3>1. m \in S
      BY <1>5, <1>6
    <3>2. m \notin ToSet(patch.nodes)
      BY <2>1, <2>3 DEF NodesFit
    <3> QED
      BY <2>3, <3>1, <3>2 DEF S, IdsInUse
  <2>4. made'.nodes = nodes
    BY <1>1
  <2>5. (CHOOSE m \in nodes : m.id = n.id) = n
    BY <2>2, <2>3
  <2> QED
    BY <2>4, <2>5 DEF VirtualAt
<1> QED
  BY <1>8, <1>9

LEMMA CollectIsSound ==
    ASSUME RunTypes, NodesFit(patch), RoadsFit(patch), IdsInUse, RoadsPassed, RoadsKept, Collect
    PROVE  (NoRoadIsLost /\ EndsAreAtTheirNodes /\ AttachedEndStays)'
<1>1. made'.roads = kept /\ \A n \in ToSet(created) : VirtualAt(n.id)' = n.at
  BY CollectTakesAll
<1>2. patch' = patch /\ dropped' = dropped
  BY DEF Collect, patch
<1>3. NoRoadIsLost'
  <2> SUFFICES ASSUME NEW i \in DOMAIN patch.roads
               PROVE  LET road == patch.roads[i]
                          out == {r \in kept : r.of = i}
                      IN  /\ Cardinality(out) = (IF i \in dropped THEN 0 ELSE 1)
                          /\ i \in dropped => Segments(patch, road) = {}
                          /\ {road.s, road.e} \subseteq Ids(patch) =>
                               \A r \in out : r.s = road.s /\ r.e = road.e /\ r.parts = road.parts
    BY <1>1, <1>2 DEF NoRoadIsLost
  <2> DEFINE out == {r \in kept : r.of = i}
  <2>1. i \in 1..(next - 1)
    <3>1. patch.roads \in Seq(ToSet(patch.roads))
      BY DEF RoadsFit, IsSeq
    <3>2. i \in 1..Len(patch.roads) /\ Len(patch.roads) \in Nat
      BY <3>1
    <3> QED
      BY <3>2 DEF Collect, RunTypes
  <2>2. Cardinality({}) = 0 /\ \A x : Cardinality({x}) = 1
    BY FS_EmptySet, FS_Singleton
  <2>3. Cardinality(out) = IF i \in dropped THEN 0 ELSE 1
    <3>1. CASE i \in dropped
      <4>1. out = {}
        BY <3>1 DEF RoadsPassed
      <4> QED
        BY <2>2, <3>1, <4>1
    <3>2. CASE i \notin dropped
      <4>1. PICK r \in kept : r.of = i
        BY <2>1, <3>2 DEF RoadsPassed
      <4>2. out = {r}
        BY <4>1 DEF RoadsPassed
      <4> QED
        BY <2>2, <3>2, <4>2
    <3> QED
      BY <3>1, <3>2
  <2> QED
    BY <2>3 DEF RoadsPassed, RoadsKept, AsItWas
<1>4. EndsAreAtTheirNodes'
  <2> SUFFICES ASSUME NEW r \in kept, r.fixed
               PROVE  LET line == r.parts[1]
                          Sits(id, p) ==
                            IF Virtual(id)
                            THEN VirtualAt(id)' = p /\ \A x \in kept : id \in {x.s, x.e} => x = r
                            ELSE \E l \in ReferenceLines(patch.roads[r.of]) : p \in {l[1], l[2]}
                      IN  /\ CellsOf(line) \subseteq Clip(patch) /\ r.s # r.e
                          /\ \/ Sits(r.s, line[1]) /\ Sits(r.e, line[2])
                             \/ Sits(r.s, line[2]) /\ Sits(r.e, line[1])
    BY <1>1, <1>2 DEF EndsAreAtTheirNodes, InputRoad
  <2>1. EndsFit(patch, ToSet(created), r)
    BY DEF RoadsKept
  <2>2. ASSUME NEW id \in {r.s, r.e}, Virtual(id), NEW x \in kept, id \in {x.s, x.e} PROVE x = r
    BY <2>2 DEF RoadsKept
  <2>3. ASSUME NEW id, NEW p, Virtual(id), EndFits(patch, r.of, ToSet(created), id, p)
        PROVE  VirtualAt(id)' = p
    <3>1. PICK n \in ToSet(created) : n.id = id /\ n.at = p
      BY <2>3 DEF EndFits
    <3>2. VirtualAt(n.id)' = n.at
      BY <1>1
    <3> QED
      BY <3>1, <3>2
  <2>4. \A id, p : ~Virtual(id) /\ EndFits(patch, r.of, ToSet(created), id, p) =>
                     \E l \in ReferenceLines(patch.roads[r.of]) : p \in {l[1], l[2]}
    BY DEF EndFits
  <2> QED
    BY <2>1, <2>2, <2>3, <2>4 DEF EndsFit
<1>5. AttachedEndStays'
  BY <1>1, <1>2 DEF AttachedEndStays, InputRoad, RoadsKept, KeepsItsEnds, StaysAt
<1> QED
  BY <1>3, <1>4, <1>5

-----------------------------------------------------------------------------
MendingInv == RunTypes /\ Mended /\ RepairIsSound

LEMMA MendingInit == PlansFit /\ RepairInit => MendingInv
<1> SUFFICES ASSUME PlansFit, NEW p \in Plans, FreshRepair(p) PROVE MendingInv
  BY DEF RepairInit
<1>1. p \in Seq(ToSet(p))
  BY DEF PlansFit, IsSeq
<1> QED
  BY <1>1 DEF FreshRepair, MendingInv, RunTypes, Mended, RepairIsSound

LEMMA RunTypesKept == ASSUME RunTypes, RepairNext PROVE RunTypes'
<1>1. CASE StartRun
  <2>1. PICK overwrite \in BOOLEAN : runs' = Append(runs, overwrite)
    BY <1>1 DEF StartRun
  <2>2. runs' \in Seq(BOOLEAN) /\ Len(runs') = Len(runs) + 1 /\ runs' # <<>>
    BY <2>1 DEF RunTypes
  <2>3. Len(runs') <= Len(plan)
    <3>1. Len(runs) < Len(plan) /\ Len(runs) \in Nat
      BY <1>1 DEF StartRun, RunTypes
    <3> QED
      BY <2>2, <3>1
  <2> QED
    BY <1>1, <2>2, <2>3 DEF StartRun, RunTypes
<1>2. CASE Prepare
  BY <1>2 DEF Prepare, RunTypes
<1>3. CASE KeepRoad
  BY <1>3 DEF KeepRoad, RunTypes
<1>4. CASE DropRoad
  BY <1>4 DEF DropRoad, RunTypes
<1>5. CASE RepairRoad
  <2>1. next' = next + 1 /\ UNCHANGED <<plan, place, runs>>
    BY <1>5 DEF RepairRoad
  <2> QED
    BY <2>1 DEF RunTypes
<1>6. CASE Collect
  BY <1>6 DEF Collect, RunTypes
<1>7. CASE OpenFile
  BY <1>7 DEF OpenFile, RunTypes
<1>8. CASE FillFile
  BY <1>8 DEF FillFile, RunTypes
<1>9. CASE Die
  BY <1>9 DEF Die, RunTypes
<1>10. CASE ClearFile
  BY <1>10 DEF ClearFile, RunTypes
<1> QED
  BY <1>1, <1>2, <1>3, <1>4, <1>5, <1>6, <1>7, <1>8, <1>9, <1>10 DEF RepairNext

LEMMA MendingStep ==
    ASSUME PlansFit, MendingInv, RepairNext
    PROVE  MendingInv'
<1>1. RunTypes'
  BY RunTypesKept DEF MendingInv
<1>2. place # "idle" => NodesFit(patch) /\ RoadsFit(patch)
  BY PatchFits DEF MendingInv
<1>3. ASSUME place' # "repair", place' # "open" \/ next' # 1 PROVE MendingInv'
  BY <1>1, <1>3 DEF MendingInv, Mended, RepairIsSound
<1>4. ASSUME place = "repair" PROVE RunTypes /\ IdsInUse /\ RoadsPassed /\ RoadsKept
  BY <1>4 DEF MendingInv, Mended
<1>5. ASSUME place = "repair", place' = "repair", next' = next + 1, UNCHANGED <<plan, runs>>,
             (IdsInUse /\ RoadsPassed /\ RoadsKept)'
      PROVE  MendingInv'
  BY <1>1, <1>5 DEF MendingInv, Mended, RepairIsSound
<1>6. CASE StartRun
  BY <1>3, <1>6 DEF StartRun
<1>7. CASE Prepare
  <2>1. CASE place' = "repair"
    <3>1. NodesFit(patch) /\ RoadsFit(patch)
      BY <1>2, <1>7 DEF Prepare
    <3>2. patch' = patch
      BY <1>7 DEF Prepare, patch
    <3>3. /\ ids' = Ids(patch) /\ next' = 1 /\ kept' = {} /\ created' = <<>> /\ dropped' = {}
      BY <1>7, <2>1 DEF Prepare
    <3>4. IdsInUse'
      <4>1. IsSeq(<<>>) /\ ToSet(<<>>) = {}
        BY DEF IsSeq, ToSet
      <4>2. IsFiniteSet(Ids(patch))
        BY <3>1, InputIdsAreShort
      <4> QED
        BY <3>2, <3>3, <4>1, <4>2 DEF IdsInUse
    <3>5. RoadsPassed'
      <4>1. Len(patch.roads) \in Nat
        BY <3>1 DEF RoadsFit, IsSeq
      <4>2. next' <= Len(patch.roads) + 1 /\ 1..(next' - 1) = {}
        BY <3>3, <4>1
      <4> QED
        BY <3>2, <3>3, <4>2 DEF RoadsPassed
    <3>6. RoadsKept'
      BY <3>2, <3>3 DEF RoadsKept
    <3> QED
      BY <1>1, <2>1, <3>4, <3>5, <3>6 DEF MendingInv, Mended, RepairIsSound
  <2>2. CASE place' # "repair"
    BY <1>3, <1>7, <2>2 DEF Prepare
  <2> QED
    BY <2>1, <2>2
<1>8. CASE KeepRoad
  <2>1. /\ place = "repair" /\ place' = "repair" /\ next <= Len(patch.roads)
        /\ next' = next + 1 /\ UNCHANGED <<plan, runs, dropped>>
    BY <1>8 DEF KeepRoad, AtRoad
  <2>2. NodesFit(patch) /\ RoadsFit(patch)
    BY <1>2, <2>1
  <2>3. PICK r \in kept' : Adds(r, {})
    BY <1>4, <1>8, <2>1, <2>2, KeepRoadAdds
  <2>4. (IdsInUse /\ RoadsPassed /\ RoadsKept)'
    BY <1>4, <2>1, <2>2, <2>3, OneMoreRoad
  <2> QED
    BY <1>5, <2>1, <2>4
<1>9. CASE DropRoad
  <2>1. /\ place = "repair" /\ place' = "repair" /\ next <= Len(patch.roads)
        /\ next' = next + 1 /\ UNCHANGED <<plan, runs, ids, kept, created>>
        /\ dropped' = dropped \cup {next} /\ Segments(patch, patch.roads[next]) = {}
    BY <1>9 DEF DropRoad, AtRoad, Road
  <2>2. patch' = patch
    BY <2>1 DEF patch
  <2>3. IdsInUse' /\ RoadsKept'
    BY <1>4, <2>1, <2>2 DEF IdsInUse, RoadsKept
  <2>4. RoadsPassed'
    <3>1. /\ \A i \in 1..(next - 1) : i \in 1..(next' - 1)
          /\ \A i \in 1..(next' - 1) : i \in 1..(next - 1) \/ i = next
          /\ next \in 1..(next' - 1) /\ next \notin 1..(next - 1)
      BY <1>4, <2>1 DEF RunTypes
    <3>2. Len(patch.roads) \in Nat
      BY <1>2, <2>1 DEF RoadsFit, IsSeq
    <3>3. next' <= Len(patch.roads) + 1
      BY <1>4, <2>1, <3>2 DEF RunTypes
    <3>4. \A i \in dropped' : i \in 1..(next' - 1) /\ Segments(patch, patch.roads[i]) = {}
      BY <1>4, <2>1, <3>1 DEF RoadsPassed
    <3>5. \A i \in 1..(next' - 1) : i \in dropped' \/ \E r \in kept : r.of = i
      BY <1>4, <2>1, <3>1 DEF RoadsPassed
    <3>6. \A r \in kept : r.of \in 1..(next' - 1) /\ r.of \notin dropped'
      BY <1>4, <2>1, <3>1 DEF RoadsPassed
    <3> QED
      BY <1>4, <2>1, <2>2, <3>3, <3>4, <3>5, <3>6 DEF RoadsPassed
  <2> QED
    BY <1>5, <2>1, <2>3, <2>4
<1>10. CASE RepairRoad
  <2>1. /\ AtRoad /\ next' = next + 1 /\ UNCHANGED <<plan, place, runs, dropped>>
    BY <1>10 DEF RepairRoad
  <2>2. /\ place = "repair" /\ place' = "repair" /\ next <= Len(patch.roads)
    BY <2>1 DEF AtRoad
  <2>3. NodesFit(patch) /\ RoadsFit(patch)
    BY <1>2, <2>2
  <2>4. PICK new : \E r \in kept' : Adds(r, new)
    BY <1>4, <1>10, <2>2, <2>3, RepairRoadAdds
  <2>5. PICK r \in kept' : Adds(r, new)
    BY <2>4
  <2>6. (IdsInUse /\ RoadsPassed /\ RoadsKept)'
    BY <1>4, <2>1, <2>2, <2>3, <2>5, OneMoreRoad
  <2> QED
    BY <1>5, <2>1, <2>2, <2>6
<1>11. CASE Collect
  <2>1. place = "repair" /\ place' = "open"
    BY <1>11 DEF Collect
  <2>2. (NoRoadIsLost /\ EndsAreAtTheirNodes /\ AttachedEndStays)'
    BY <1>2, <1>4, <1>11, <2>1, CollectIsSound
  <2> QED
    BY <1>1, <2>1, <2>2 DEF MendingInv, Mended, RepairIsSound
<1>12. CASE OpenFile
  BY <1>3, <1>12 DEF OpenFile
<1>13. CASE FillFile
  <2>1. next \in Nat /\ next + 1 # 1
    BY DEF MendingInv, RunTypes
  <2> QED
    BY <1>3, <1>13, <2>1 DEF FillFile
<1>14. CASE Die
  BY <1>3, <1>14 DEF Die
<1>15. CASE ClearFile
  BY <1>3, <1>15 DEF ClearFile
<1> QED
  BY <1>6, <1>7, <1>8, <1>9, <1>10, <1>11, <1>12, <1>13, <1>14, <1>15 DEF RepairNext

LEMMA MendingStutter == ASSUME MendingInv, UNCHANGED repairVars PROVE MendingInv'
<1>1. patch' = patch
  BY DEF repairVars, patch
<1>2. RunTypes' /\ IdsInUse' = IdsInUse /\ RoadsPassed' = RoadsPassed /\ RoadsKept' = RoadsKept
  BY <1>1 DEF MendingInv, repairVars, RunTypes, IdsInUse, RoadsPassed, RoadsKept
<1>3. Mended'
  BY <1>2 DEF MendingInv, Mended, repairVars
<1>4. /\ NoRoadIsLost' = NoRoadIsLost /\ AttachedEndStays' = AttachedEndStays
      /\ EndsAreAtTheirNodes' = EndsAreAtTheirNodes
  BY <1>1 DEF repairVars, NoRoadIsLost, AttachedEndStays, EndsAreAtTheirNodes, InputRoad, VirtualAt
<1>5. RepairIsSound'
  BY <1>4 DEF MendingInv, RepairIsSound, repairVars
<1> QED
  BY <1>2, <1>3, <1>5 DEF MendingInv

(* Whatever the patches, runs, losses and deaths: when the roads have been *)
(* worked through, each is there once or had nothing in the clip, ends at  *)
(* its nodes, and has lost no node that it reaches.                        *)
THEOREM RepairsAreSound == RepairSpec => []RepairIsSound
<1>1. RepairInit => MendingInv
  BY MendingInit, PlansAssumption
<1>2. MendingInv /\ [RepairNext]_repairVars => MendingInv'
  BY MendingStep, MendingStutter, PlansAssumption
<1>3. MendingInv => RepairIsSound
  BY DEF MendingInv
<1> QED
  BY <1>1, <1>2, <1>3, PTL DEF RepairSpec

-----------------------------------------------------------------------------
(* The files.  What a run has come past while it writes is its own; if all *)
(* runs overwrite, nothing is left of the runs before.  A deletion takes   *)
(* files away one by one, which leaves those of one run and, if both are   *)
(* left, roads beside their nodes.                                         *)

Overwriting == \A i \in DOMAIN runs : runs[i]

MadeIsClosed == \A r \in made.roads : {r.s, r.e} \subseteq {n.id : n \in made.nodes}

Is(f) == files[f].run # 0

FilesAreClosed ==
    /\ \A f, g \in DOMAIN files : Is(f) /\ Is(g) => files[f].run = files[g].run
    /\ Is("nodes") /\ Is("roads") => RoadsNameNodes
    /\ ~cut => (Is("roads") => Is("nodes")) /\ (Is("report") => Is("roads"))

WrittenSoFar ==
    /\ next \in 1..3 /\ MadeIsClosed
    /\ \A i \in 1..3 : i < next => files[Order[i]] = Content(Order[i])
    /\ Overwriting => \A i \in 1..3 : i >= next => files[Order[i]] = NotWhole

AllWritten == (\A f \in DOMAIN files : files[f].run = Len(runs)) /\ RoadsNameNodes

ThreeFiles == DOMAIN files = {"nodes", "roads", "report"}

Publishing ==
    /\ runs \in Seq(BOOLEAN) /\ (place # "idle" => runs # <<>>)
    /\ ThreeFiles
    /\ Overwriting => FilesAreClosed
    /\ place = "idle" /\ exit = "ok" => AllWritten
    /\ place = "repair" /\ Overwriting => files = Empty
    /\ place \in {"open", "fill"} => WrittenSoFar

LEMMA OrderHolds3 ==
    /\ Order[1] = "nodes" /\ Order[2] = "roads" /\ Order[3] = "report" /\ Len(Order) = 3
    /\ \A i \in 1..3 : Order[i] \in {"nodes", "roads", "report"}
    /\ \A i, j \in 1..3 : Order[i] = Order[j] => i = j
BY DEF Order

LEMMA EmptyIsClosed == ASSUME files = Empty PROVE FilesAreClosed
BY DEF FilesAreClosed, Is, Empty, NotWhole

LEMMA PublishingInit == RepairInit => Publishing
<1> SUFFICES ASSUME NEW p \in Plans, FreshRepair(p) PROVE Publishing
  BY DEF RepairInit
<1>1. files = Empty /\ place = "idle" /\ exit = "none" /\ runs = <<>>
  BY DEF FreshRepair
<1> QED
  BY <1>1, EmptyIsClosed DEF Publishing, ThreeFiles, Empty

LEMMA WrittenIsClosed ==
    ASSUME WrittenSoFar, Overwriting, ThreeFiles PROVE FilesAreClosed
<1>1. /\ files.nodes = IF 1 < next THEN Content("nodes") ELSE NotWhole
      /\ files.roads = IF 2 < next THEN Content("roads") ELSE NotWhole
      /\ files.report = NotWhole
  <2>1. next \in 1..3
    BY DEF WrittenSoFar
  <2>2. \A i \in 1..3 : files[Order[i]] = IF i < next THEN Content(Order[i]) ELSE NotWhole
    BY <2>1 DEF WrittenSoFar
  <2> QED
    BY <2>1, <2>2, OrderHolds3
<1>2. next \in 1..3 /\ MadeIsClosed
  BY DEF WrittenSoFar
<1>3. NotWhole.run = 0
  BY DEF NotWhole
<1>4. /\ Content("nodes").run = Content("roads").run
      /\ Content("nodes").data = made.nodes /\ Content("roads").data = made.roads
  BY DEF Content
<1>5. ~Is("report") /\ (Is("roads") => next = 3) /\ (next = 3 => files.nodes = Content("nodes"))
      /\ (next = 3 => files.roads = Content("roads"))
  BY <1>1, <1>2, <1>3 DEF Is
<1>6. \A f, g \in DOMAIN files : Is(f) /\ Is(g) => files[f].run = files[g].run
  BY <1>4, <1>5 DEF ThreeFiles
<1>7. Is("roads") => RoadsNameNodes
  BY <1>2, <1>4, <1>5 DEF RoadsNameNodes, MadeIsClosed
<1>8. Is("roads") => Is("nodes")
  BY <1>4, <1>5 DEF Is
<1> QED
  BY <1>5, <1>6, <1>7, <1>8 DEF FilesAreClosed

LEMMA ClearingKeepsClosed ==
    ASSUME Publishing, ClearFile PROVE Publishing'
<1>1. PICK f \in DOMAIN files : files' = [files EXCEPT ![f] = NotWhole]
  BY DEF ClearFile
<1>2. place = "clear" /\ place' = "clear" /\ runs' = runs /\ cut'
  BY DEF ClearFile
<1>3. DOMAIN files = {"nodes", "roads", "report"} /\ DOMAIN files' = DOMAIN files
  BY <1>1 DEF Publishing, ThreeFiles
<1>4. \A g \in DOMAIN files : Is(g)' => Is(g) /\ files'[g] = files[g]
  <2>1. NotWhole.run = 0
    BY DEF NotWhole
  <2>2. \A g \in DOMAIN files : files'[g] = IF g = f THEN NotWhole ELSE files[g]
    BY <1>1
  <2> QED
    BY <2>1, <2>2 DEF Is
<1>5. FilesAreClosed => FilesAreClosed'
  <2> SUFFICES ASSUME FilesAreClosed PROVE FilesAreClosed'
    OBVIOUS
  <2>1. \A g, h \in DOMAIN files' : Is(g)' /\ Is(h)' => files'[g].run = files'[h].run
    BY <1>3, <1>4 DEF FilesAreClosed
  <2>2. Is("nodes")' /\ Is("roads")' => RoadsNameNodes'
    BY <1>3, <1>4 DEF FilesAreClosed, RoadsNameNodes
  <2> QED
    BY <1>2, <2>1, <2>2 DEF FilesAreClosed
<1>6. Overwriting' = Overwriting
  BY <1>2 DEF Overwriting
<1> QED
  BY <1>2, <1>3, <1>5, <1>6 DEF Publishing, ThreeFiles

LEMMA PublishingStep == ASSUME Publishing, RepairNext PROVE Publishing'
<1>1. CASE StartRun
  <2>1. PICK overwrite \in BOOLEAN : runs' = Append(runs, overwrite)
    BY <1>1 DEF StartRun
  <2>2. runs' \in Seq(BOOLEAN) /\ runs' # <<>>
    BY <2>1 DEF Publishing
  <2>3. Overwriting' => Overwriting
    <3>1. \A i \in DOMAIN runs : i \in DOMAIN runs' /\ runs'[i] = runs[i]
      BY <2>1 DEF Publishing
    <3> QED
      BY <3>1 DEF Overwriting
  <2>4. /\ place' = "clear" \/ (place' = "idle" /\ exit' = "refused")
        /\ files' = files /\ cut' = cut
    BY <1>1 DEF StartRun
  <2>5. FilesAreClosed' = FilesAreClosed
    BY <2>4 DEF FilesAreClosed, Is, RoadsNameNodes
  <2> QED
    BY <2>2, <2>3, <2>4, <2>5 DEF Publishing, ThreeFiles
<1>2. CASE Prepare
  <2>1. /\ runs' = runs /\ files' = files /\ place = "clear"
        /\ place' = "repair" \/ (place' = "idle" /\ exit' = "refused")
    BY <1>2 DEF Prepare
  <2>2. Overwriting => files = Empty
    <3>1. Len(runs) \in DOMAIN runs
      BY <2>1 DEF Publishing
    <3> QED
      BY <1>2, <3>1 DEF Overwriting, Last, Prepare, Cleared
  <2>3. Overwriting' = Overwriting
    BY <2>1 DEF Overwriting
  <2>4. Overwriting' => FilesAreClosed'
    BY <2>1, <2>2, <2>3 DEF FilesAreClosed, Is, Empty, NotWhole
  <2> QED
    BY <2>1, <2>2, <2>3, <2>4 DEF Publishing, ThreeFiles
<1>3. ASSUME UNCHANGED <<place, files, cut, runs>>, place = "repair" PROVE Publishing'
  BY <1>3 DEF Publishing, ThreeFiles, Overwriting, FilesAreClosed, Is, RoadsNameNodes
<1>4. CASE KeepRoad
  BY <1>3, <1>4 DEF KeepRoad, AtRoad
<1>5. CASE DropRoad
  BY <1>3, <1>5 DEF DropRoad, AtRoad
<1>6. CASE RepairRoad
  <2>1. AtRoad /\ UNCHANGED <<place, files, cut, runs>>
    BY <1>6 DEF RepairRoad
  <2> QED
    BY <1>3, <2>1 DEF AtRoad
<1>7. CASE Collect
  <2>1. place = "repair" /\ place' = "open" /\ next' = 1 /\ UNCHANGED <<files, cut, runs>>
    BY <1>7 DEF Collect
  <2>2. MadeIsClosed'
    <3> DEFINE nodes == {First(patch.nodes \o created, id) : id \in IdsOf(patch.nodes \o created)}
               named == {n.id : n \in nodes}
    <3>1. made' = [nodes |-> nodes, roads |-> {r \in kept : r.s \in named /\ r.e \in named}]
      BY <1>7 DEF Collect
    <3> HIDE DEF nodes
    <3> QED
      BY <3>1 DEF MadeIsClosed
  <2>3. Overwriting' = Overwriting /\ FilesAreClosed' = FilesAreClosed
    BY <2>1 DEF Overwriting, FilesAreClosed, Is, RoadsNameNodes
  <2>4. Overwriting => \A i \in 1..3 : files[Order[i]] = NotWhole
    BY <2>1, OrderHolds3 DEF Publishing, Empty
  <2>5. WrittenSoFar'
    BY <2>1, <2>2, <2>3, <2>4 DEF WrittenSoFar
  <2> QED
    BY <2>1, <2>3, <2>5 DEF Publishing, ThreeFiles
<1>8. CASE OpenFile
  <2>1. /\ place = "open" /\ place' = "fill" /\ UNCHANGED <<next, made, runs>>
        /\ files' = [files EXCEPT ![Order[next]] = NotWhole]
    BY <1>8 DEF OpenFile
  <2>2. WrittenSoFar
    BY <2>1 DEF Publishing
  <2>3. Overwriting' = Overwriting /\ MadeIsClosed' = MadeIsClosed
    BY <2>1 DEF Overwriting, MadeIsClosed
  <2>4. \A i \in 1..3 : Content(Order[i])' = Content(Order[i])
    BY <2>1 DEF Content
  <2>5. ThreeFiles'
    BY <2>1 DEF Publishing, ThreeFiles
  <2>6. next \in 1..3
    BY <2>2 DEF WrittenSoFar
  <2>7. \A i \in 1..3 : files'[Order[i]] = IF i = next THEN NotWhole ELSE files[Order[i]]
    <3>1. \A f \in DOMAIN files : files'[f] = IF f = Order[next] THEN NotWhole ELSE files[f]
      BY <2>1
    <3> QED
      BY <2>6, <3>1, OrderHolds3 DEF Publishing, ThreeFiles
  <2>8. WrittenSoFar'
    <3>1. \A i \in 1..3 : i < next' => files'[Order[i]] = Content(Order[i])'
      BY <2>1, <2>2, <2>4, <2>6, <2>7 DEF WrittenSoFar
    <3>2. Overwriting' => \A i \in 1..3 : i >= next' => files'[Order[i]] = NotWhole
      BY <2>1, <2>2, <2>3, <2>7 DEF WrittenSoFar
    <3>3. MadeIsClosed' /\ next' \in 1..3
      BY <2>1, <2>2, <2>3, <2>6 DEF WrittenSoFar
    <3> QED
      BY <3>1, <3>2, <3>3 DEF WrittenSoFar, NotWhole
  <2>9. Overwriting' => FilesAreClosed'
    BY <2>5, <2>8, WrittenIsClosed, PTL
  <2> QED
    BY <2>1, <2>5, <2>8, <2>9 DEF Publishing
<1>9. CASE FillFile
  <2>1. /\ place = "fill" /\ UNCHANGED <<made, cut, runs>>
        /\ files' = [files EXCEPT ![Order[next]] = Content(Order[next])]
    BY <1>9 DEF FillFile
  <2>2. WrittenSoFar
    BY <2>1 DEF Publishing
  <2>3. Overwriting' = Overwriting /\ MadeIsClosed' = MadeIsClosed
    BY <2>1 DEF Overwriting, MadeIsClosed
  <2>4. \A i \in 1..3 : Content(Order[i])' = Content(Order[i])
    BY <2>1 DEF Content
  <2>5. ThreeFiles'
    BY <2>1 DEF Publishing, ThreeFiles
  <2>6. next \in 1..3 /\ (next = 3 <=> next = Len(Order))
    BY <2>2, OrderHolds3 DEF WrittenSoFar
  <2>7. \A i \in 1..3 : files'[Order[i]] = IF i = next THEN Content(Order[i]) ELSE files[Order[i]]
    <3>1. \A f \in DOMAIN files : files'[f] = IF f = Order[next] THEN Content(f) ELSE files[f]
      BY <2>1
    <3> QED
      BY <2>6, <3>1, OrderHolds3 DEF Publishing, ThreeFiles
  <2>8. CASE next = 3
    <3>1. place' = "idle"
      BY <1>9, <2>6, <2>8 DEF FillFile
    <3>2. \A i \in 1..3 : files'[Order[i]] = Content(Order[i])
      BY <2>2, <2>7, <2>8 DEF WrittenSoFar
    <3>3. \A f \in DOMAIN files' : files'[f] = Content(f)
      BY <2>5, <3>2, OrderHolds3 DEF ThreeFiles
    <3>4. \A f \in DOMAIN files' : files'[f].run = Len(runs)
      BY <3>3 DEF Content
    <3>5. RoadsNameNodes'
      <4>1. files'.nodes.data = made.nodes /\ files'.roads.data = made.roads
        BY <2>5, <3>3 DEF Content, ThreeFiles
      <4> QED
        BY <2>2, <4>1 DEF RoadsNameNodes, MadeIsClosed, WrittenSoFar
    <3>6. AllWritten'
      BY <2>1, <3>4, <3>5 DEF AllWritten
    <3>7. FilesAreClosed'
      <4>1. \A f \in DOMAIN files' : Is(f)' = (Len(runs) # 0)
        BY <3>4 DEF Is
      <4> QED
        BY <2>5, <3>4, <3>5, <4>1 DEF FilesAreClosed, ThreeFiles
    <3> QED
      BY <2>1, <2>5, <3>1, <3>6, <3>7 DEF Publishing
  <2>9. CASE next # 3
    <3>1. place' = "open" /\ next' = next + 1
      BY <1>9, <2>6, <2>9 DEF FillFile
    <3>2. WrittenSoFar'
      <4>1. next' \in 1..3
        BY <2>6, <2>9, <3>1
      <4>2. \A i \in 1..3 : i < next' => files'[Order[i]] = Content(Order[i])'
        BY <2>2, <2>4, <2>6, <2>7, <3>1 DEF WrittenSoFar
      <4>3. Overwriting' => \A i \in 1..3 : i >= next' => files'[Order[i]] = NotWhole
        BY <2>2, <2>3, <2>6, <2>7, <3>1 DEF WrittenSoFar
      <4> QED
        BY <2>2, <2>3, <4>1, <4>2, <4>3 DEF WrittenSoFar, NotWhole
    <3>3. Overwriting' => FilesAreClosed'
      BY <2>5, <3>2, WrittenIsClosed, PTL
    <3> QED
      BY <2>1, <2>5, <3>1, <3>2, <3>3 DEF Publishing
  <2> QED
    BY <2>8, <2>9
<1>10. CASE Die
  BY <1>10 DEF Die, Publishing, ThreeFiles, Overwriting, FilesAreClosed, Is, RoadsNameNodes
<1>11. CASE ClearFile
  BY <1>11, ClearingKeepsClosed
<1> QED
  BY <1>1, <1>2, <1>4, <1>5, <1>6, <1>7, <1>8, <1>9, <1>10, <1>11 DEF RepairNext

LEMMA PublishingStutter == ASSUME Publishing, UNCHANGED repairVars PROVE Publishing'
<1>1. /\ Overwriting' = Overwriting /\ MadeIsClosed' = MadeIsClosed
      /\ RoadsNameNodes' = RoadsNameNodes /\ AllWritten' = AllWritten
  BY DEF repairVars, Overwriting, MadeIsClosed, RoadsNameNodes, AllWritten
<1>2. FilesAreClosed' = FilesAreClosed
  BY <1>1 DEF repairVars, FilesAreClosed, Is
<1>3. \A f : Content(f)' = Content(f)
  BY DEF repairVars, Content
<1>4. WrittenSoFar' = WrittenSoFar
  BY <1>1, <1>3 DEF repairVars, WrittenSoFar
<1> QED
  BY <1>1, <1>2, <1>4 DEF repairVars, Publishing, ThreeFiles

(* After a run that returned, all files are its own and its roads name its *)
(* nodes, whatever the runs before left.  If every run overwrites, whole   *)
(* files are those of one run at any time, roads and nodes fit each other, *)
(* and roads lie beside nodes, and a report beside roads, unless a run     *)
(* died while it deleted files and none has got further since.             *)
THEOREM PublishedStaysClosed == RepairSpec => []PublishedIsClosed
<1>1. Publishing => PublishedIsClosed
  <2> SUFFICES ASSUME Publishing PROVE PublishedIsClosed
    OBVIOUS
  <2>1. place = "idle" /\ exit = "ok" =>
          (\A f \in DOMAIN files : files[f].run = Len(runs)) /\ RoadsNameNodes
    BY DEF Publishing, AllWritten
  <2>2. \A f : f \in {g \in DOMAIN files : files[g].run # 0} <=> f \in DOMAIN files /\ Is(f)
    BY DEF Is
  <2>3. {"nodes", "roads", "report"} \subseteq DOMAIN files
    BY DEF Publishing, ThreeFiles
  <2>4. (\A i \in DOMAIN runs : runs[i]) => FilesAreClosed
    BY DEF Publishing, Overwriting
  <2> QED
    BY <2>1, <2>2, <2>3, <2>4 DEF PublishedIsClosed, FilesAreClosed
<1>2. Publishing /\ [RepairNext]_repairVars => Publishing'
  BY PublishingStep, PublishingStutter
<1> QED
  BY <1>1, <1>2, PublishingInit, PTL DEF RepairSpec

-----------------------------------------------------------------------------
(* Batches that clean clouds.                                              *)

Asked == ToSet(asked)
Uniform == \A a \in Asked : a.resume /\ a.format = job.format
Uncut == \A a \in Asked : ~a.cut
Alike == \A a \in Asked : a.tagged = job.tagged

Writing == {"open", "close", "note", "pass"}
Places == {"idle", "patch", "road", "layers"} \cup Writing
Entries == [format : Formats, tagged : BOOLEAN, resume : BOOLEAN, cut : BOOLEAN]

Types ==
    /\ phase \in Places /\ at \in Nat \ {0} /\ format \in Formats
    /\ job.format \in Formats /\ job.tagged \in BOOLEAN
    /\ Len(data.patches) \in Nat /\ DOMAIN data.patches = 1..Len(data.patches)
    /\ phase \in {"road", "layers"} \cup Writing => at \in DOMAIN data.patches
    /\ DOMAIN copy = DOMAIN data.patches /\ DOMAIN stats = DOMAIN data.patches
    /\ \A p \in DOMAIN copy : DOMAIN copy[p] = Copies

(* The batch that runs is the last that was asked for; before the first    *)
(* there are no files.                                                     *)
Launched ==
    /\ asked \in Seq(Entries)
    /\ asked = <<>> =>
          /\ phase = "idle" /\ table = {}
          /\ \A p \in DOMAIN copy : stats[p] = NoFile /\ \A c \in Copies : copy[p][c] = NoFile
    /\ asked # <<>> => LET a == asked[Len(asked)] IN
          a.format = job.format /\ a.tagged = job.tagged /\ a.resume = job.resume

LEMMA LaunchAsks ==
    ASSUME RequestsFit, Launched, Launch
    PROVE  /\ asked' \in Seq(Entries) /\ asked' # <<>>
           /\ job'.format \in Formats /\ job'.tagged \in BOOLEAN
           /\ LET a == asked'[Len(asked')] IN
                 a.format = job'.format /\ a.tagged = job'.tagged /\ a.resume = job'.resume
           /\ asked # <<>> => /\ Uniform' => Uniform /\ job'.format = job.format
                              /\ Alike' => Alike /\ job'.tagged = job.tagged
           /\ Uncut' => Uncut
<1>1. PICK r \in Requests :
         job' = r /\ asked' = Append(asked, [format |-> r.format, tagged |-> r.tagged,
                                            resume |-> r.resume, cut |-> FALSE])
  BY DEF Launch
<1> DEFINE e == [format |-> r.format, tagged |-> r.tagged, resume |-> r.resume, cut |-> FALSE]
<1>2. r \in [format : Formats, tagged : BOOLEAN, resume : BOOLEAN, mode : TripModes]
  BY DEF RequestsFit
<1>3. /\ e \in Entries
      /\ e.format = r.format /\ e.tagged = r.tagged /\ e.resume = r.resume
  BY <1>2 DEF Entries
<1> HIDE DEF e
<1>4. /\ asked' \in Seq(Entries) /\ Len(asked') = Len(asked) + 1 /\ Len(asked) \in Nat
      /\ asked'[Len(asked) + 1] = e
      /\ \A i \in 1..Len(asked) : asked'[i] = asked[i]
  BY <1>1, <1>3 DEF Launched, e
<1>5. DOMAIN asked = 1..Len(asked) /\ DOMAIN asked' = 1..(Len(asked) + 1)
  BY <1>4 DEF Launched
<1>6. Asked \subseteq Asked' /\ e \in Asked'
  <2>1. \A i \in DOMAIN asked : i \in DOMAIN asked' /\ asked'[i] = asked[i]
    BY <1>4, <1>5
  <2>2. Len(asked) + 1 \in DOMAIN asked'
    BY <1>4, <1>5
  <2> QED
    BY <1>4, <2>1, <2>2 DEF Asked, ToSet
<1>7. asked # <<>> => asked[Len(asked)] \in Asked
  BY <1>5 DEF Asked, ToSet, Launched
<1> QED
  BY <1>1, <1>2, <1>3, <1>4, <1>6, <1>7 DEF Launched, Uniform, Alike, Uncut

LEMMA SpoiltAsks ==
    ASSUME Launched, asked # <<>>, Spoilt, UNCHANGED job
    PROVE  /\ asked' \in Seq(Entries) /\ asked' # <<>>
           /\ LET a == asked'[Len(asked')] IN
                 a.format = job.format /\ a.tagged = job.tagged /\ a.resume = job.resume
           /\ Uniform' = Uniform /\ Alike' = Alike /\ ~Uncut'
<1>1. /\ Len(asked) \in Nat \ {0} /\ DOMAIN asked = 1..Len(asked)
      /\ \A i \in DOMAIN asked : asked[i] \in Entries
  BY DEF Launched
<1> DEFINE n == Len(asked)
<1>2. /\ DOMAIN asked' = 1..n /\ asked'[n] = [asked[n] EXCEPT !.cut = TRUE]
      /\ \A i \in 1..n : i # n => asked'[i] = asked[i]
  <2>1. asked' = [asked EXCEPT ![n] = [asked[n] EXCEPT !.cut = TRUE]]
    BY DEF Spoilt
  <2>2. n \in DOMAIN asked
    BY <1>1
  <2>3. DOMAIN asked' = DOMAIN asked
    BY <2>1
  <2>4. asked'[n] = [asked[n] EXCEPT !.cut = TRUE]
    BY <2>1, <2>2, Zenon
  <2>5. \A i \in DOMAIN asked : i # n => asked'[i] = asked[i]
    BY <2>1
  <2> QED
    BY <1>1, <2>3, <2>4, <2>5
<1>3. asked'[n] \in Entries /\ asked'[n].cut
  <2>1. asked[n] \in Entries
    BY <1>1
  <2> QED
    BY <1>2, <2>1 DEF Entries
<1>4. asked' \in Seq(Entries) /\ Len(asked') = n
  BY <1>1, <1>2, <1>3 DEF Spoilt, Launched
<1>5. \A i \in DOMAIN asked : /\ asked'[i].format = asked[i].format
                              /\ asked'[i].tagged = asked[i].tagged
                              /\ asked'[i].resume = asked[i].resume
  BY <1>1, <1>2 DEF Entries
<1>6. Uniform' = Uniform /\ Alike' = Alike
  BY <1>1, <1>2, <1>5 DEF Uniform, Alike, Asked, ToSet
<1>7. ~Uncut'
  <2>1. n \in DOMAIN asked'
    BY <1>1, <1>2
  <2> QED
    BY <1>3, <2>1 DEF Uncut, Asked, ToSet
<1> QED
  BY <1>1, <1>2, <1>4, <1>5, <1>6, <1>7 DEF Launched

-----------------------------------------------------------------------------
Said(p) == stats[p] \notin {NoFile, HalfFile}
SaidSo(p) == Said(p) /\ stats[p].format = job.format
Clean(p, f) == copy[p][<<"clean", f>>]
Full(p, f) == copy[p][<<"full", f>>]
Good(p, f, tagged) ==
    Clean(p, f) \notin {NoFile, HalfFile} /\ (tagged => Full(p, f) = Clean(p, f))
Kept(p) == Good(p, stats[p].format, stats[p].tagged)

(* As long as nothing was cut short, what exists in the format of the      *)
(* batches is what the statistics speak of.                                *)
UncutKept ==
    Uniform /\ Uncut =>
        /\ \A p \in DOMAIN copy : ~(phase \in Writing /\ p = at) =>
              /\ Said(p) => Kept(p)
              /\ Clean(p, job.format) # NoFile => SaidSo(p)
              /\ Full(p, job.format) # NoFile => SaidSo(p) /\ stats[p].tagged
        /\ phase \in {"road", "layers"} => Full(at, job.format) = NoFile
        /\ phase \in Writing =>
              /\ Clean(at, job.format) # NoFile => format = job.format
              /\ Full(at, job.format) # NoFile => format = job.format /\ job.tagged

(* When all ask for the same, statistics in that format are final.         *)
AlikeKept ==
    Uniform /\ Alike =>
        /\ \A p \in DOMAIN copy : SaidSo(p) => Kept(p) /\ (stats[p].tagged = job.tagged)
        /\ phase \in {"road", "layers"} \cup Writing => ~SaidSo(at)

Copied == phase \in {"note", "pass"} => Good(at, format, job.tagged)

RowsAgree ==
    \A r \in table : r.pass =>
        /\ r.patch \in DOMAIN copy /\ (phase # "idle" => r.patch < at)
        /\ Said(r.patch) /\ r.format = stats[r.patch].format
        /\ r.tagged = (job.tagged /\ stats[r.patch].tagged)
        /\ Uniform /\ Uncut /\ job.tagged => r.tagged

Booked == Types /\ Launched /\ UncutKept /\ AlikeKept /\ Copied /\ RowsAgree

LEMMA BookedInit == RequestsFit /\ DataFits /\ CleaningInit => Booked
<1> SUFFICES ASSUME RequestsFit, DataFits, CleaningInit PROVE Booked
  OBVIOUS
<1>1. PICK d \in DataSets : FreshBatch(d)
  BY DEF CleaningInit
<1>2. job \in Requests
  BY <1>1 DEF FreshBatch, RequestsFit
<1>3. job.format \in Formats /\ job.tagged \in BOOLEAN
  BY <1>2 DEF RequestsFit
<1>4. Types
  <2>1. /\ phase = "idle" /\ at = 1 /\ format = "laz" /\ data = d
        /\ DOMAIN copy = DOMAIN d.patches /\ DOMAIN stats = DOMAIN d.patches
        /\ \A p \in DOMAIN d.patches : DOMAIN copy[p] = Copies
    BY <1>1 DEF FreshBatch
  <2>2. Len(data.patches) \in Nat /\ DOMAIN data.patches = 1..Len(data.patches)
    BY <2>1 DEF DataFits
  <2>3. phase \in Places /\ at \in Nat \ {0} /\ format \in Formats
    BY <2>1 DEF Places, Formats
  <2>4. phase \notin {"road", "layers"} \cup Writing
    BY <2>1 DEF Writing
  <2> QED
    BY <1>3, <2>1, <2>2, <2>3, <2>4 DEF Types
<1>5. \A p \in DOMAIN copy : stats[p] = NoFile /\ \A c \in Copies : copy[p][c] = NoFile
  BY <1>1 DEF FreshBatch
<1>6. Launched
  BY <1>1, <1>5 DEF FreshBatch, Launched
<1>7. UncutKept /\ AlikeKept
  BY <1>1, <1>3, <1>5 DEF FreshBatch, UncutKept, AlikeKept, Said, SaidSo, Clean, Full, Copies, Writing
<1>8. Copied /\ RowsAgree
  BY <1>1 DEF FreshBatch, Copied, RowsAgree
<1> QED
  BY <1>4, <1>6, <1>7, <1>8 DEF Booked

LEMMA DoneFacts ==
    ASSUME Booked, phase = "patch", at \in DOMAIN copy
    PROVE  /\ Uniform => job.resume
           /\ ~Done(at) /\ Uniform /\ Alike => ~SaidSo(at)
           /\ ~Done(at) /\ Uniform /\ Uncut => Full(at, job.format) = NoFile
           /\ Done(at) /\ Uniform /\ Uncut /\ job.tagged => stats[at].tagged
<1>1. Uniform => job.resume
  <2>1. asked # <<>> /\ asked \in Seq(Entries)
    BY DEF Booked, Launched
  <2>2. asked[Len(asked)] \in Asked
    BY <2>1 DEF Asked, ToSet
  <2> QED
    BY <2>1, <2>2 DEF Booked, Launched, Uniform
<1>2. ~(phase \in Writing)
  BY DEF Writing
<1>3. ~Done(at) /\ Uniform /\ SaidSo(at) /\ Kept(at) => job.tagged /\ ~stats[at].tagged
  BY <1>1 DEF Done, Stated, SaidSo, Said, Kept, Good, Clean, Full
<1> QED
  BY <1>1, <1>2, <1>3 DEF Booked, UncutKept, AlikeKept, SaidSo, Done, Clean, Full

(* A batch begins.                                                         *)
LEMMA BookedLaunch == RequestsFit /\ Booked /\ Launch => Booked'
<1> SUFFICES ASSUME RequestsFit, Booked, Launch PROVE Booked'
  OBVIOUS
<1>1. /\ phase = "idle" /\ phase' = "patch" /\ at' = 1 /\ table' = {}
      /\ UNCHANGED <<data, format, peaks, roadZ, layers, copy, stats>>
  BY DEF Launch
<1>2. /\ asked' \in Seq(Entries) /\ asked' # <<>>
      /\ job'.format \in Formats /\ job'.tagged \in BOOLEAN
      /\ LET a == asked'[Len(asked')] IN
            a.format = job'.format /\ a.tagged = job'.tagged /\ a.resume = job'.resume
      /\ asked # <<>> => /\ Uniform' => Uniform /\ job'.format = job.format
                         /\ Alike' => Alike /\ job'.tagged = job.tagged
      /\ Uncut' => Uncut
  BY LaunchAsks DEF Booked
<1>3. Types' /\ Launched' /\ Copied' /\ RowsAgree'
  BY <1>1, <1>2 DEF Booked, Types, Launched, Copied, RowsAgree, Places, Writing
<1>4. CASE asked = <<>>
  <2>1. \A p \in DOMAIN copy : stats[p] = NoFile /\ \A c \in Copies : copy[p][c] = NoFile
    BY <1>4 DEF Booked, Launched
  <2>2. UncutKept' /\ AlikeKept'
    BY <1>1, <1>2, <2>1 DEF UncutKept, AlikeKept, Said, SaidSo, Clean, Full, Copies, Writing
  <2> QED
    BY <1>3, <2>2 DEF Booked
<1>5. CASE asked # <<>>
  <2>1. UncutKept'
    BY <1>1, <1>2, <1>5 DEF Booked, UncutKept, Said, SaidSo, Kept, Good, Clean, Full, Writing
  <2>2. AlikeKept'
    BY <1>1, <1>2, <1>5 DEF Booked, AlikeKept, Said, SaidSo, Kept, Good, Clean, Full, Writing
  <2> QED
    BY <1>3, <2>1, <2>2 DEF Booked
<1> QED
  BY <1>4, <1>5

(* Steps that touch no file and no request.                                *)
LEMMA BookedQuiet ==
    ASSUME Booked, UNCHANGED <<data, job, copy, stats, asked>>,
           phase # "idle", phase' \in Places, format' \in Formats,
           RowsAgree', at' \in Nat \ {0},
           phase' \in {"road", "layers"} \cup Writing => at' = at /\ at \in DOMAIN copy,
           phase' \in {"road", "layers"} =>
               phase \in {"road", "layers"} \/ (phase = "patch" /\ ~Done(at)),
           phase' \in Writing => phase' = "open" /\ phase = "layers" /\ format' = job.format,
           phase \notin Writing
    PROVE  Booked'
<1> USE DEF Booked
<1>1. /\ Uniform' = Uniform /\ Uncut' = Uncut /\ Alike' = Alike
      /\ \A p : Said(p)' = Said(p) /\ SaidSo(p)' = SaidSo(p) /\ Kept(p)' = Kept(p)
  BY DEF Uniform, Uncut, Alike, Asked, Said, SaidSo, Kept, Good, Clean, Full
<1>2. Types' /\ Launched'
  BY DEF Types, Launched
<1>3. Copied'
  BY DEF Copied, Writing
<1>4. UncutKept'
  <2>1. Uniform /\ Uncut /\ phase' \in {"road", "layers"} => Full(at, job.format) = NoFile
    BY DoneFacts DEF UncutKept
  <2>2. Uniform /\ Uncut /\ phase' = "open" =>
           format' = job.format /\ Full(at, job.format) = NoFile /\ at' = at
    BY DEF UncutKept, Writing
  <2> QED
    BY <1>1, <2>1, <2>2 DEF UncutKept, Clean, Full, Writing
<1>5. AlikeKept'
  <2>1. Uniform /\ Alike /\ phase' \in {"road", "layers"} => ~SaidSo(at)
    BY DoneFacts DEF AlikeKept
  <2> QED
    BY <1>1, <2>1 DEF AlikeKept, Writing
<1> QED
  BY <1>2, <1>3, <1>4, <1>5

LEMMA BookedResume == Booked /\ Resume => Booked'
<1> SUFFICES ASSUME Booked, Resume PROVE Booked'
  OBVIOUS
<1>1. /\ phase = "patch" /\ at <= Len(data.patches) /\ Done(at)
      /\ table' = table \cup {Row(at, stats[at])} /\ at' = at + 1 /\ phase' = "patch"
      /\ format' = "laz" /\ UNCHANGED <<data, job, copy, stats, asked>>
  BY DEF Resume, AtPatch, EndPatch
<1>2. at \in Nat \ {0} /\ at \in DOMAIN copy
  BY <1>1 DEF Booked, Types
<1>3. /\ Uniform' = Uniform /\ Uncut' = Uncut
      /\ \A p : Said(p)' = Said(p)
  BY <1>1 DEF Uniform, Uncut, Asked, Said
<1>4. RowsAgree'
  <2> SUFFICES ASSUME NEW r \in table', r.pass
               PROVE  /\ r.patch \in DOMAIN copy /\ r.patch < at + 1
                      /\ Said(r.patch) /\ r.format = stats[r.patch].format
                      /\ r.tagged = (job.tagged /\ stats[r.patch].tagged)
                      /\ Uniform /\ Uncut /\ job.tagged => r.tagged
    BY <1>1, <1>3 DEF RowsAgree
  <2>1. CASE r \in table
    BY <1>1, <1>2, <2>1 DEF Booked, Types, RowsAgree
  <2>2. CASE r = Row(at, stats[at])
    <3>1. /\ r.patch = at /\ r.format = stats[at].format
          /\ r.tagged = (job.tagged /\ stats[at].tagged)
      BY <2>2 DEF Row
    <3>2. Said(at)
      BY <1>1 DEF Done, Stated, Said
    <3>3. Uniform /\ Uncut /\ job.tagged => stats[at].tagged
      BY <1>1, <1>2, DoneFacts
    <3>4. Uniform /\ Uncut /\ job.tagged => r.tagged
      BY <3>1, <3>3, Zenon
    <3>5. r.patch \in DOMAIN copy /\ r.patch < at + 1 /\ Said(r.patch)
      BY <1>2, <3>1, <3>2 DEF Said
    <3> QED
      BY <3>1, <3>4, <3>5, Zenon
  <2> QED
    BY <1>1, <2>1, <2>2
<1>5. phase' \in Places /\ format' \in Formats /\ phase' \notin {"road", "layers"} \cup Writing
      /\ phase # "idle" /\ phase \notin Writing /\ at' \in Nat \ {0}
  BY <1>1, <1>2 DEF Places, Formats, Writing
<1> QED
  BY <1>1, <1>4, <1>5, BookedQuiet

LEMMA BookedFails == Booked /\ PatchFails => Booked'
<1> SUFFICES ASSUME Booked, PatchFails PROVE Booked'
  OBVIOUS
<1>1. /\ phase = "patch" /\ table' = table \cup {FailRow(at)} /\ at' = at + 1 /\ phase' = "patch"
      /\ format' = "laz" /\ UNCHANGED <<data, job, copy, stats, asked>>
  BY DEF PatchFails, AtPatch, EndPatch
<1>2. at \in Nat \ {0} /\ ~FailRow(at).pass
  BY DEF Booked, Types, FailRow
<1>3. RowsAgree'
  BY <1>1, <1>2 DEF Booked, RowsAgree, Said, Uniform, Uncut, Asked, Types
<1>4. phase' \in Places /\ format' \in Formats /\ phase' \notin {"road", "layers"} \cup Writing
      /\ phase # "idle" /\ phase \notin Writing /\ at' \in Nat \ {0}
  BY <1>1, <1>2 DEF Places, Formats, Writing
<1> QED
  BY <1>1, <1>3, <1>4, BookedQuiet

LEMMA BookedRaises == Booked /\ (BatchRaises \/ EndBatch) => Booked'
<1> SUFFICES ASSUME Booked, BatchRaises \/ EndBatch PROVE Booked'
  OBVIOUS
<1>1. /\ phase \in {"patch", "road", "layers"} /\ table' \subseteq table /\ phase' = "idle"
      /\ UNCHANGED <<data, job, at, format, copy, stats, asked>>
  BY DEF BatchRaises, EndBatch, AtPatch
<1>2. RowsAgree'
  BY <1>1 DEF Booked, RowsAgree, Said, Uniform, Uncut, Asked
<1>3. phase' \in Places /\ format' \in Formats /\ phase' \notin {"road", "layers"} \cup Writing
      /\ phase # "idle" /\ phase \notin Writing /\ at' \in Nat \ {0}
  BY <1>1 DEF Places, Writing, Booked, Types
<1> QED
  BY <1>1, <1>2, <1>3, BookedQuiet

LEMMA BookedFinds == Booked /\ (FindPeaks \/ FindRoad \/ FindLayers) => Booked'
<1> SUFFICES ASSUME Booked, FindPeaks \/ FindRoad \/ FindLayers PROVE Booked'
  OBVIOUS
<1>1. /\ UNCHANGED <<data, job, at, copy, stats, table, asked>>
      /\ \/ phase = "patch" /\ ~Done(at) /\ at <= Len(data.patches) /\ phase' = "road" /\ format' = format
         \/ phase = "road" /\ phase' = "layers" /\ format' = format
         \/ phase = "layers" /\ phase' = "open" /\ format' = job.format
  BY DEF FindPeaks, FindRoad, FindLayers, AtPatch
<1>2. at \in Nat \ {0} /\ at \in DOMAIN copy
  BY <1>1 DEF Booked, Types
<1>3. RowsAgree'
  BY <1>1 DEF Booked, RowsAgree, Said, Uniform, Uncut, Asked
<1>4. phase' \in Places /\ format' \in Formats
  BY <1>1 DEF Booked, Types, Places, Writing
<1>5. phase \in {"patch", "road", "layers"} /\ phase \notin Writing
  BY <1>1 DEF Writing
<1>6. phase' \in {"road", "layers"} => phase \in {"road", "layers"} \/ (phase = "patch" /\ ~Done(at))
  BY <1>1
<1>7. phase' \in Writing => phase' = "open" /\ phase = "layers" /\ format' = job.format
  BY <1>1 DEF Writing
<1> QED
  BY <1>1, <1>2, <1>3, <1>4, <1>5, <1>6, <1>7, BookedQuiet

(* Steps that end what a batch does, or cut it short.                      *)
LEMMA BookedSpoilt ==
    ASSUME Booked, phase # "idle", Spoilt, UNCHANGED <<data, job, copy, stats>>,
           phase' \in {"idle", "patch"}, at' \in Nat \ {0}, format' \in Formats,
           \A r \in table' : r.pass => r \in table /\ (phase' # "idle" => r.patch < at')
    PROVE  Booked'
<1>1. asked # <<>>
  BY DEF Booked, Launched
<1>2. /\ asked' \in Seq(Entries) /\ asked' # <<>>
      /\ LET a == asked'[Len(asked')] IN
            a.format = job.format /\ a.tagged = job.tagged /\ a.resume = job.resume
      /\ Uniform' = Uniform /\ Alike' = Alike /\ ~Uncut'
  BY <1>1, SpoiltAsks DEF Booked
<1>3. phase' \in Places /\ phase' \notin {"road", "layers"} \cup Writing
  BY DEF Places, Writing
<1>4. Types' /\ Launched' /\ Copied'
  BY <1>2, <1>3 DEF Booked, Types, Launched, Copied, Writing
<1>5. UncutKept'
  BY <1>2 DEF UncutKept
<1>6. \A p : Said(p)' = Said(p) /\ SaidSo(p)' = SaidSo(p) /\ Kept(p)' = Kept(p)
  BY DEF Said, SaidSo, Kept, Good, Clean, Full
<1>7. AlikeKept'
  BY <1>2, <1>3, <1>6 DEF Booked, AlikeKept, Writing
<1>8. RowsAgree'
  BY <1>2, <1>6 DEF Booked, RowsAgree
<1> QED
  BY <1>4, <1>5, <1>7, <1>8 DEF Booked

LEMMA BookedSpoils == Booked /\ (WriteFails \/ Crash) => Booked'
<1> SUFFICES ASSUME Booked, WriteFails \/ Crash PROVE Booked'
  OBVIOUS
<1>1. /\ phase # "idle" /\ Spoilt /\ UNCHANGED <<data, job, copy, stats>> /\ format' = "laz"
      /\ \/ phase' = "idle" /\ table' = {} /\ at' = at
         \/ phase' = "patch" /\ table' = table \cup {FailRow(at)} /\ at' = at + 1
  BY DEF WriteFails, Crash, EndPatch
<1>2. at' \in Nat \ {0} /\ format' \in Formats
  BY <1>1 DEF Booked, Types, Formats
<1>3. \A r \in table' : r.pass => r \in table /\ (phase' # "idle" => r.patch < at')
  <2>1. CASE table' = {}
    BY <2>1
  <2>2. CASE table' = table \cup {FailRow(at)} /\ at' = at + 1
    <3>1. ~FailRow(at).pass
      BY DEF FailRow
    <3>2. \A r \in table : r.pass => r.patch < at /\ r.patch \in Nat
      BY <1>1 DEF Booked, Types, RowsAgree
    <3> QED
      BY <2>2, <3>1, <3>2 DEF Booked, Types
  <2> QED
    BY <1>1, <2>1, <2>2
<1> QED
  BY <1>1, <1>2, <1>3, BookedSpoilt

-----------------------------------------------------------------------------
(* Steps that write the copies of the patch.                               *)
LEMMA PutCopies ==
    ASSUME Types, at \in DOMAIN copy, NEW cs \in SUBSET Copies, NEW content, Put(cs, content)
    PROVE  /\ DOMAIN copy' = DOMAIN copy /\ \A p \in DOMAIN copy : DOMAIN copy'[p] = Copies
           /\ \A p \in DOMAIN copy : p # at => copy'[p] = copy[p]
           /\ \A c \in cs : copy'[at][c] = content
           /\ \A c \in Copies \ cs : copy'[at][c] = copy[at][c]
<1> DEFINE new == [c \in Copies |-> IF c \in cs THEN content ELSE copy[at][c]]
<1>1. copy' = [copy EXCEPT ![at] = new]
  BY DEF Put
<1>2. /\ DOMAIN new = Copies
      /\ \A c \in cs : new[c] = content
      /\ \A c \in Copies \ cs : new[c] = copy[at][c]
  OBVIOUS
<1> HIDE DEF new
<1>3. copy'[at] = new /\ DOMAIN copy' = DOMAIN copy /\ \A p \in DOMAIN copy : p # at => copy'[p] = copy[p]
  BY <1>1
<1> QED
  BY <1>2, <1>3 DEF Types

LEMMA BookedPut ==
    ASSUME Booked, phase \in {"open", "close"}, phase' \in {"open", "close", "note"},
           UNCHANGED <<data, job, at, stats, table, asked>>,
           NEW cs \in SUBSET Copies, NEW content, Put(cs, content), format' \in Formats,
           phase' = "note" => Good(at, format, job.tagged)' /\ format' = format,
           Uniform /\ Uncut =>
               /\ Clean(at, job.format)' # NoFile => format' = job.format
               /\ Full(at, job.format)' # NoFile => format' = job.format /\ job.tagged
    PROVE  Booked'
<1>1. at \in DOMAIN copy /\ phase \in Writing /\ phase' \in Writing
  BY DEF Booked, Types, Writing
<1>2. /\ DOMAIN copy' = DOMAIN copy /\ \A p \in DOMAIN copy : DOMAIN copy'[p] = Copies
      /\ \A p \in DOMAIN copy : p # at => copy'[p] = copy[p]
  BY <1>1, PutCopies DEF Booked
<1>3. /\ Uniform' = Uniform /\ Uncut' = Uncut /\ Alike' = Alike
      /\ \A p : Said(p)' = Said(p) /\ SaidSo(p)' = SaidSo(p)
  BY DEF Uniform, Uncut, Alike, Asked, Said, SaidSo
<1>4. \A p \in DOMAIN copy : p # at =>
         /\ Kept(p)' = Kept(p)
         /\ Clean(p, job.format)' = Clean(p, job.format)
         /\ Full(p, job.format)' = Full(p, job.format)
  BY <1>2 DEF Kept, Good, Clean, Full
<1>5. Types'
  BY <1>1, <1>2 DEF Booked, Types, Places
<1>6. Launched'
  BY <1>1 DEF Booked, Launched, Writing
<1>7. Copied'
  BY DEF Copied
<1>8. RowsAgree'
  BY <1>2, <1>3, <1>1 DEF Booked, RowsAgree, Writing
<1>9. UncutKept'
  BY <1>1, <1>2, <1>3, <1>4 DEF Booked, UncutKept, Clean, Full, Writing
<1>10. AlikeKept'
  BY <1>1, <1>2, <1>3, <1>4 DEF Booked, AlikeKept
<1> QED
  BY <1>5, <1>6, <1>7, <1>8, <1>9, <1>10 DEF Booked

LEMMA BookedOpen == Booked /\ Open => Booked'
<1> SUFFICES ASSUME Booked, Open PROVE Booked'
  OBVIOUS
<1>1. /\ phase = "open" /\ phase' = "close" /\ Put(Written, HalfFile)
      /\ UNCHANGED <<data, job, at, format, stats, table, asked>>
  BY DEF Open
<1>2. Written \in SUBSET Copies /\ format \in Formats /\ job.format \in Formats /\ at \in DOMAIN copy /\ Types
      /\ job.tagged \in BOOLEAN
  BY <1>1 DEF Written, Booked, Types, Writing
<1>3. \A c \in Copies \ Written : copy'[at][c] = copy[at][c]
  BY <1>1, <1>2, PutCopies
<1> DEFINE clean == <<"clean", job.format>>
           full == <<"full", job.format>>
<1>4. clean \in Copies /\ full \in Copies
  BY <1>2 DEF Copies
<1>5. clean \notin Written \/ job.format = format
  BY DEF Written
<1>6. full \notin Written \/ (job.format = format /\ job.tagged)
  BY DEF Written
<1>7. copy'[at][clean] = copy[at][clean] \/ job.format = format
  BY <1>3, <1>4, <1>5
<1>8. copy'[at][full] = copy[at][full] \/ (job.format = format /\ job.tagged)
  BY <1>3, <1>4, <1>6
<1>9. Uniform /\ Uncut => /\ copy[at][clean] # NoFile => format = job.format
                          /\ copy[at][full] # NoFile => format = job.format /\ job.tagged
  BY <1>1 DEF Booked, UncutKept, Clean, Full, Writing
<1>10. Uniform /\ Uncut =>
         /\ Clean(at, job.format)' # NoFile => format' = job.format
         /\ Full(at, job.format)' # NoFile => format' = job.format /\ job.tagged
  <2>1. Clean(at, job.format)' = copy'[at][clean] /\ Full(at, job.format)' = copy'[at][full]
    BY <1>1 DEF Clean, Full
  <2>2. format' = format
    BY <1>1
  <2>3. Uniform /\ Uncut => (copy'[at][clean] # NoFile => format = job.format)
    BY <1>7, <1>9
  <2>4. Uniform /\ Uncut => (copy'[at][full] # NoFile => format = job.format /\ job.tagged = TRUE)
    BY <1>2, <1>8, <1>9
  <2> QED
    BY <2>1, <2>2, <2>3, <2>4
<1> QED
  BY <1>1, <1>2, <1>10, BookedPut

LEMMA BookedClose == Booked /\ Close => Booked'
<1> SUFFICES ASSUME Booked, Close PROVE Booked'
  OBVIOUS
<1>1. /\ phase = "close" /\ phase' = "note" /\ Put(Written, Whole)
      /\ UNCHANGED <<data, job, at, format, stats, table, asked>>
  BY DEF Close
<1>2. Written \in SUBSET Copies /\ format \in Formats /\ job.format \in Formats /\ at \in DOMAIN copy /\ Types
      /\ job.tagged \in BOOLEAN
  BY <1>1 DEF Written, Booked, Types, Writing
<1>3. /\ \A c \in Written : copy'[at][c] = Whole
      /\ \A c \in Copies \ Written : copy'[at][c] = copy[at][c]
  BY <1>1, <1>2, PutCopies
<1> DEFINE clean == <<"clean", job.format>>
           full == <<"full", job.format>>
<1>4. clean \in Copies /\ full \in Copies
  BY <1>2 DEF Copies
<1>5. clean \notin Written \/ job.format = format
  BY DEF Written
<1>6. full \notin Written \/ (job.format = format /\ job.tagged)
  BY DEF Written
<1>7. copy'[at][clean] = copy[at][clean] \/ job.format = format
  BY <1>3, <1>4, <1>5
<1>8. copy'[at][full] = copy[at][full] \/ (job.format = format /\ job.tagged)
  BY <1>3, <1>4, <1>6
<1>9. Uniform /\ Uncut => /\ copy[at][clean] # NoFile => format = job.format
                          /\ copy[at][full] # NoFile => format = job.format /\ job.tagged
  BY <1>1 DEF Booked, UncutKept, Clean, Full, Writing
<1>10. Uniform /\ Uncut =>
         /\ Clean(at, job.format)' # NoFile => format' = job.format
         /\ Full(at, job.format)' # NoFile => format' = job.format /\ job.tagged
  <2>1. Clean(at, job.format)' = copy'[at][clean] /\ Full(at, job.format)' = copy'[at][full]
    BY <1>1 DEF Clean, Full
  <2>2. format' = format
    BY <1>1
  <2>3. Uniform /\ Uncut => (copy'[at][clean] # NoFile => format = job.format)
    BY <1>7, <1>9
  <2>4. Uniform /\ Uncut => (copy'[at][full] # NoFile => format = job.format /\ job.tagged = TRUE)
    BY <1>2, <1>8, <1>9
  <2> QED
    BY <2>1, <2>2, <2>3, <2>4
<1>11. Whole \notin {NoFile, HalfFile}
  <2>1. Whole.format \in {"laz", "las"}
    BY <1>2 DEF Whole, Formats
  <2> QED
    BY <2>1 DEF NoFile, HalfFile
<1>12. /\ <<"clean", format>> \in Written
       /\ job.tagged => <<"full", format>> \in Written
  BY <1>2 DEF Written, Copies
<1>13. Good(at, format, job.tagged)'
  BY <1>1, <1>3, <1>11, <1>12 DEF Good, Clean, Full
<1> QED
  BY <1>1, <1>2, <1>10, <1>13, BookedPut

LEMMA BookedFallBack == Booked /\ FallBack => Booked'
<1> SUFFICES ASSUME Booked, FallBack PROVE Booked'
  OBVIOUS
<1> DEFINE laz == {c \in Copies : c[2] = "laz"}
           clean == <<"clean", job.format>>
           full == <<"full", job.format>>
<1>1. /\ phase = "close" /\ format = "laz" /\ phase' = "open" /\ format' = "las" /\ Put(laz, NoFile)
      /\ UNCHANGED <<data, job, at, stats, table, asked>>
  BY DEF FallBack
<1>2. laz \in SUBSET Copies /\ job.format \in Formats /\ at \in DOMAIN copy /\ Types
  BY <1>1 DEF Booked, Types, Writing
<1>3. /\ \A c \in laz : copy'[at][c] = NoFile
      /\ \A c \in Copies \ laz : copy'[at][c] = copy[at][c]
  BY <1>1, <1>2, PutCopies
<1>4. clean \in Copies /\ full \in Copies
  BY <1>2 DEF Copies
<1>5. CASE job.format = "laz"
  <2>1. clean \in laz /\ full \in laz
    BY <1>4, <1>5
  <2>2. Clean(at, job.format)' = NoFile /\ Full(at, job.format)' = NoFile
    BY <1>1, <1>3, <2>1 DEF Clean, Full
  <2> QED
    BY <1>1, <1>2, <2>2, BookedPut DEF Formats
<1>6. CASE job.format = "las"
  <2>1. clean \in Copies \ laz /\ full \in Copies \ laz
    BY <1>4, <1>6
  <2>2. copy'[at][clean] = copy[at][clean] /\ copy'[at][full] = copy[at][full]
    BY <1>3, <2>1
  <2>3. Uniform /\ Uncut => copy[at][clean] = NoFile /\ copy[at][full] = NoFile
    BY <1>1, <1>6 DEF Booked, UncutKept, Clean, Full, Writing
  <2>4. Uniform /\ Uncut => Clean(at, job.format)' = NoFile /\ Full(at, job.format)' = NoFile
    BY <1>1, <2>2, <2>3 DEF Clean, Full
  <2> QED
    BY <1>1, <1>2, <2>4, BookedPut DEF Formats
<1> QED
  BY <1>2, <1>5, <1>6 DEF Formats

LEMMA BookedOpenStats == Booked /\ OpenStats => Booked'
<1> SUFFICES ASSUME Booked, OpenStats PROVE Booked'
  OBVIOUS
<1>1. /\ phase = "note" /\ phase' = "pass" /\ stats' = [stats EXCEPT ![at] = HalfFile]
      /\ UNCHANGED <<data, job, at, format, copy, table, asked>>
  BY DEF OpenStats
<1>2. /\ at \in DOMAIN copy /\ at \in DOMAIN stats /\ DOMAIN stats' = DOMAIN stats
      /\ phase \in Writing /\ phase' \in Writing
  BY <1>1 DEF Booked, Types, Writing
<1>3. /\ stats'[at] = HalfFile
      /\ \A p \in DOMAIN stats : p # at => stats'[p] = stats[p]
  BY <1>1, <1>2
<1>4. ~Said(at)' /\ ~SaidSo(at)'
  BY <1>1, <1>3 DEF Said, SaidSo
<1>5. \A p \in DOMAIN copy : p # at =>
         Said(p)' = Said(p) /\ SaidSo(p)' = SaidSo(p) /\ Kept(p)' = Kept(p)
  BY <1>1, <1>3 DEF Said, SaidSo, Kept, Good, Clean, Full, Booked, Types
<1>6. Uniform' = Uniform /\ Uncut' = Uncut /\ Alike' = Alike
  BY <1>1 DEF Uniform, Uncut, Alike, Asked
<1>7. Types' /\ Launched'
  BY <1>1, <1>2 DEF Booked, Types, Launched, Places
<1>8. Copied'
  BY <1>1 DEF Booked, Copied, Good, Clean, Full
<1>9. UncutKept'
  BY <1>1, <1>2, <1>3, <1>5, <1>6 DEF Booked, UncutKept, Clean, Full, Writing
<1>10. AlikeKept'
  BY <1>1, <1>2, <1>3, <1>4, <1>5, <1>6 DEF Booked, AlikeKept
<1>11. RowsAgree'
  <2>1. \A r \in table : r.pass => r.patch \in DOMAIN copy /\ r.patch # at
    BY <1>1 DEF Booked, RowsAgree, Types
  <2> QED
    BY <1>1, <1>3, <1>5, <1>6, <2>1 DEF Booked, RowsAgree, Types
<1> QED
  BY <1>7, <1>8, <1>9, <1>10, <1>11 DEF Booked

LEMMA BookedPasses == Booked /\ PatchPasses => Booked'
<1> SUFFICES ASSUME Booked, PatchPasses PROVE Booked'
  OBVIOUS
<1>0. PICK n : n = at
  OBVIOUS
<1> DEFINE s == [format |-> format, tagged |-> job.tagged]
<1>1. /\ phase = "pass" /\ phase' = "patch" /\ stats' = [stats EXCEPT ![n] = s]
      /\ table' = table \cup {Row(n, s)} /\ at' = n + 1 /\ format' = "laz"
      /\ UNCHANGED <<data, job, copy, asked>>
  BY <1>0 DEF PatchPasses, EndPatch
<1>2. /\ n \in DOMAIN copy /\ n \in DOMAIN stats /\ DOMAIN stats' = DOMAIN stats
      /\ phase \in Writing /\ phase' \notin Writing /\ phase' \notin {"road", "layers"}
      /\ format \in Formats /\ job.tagged \in BOOLEAN /\ n \in Nat \ {0}
  BY <1>0, <1>1 DEF Booked, Types, Writing
<1>3. /\ stats'[n] = s
      /\ \A p \in DOMAIN stats : p # n => stats'[p] = stats[p]
  BY <1>1, <1>2
<1>4. s.format = format /\ s.tagged = job.tagged /\ s \notin {NoFile, HalfFile}
  BY <1>2 DEF NoFile, HalfFile, Formats
<1>5. Good(n, format, job.tagged)
  BY <1>0, <1>1 DEF Booked, Copied
<1> HIDE DEF s
<1>6. /\ Said(n)' /\ Kept(n)' /\ SaidSo(n)' = (format = job.format)
      /\ stats'[n].format = format /\ stats'[n].tagged = job.tagged
  BY <1>1, <1>3, <1>4, <1>5 DEF Said, SaidSo, Kept, Good, Clean, Full
<1>7. \A p \in DOMAIN copy : p # n =>
         Said(p)' = Said(p) /\ SaidSo(p)' = SaidSo(p) /\ Kept(p)' = Kept(p)
  BY <1>1, <1>3 DEF Said, SaidSo, Kept, Good, Clean, Full, Booked, Types
<1>8. Uniform' = Uniform /\ Uncut' = Uncut /\ Alike' = Alike
  BY <1>1 DEF Uniform, Uncut, Alike, Asked
<1>9. Types' /\ Launched'
  BY <1>1, <1>2 DEF Booked, Types, Launched, Places, Formats
<1>10. Copied'
  BY <1>1 DEF Copied
<1>11. UncutKept'
  BY <1>1, <1>2, <1>3, <1>6, <1>7, <1>8, <1>0 DEF Booked, UncutKept, Types, Clean, Full, Writing
<1>12. AlikeKept'
  BY <1>1, <1>2, <1>3, <1>6, <1>7, <1>8, <1>0 DEF Booked, AlikeKept, Types
<1>13. RowsAgree'
  <2> SUFFICES ASSUME NEW r \in table', r.pass
               PROVE  /\ r.patch \in DOMAIN copy /\ r.patch < n + 1
                      /\ Said(r.patch)' /\ r.format = stats'[r.patch].format
                      /\ r.tagged = (job.tagged /\ stats'[r.patch].tagged)
                      /\ Uniform /\ Uncut /\ job.tagged => r.tagged
    BY <1>0, <1>1, <1>8 DEF RowsAgree
  <2>1. CASE r \in table
    <3>1. r.patch \in DOMAIN copy /\ r.patch # n /\ r.patch < n + 1
      BY <1>0, <1>1, <1>2, <2>1 DEF Booked, Types, RowsAgree
    <3>2. stats'[r.patch] = stats[r.patch] /\ Said(r.patch)' = Said(r.patch)
      BY <1>3, <1>7, <3>1 DEF Booked, Types
    <3> QED
      BY <2>1, <3>1, <3>2 DEF Booked, RowsAgree
  <2>2. CASE r = Row(n, s)
    <3>1. /\ r.patch = n /\ r.format = format /\ r.tagged = (job.tagged /\ job.tagged)
      BY <1>4, <2>2 DEF Row
    <3>2. r.tagged = job.tagged
      BY <1>2, <3>1
    <3>3. r.patch \in DOMAIN copy /\ r.patch < n + 1
      BY <1>2, <3>1
    <3>4. Said(r.patch)' /\ r.format = stats'[r.patch].format
      BY <1>6, <3>1
    <3>5. r.tagged = (job.tagged /\ stats'[r.patch].tagged)
      BY <1>6, <3>1
    <3> QED
      BY <3>2, <3>3, <3>4, <3>5, Zenon
  <2> QED
    BY <1>1, <2>1, <2>2
<1> QED
  BY <1>9, <1>10, <1>11, <1>12, <1>13 DEF Booked

LEMMA BookedNext == RequestsFit /\ Booked /\ [CleaningNext]_cleaningVars => Booked'
<1> SUFFICES ASSUME RequestsFit, Booked, [CleaningNext]_cleaningVars PROVE Booked'
  OBVIOUS
<1>1. CASE UNCHANGED cleaningVars
  <2>1. UNCHANGED <<data, phase, job, at, format, copy, stats, table, asked>>
    BY <1>1 DEF cleaningVars
  <2>2. /\ Uniform' = Uniform /\ Uncut' = Uncut /\ Alike' = Alike
        /\ \A p : Said(p)' = Said(p) /\ SaidSo(p)' = SaidSo(p) /\ Kept(p)' = Kept(p)
    BY <2>1 DEF Uniform, Uncut, Alike, Asked, Said, SaidSo, Kept, Good, Clean, Full
  <2>3. Types' /\ Launched' /\ Copied'
    BY <2>1 DEF Booked, Types, Launched, Copied, Good, Clean, Full
  <2>4. UncutKept'
    BY <2>1, <2>2 DEF Booked, UncutKept, Clean, Full
  <2>5. AlikeKept'
    BY <2>1, <2>2 DEF Booked, AlikeKept
  <2>6. RowsAgree'
    BY <2>1, <2>2 DEF Booked, RowsAgree
  <2> QED
    BY <2>3, <2>4, <2>5, <2>6 DEF Booked
<1> QED
  BY <1>1, BookedLaunch, BookedResume, BookedFails, BookedRaises, BookedFinds, BookedOpen,
     BookedClose, BookedFallBack, BookedSpoils, BookedOpenStats, BookedPasses DEF CleaningNext

LEMMA BookedRows == Booked => RowsStandForWholeClouds
<1> SUFFICES ASSUME Booked, NEW r \in table, r.pass,
                    Uniform, Uncut \/ (r.format = job.format /\ Alike)
             PROVE  /\ Clean(r.patch, r.format) \notin {NoFile, HalfFile}
                    /\ job.tagged => r.tagged /\ Full(r.patch, r.format) = Clean(r.patch, r.format)
  BY DEF RowsStandForWholeClouds, Uniform, Uncut, Alike, Asked, Clean, Full
<1>1. /\ r.patch \in DOMAIN copy /\ ~(phase \in Writing /\ r.patch = at)
      /\ Said(r.patch) /\ r.format = stats[r.patch].format
      /\ r.tagged = (job.tagged /\ stats[r.patch].tagged)
      /\ Uniform /\ Uncut /\ job.tagged => r.tagged
  BY DEF Booked, Types, RowsAgree, Writing
<1>2. CASE Uncut
  <2>1. Kept(r.patch)
    BY <1>1, <1>2 DEF Booked, UncutKept
  <2> QED
    BY <1>1, <1>2, <2>1 DEF Kept, Good
<1>3. CASE r.format = job.format /\ Alike
  <2>1. SaidSo(r.patch)
    BY <1>1, <1>3 DEF SaidSo
  <2>2. Kept(r.patch) /\ stats[r.patch].tagged = job.tagged
    BY <1>1, <1>3, <2>1 DEF Booked, AlikeKept
  <2> QED
    BY <1>1, <2>2 DEF Kept, Good
<1> QED
  BY <1>2, <1>3

THEOREM PassingRowsAreWhole == CleaningSpec => []RowsStandForWholeClouds
<1>1. CleaningInit => Booked
  BY BookedInit, CleaningAssumption
<1>2. Booked /\ [CleaningNext]_cleaningVars => Booked'
  BY BookedNext, CleaningAssumption
<1> QED
  BY <1>1, <1>2, BookedRows, PTL DEF CleaningSpec
=============================================================================
