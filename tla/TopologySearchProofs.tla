------------------------ MODULE TopologySearchProofs ------------------------
(***************************************************************************)
(* Theorems about TopologySearch and SegmentSelection, for any prior       *)
(* roads, any budget, any drives and any lines.                            *)
(*                                                                         *)
(* First what holds of finite sets, recursion and orders, then the graph:  *)
(* ways are the walks that meet no node twice, Chain follows a corridor to *)
(* its end, and so the direct arcs are the corridors.  The searches come   *)
(* next: who owns a terminal; that a search comes by all its tree; and     *)
(* that the trees and the roads lead to the same cross sections.  Last,    *)
(* every direct arc that trustworthy evidence drove gets its segment: the  *)
(* candidates of a drive are shared out to clusters and the segment of a   *)
(* cluster keeps to what its candidates say, and those that are clean      *)
(* share one fate, so none falls to another where segments compete for a   *)
(* trajectory or a rank.                                                   *)
(***************************************************************************)
EXTENDS SegmentSelection, FiniteSetTheorems, WellFoundedInduction, TLAPS

-----------------------------------------------------------------------------
(* Inductions over numbers and finite sets.                                *)
LEMMA LeastOfSome ==
    ASSUME NEW S, S \subseteq Nat, S # {}
    PROVE  \E p \in S : \A q \in S : p <= q
<1> DEFINE Less == OpToRel(<, Nat)
<1>1. PICK p \in S : \A q \in S : <<q, p>> \notin Less
  BY NatLessThanWellFounded, WFMin
<1>2. Less = {s \in Nat \X Nat : s[1] < s[2]}
  BY DEF OpToRel
<1>3. \A q \in Nat : q < p => <<q, p>> \in Less
  BY <1>2
<1> HIDE DEF Less
<1>4. \A q \in S : ~(q < p)
  BY <1>1, <1>3
<1> QED
  BY <1>4

(* What holds at 0 and is handed on from each number to the next holds up  *)
(* to N.                                                                   *)
LEMMA HandedOn ==
    ASSUME NEW N \in Nat, NEW Good, 0 \in Good,
           \A k \in 1..N : k - 1 \in Good => k \in Good
    PROVE  \A k \in 0..N : k \in Good
<1> DEFINE Bad == {k \in 0..N : k \notin Good}
<1>1. SUFFICES ASSUME Bad # {} PROVE FALSE
  OBVIOUS
<1>2. Bad \subseteq Nat
  OBVIOUS
<1>3. PICK m \in Bad : \A n \in Bad : m <= n
  <2> HIDE DEF Bad
  <2> QED
    BY <1>1, <1>2, LeastOfSome
<1>4. m # 0 /\ m \in 1..N
  BY <1>3
<1>5. m - 1 \in 0..N /\ m - 1 \notin Bad
  BY <1>3, <1>4
<1> QED
  BY <1>3, <1>4, <1>5

(* A finite set that is bad in some way has a bad subset all whose proper  *)
(* subsets are good.                                                       *)
LEMMA LeastBadSubset ==
    ASSUME NEW S, IsFiniteSet(S), NEW Bad, \A T \in Bad : T \subseteq S, Bad # {}
    PROVE  \E T \in Bad : \A U \in Bad : U \subseteq T => U = T
<1>1. IsWellFoundedOn(StrictSubsetOrdering(S), SUBSET S)
  BY FS_StrictSubsetOrderingWellFounded, FS_FiniteSubsetsOfFinite
<1>2. PICK T \in Bad : \A U \in Bad : <<U, T>> \notin StrictSubsetOrdering(S)
  <2>1. Bad \subseteq SUBSET S
    OBVIOUS
  <2> QED
    BY <1>1, <2>1, WFMin
<1>3. \A U \in Bad : U \subseteq T /\ U # T => <<U, T>> \in StrictSubsetOrdering(S)
  BY DEF StrictSubsetOrdering
<1>4. \A U \in Bad : U \subseteq T => U = T
  BY <1>2, <1>3
<1> QED
  BY <1>4

(* What a function makes of the members of a finite set is finite.         *)
LEMMA ImageFinite ==
    ASSUME NEW S, IsFiniteSet(S), NEW f
    PROVE  IsFiniteSet({f[x] : x \in S})
<1> DEFINE T == {f[x] : x \in S}
           g == [x \in S |-> f[x]]
<1>1. g \in Surjection(S, T)
  BY DEF Surjection
<1> HIDE DEF g, T
<1> QED
  BY <1>1, FS_Surjection DEF T

(* A function can be defined by what it is at 0 and how it goes on.        *)
Follows(f, N, base, onto) == f[0] = base /\ \A k \in 1..N : f[k] = onto[<<k, f[k - 1]>>]

LEMMA RecursionExists ==
    ASSUME NEW N \in Nat, NEW X, NEW base \in X, NEW onto \in [(1..N) \X X -> X]
    PROVE  \E f \in [0..N -> X] : Follows(f, N, base, onto)
<1> DEFINE Is(f, j) == Follows(f, j, base, onto)
           Good == {j \in 0..N : \E f \in [0..j -> X] : Is(f, j)}
<1> USE DEF Follows
<1>1. 0 \in Good
  <2> DEFINE f == [k \in 0..0 |-> base]
  <2>1. f \in [0..0 -> X] /\ Is(f, 0) /\ 0 \in 0..N
    OBVIOUS
  <2> HIDE DEF f, Is
  <2> QED
    BY <2>1
<1>2. ASSUME NEW j \in 1..N, j - 1 \in Good PROVE j \in Good
  <2>1. PICK f \in [0..(j - 1) -> X] : Is(f, j - 1)
    BY <1>2
  <2> DEFINE g == [k \in 0..j |-> IF k = j THEN onto[<<j, f[j - 1]>>] ELSE f[k]]
  <2>2. f[j - 1] \in X
    OBVIOUS
  <2>3. g \in [0..j -> X]
    BY <2>2
  <2>4. ASSUME NEW k \in 1..j PROVE g[k] = onto[<<k, g[k - 1]>>]
    <3>1. CASE k = j
      <4>1. g[j] = onto[<<j, f[j - 1]>>] /\ g[j - 1] = f[j - 1]
        OBVIOUS
      <4> HIDE DEF g
      <4> QED
        BY <3>1, <4>1
    <3>2. CASE k # j
      <4>1. k \in 1..(j - 1) /\ g[k] = f[k] /\ g[k - 1] = f[k - 1]
        BY <3>2
      <4> HIDE DEF g
      <4> QED
        BY <2>1, <4>1
    <3> QED
      BY <3>1, <3>2
  <2>5. g[0] = base
    BY <2>1
  <2> HIDE DEF g
  <2>6. Is(g, j) /\ j \in 0..N
    BY <2>4, <2>5
  <2> QED
    BY <2>3, <2>6
<1> HIDE DEF Is
<1>3. N \in Good
  <2> HIDE DEF Good
  <2> QED
    BY <1>1, <1>2, HandedOn
<1> QED
  BY <1>3 DEF Is, Good

-----------------------------------------------------------------------------
(* Orders.  Less is the strict order as a set of pairs.                    *)
StrictOn(Less, S) ==
    /\ \A x \in S : <<x, x>> \notin Less
    /\ \A x, y, z \in S : <<x, y>> \in Less /\ <<y, z>> \in Less => <<x, z>> \in Less
TotalOn(Less, S) == \A x, y \in S : x # y => <<x, y>> \in Less \/ <<y, x>> \in Less

LEMMA FirstOfSome ==
    ASSUME NEW S, IsFiniteSet(S), S # {}, NEW Less, StrictOn(Less, S)
    PROVE  \E x \in S : \A y \in S : <<y, x>> \notin Less
<1> DEFINE Bad == {T \in SUBSET S : T # {} /\ \A x \in T : \E y \in T : <<y, x>> \in Less}
<1>1. SUFFICES ASSUME S \in Bad PROVE FALSE
  OBVIOUS
<1>2. \A T \in Bad : T \subseteq S
  OBVIOUS
<1>3. PICK T \in Bad : \A U \in Bad : U \subseteq T => U = T
  <2> HIDE DEF Bad
  <2> QED
    BY <1>1, <1>2, LeastBadSubset
<1>4. PICK x \in T : TRUE
  BY <1>3
<1> DEFINE U == {y \in T : <<y, x>> \in Less}
<1>5. U # {} /\ U \subseteq S /\ x \notin U
  BY <1>3, <1>4 DEF StrictOn
<1>6. ASSUME NEW y \in U PROVE \E z \in U : <<z, y>> \in Less
  <2>1. PICK z \in T : <<z, y>> \in Less
    BY <1>3
  <2>2. <<z, x>> \in Less
    BY <1>3, <1>4, <2>1 DEF StrictOn
  <2> QED
    BY <2>1, <2>2
<1>7. U \in Bad
  BY <1>5, <1>6
<1> QED
  BY <1>3, <1>4, <1>5, <1>7

(* The rank of an element, the number of those before it, tells it from    *)
(* the others, and there is an element of every rank.                      *)
LEMMA RanksAre ==
    ASSUME NEW S, IsFiniteSet(S), NEW Less, StrictOn(Less, S), TotalOn(Less, S)
    PROVE  LET rank(x) == Cardinality({y \in S : <<y, x>> \in Less})
           IN  /\ \A x \in S : rank(x) \in 0..(Cardinality(S) - 1)
               /\ \A x, y \in S : rank(x) = rank(y) => x = y
               /\ \A k \in 0..(Cardinality(S) - 1) : \E x \in S : rank(x) = k
<1> DEFINE before(x) == {y \in S : <<y, x>> \in Less}
           rank(x) == Cardinality(before(x))
           n == Cardinality(S)
           R == 0..(n - 1)
           f == [x \in S |-> rank(x)]
<1>1. n \in Nat
  BY FS_CardinalityType
<1>2. \A x \in S : IsFiniteSet(before(x)) /\ rank(x) \in Nat
  <2> TAKE x \in S
  <2>1. before(x) \in SUBSET S
    OBVIOUS
  <2> HIDE DEF before
  <2> QED
    BY <2>1, FS_Subset, FS_CardinalityType
<1>3. ASSUME NEW x \in S, NEW y \in S, <<x, y>> \in Less PROVE rank(x) < rank(y)
  <2>1. before(x) \subseteq before(y) /\ x \in before(y) /\ x \notin before(x)
    BY <1>3 DEF StrictOn
  <2> HIDE DEF before
  <2>2. rank(x) <= rank(y) /\ (rank(x) = rank(y) => before(x) = before(y))
    BY <1>2, <2>1, FS_Subset
  <2> QED
    BY <1>2, <2>1, <2>2
<1>4. \A x \in S : rank(x) \in R
  <2> TAKE x \in S
  <2>1. before(x) \in SUBSET S /\ x \notin before(x)
    BY DEF StrictOn
  <2> HIDE DEF before
  <2>2. rank(x) <= n /\ rank(x) # n
    BY <2>1, FS_Subset
  <2> QED
    BY <1>1, <1>2, <2>2
<1>5. \A x, y \in S : rank(x) = rank(y) => x = y
  <2> SUFFICES ASSUME NEW x \in S, NEW y \in S, x # y PROVE rank(x) # rank(y)
    OBVIOUS
  <2>1. <<x, y>> \in Less \/ <<y, x>> \in Less
    BY DEF TotalOn
  <2>2. rank(x) < rank(y) \/ rank(y) < rank(x)
    BY <1>3, <2>1
  <2>3. rank(x) \in Nat /\ rank(y) \in Nat
    BY <1>2
  <2> HIDE DEF rank
  <2> QED
    BY <2>2, <2>3
<1> HIDE DEF rank
<1>6. f \in Injection(S, R)
  BY <1>4, <1>5 DEF Injection, IsInjective
<1>7. IsFiniteSet(R) /\ Cardinality(R) = n
  BY <1>1, FS_Interval
<1> HIDE DEF R, n
<1>8. f \in Surjection(S, R)
  <2> HIDE DEF f
  <2> QED
    BY <1>6, <1>7, FS_Injection DEF n
<1>9. \A k \in R : \E x \in S : rank(x) = k
  BY <1>8 DEF Surjection
<1> QED
  BY <1>4, <1>5, <1>9 DEF R, n, rank, before

(* The order of the first difference.                                      *)
LexLess(n, a, b) == \E i \in 1..n : a[i] < b[i] /\ \A j \in 1..(i - 1) : a[j] = b[j]

LEMMA Lexicographic ==
    ASSUME NEW n \in Nat, NEW a \in [1..n -> Int], NEW b \in [1..n -> Int], NEW c \in [1..n -> Int],
           LexLess(n, a, b), LexLess(n, b, c)
    PROVE  LexLess(n, a, c)
<1> USE DEF LexLess
<1>1. PICK i \in 1..n : a[i] < b[i] /\ \A j \in 1..(i - 1) : a[j] = b[j]
  OBVIOUS
<1>2. PICK k \in 1..n : b[k] < c[k] /\ \A j \in 1..(k - 1) : b[j] = c[j]
  OBVIOUS
<1>3. CASE i <= k
  <2>1. a[i] < c[i]
    <3>1. CASE i = k
      BY <1>1, <1>2, <3>1
    <3>2. CASE i # k
      <4>1. i \in 1..(k - 1)
        BY <1>3, <3>2
      <4> QED
        BY <1>1, <1>2, <4>1
    <3> QED
      BY <3>1, <3>2
  <2>2. \A j \in 1..(i - 1) : j \in 1..(k - 1)
    BY <1>3
  <2> QED
    BY <1>1, <1>2, <2>1, <2>2
<1>4. CASE k < i
  <2>1. k \in 1..(i - 1) /\ \A j \in 1..(k - 1) : j \in 1..(i - 1)
    BY <1>4
  <2>2. a[k] < c[k]
    BY <1>1, <1>2, <2>1
  <2> QED
    BY <1>1, <1>2, <2>1, <2>2
<1> QED
  BY <1>3, <1>4

(* What Sorted gives, for any order: every member once, in order.          *)
Listed(q, S) ==
    /\ q \in [1..Cardinality(S) -> S]
    /\ \A x \in S : \E k \in 1..Cardinality(S) : q[k] = x
    /\ \A k, l \in 1..Cardinality(S) : q[k] = q[l] => k = l

LEMMA ListIs ==
    ASSUME NEW S, IsFiniteSet(S), NEW Less, StrictOn(Less, S), TotalOn(Less, S),
           NEW q, q = [k \in 1..Cardinality(S) |->
                         CHOOSE x \in S : Cardinality({y \in S : <<y, x>> \in Less}) = k - 1]
    PROVE  Listed(q, S)
<1> DEFINE rank(x) == Cardinality({y \in S : <<y, x>> \in Less})
           n == Cardinality(S)
<1>1. n \in Nat
  BY FS_CardinalityType
<1>2. /\ \A x \in S : rank(x) \in 0..(n - 1)
      /\ \A x, y \in S : rank(x) = rank(y) => x = y
      /\ \A k \in 0..(n - 1) : \E x \in S : rank(x) = k
  BY RanksAre
<1>3. \A k \in 1..n : q[k] = CHOOSE x \in S : rank(x) = k - 1
  OBVIOUS
<1> HIDE DEF rank
<1>4. \A k \in 1..n : q[k] \in S /\ rank(q[k]) = k - 1
  <2> TAKE k \in 1..n
  <2>1. k - 1 \in 0..(n - 1)
    BY <1>1
  <2>2. \E x \in S : rank(x) = k - 1
    BY <1>2, <2>1
  <2> QED
    BY <1>3, <2>2
<1>5. q \in [1..n -> S]
  <2>1. q = [k \in 1..n |-> q[k]]
    <3> DEFINE e(k) == CHOOSE x \in S : Cardinality({y \in S : <<y, x>> \in Less}) = k - 1
    <3>1. q = [k \in 1..n |-> e(k)]
      OBVIOUS
    <3> HIDE DEF e
    <3> QED
      BY <3>1
  <2> QED
    BY <1>4, <2>1
<1>6. ASSUME NEW x \in S PROVE \E k \in 1..n : q[k] = x
  <2>1. PICK k \in 1..n : k - 1 = rank(x)
    <3> DEFINE k == rank(x) + 1
    <3>1. k \in 1..n /\ k - 1 = rank(x)
      BY <1>1, <1>2
    <3> HIDE DEF k
    <3> QED
      BY <3>1
  <2>2. rank(q[k]) = rank(x) /\ q[k] \in S
    BY <1>4, <2>1
  <2> QED
    BY <1>2, <2>2
<1>7. \A k, l \in 1..n : q[k] = q[l] => k = l
  <2> TAKE k, l \in 1..n
  <2>1. k - 1 = rank(q[k]) /\ l - 1 = rank(q[l])
    BY <1>4
  <2> HAVE q[k] = q[l]
  <2>2. k - 1 = l - 1
    BY <2>1
  <2> QED
    BY <1>1, <2>2
<1> QED
  BY <1>5, <1>6, <1>7 DEF Listed

-----------------------------------------------------------------------------
(* Ways are the walks over roads that no node is met twice on.             *)
RoadsFit(R) ==
    /\ IsFiniteSet(R)
    /\ \A r \in R : r.id \in Nat /\ r.from \in Nat /\ r.to \in Nat /\ r.from # r.to
    /\ \A r, q \in R : r.id = q.id => r = q

Walk(R, w) ==
    /\ w \in Seq(R) /\ Len(w) \in Nat \ {0}
    /\ \A i \in 1..(Len(w) - 1) : w[i + 1].from = w[i].to

Simple(R, w) ==
    /\ Walk(R, w)
    /\ \A j \in 1..Len(w) : \A i \in 1..j : w[j].to # w[i].from

LEMMA SameSeq ==
    ASSUME NEW S, NEW a \in Seq(S), NEW b \in Seq(S), Len(a) = Len(b),
           \A i \in 1..Len(a) : a[i] = b[i]
    PROVE  a = b
OBVIOUS

LEMMA AppendIs ==
    ASSUME NEW S, NEW a \in Seq(S), NEW x \in S
    PROVE  /\ Append(a, x) \in Seq(S) /\ Len(Append(a, x)) = Len(a) + 1 /\ Len(a) \in Nat
           /\ \A i \in 1..Len(a) : Append(a, x)[i] = a[i]
           /\ Append(a, x)[Len(a) + 1] = x /\ Last(Append(a, x)) = x
<1>1. Append(a, x) \in Seq(S) /\ Len(Append(a, x)) = Len(a) + 1 /\ Len(a) \in Nat
  OBVIOUS
<1>2. \A i \in 1..Len(a) : Append(a, x)[i] = a[i]
  OBVIOUS
<1>3. Append(a, x)[Len(a) + 1] = x
  OBVIOUS
<1> QED
  BY <1>1, <1>2, <1>3 DEF Last

(* The beginning of a sequence.                                            *)
Upto(w, k) == [i \in 1..k |-> w[i]]

LEMMA UptoIs ==
    ASSUME NEW S, NEW w \in Seq(S), NEW k \in 0..Len(w)
    PROVE  /\ Upto(w, k) \in Seq(S) /\ Len(Upto(w, k)) = k
           /\ \A i \in 1..k : Upto(w, k)[i] = w[i]
           /\ Upto(w, Len(w)) = w
           /\ k > 0 => Last(Upto(w, k)) = w[k]
           /\ k < Len(w) => Upto(w, k + 1) = Append(Upto(w, k), w[k + 1])
<1>1. Len(w) \in Nat /\ k \in Nat /\ \A i \in 1..Len(w) : w[i] \in S
  OBVIOUS
<1>2. \A m \in 0..Len(w) : /\ Upto(w, m) \in Seq(S) /\ Len(Upto(w, m)) = m
                           /\ \A i \in 1..m : Upto(w, m)[i] = w[i]
  <2> TAKE m \in 0..Len(w)
  <2>1. Upto(w, m) \in [1..m -> S] /\ m \in Nat
    BY <1>1 DEF Upto
  <2>2. \A i \in 1..m : Upto(w, m)[i] = w[i]
    BY DEF Upto
  <2>3. DOMAIN Upto(w, m) = 1..m
    BY DEF Upto
  <2> QED
    BY <2>1, <2>2, <2>3
<1>3. Upto(w, Len(w)) = w
  <2>1. Len(w) \in 0..Len(w)
    BY <1>1
  <2> QED
    BY <1>2, <2>1, SameSeq
<1>4. k > 0 => Last(Upto(w, k)) = w[k]
  BY <1>1, <1>2 DEF Last
<1>5. ASSUME k < Len(w) PROVE Upto(w, k + 1) = Append(Upto(w, k), w[k + 1])
  <2>1. k + 1 \in 0..Len(w) /\ w[k + 1] \in S
    BY <1>1, <1>5
  <2> DEFINE a == Upto(w, k)
             b == Upto(w, k + 1)
             x == w[k + 1]
  <2>2. a \in Seq(S) /\ Len(a) = k /\ b \in Seq(S) /\ Len(b) = k + 1
        /\ (\A i \in 1..k : a[i] = w[i] /\ b[i] = w[i])
        /\ b[k + 1] = x
    BY <1>1, <1>2, <2>1
  <2> HIDE DEF a, b, x
  <2>3. /\ Append(a, x) \in Seq(S) /\ Len(Append(a, x)) = k + 1
        /\ \A i \in 1..k : Append(a, x)[i] = a[i]
        /\ Append(a, x)[k + 1] = x
    BY <2>1, <2>2, AppendIs DEF x
  <2>4. \A i \in 1..(k + 1) : i \in 1..k \/ i = k + 1
    BY <1>1
  <2>5. \A i \in 1..Len(b) : b[i] = Append(a, x)[i]
    <3>1. \A i \in 1..(k + 1) : b[i] = Append(a, x)[i]
      <4> TAKE i \in 1..(k + 1)
      <4>1. CASE i \in 1..k
        BY <2>2, <2>3, <4>1
      <4>2. CASE i = k + 1
        <5>1. b[k + 1] = x /\ Append(a, x)[k + 1] = x
          BY <2>2, <2>3, Zenon
        <5> QED
          BY <4>2, <5>1, Zenon
      <4> QED
        BY <2>4, <4>1, <4>2
    <3> QED
      BY <2>2, <3>1
  <2>6. b = Append(a, x)
    BY <2>2, <2>3, <2>5, SameSeq
  <2> QED
    BY <2>6 DEF a, b, x
<1> QED
  BY <1>2, <1>3, <1>4, <1>5

(* A sequence without repetition is no longer than the set it is from.     *)
LEMMA NotLonger ==
    ASSUME NEW S, IsFiniteSet(S), NEW w \in Seq(S),
           \A i, j \in 1..Len(w) : w[i] = w[j] => i = j
    PROVE  Len(w) <= Cardinality(S)
<1>1. Len(w) \in Nat /\ w \in [1..Len(w) -> S]
  OBVIOUS
<1>2. w \in Injection(1..Len(w), S)
  BY <1>1 DEF Injection, IsInjective
<1>3. Cardinality(1..Len(w)) = Len(w)
  BY <1>1, FS_Interval
<1> QED
  BY <1>2, <1>3, FS_Injection

LEMMA SimpleShort ==
    ASSUME NEW R, RoadsFit(R), NEW w, Simple(R, w)
    PROVE  Len(w) <= Cardinality(R)
<1>1. w \in Seq(R) /\ Len(w) \in Nat /\ IsFiniteSet(R)
  BY DEF Simple, Walk, RoadsFit
<1>2. ASSUME NEW i \in 1..Len(w), NEW j \in 1..Len(w), i < j PROVE w[i] # w[j]
  <2>1. j - 1 \in 1..(Len(w) - 1) /\ j - 1 \in 1..Len(w) /\ i \in 1..(j - 1) /\ (j - 1) + 1 = j
    BY <1>1, <1>2
  <2>2. w[j].from = w[j - 1].to
    BY <2>1 DEF Simple, Walk
  <2>3. w[j - 1].to # w[i].from
    BY <2>1 DEF Simple
  <2> QED
    BY <2>2, <2>3
<1>3. \A i, j \in 1..Len(w) : w[i] = w[j] => i = j
  BY <1>1, <1>2
<1> QED
  BY <1>1, <1>3, NotLonger

LEMMA SimpleGrows ==
    ASSUME NEW R, RoadsFit(R), NEW w, Simple(R, w), NEW r \in R,
           r.from = Last(w).to, r.to \notin {w[i].from : i \in DOMAIN w}
    PROVE  Simple(R, Append(w, r))
<1> DEFINE v == Append(w, r)
           n == Len(w)
<1>1. w \in Seq(R) /\ n \in Nat \ {0} /\ DOMAIN w = 1..n /\ r.from = w[n].to /\ r.from # r.to
  BY DEF Simple, Walk, Last, RoadsFit
<1>2. v \in Seq(R) /\ Len(v) = n + 1 /\ v[n + 1] = r /\ \A i \in 1..n : v[i] = w[i]
  BY <1>1, AppendIs
<1> HIDE DEF v, n
<1>3. ASSUME NEW i \in 1..n PROVE v[i + 1].from = v[i].to
  <2>1. CASE i = n
    BY <1>1, <1>2, <2>1
  <2>2. CASE i # n
    <3>1. i \in 1..(n - 1) /\ i + 1 \in 1..n
      BY <1>1, <2>2
    <3> QED
      BY <1>2, <3>1 DEF Simple, Walk, n
  <2> QED
    BY <2>1, <2>2
<1>4. ASSUME NEW j \in 1..(n + 1), NEW i \in 1..j PROVE v[j].to # v[i].from
  <2>1. CASE j = n + 1
    <3>1. i = n + 1 \/ i \in 1..n
      BY <1>1, <2>1
    <3> QED
      BY <1>1, <1>2, <2>1, <3>1
  <2>2. CASE j # n + 1
    <3>1. j \in 1..n /\ i \in 1..n
      BY <1>1, <2>2
    <3> QED
      BY <1>2, <3>1 DEF Simple, n
  <2> QED
    BY <2>1, <2>2
<1>5. Walk(R, v)
  BY <1>1, <1>2, <1>3 DEF Walk
<1> QED
  BY <1>2, <1>4, <1>5 DEF Simple, v

LEMMA SimpleUpto ==
    ASSUME NEW R, NEW w, Simple(R, w), NEW k \in 1..Len(w)
    PROVE  Simple(R, Upto(w, k))
<1>1. w \in Seq(R) /\ Len(w) \in Nat /\ k \in 0..Len(w) /\ k \in Nat \ {0}
  BY DEF Simple, Walk
<1>2. Upto(w, k) \in Seq(R) /\ Len(Upto(w, k)) = k /\ \A i \in 1..k : Upto(w, k)[i] = w[i]
  BY <1>1, UptoIs
<1>3. \A i \in 1..(k - 1) : i \in 1..k /\ i + 1 \in 1..k /\ i \in 1..(Len(w) - 1)
  BY <1>1
<1>4. \A j \in 1..k : j \in 1..Len(w) /\ \A i \in 1..j : i \in 1..k
  BY <1>1
<1>5. Walk(R, Upto(w, k))
  BY <1>1, <1>2, <1>3 DEF Simple, Walk
<1> QED
  BY <1>2, <1>4, <1>5 DEF Simple

Onward(R, w) == {Append(w, r) : r \in {q \in R : /\ q.from = Last(w).to
                                                 /\ q.to \notin {w[i].from : i \in DOMAIN w}}}

LEMMA WaysAre ==
    ASSUME RoadsFit(roads)
    PROVE  \A w : w \in Ways <=> Simple(roads, w)
<1> DEFINE N == Cardinality(roads)
           X == SUBSET Seq(roads)
           base == {<<r>> : r \in roads}
           Next1(g) == g \cup UNION {Onward(roads, w) : w \in g}
           onto == [p \in (1..N) \X X |-> Next1(p[2])]
           grown[k \in 0..N] == IF k = 0 THEN base ELSE Next1(grown[k - 1])
           Is(g) == g = [k \in 0..N |-> IF k = 0 THEN base ELSE Next1(g[k - 1])]
<1>1. N \in Nat
  BY FS_CardinalityType DEF RoadsFit
<1>2. base \in X
  <2>1. \A r \in roads : <<r>> \in Seq(roads)
    OBVIOUS
  <2> QED
    BY <2>1
<1>3. ASSUME NEW g \in X PROVE Next1(g) \in X
  <2>1. ASSUME NEW w \in g PROVE Onward(roads, w) \subseteq Seq(roads)
    <3>1. w \in Seq(roads)
      OBVIOUS
    <3> QED
      BY <3>1, AppendIs DEF Onward
  <2> QED
    BY <2>1
<1>4. Ways = grown[N]
  BY DEF Ways, Onward
<1>5. grown = CHOOSE g : Is(g)
  OBVIOUS
<1> HIDE DEF X, base, Next1
<1>6. \E g : Is(g)
  <2>1. onto \in [(1..N) \X X -> X]
    BY <1>3
  <2>2. \A k \in 1..N : \A g \in X : onto[<<k, g>>] = Next1(g)
    OBVIOUS
  <2> HIDE DEF onto, N
  <2>3. PICK f \in [0..N -> X] : Follows(f, N, base, onto)
    BY <1>1, <1>2, <2>1, RecursionExists
  <2>4. f[0] = base /\ \A k \in 1..N : f[k] = Next1(f[k - 1])
    <3>1. \A k \in 1..N : k - 1 \in 0..N
      BY <1>1
    <3> QED
      BY <2>2, <2>3, <3>1 DEF Follows
  <2>5. \A k \in 0..N : f[k] = IF k = 0 THEN base ELSE Next1(f[k - 1])
    BY <1>1, <2>4
  <2>6. f = [k \in 0..N |-> f[k]]
    OBVIOUS
  <2> QED
    BY <2>5, <2>6
<1> HIDE DEF Is, grown
<1>7. Is(grown)
  BY <1>5, <1>6
<1>8. grown[0] = base /\ \A k \in 1..N : grown[k] = Next1(grown[k - 1])
  BY <1>1, <1>7 DEF Is
<1> HIDE DEF N
<1>9. \A k \in 0..N : \A w \in grown[k] : Simple(roads, w)
  <2> DEFINE Good == {k \in 0..N : \A w \in grown[k] : Simple(roads, w)}
  <2>1. 0 \in Good
    <3>1. ASSUME NEW r \in roads PROVE Simple(roads, <<r>>)
      BY DEF Simple, Walk, RoadsFit
    <3> QED
      BY <1>1, <1>8, <3>1 DEF base
  <2>2. ASSUME NEW k \in 1..N, k - 1 \in Good PROVE k \in Good
    <3>1. ASSUME NEW w \in grown[k - 1], NEW v \in Onward(roads, w) PROVE Simple(roads, v)
      <4>1. Simple(roads, w)
        BY <2>2
      <4> QED
        BY <4>1, SimpleGrows DEF Onward
    <3> QED
      BY <1>8, <2>2, <3>1 DEF Next1
  <2> HIDE DEF Good
  <2>3. \A k \in 0..N : k \in Good
    BY <1>1, <2>1, <2>2, HandedOn
  <2> QED
    BY <2>3 DEF Good
<1>10. \A k \in 0..N : \A w : Simple(roads, w) /\ Len(w) <= k + 1 => w \in grown[k]
  <2> DEFINE Good == {k \in 0..N : \A w : Simple(roads, w) /\ Len(w) <= k + 1 => w \in grown[k]}
  <2>1. 0 \in Good
    <3> SUFFICES ASSUME NEW w, Simple(roads, w), Len(w) <= 1 PROVE w \in base
      BY <1>1, <1>8
    <3>1. w \in Seq(roads) /\ Len(w) = 1
      <4>1. w \in Seq(roads) /\ Len(w) \in Nat \ {0}
        BY DEF Simple, Walk
      <4> DEFINE n == Len(w)
      <4>2. n \in Nat \ {0} /\ n <= 1
        BY <4>1
      <4> HIDE DEF n
      <4>3. n = 1
        BY <4>2
      <4> QED
        BY <4>1, <4>3 DEF n
    <3>2. w = <<w[1]>> /\ w[1] \in roads
      BY <3>1
    <3> QED
      BY <3>2 DEF base
  <2>2. ASSUME NEW k \in 1..N, k - 1 \in Good PROVE k \in Good
    <3> SUFFICES ASSUME NEW w, Simple(roads, w), Len(w) <= k + 1 PROVE w \in grown[k]
      BY <1>1
    <3>1. w \in Seq(roads) /\ Len(w) \in Nat \ {0} /\ k \in Nat
      BY DEF Simple, Walk
    <3>2. CASE Len(w) <= k
      <4>1. w \in grown[k - 1]
        BY <2>2, <3>2
      <4> QED
        BY <1>8, <4>1 DEF Next1
    <3>3. CASE Len(w) = k + 1
      <4> DEFINE v == Upto(w, k)
      <4>1. k \in 1..Len(w) /\ k \in 0..Len(w) /\ k > 0 /\ k < Len(w)
        BY <3>1, <3>3
      <4>2. Simple(roads, v)
        BY <4>1, SimpleUpto
      <4>3. /\ Len(v) = k /\ v \in Seq(roads) /\ Last(v) = w[k] /\ w = Append(v, w[k + 1])
            /\ \A i \in 1..k : v[i] = w[i]
        BY <3>1, <3>3, <4>1, UptoIs
      <4>4. v \in grown[k - 1]
        BY <2>2, <4>2, <4>3
      <4>5. k \in 1..(Len(w) - 1) /\ k + 1 \in 1..Len(w) /\ w[k + 1] \in roads
        BY <3>1, <3>3
      <4>6. w[k + 1].from = w[k].to
        BY <4>5 DEF Simple, Walk
      <4>7. \A i \in 1..k : w[k + 1].to # w[i].from
        <5>1. \A i \in 1..k : i \in 1..(k + 1)
          BY <3>1
        <5> QED
          BY <4>5, <5>1 DEF Simple
      <4>8. DOMAIN v = 1..k
        BY <4>3
      <4> HIDE DEF v
      <4>9. Append(v, w[k + 1]) \in Onward(roads, v)
        BY <4>3, <4>5, <4>6, <4>7, <4>8 DEF Onward
      <4> QED
        <5>1. Append(v, w[k + 1]) \in Next1(grown[k - 1])
          BY <4>4, <4>9 DEF Next1
        <5>2. w = Append(v, w[k + 1])
          BY <4>3
        <5>3. grown[k] = Next1(grown[k - 1])
          BY <1>8
        <5> QED
          BY <5>1, <5>2, <5>3, Zenon
    <3> QED
      BY <3>1, <3>2, <3>3
  <2> HIDE DEF Good
  <2>3. \A k \in 0..N : k \in Good
    BY <1>1, <2>1, <2>2, HandedOn
  <2> QED
    BY <2>3 DEF Good
<1>11. \A w : Simple(roads, w) => w \in grown[N]
  <2> TAKE w
  <2> HAVE Simple(roads, w)
  <2>1. Len(w) <= N /\ Len(w) \in Nat
    BY SimpleShort DEF N, Simple, Walk
  <2>2. Len(w) <= N + 1 /\ N \in 0..N
    BY <1>1, <2>1
  <2> QED
    BY <1>10, <2>2
<1>12. N \in 0..N
  BY <1>1
<1> QED
  BY <1>4, <1>9, <1>11, <1>12

-----------------------------------------------------------------------------
(* What Chain gives.                                                       *)
Corridor(R, c) ==
    /\ Walk(R, c)
    /\ \A i \in 1..(Len(c) - 1) : c[i].to \in Removable(R) /\ Cardinality(Outs(R, c[i].to)) = 1
    /\ \A i, j \in 1..(Len(c) - 1) : c[i].to = c[j].to => i = j

GoesOn(R, c) ==
    IF ChainEnds(R, c) THEN c ELSE Append(c, CHOOSE r \in Outs(R, Last(c).to) : TRUE)

LEMMA OnlyOut ==
    ASSUME NEW R, RoadsFit(R), NEW n, Cardinality(Outs(R, n)) = 1
    PROVE  /\ (CHOOSE r \in Outs(R, n) : TRUE) \in Outs(R, n)
           /\ \A q \in Outs(R, n) : q = CHOOSE r \in Outs(R, n) : TRUE
<1>1. IsFiniteSet(Outs(R, n))
  BY FS_Subset DEF RoadsFit, Outs
<1>2. PICK x : Outs(R, n) = {x}
  BY <1>1, FS_Singleton
<1> QED
  BY <1>2

LEMMA ChainUnfolds ==
    ASSUME NEW R, RoadsFit(R), NEW first \in R
    PROVE  \E g \in [0..Cardinality(R) -> Seq(R)] :
              /\ g[0] = <<first>> /\ Chain(R, first) = g[Cardinality(R)]
              /\ \A k \in 1..Cardinality(R) : g[k] = GoesOn(R, g[k - 1])
<1> DEFINE N == Cardinality(R)
           X == Seq(R)
           base == <<first>>
           onto == [p \in (1..N) \X X |-> GoesOn(R, p[2])]
           chain[k \in 0..N] == IF k = 0 THEN base ELSE GoesOn(R, chain[k - 1])
           Is(g) == g = [k \in 0..N |-> IF k = 0 THEN base ELSE GoesOn(R, g[k - 1])]
<1>1. N \in Nat
  BY FS_CardinalityType DEF RoadsFit
<1>2. base \in X
  OBVIOUS
<1>3. ASSUME NEW c \in X PROVE GoesOn(R, c) \in X
  <2>1. CASE ChainEnds(R, c)
    BY <2>1 DEF GoesOn
  <2>2. CASE ~ChainEnds(R, c)
    <3>1. Cardinality(Outs(R, Last(c).to)) = 1
      BY <2>2 DEF ChainEnds
    <3>2. (CHOOSE r \in Outs(R, Last(c).to) : TRUE) \in R
      BY <3>1, OnlyOut DEF Outs
    <3>3. Append(c, CHOOSE r \in Outs(R, Last(c).to) : TRUE) \in X
      BY <3>2, AppendIs
    <3> QED
      BY <2>2, <3>3 DEF GoesOn
  <2> QED
    BY <2>1, <2>2
<1>4. Chain(R, first) = chain[N]
  BY DEF Chain, GoesOn
<1>5. chain = CHOOSE g : Is(g)
  OBVIOUS
<1>6. onto \in [(1..N) \X X -> X]
  BY <1>3
<1>7. \A k \in 1..N : \A c \in X : onto[<<k, c>>] = GoesOn(R, c)
  OBVIOUS
<1> HIDE DEF X, base, onto
<1>8. \E f : f \in [0..N -> X] /\ Is(f)
  <2> HIDE DEF N
  <2>3. PICK f \in [0..N -> X] : Follows(f, N, base, onto)
    BY <1>1, <1>2, <1>6, RecursionExists
  <2>4. f[0] = base /\ \A k \in 1..N : f[k] = GoesOn(R, f[k - 1])
    <3>1. \A k \in 1..N : k - 1 \in 0..N
      BY <1>1
    <3> QED
      BY <1>7, <2>3, <3>1 DEF Follows
  <2>5. \A k \in 0..N : f[k] = IF k = 0 THEN base ELSE GoesOn(R, f[k - 1])
    BY <1>1, <2>4
  <2>6. f = [k \in 0..N |-> f[k]]
    OBVIOUS
  <2> QED
    BY <2>5, <2>6
<1> HIDE DEF Is, chain
<1>9. Is(chain)
  BY <1>5, <1>8
<1>10. chain[0] = base /\ \A k \in 1..N : chain[k] = GoesOn(R, chain[k - 1])
  BY <1>1, <1>9 DEF Is
<1>11. \A k \in 0..N : chain[k] \in X
  <2> DEFINE Good == {k \in 0..N : chain[k] \in X}
  <2>1. 0 \in Good
    BY <1>1, <1>2, <1>10
  <2>2. ASSUME NEW k \in 1..N, k - 1 \in Good PROVE k \in Good
    BY <1>3, <1>10, <2>2
  <2> HIDE DEF Good
  <2>3. \A k \in 0..N : k \in Good
    BY <1>1, <2>1, <2>2, HandedOn
  <2> QED
    BY <2>3 DEF Good
<1>12. chain \in [0..N -> X]
  <2>1. chain = [k \in 0..N |-> chain[k]]
    BY <1>9 DEF Is
  <2> QED
    BY <1>11, <2>1
<1> QED
  BY <1>4, <1>10, <1>12 DEF X, base

LEMMA GoesOnIs ==
    ASSUME NEW R, RoadsFit(R), NEW c, Corridor(R, c), ~ChainEnds(R, c)
    PROVE  /\ Corridor(R, GoesOn(R, c)) /\ Len(GoesOn(R, c)) = Len(c) + 1
           /\ GoesOn(R, c)[1] = c[1]
           /\ \A i, j \in 1..Len(c) : c[i].to = c[j].to => i = j
<1> DEFINE n == Len(c)
           r == CHOOSE q \in Outs(R, Last(c).to) : TRUE
           d == Append(c, r)
<1>1. c \in Seq(R) /\ n \in Nat \ {0} /\ Last(c) = c[n]
  BY DEF Corridor, Walk, Last
<1>2. /\ c[n].to \in Removable(R) /\ Cardinality(Outs(R, c[n].to)) = 1
      /\ \A i \in 1..(n - 1) : c[i].to # c[n].to
  BY <1>1 DEF ChainEnds
<1>3. r \in R /\ r.from = c[n].to
  <2> DEFINE m == c[n].to
  <2>1. r = CHOOSE q \in Outs(R, m) : TRUE
    BY <1>1
  <2>2. Cardinality(Outs(R, m)) = 1
    BY <1>2
  <2> HIDE DEF r, m
  <2>3. r \in Outs(R, m)
    BY <2>1, <2>2, OnlyOut
  <2> QED
    BY <2>3 DEF Outs, m
<1> HIDE DEF r
<1>4. d \in Seq(R) /\ Len(d) = n + 1 /\ d[n + 1] = r /\ \A i \in 1..n : d[i] = c[i]
  BY <1>1, <1>3, AppendIs
<1>5. GoesOn(R, c) = d
  BY DEF GoesOn, r
<1> HIDE DEF d, n
<1>6. \A i \in 1..n : i \in 1..(n - 1) \/ i = n
  BY <1>1
<1>7. \A i \in 1..n : c[i].to \in Removable(R) /\ Cardinality(Outs(R, c[i].to)) = 1
  BY <1>2, <1>6 DEF Corridor, n
<1>8. \A i, j \in 1..n : c[i].to = c[j].to => i = j
  BY <1>2, <1>6 DEF Corridor, n
<1>9. ASSUME NEW i \in 1..n PROVE d[i + 1].from = d[i].to
  <2>1. CASE i = n
    BY <1>1, <1>3, <1>4, <2>1
  <2>2. CASE i # n
    <3>1. i \in 1..(n - 1) /\ i + 1 \in 1..n
      BY <1>1, <2>2
    <3>2. c[i + 1].from = c[i].to
      BY <3>1 DEF Corridor, Walk, n
    <3> QED
      BY <1>4, <3>1, <3>2
  <2> QED
    BY <2>1, <2>2
<1>10. (n + 1) - 1 = n /\ n + 1 \in Nat \ {0} /\ 1 \in 1..n
  BY <1>1
<1>11. Walk(R, d)
  BY <1>4, <1>9, <1>10 DEF Walk
<1>12. Corridor(R, d)
  BY <1>4, <1>7, <1>8, <1>10, <1>11 DEF Corridor
<1> QED
  BY <1>4, <1>5, <1>8, <1>10, <1>12 DEF n

LEMMA ChainIs ==
    ASSUME NEW R, RoadsFit(R), NEW first \in R
    PROVE  LET c == Chain(R, first)
           IN  Corridor(R, c) /\ c[1] = first /\ ChainEnds(R, c)
<1> DEFINE N == Cardinality(R)
<1>1. PICK g \in [0..N -> Seq(R)] :
              /\ g[0] = <<first>> /\ Chain(R, first) = g[N]
              /\ \A k \in 1..N : g[k] = GoesOn(R, g[k - 1])
  BY ChainUnfolds
<1>2. N \in Nat /\ IsFiniteSet(R)
  BY FS_CardinalityType DEF RoadsFit
<1> HIDE DEF N
<1> DEFINE Good == {k \in 0..N : /\ Corridor(R, g[k]) /\ g[k][1] = first
                                 /\ ChainEnds(R, g[k]) \/ Len(g[k]) = k + 1}
<1>3. 0 \in Good
  <2>1. Walk(R, <<first>>) /\ Len(<<first>>) = 1 /\ <<first>>[1] = first
    BY DEF Walk
  <2>2. Corridor(R, <<first>>)
    BY <2>1 DEF Corridor
  <2> QED
    BY <1>1, <1>2, <2>1, <2>2
<1>4. ASSUME NEW k \in 1..N, k - 1 \in Good PROVE k \in Good
  <2>1. g[k] = GoesOn(R, g[k - 1]) /\ Corridor(R, g[k - 1]) /\ g[k - 1][1] = first
    BY <1>1, <1>4
  <2>2. CASE ChainEnds(R, g[k - 1])
    <3>1. g[k] = g[k - 1]
      BY <2>1, <2>2 DEF GoesOn
    <3> QED
      BY <1>2, <2>1, <2>2, <3>1
  <2>3. CASE ~ChainEnds(R, g[k - 1])
    <3>1. Len(g[k - 1]) = k
      BY <1>2, <1>4, <2>3
    <3>2. Corridor(R, g[k]) /\ Len(g[k]) = k + 1 /\ g[k][1] = first
      BY <2>1, <2>3, <3>1, GoesOnIs
    <3> QED
      BY <1>2, <3>2
  <2> QED
    BY <2>2, <2>3
<1>5. N \in Good
  <2> HIDE DEF Good
  <2>1. \A k \in 0..N : k \in Good
    BY <1>2, <1>3, <1>4, HandedOn
  <2> QED
    BY <1>2, <2>1
<1>6. ChainEnds(R, g[N])
  <2>1. SUFFICES ASSUME ~ChainEnds(R, g[N]) PROVE FALSE
    OBVIOUS
  <2>2. Corridor(R, g[N]) /\ Len(g[N]) = N + 1 /\ g[N] \in Seq(R)
    BY <1>2, <1>5, <2>1
  <2>3. \A i, j \in 1..Len(g[N]) : g[N][i] = g[N][j] => i = j
    BY <2>1, <2>2, GoesOnIs
  <2>4. Len(g[N]) <= N
    BY <1>2, <2>2, <2>3, NotLonger DEF N
  <2> QED
    BY <1>2, <2>2, <2>4
<1> QED
  BY <1>1, <1>5, <1>6

(* A way that ends where its chain would: it is the chain.                 *)
LEMMA EndsOnSimple ==
    ASSUME NEW R, NEW w, Simple(R, w), NEW k \in 1..Len(w)
    PROVE  ChainEnds(R, Upto(w, k)) <=> \/ w[k].to \notin Removable(R)
                                        \/ Cardinality(Outs(R, w[k].to)) # 1
<1>1. w \in Seq(R) /\ Len(w) \in Nat /\ k \in 0..Len(w) /\ k > 0 /\ k \in Nat
  BY DEF Simple, Walk
<1>2. /\ Last(Upto(w, k)) = w[k] /\ Len(Upto(w, k)) = k
      /\ \A i \in 1..k : Upto(w, k)[i] = w[i]
  BY <1>1, UptoIs
<1>3. ASSUME NEW i \in 1..(k - 1) PROVE Upto(w, k)[i].to # w[k].to
  <2>1. i \in 1..(Len(w) - 1) /\ i \in 1..k /\ i + 1 \in 1..k
    BY <1>1
  <2>2. w[i + 1].from = w[i].to
    BY <2>1 DEF Simple, Walk
  <2>3. w[k].to # w[i + 1].from
    BY <2>1 DEF Simple
  <2> QED
    BY <1>2, <2>1, <2>2, <2>3
<1> QED
  BY <1>2, <1>3 DEF ChainEnds

LEMMA ChainFollows ==
    ASSUME NEW R, RoadsFit(R), NEW w, Simple(R, w), NEW m \in 1..Len(w),
           ChainEnds(R, Upto(w, m)), \A k \in 1..(m - 1) : ~ChainEnds(R, Upto(w, k))
    PROVE  Chain(R, w[1]) = Upto(w, m)
<1> DEFINE N == Cardinality(R)
<1>1. w \in Seq(R) /\ Len(w) \in Nat /\ Len(w) <= N /\ m \in Nat \ {0}
  BY SimpleShort DEF Simple, Walk
<1>2. N \in Nat
  BY FS_CardinalityType DEF RoadsFit
<1>3. w[1] \in R
  BY <1>1
<1>4. PICK g \in [0..N -> Seq(R)] :
              /\ g[0] = <<w[1]>> /\ Chain(R, w[1]) = g[N]
              /\ \A k \in 1..N : g[k] = GoesOn(R, g[k - 1])
  BY <1>3, ChainUnfolds
<1> HIDE DEF N
<1>5. ASSUME NEW k \in 1..(m - 1) PROVE GoesOn(R, Upto(w, k)) = Upto(w, k + 1)
  <2>1. k \in 0..Len(w) /\ k \in 1..Len(w) /\ k > 0 /\ k < Len(w) /\ k \in 1..(Len(w) - 1)
        /\ k + 1 \in 1..Len(w)
    BY <1>1
  <2>2. Last(Upto(w, k)) = w[k] /\ Upto(w, k + 1) = Append(Upto(w, k), w[k + 1])
    BY <1>1, <2>1, UptoIs
  <2>3. ~ChainEnds(R, Upto(w, k))
    OBVIOUS
  <2>4. Cardinality(Outs(R, w[k].to)) = 1
    BY <2>1, <2>3, EndsOnSimple
  <2>5. w[k + 1] \in Outs(R, w[k].to)
    <3>1. w[k + 1] \in R /\ w[k + 1].from = w[k].to
      BY <1>1, <2>1 DEF Simple, Walk
    <3> QED
      BY <3>1 DEF Outs
  <2> DEFINE n == w[k].to
  <2>6. w[k + 1] = CHOOSE r \in Outs(R, n) : TRUE
    <3>1. Cardinality(Outs(R, n)) = 1 /\ w[k + 1] \in Outs(R, n)
      BY <2>4, <2>5
    <3> HIDE DEF n
    <3> QED
      BY <3>1, OnlyOut
  <2>7. GoesOn(R, Upto(w, k)) = Append(Upto(w, k), CHOOSE r \in Outs(R, n) : TRUE)
    BY <2>2, <2>3 DEF GoesOn
  <2> QED
    BY <2>2, <2>6, <2>7
<1> DEFINE Good == {k \in 0..N : g[k] = IF k < m THEN Upto(w, k + 1) ELSE Upto(w, m)}
<1>6. 0 \in Good
  <2>1. Upto(w, 1) = <<w[1]>>
    <3>1. 1 \in 0..Len(w)
      BY <1>1
    <3>2. Upto(w, 1) \in Seq(R) /\ Len(Upto(w, 1)) = 1 /\ Upto(w, 1)[1] = w[1]
      <4>1. Upto(w, 1) \in Seq(R) /\ Len(Upto(w, 1)) = 1
        BY <1>1, <3>1, UptoIs
      <4>2. Upto(w, 1)[1] = w[1]
        BY DEF Upto
      <4> QED
        BY <4>1, <4>2
    <3> QED
      BY <3>2
  <2>2. 0 \in 0..N /\ 0 < m /\ 0 + 1 = 1
    BY <1>1, <1>2
  <2> QED
    BY <1>4, <2>1, <2>2
<1>7. ASSUME NEW k \in 1..N, k - 1 \in Good PROVE k \in Good
  <2>1. g[k] = GoesOn(R, g[k - 1])
    BY <1>4
  <2>2. CASE k < m
    <3>1. k \in 1..(m - 1) /\ k - 1 < m /\ (k - 1) + 1 = k
      BY <1>1, <2>2
    <3>2. g[k - 1] = Upto(w, k)
      BY <1>7, <3>1
    <3>3. g[k] = Upto(w, k + 1)
      BY <1>5, <2>1, <3>1, <3>2
    <3> QED
      BY <1>2, <2>2, <3>3
  <2>3. CASE ~(k < m)
    <3>1. g[k - 1] = Upto(w, m)
      <4>1. CASE k = m
        <5>1. k - 1 < m /\ (k - 1) + 1 = m
          BY <1>1, <4>1
        <5> QED
          BY <1>7, <5>1
      <4>2. CASE k # m
        <5>1. ~(k - 1 < m)
          BY <1>1, <2>3, <4>2
        <5> QED
          BY <1>7, <5>1
      <4> QED
        BY <4>1, <4>2
    <3>2. g[k] = Upto(w, m)
      BY <2>1, <3>1 DEF GoesOn
    <3> QED
      BY <1>2, <2>3, <3>2
  <2> QED
    BY <2>2, <2>3
<1>8. N \in Good
  <2> HIDE DEF Good
  <2>1. \A k \in 0..N : k \in Good
    BY <1>2, <1>6, <1>7, HandedOn
  <2> QED
    BY <1>2, <2>1
<1>9. g[N] = Upto(w, m)
  <2>1. CASE N < m
    <3>1. N + 1 = m
      BY <1>1, <1>2, <2>1
    <3> QED
      BY <1>8, <2>1, <3>1
  <2>2. CASE ~(N < m)
    BY <1>8, <2>2
  <2> QED
    BY <2>1, <2>2
<1> QED
  BY <1>4, <1>9

-----------------------------------------------------------------------------
(* Arcs and ways.                                                          *)
LEMMA CorridorIsSimple ==
    ASSUME NEW R, RoadsFit(R), NEW c, Corridor(R, c),
           c[1].from \in Cross, Last(c).to \in Cross, c[1].from # Last(c).to
    PROVE  Simple(R, c)
<1> DEFINE n == Len(c)
<1>1. c \in Seq(R) /\ n \in Nat \ {0} /\ Last(c) = c[n] /\ Walk(R, c)
  BY DEF Corridor, Walk, Last
<1>2. \A i \in 1..(n - 1) : c[i].to \notin Cross
  BY DEF Corridor, Removable
<1>3. ASSUME NEW i \in 1..n, i # 1 PROVE i - 1 \in 1..(n - 1) /\ c[i].from = c[i - 1].to
  <2>1. i - 1 \in 1..(n - 1) /\ (i - 1) + 1 = i
    BY <1>1, <1>3
  <2> QED
    BY <1>1, <2>1 DEF Walk
<1>4. ASSUME NEW j \in 1..n, NEW i \in 1..j PROVE c[j].to # c[i].from
  <2>1. i \in 1..n
    OBVIOUS
  <2>2. CASE i = j
    BY <1>1, <2>1, <2>2 DEF RoadsFit
  <2>3. CASE i # j /\ j = n
    <3>1. CASE i = 1
      BY <1>1, <2>3, <3>1
    <3>2. CASE i # 1
      BY <1>1, <1>2, <1>3, <2>1, <2>3, <3>2
    <3> QED
      BY <3>1, <3>2
  <2>4. CASE i # j /\ j # n
    <3>1. j \in 1..(n - 1)
      BY <1>1, <2>4
    <3>2. CASE i = 1
      BY <1>2, <3>1, <3>2
    <3>3. CASE i # 1
      <4>1. i - 1 \in 1..(n - 1) /\ c[i].from = c[i - 1].to /\ i - 1 # j
        BY <1>3, <2>1, <3>3
      <4> QED
        BY <3>1, <4>1 DEF Corridor
    <3> QED
      BY <3>2, <3>3
  <2> QED
    BY <2>2, <2>3, <2>4
<1> QED
  BY <1>1, <1>4 DEF Simple

LEMMA OneSuccessor ==
    ASSUME NEW R, RoadsFit(R), NEW r \in R, r.to \notin Cross,
           Cardinality(Preds(R, r.to)) = 1, Cardinality(Outs(R, r.to)) = 1
    PROVE  r.to \in Removable(R)
<1> DEFINE n == r.to
<1>1. IsFiniteSet(Outs(R, n))
  BY FS_Subset DEF RoadsFit, Outs
<1>2. PICK x : Outs(R, n) = {x}
  BY <1>1, FS_Singleton
<1>3. Succs(R, n) = {x.to}
  BY <1>2 DEF Succs
<1>4. Cardinality(Succs(R, n)) = 1
  BY <1>3, FS_Singleton
<1>5. n \in Nodes(R) \ Cross
  BY DEF Nodes
<1> QED
  BY <1>4, <1>5 DEF Removable

CorridorWay(v) ==
    /\ v[1].from \in Cross /\ Last(v).to \in Cross
    /\ \A n \in Inner(v) : /\ n \notin Cross
                           /\ Cardinality(Preds(roads, n)) = 1
                           /\ Cardinality(Outs(roads, n)) = 1

(* A direct arc is the chain of a way that is a corridor.                  *)
LEMMA ArcIsCorridor ==
    ASSUME RoadsFit(roads), NEW e \in Arcs(Compressed(roads))
    PROVE  \E w \in Ways : CorridorWay(w) /\ e.path = Ids(w)
<1>1. PICK r \in roads : r.from \notin Removable(roads) /\ e = Edge(Chain(roads, r))
  BY DEF Arcs, Compressed
<1> DEFINE c == Chain(roads, r)
<1>2. Corridor(roads, c) /\ c[1] = r
  BY ChainIs
<1>3. e = Edge(c)
  BY <1>1
<1> HIDE DEF c
<1>4. c \in Seq(roads) /\ DOMAIN c = 1..Len(c) /\ Len(c) \in Nat \ {0}
  BY <1>2 DEF Corridor, Walk
<1>5. e.from = c[1].from /\ e.to = Last(c).to /\ e.path = Ids(c)
  BY <1>3, <1>4 DEF Edge, Ids
<1>6. e.from \in Cross /\ e.to \in Cross /\ e.from # e.to
  BY DEF Arcs
<1>7. Simple(roads, c)
  BY <1>2, <1>5, <1>6, CorridorIsSimple
<1>8. c \in Ways
  BY <1>7, WaysAre
<1>9. CorridorWay(c)
  BY <1>2, <1>5, <1>6 DEF CorridorWay, Inner, Corridor, Removable
<1> QED
  BY <1>5, <1>8, <1>9

(* And a way that is a corridor is the chain of a direct arc.              *)
LEMMA CorridorIsArc ==
    ASSUME RoadsFit(roads), NEW w \in Ways, CorridorWay(w)
    PROVE  \E e \in Arcs(Compressed(roads)) : e.path = Ids(w)
<1> DEFINE n == Len(w)
           r == w[1]
           c == Chain(roads, r)
           e == Edge(c)
<1>1. Simple(roads, w)
  BY WaysAre
<1>2. w \in Seq(roads) /\ n \in Nat \ {0} /\ n \in 1..n /\ 1 \in 1..n /\ n \in 0..n /\ Last(w) = w[n]
      /\ DOMAIN w = 1..n
  BY <1>1 DEF Simple, Walk, Last
<1>3. \A k \in 1..(n - 1) : /\ w[k].to \in Removable(roads) /\ Cardinality(Outs(roads, w[k].to)) = 1
                            /\ k \in 1..n
  <2> TAKE k \in 1..(n - 1)
  <2>1. w[k].to \in Inner(w) /\ w[k] \in roads /\ k \in 1..n
    BY <1>2 DEF Inner
  <2> QED
    BY <2>1, OneSuccessor DEF CorridorWay
<1>4. \A k \in 1..(n - 1) : ~ChainEnds(roads, Upto(w, k))
  BY <1>1, <1>3, EndsOnSimple
<1>5. ChainEnds(roads, Upto(w, n))
  BY <1>1, <1>2, EndsOnSimple DEF CorridorWay, Removable
<1>6. c = Upto(w, n)
  BY <1>1, <1>2, <1>4, <1>5, ChainFollows
<1>7. c = w
  BY <1>2, <1>6, UptoIs
<1>8. e.from = w[1].from /\ e.to = w[n].to /\ e.path = Ids(w)
  <2>1. e = Edge(w)
    BY <1>7
  <2> HIDE DEF e, c
  <2> QED
    BY <1>2, <2>1 DEF Edge, Ids
<1>9. r \in roads /\ r.from \notin Removable(roads)
  BY <1>2 DEF CorridorWay, Removable
<1>10. e \in Compressed(roads)
  BY <1>9 DEF Compressed
<1>11. w[n].to # w[1].from
  BY <1>1, <1>2 DEF Simple
<1> HIDE DEF e
<1>12. e \in Arcs(Compressed(roads))
  BY <1>2, <1>8, <1>10, <1>11 DEF Arcs, CorridorWay
<1> QED
  BY <1>8, <1>12

-----------------------------------------------------------------------------
(* Who owns a terminal.                                                    *)
(* The graph is that of the roads and does not change once it is built.    *)
GraphStays ==
    /\ roads \in RoadSets
    /\ phase = "arcs" => edges = {} /\ arcs = {}
    /\ phase # "arcs" => edges = Compressed(roads) /\ arcs = Arcs(edges)

LEMMA GraphInit == Init => GraphStays
BY DEF Init, GraphStays

LEMMA GraphNext == GraphStays /\ [Next]_vars => GraphStays'
<1> SUFFICES ASSUME GraphStays, [Next]_vars PROVE GraphStays'
  OBVIOUS
<1>1. CASE BuildArcs
  BY <1>1 DEF BuildArcs, GraphStays
<1>2. CASE TurnBack \/ Finish
  BY <1>2 DEF TurnBack, Finish, GraphStays
<1>3. CASE Begin \/ Visit
  BY <1>3 DEF Begin, Visit, GraphStays
<1>4. CASE Conclude
  <2>1. UNCHANGED <<roads, phase, edges, arcs>>
    BY <1>4 DEF Conclude
  <2>2. phase' = phase /\ roads' = roads /\ edges' = edges /\ arcs' = arcs
    BY <2>1
  <2> QED
    BY <2>2 DEF GraphStays
<1>5. CASE UNCHANGED vars
  BY <1>5 DEF vars, GraphStays
<1> QED
  BY <1>1, <1>2, <1>3, <1>4, <1>5 DEF Next

LEMMA ArcsFinite ==
    ASSUME GraphStays PROVE IsFiniteSet(arcs)
<1>1. CASE phase = "arcs"
  BY <1>1, FS_EmptySet DEF GraphStays
<1>2. CASE phase # "arcs"
  <2> DEFINE firsts == {q \in roads : q.from \notin Removable(roads)}
             edge == [r \in firsts |-> Edge(Chain(roads, r))]
  <2>1. IsFiniteSet(firsts)
    <3>1. IsFiniteSet(roads)
      BY SearchAssumption DEF GraphStays
    <3> QED
      BY <3>1, FS_Subset
  <2>2. edges = {edge[r] : r \in firsts}
    BY <1>2 DEF GraphStays, Compressed
  <2>3. edge \in Surjection(firsts, edges)
    BY <2>2 DEF Surjection
  <2>4. IsFiniteSet(edges)
    BY <2>1, <2>3, FS_Surjection
  <2> QED
    BY <1>2, <2>4, FS_Subset DEF GraphStays, Arcs
<1> QED
  BY <1>1, <1>2

(* A candidate passes the production gate only on a direct arc, and on one *)
(* into a terminal only if the terminal has a single source.               *)
LEMMA GateOpen ==
    ASSUME NEW a, NEW n \in Terminals(arcs), ProductionGate(a, n) = ""
    PROVE  a \in Sources(arcs, n) /\ Cardinality(Sources(arcs, n)) = 1
<1>1. arcs # {}
  BY DEF Terminals
<1>2. <<a, n>> \in ArcPairs(arcs) /\ TopologyGate(a, n) = ""
  BY <1>1 DEF ProductionGate
<1>3. DirectStatus(n) # "ambiguous_owner"
  BY <1>1, <1>2 DEF TopologyGate
<1>4. Cardinality(Sources(arcs, n)) = 1
  BY <1>3 DEF DirectStatus
<1> QED
  BY <1>2, <1>4 DEF ArcPairs, Sources

(* At most one cross section sends candidates into a terminal, for all     *)
(* roads and however early the searches run out of their budget.           *)
THEOREM TerminalsHaveOneOwner == Spec => []OneOwnerPerTerminal
<1>1. ASSUME GraphStays, NEW n \in Terminals(arcs), NEW a, NEW b,
             ProductionGate(a, n) = "", ProductionGate(b, n) = ""
      PROVE  a = b
  <2> DEFINE from == [e \in {d \in arcs : d.to = n} |-> e.from]
  <2>1. IsFiniteSet({d \in arcs : d.to = n})
    BY <1>1, ArcsFinite, FS_Subset
  <2>2. Sources(arcs, n) = {from[e] : e \in {d \in arcs : d.to = n}}
    BY DEF Sources
  <2>3. IsFiniteSet(Sources(arcs, n))
    <3>1. from \in Surjection({d \in arcs : d.to = n}, Sources(arcs, n))
      BY <2>2 DEF Surjection
    <3> QED
      BY <2>1, <3>1, FS_Surjection
  <2>4. Cardinality(Sources(arcs, n)) = 1 /\ a \in Sources(arcs, n) /\ b \in Sources(arcs, n)
    BY <1>1, GateOpen
  <2>5. PICK x : Sources(arcs, n) = {x}
    BY <2>3, <2>4, FS_Singleton
  <2> QED
    BY <2>4, <2>5
<1>2. GraphStays => OneOwnerPerTerminal
  BY <1>1 DEF OneOwnerPerTerminal
<1> QED
  BY GraphInit, GraphNext, <1>2, PTL DEF Spec

-----------------------------------------------------------------------------
(* The searches from a terminal back.  Every way into a terminal is        *)
(* waiting, under way or has its row; one that comes straight from a cross *)
(* section ends there and finds it; and what is found is finite.           *)
Straight(e) == e.to \in Cross \ {e.from}

Running ==
    cur # Idle =>
        /\ cur = [kind |-> cur.kind, edge |-> cur.edge, stack |-> cur.stack,
                  expansions |-> cur.expansions, overflow |-> cur.overflow,
                  found |-> cur.found]
        /\ cur.kind # "idle" /\ IsFiniteSet(cur.found)
        /\ (cur.kind = "reverse" /\ Straight(cur.edge)) =>
              \/ /\ cur.found = {}
                 /\ \E w : cur.stack = <<w>> /\ w.node = cur.edge.to
              \/ cur.stack = <<>> /\ \E w : cur.found = {w} /\ w.node = cur.edge.to

Answered ==
    /\ IsFiniteSet(anchors)
    /\ \A r \in anchors :
          /\ r.terminal = r.edge.from /\ IsFiniteSet(r.owners)
          /\ Straight(r.edge) => r.owners = {r.edge.to} /\ r.status = "accepted"

Asked ==
    /\ \A t \in todo : t.kind # "idle"
    /\ phase = "done" => todo = {} /\ cur = Idle
    /\ phase \in {"reverse", "done"} =>
          \A e \in Reversed(edges) : e.from \in Terminals(arcs) =>
             \/ [kind |-> "reverse", edge |-> e] \in todo
             \/ cur # Idle /\ cur.kind = "reverse" /\ cur.edge = e
             \/ \E r \in anchors : r.edge = e

Searched == Running /\ Answered /\ Asked

LEMMA SearchedInit == Init => Searched
BY FS_EmptySet DEF Init, Searched, Running, Answered, Asked

LEMMA StepBegin == ASSUME Searched, Begin PROVE Searched'
<1> DEFINE next == CHOOSE t \in todo : TRUE
           e == next.edge
           w == [node |-> e.to, nodes |-> e.nodes, path |-> e.path]
<1>1. /\ cur = Idle /\ next \in todo /\ todo' = todo \ {next}
      /\ cur' = [kind |-> next.kind, edge |-> e, stack |-> <<w>>,
                 expansions |-> 1, overflow |-> FALSE, found |-> {}]
      /\ phase' = phase /\ edges' = edges /\ arcs' = arcs /\ anchors' = anchors
  BY DEF Begin
<1> HIDE DEF next
<1>2. w.node = e.to /\ next.kind # "idle"
  BY <1>1 DEF Searched, Asked
<1> HIDE DEF w, e
<1>3. Running'
  <2>1. cur'.kind = next.kind /\ cur'.edge = e /\ cur'.stack = <<w>> /\ cur'.found = {}
    BY <1>1
  <2>2. cur' = [kind |-> cur'.kind, edge |-> cur'.edge, stack |-> cur'.stack,
                expansions |-> cur'.expansions, overflow |-> cur'.overflow,
                found |-> cur'.found]
    BY <1>1
  <2> QED
    BY <1>2, <2>1, <2>2, FS_EmptySet DEF Running, Straight
<1>4. Answered'
  BY <1>1 DEF Searched, Answered
<1>5. cur' # Idle /\ cur'.kind = next.kind /\ cur'.edge = next.edge
  BY <1>1, <1>2 DEF Idle, e
<1>6. phase # "done"
  BY <1>1 DEF Searched, Asked
<1>7. ASSUME phase \in {"reverse", "done"}, NEW f \in Reversed(edges),
             f.from \in Terminals(arcs), [kind |-> "reverse", edge |-> f] \in todo
      PROVE  \/ [kind |-> "reverse", edge |-> f] \in todo'
             \/ cur' # Idle /\ cur'.kind = "reverse" /\ cur'.edge = f
  <2>1. CASE next = [kind |-> "reverse", edge |-> f]
    BY <1>5, <2>1
  <2>2. CASE next # [kind |-> "reverse", edge |-> f]
    BY <1>1, <1>7, <2>2
  <2> QED
    BY <2>1, <2>2
<1>8. Asked'
  BY <1>1, <1>6, <1>7 DEF Searched, Asked
<1> QED
  BY <1>3, <1>4, <1>8 DEF Searched

LEMMA StepVisit == ASSUME Searched, Visit PROVE Searched'
<1> DEFINE top == Last(cur.stack)
           goal == top.node \in Goals(cur.kind) \ {cur.edge.from}
<1>1. /\ cur # Idle /\ cur.stack # <<>> /\ cur' = Visited(top, Front(cur.stack))
      /\ phase' = phase /\ edges' = edges /\ arcs' = arcs /\ anchors' = anchors
      /\ todo' = todo
  BY DEF Visit
<1>2. /\ goal => cur' = [cur EXCEPT !.stack = Front(cur.stack), !.found = @ \cup {top}]
      /\ goal \/ \E s, x, o : cur' = [cur EXCEPT !.stack = s, !.overflow = o, !.expansions = x]
  <2>1. CASE goal
    BY <1>1, <2>1 DEF Visited
  <2>2. ASSUME ~goal
        PROVE  \E s, x, o : cur' = [cur EXCEPT !.stack = s, !.overflow = o, !.expansions = x]
    <3> DEFINE over == [cur EXCEPT !.stack = <<>>, !.overflow = TRUE, !.expansions = MaxExpansions]
    <3>1. cur' = over \/ \E s, x : cur' = [cur EXCEPT !.stack = s, !.expansions = x]
      BY <1>1, <2>2 DEF Visited
    <3>2. CASE cur' = over
      <4> WITNESS <<>>
      <4> WITNESS MaxExpansions
      <4> WITNESS TRUE
      <4> QED
        BY <3>2
    <3>3. CASE \E s, x : cur' = [cur EXCEPT !.stack = s, !.expansions = x]
      <4>1. PICK s, x : cur' = [cur EXCEPT !.stack = s, !.expansions = x]
        BY <3>3
      <4>2. cur' = [cur EXCEPT !.stack = s, !.overflow = cur.overflow, !.expansions = x]
        BY <1>1, <4>1 DEF Searched, Running
      <4> QED
        BY <4>2
    <3> QED
      BY <3>1, <3>2, <3>3
  <2> QED
    BY <2>1, <2>2
<1>3. cur = [kind |-> cur.kind, edge |-> cur.edge, stack |-> cur.stack,
             expansions |-> cur.expansions, overflow |-> cur.overflow, found |-> cur.found]
  BY <1>1 DEF Searched, Running
<1>4. /\ cur'.kind = cur.kind /\ cur'.edge = cur.edge
      /\ cur' = [kind |-> cur'.kind, edge |-> cur'.edge, stack |-> cur'.stack,
                 expansions |-> cur'.expansions, overflow |-> cur'.overflow,
                 found |-> cur'.found]
      /\ goal => cur'.stack = Front(cur.stack) /\ cur'.found = cur.found \cup {top}
      /\ ~goal => cur'.found = cur.found
  <2>1. CASE goal
    BY <1>2, <1>3, <2>1
  <2>2. CASE ~goal
    <3>1. PICK s, x, o : cur' = [cur EXCEPT !.stack = s, !.overflow = o, !.expansions = x]
      BY <1>2, <2>2
    <3> QED
      BY <1>3, <2>2, <3>1
  <2> QED
    BY <2>1, <2>2
<1>5. IsFiniteSet(cur'.found)
  BY <1>1, <1>4, FS_AddElement DEF Searched, Running
<1>6. ASSUME cur.kind = "reverse", Straight(cur.edge)
      PROVE  cur'.stack = <<>> /\ \E w : cur'.found = {w} /\ w.node = cur.edge.to
  <2>1. PICK w : cur.found = {} /\ cur.stack = <<w>> /\ w.node = cur.edge.to
    BY <1>1, <1>6 DEF Searched, Running
  <2>2. top = w /\ Front(cur.stack) = <<>>
    BY <2>1 DEF Last, Front
  <2>3. goal
    BY <1>6, <2>1, <2>2 DEF Goals, Straight
  <2> QED
    BY <1>4, <2>1, <2>2, <2>3
<1>7. cur' # Idle
  BY <1>1, <1>4 DEF Searched, Running, Idle
<1>8. Running'
  BY <1>1, <1>4, <1>5, <1>6 DEF Searched, Running
<1>9. Answered' /\ Asked'
  BY <1>1, <1>4, <1>7 DEF Searched, Answered, Asked
<1> QED
  BY <1>8, <1>9 DEF Searched

LEMMA StepConclude == ASSUME Searched, Conclude PROVE Searched'
<1> DEFINE owners == {f.node : f \in cur.found}
           row == [terminal |-> cur.edge.from, edge |-> cur.edge, owners |-> owners,
                   status |-> AnchorStatus(cur.found), overflow |-> cur.overflow]
<1>1. /\ cur # Idle /\ cur.stack = <<>> /\ cur' = Idle
      /\ phase' = phase /\ edges' = edges /\ arcs' = arcs /\ todo' = todo
      /\ cur.kind = "reverse" => anchors' = anchors \cup {row}
      /\ cur.kind # "reverse" => anchors' = anchors
  <2>1. cur # Idle /\ cur.stack = <<>> /\ cur' = Idle /\ UNCHANGED <<roads, phase, edges, arcs, todo>>
    BY DEF Conclude
  <2>2. CASE cur.kind = "reverse"
    BY <2>1, <2>2 DEF Conclude
  <2>3. CASE cur.kind # "reverse"
    BY <2>1, <2>3 DEF Conclude
  <2> QED
    BY <2>1, <2>2, <2>3
<1>2. IsFiniteSet(owners)
  <2> DEFINE node == [f \in cur.found |-> f.node]
  <2>1. node \in Surjection(cur.found, owners)
    BY DEF Surjection
  <2>2. IsFiniteSet(cur.found)
    BY <1>1 DEF Searched, Running
  <2> HIDE DEF node, owners
  <2> QED
    BY <2>1, <2>2, FS_Surjection
<1>3. ASSUME cur.kind = "reverse", Straight(cur.edge)
      PROVE  owners = {cur.edge.to} /\ AnchorStatus(cur.found) = "accepted"
  <2>1. PICK w : cur.found = {w} /\ w.node = cur.edge.to
    BY <1>1, <1>3 DEF Searched, Running
  <2>2. owners = {cur.edge.to}
    BY <2>1
  <2>3. Cardinality(owners) = 1 /\ Cardinality(cur.found) = 1
    BY <2>1, <2>2, FS_Singleton
  <2> QED
    <3>1. /\ ~(Cardinality(owners) >= 2) /\ ~(Cardinality(cur.found) >= 2)
          /\ Cardinality(cur.found) < 2
      BY <2>3
    <3>2. AnchorStatus(cur.found) = "accepted"
      BY <2>3, <3>1, Zenon DEF AnchorStatus
    <3> QED
      BY <2>2, <3>2
<1>4. row.terminal = cur.edge.from /\ row.edge = cur.edge /\ row.owners = owners
      /\ row.status = AnchorStatus(cur.found)
  OBVIOUS
<1> HIDE DEF row, owners
<1>5. Answered'
  <2>1. IsFiniteSet(anchors')
    BY <1>1, FS_AddElement DEF Searched, Answered
  <2>2. anchors' \subseteq anchors \cup {row} /\ (row \in anchors' => row \in anchors \/ cur.kind = "reverse")
    BY <1>1
  <2> QED
    BY <1>2, <1>3, <1>4, <2>1, <2>2 DEF Searched, Answered
<1>6. Running' /\ Asked'
  BY <1>1, <1>4 DEF Searched, Running, Asked
<1> QED
  BY <1>5, <1>6 DEF Searched

LEMMA SearchedNext == Searched /\ [Next]_vars => Searched'
<1> SUFFICES ASSUME Searched, [Next]_vars PROVE Searched'
  OBVIOUS
<1>1. CASE BuildArcs
  <2>1. /\ phase' = "trace" /\ cur' = cur /\ anchors' = anchors
        /\ \A t \in todo' : t.kind \in {"trace", "terminal"}
    BY <1>1 DEF BuildArcs
  <2> QED
    BY <2>1 DEF Searched, Running, Answered, Asked
<1>2. CASE TurnBack
  <2>1. /\ phase' = "reverse" /\ cur' = cur /\ anchors' = anchors /\ edges' = edges /\ arcs' = arcs
        /\ todo' = {[kind |-> "reverse", edge |-> e] :
                       e \in {d \in Reversed(edges) : d.from \in Terminals(arcs)}}
    BY <1>2 DEF TurnBack
  <2>2. Running' /\ Answered'
    BY <2>1 DEF Searched, Running, Answered
  <2>3. \A t \in todo' : t.kind = "reverse"
    BY <2>1
  <2>4. Asked'
    BY <2>1, <2>3 DEF Asked
  <2> QED
    BY <2>2, <2>4 DEF Searched
<1>3. CASE Finish
  BY <1>3 DEF Finish, Searched, Running, Answered, Asked
<1>4. CASE UNCHANGED vars
  BY <1>4 DEF vars, Searched, Running, Answered, Asked
<1> QED
  BY <1>1, <1>2, <1>3, <1>4, StepBegin, StepVisit, StepConclude DEF Next

LEMMA AcceptedFinite == ASSUME Searched, NEW n PROVE IsFiniteSet(Accepted(n))
<1> DEFINE rows == {q \in RowsOf(n) : q.status = "accepted"}
           owners == [r \in rows |-> r.owners]
           sets == {r.owners : r \in rows}
<1>1. IsFiniteSet(rows)
  BY FS_Subset DEF Searched, Answered, RowsOf
<1>2. owners \in Surjection(rows, sets)
  BY DEF Surjection
<1>3. \A s \in sets : IsFiniteSet(s)
  BY DEF Searched, Answered, RowsOf
<1>4. Accepted(n) = UNION sets
  BY DEF Accepted
<1> HIDE DEF rows, owners, sets
<1>5. IsFiniteSet(sets)
  BY <1>1, <1>2, FS_Surjection
<1> QED
  BY <1>3, <1>4, <1>5, FS_UNION

(* The owner that the reverse search is sure of is the one of the direct   *)
(* arcs, for all roads and however early a search runs out of its budget.  *)
THEOREM ReverseOwnersAgree == Spec => []OwnersAgree
<1>1. ASSUME GraphStays, Searched, phase = "done", NEW n \in Terminals(arcs),
             ReverseStatus(n) = "unique_owner"
      PROVE  DirectStatus(n) = "unique_owner" /\ Accepted(n) = Sources(arcs, n)
  <2>1. Cardinality(Accepted(n)) = 1
    BY <1>1, Zenon DEF ReverseStatus
  <2>2. PICK x : Accepted(n) = {x}
    BY <1>1, <2>1, AcceptedFinite, FS_Singleton
  <2>3. Sources(arcs, n) # {}
    BY DEF Terminals, Sources
  <2>4. ASSUME NEW a \in Sources(arcs, n) PROVE a \in Accepted(n)
    <3>1. PICK d \in arcs : d.to = n /\ d.from = a
      BY DEF Sources
    <3>2. d \in edges /\ a \in Cross /\ a # n
      BY <1>1, <3>1 DEF GraphStays, Arcs
    <3> DEFINE e == [from |-> d.to, to |-> d.from, path |-> Reverse(d.path),
                     nodes |-> Reverse(d.nodes)]
    <3>3. e \in Reversed(edges)
      BY <3>2 DEF Reversed
    <3>4. e.from = n /\ e.to = a
      BY <3>1
    <3> HIDE DEF e
    <3>5. PICK r \in anchors : r.edge = e
      BY <1>1, <3>3, <3>4 DEF Searched, Asked
    <3>6. r.terminal = n /\ r.owners = {a} /\ r.status = "accepted"
      BY <1>1, <3>2, <3>4, <3>5 DEF Searched, Answered, Straight
    <3> QED
      BY <3>5, <3>6 DEF Accepted, RowsOf
  <2>5. Sources(arcs, n) = {x}
    BY <2>2, <2>3, <2>4
  <2>6. Cardinality(Sources(arcs, n)) = 1
    BY <2>5, FS_Singleton
  <2> QED
    BY <2>2, <2>5, <2>6 DEF DirectStatus
<1>2. GraphStays /\ Searched => OwnersAgree
  BY <1>1 DEF OwnersAgree
<1> QED
  BY GraphInit, GraphNext, SearchedInit, SearchedNext, <1>2, PTL DEF Spec

LEMMA RoadsFitHere == ASSUME GraphStays PROVE RoadsFit(roads)
BY SearchAssumption DEF GraphStays, RoadsFit

(* The direct arcs are exactly the corridors between two cross sections,   *)
(* for any prior roads.                                                    *)
THEOREM ArcsStayCorridors == Spec => []ArcsAreCorridors
<1>1. ASSUME GraphStays PROVE ArcsAreCorridors
  <2> SUFFICES ASSUME phase # "arcs"
               PROVE  {e.path : e \in arcs} = {Ids(w) : w \in {v \in Ways : CorridorWay(v)}}
    BY DEF ArcsAreCorridors, CorridorWay
  <2>1. RoadsFit(roads) /\ arcs = Arcs(Compressed(roads))
    BY <1>1, RoadsFitHere DEF GraphStays
  <2>2. \A e \in arcs : \E w \in Ways : CorridorWay(w) /\ e.path = Ids(w)
    BY <2>1, ArcIsCorridor
  <2>3. \A w \in Ways : CorridorWay(w) => \E e \in arcs : e.path = Ids(w)
    BY <2>1, CorridorIsArc
  <2> QED
    BY <2>2, <2>3
<1>2. GraphStays => ArcsAreCorridors
  BY <1>1
<1> QED
  BY GraphInit, GraphNext, <1>2, PTL DEF Spec

-----------------------------------------------------------------------------
(* The edges that a search goes over.                                      *)
EdgesFit(g) ==
    /\ IsFiniteSet(g)
    /\ \A e \in g : /\ e.from \in Nat /\ e.to \in Nat
                    /\ e.path \in Seq(Nat) /\ e.nodes \in Seq(Nat)
    /\ \A d, e \in g : d.path = e.path => d = e

LEMMA CompressedFit ==
    ASSUME NEW R, RoadsFit(R) PROVE EdgesFit(Compressed(R))
<1> DEFINE B == {q \in R : q.from \notin Removable(R)}
           f == [r \in B |-> Edge(Chain(R, r))]
<1>1. IsFiniteSet(Compressed(R))
  <2>1. Compressed(R) = {f[r] : r \in B}
    BY DEF Compressed
  <2>2. IsFiniteSet(B)
    BY FS_Subset DEF RoadsFit
  <2> HIDE DEF f, B
  <2> QED
    BY <2>1, <2>2, ImageFinite
<1>2. ASSUME NEW r \in R
      PROVE  LET e == Edge(Chain(R, r))
             IN  /\ e.from \in Nat /\ e.to \in Nat /\ e.path \in Seq(Nat) /\ e.nodes \in Seq(Nat)
                 /\ e.path[1] = r.id
  <2> DEFINE c == Chain(R, r)
             e == Edge(c)
  <2>1. Corridor(R, c) /\ c[1] = r
    BY ChainIs
  <2> HIDE DEF c
  <2> DEFINE n == Len(c)
  <2>2. c \in Seq(R) /\ n \in Nat \ {0} /\ Last(c) = c[n]
    BY <2>1 DEF Corridor, Walk, Last
  <2>3. \A i \in 1..n : c[i] \in R /\ c[i].id \in Nat /\ c[i].from \in Nat /\ c[i].to \in Nat
    BY <2>2 DEF RoadsFit
  <2> HIDE DEF n
  <2> DEFINE p == [i \in 1..n |-> c[i].id]
             t == [i \in 1..n |-> c[i].to]
  <2>4. p \in Seq(Nat) /\ t \in Seq(Nat) /\ p[1] = c[1].id
    <3>1. p \in [1..n -> Nat] /\ t \in [1..n -> Nat]
      BY <2>3
    <3>2. 1 \in 1..n /\ n \in Nat
      BY <2>2
    <3> QED
      BY <3>1, <3>2
  <2>5. <<c[1].from>> \in Seq(Nat) /\ 1 \in 1..n /\ n \in 1..n
    BY <2>2, <2>3
  <2> HIDE DEF p, t
  <2>6. <<c[1].from>> \o t \in Seq(Nat)
    BY <2>4, <2>5
  <2>7. e.from = c[1].from /\ e.to = c[n].to /\ e.path = p /\ e.nodes = <<c[1].from>> \o t
    BY <2>2 DEF Edge, p, t, n
  <2> HIDE DEF e
  <2>8. e.from \in Nat /\ e.to \in Nat /\ e.path \in Seq(Nat) /\ e.nodes \in Seq(Nat)
    BY <2>3, <2>4, <2>5, <2>6, <2>7
  <2>9. e.path[1] = r.id
    BY <2>1, <2>4, <2>7
  <2> QED
    BY <2>8, <2>9 DEF e, c
<1>3. ASSUME NEW d \in Compressed(R), NEW e \in Compressed(R), d.path = e.path PROVE d = e
  <2>1. PICK r \in B : d = Edge(Chain(R, r))
    BY DEF Compressed
  <2>2. PICK q \in B : e = Edge(Chain(R, q))
    BY DEF Compressed
  <2>3. d.path[1] = r.id /\ e.path[1] = q.id
    BY <1>2, <2>1, <2>2
  <2>4. r = q
    BY <1>3, <2>3 DEF RoadsFit
  <2> QED
    BY <2>1, <2>2, <2>4
<1>4. \A e \in Compressed(R) : /\ e.from \in Nat /\ e.to \in Nat
                               /\ e.path \in Seq(Nat) /\ e.nodes \in Seq(Nat)
  BY <1>2 DEF Compressed
<1> QED
  BY <1>1, <1>3, <1>4 DEF EdgesFit

LEMMA ReverseIs ==
    ASSUME NEW S, NEW a \in Seq(S)
    PROVE  /\ Reverse(a) \in Seq(S) /\ Len(Reverse(a)) = Len(a)
           /\ \A i \in 1..Len(a) : Reverse(a)[i] = a[Len(a) - i + 1]
<1> DEFINE n == Len(a)
<1>1. n \in Nat /\ \A i \in 1..n : a[i] \in S /\ n - i + 1 \in 1..n
  <2>1. n \in Nat /\ \A i \in 1..n : a[i] \in S
    OBVIOUS
  <2> HIDE DEF n
  <2> QED
    BY <2>1
<1>2. Reverse(a) = [i \in 1..n |-> a[n - i + 1]]
  BY DEF Reverse
<1> HIDE DEF n
<1>3. Reverse(a) \in [1..n -> S]
  BY <1>1, <1>2
<1>4. Reverse(a) \in Seq(S) /\ Len(Reverse(a)) = n
  <2>1. DOMAIN Reverse(a) = 1..n
    BY <1>2
  <2> QED
    BY <1>1, <1>3, <2>1
<1> QED
  BY <1>2, <1>4 DEF n

LEMMA ReversesAlike ==
    ASSUME NEW S, NEW a \in Seq(S), NEW b \in Seq(S), Reverse(a) = Reverse(b)
    PROVE  a = b
<1> DEFINE n == Len(a)
<1>1. Len(b) = n /\ n \in Nat
  <2>1. n \in Nat
    OBVIOUS
  <2> QED
    BY <2>1, ReverseIs
<1>2. \A i \in 1..n : Reverse(a)[i] = a[n - i + 1] /\ Reverse(b)[i] = b[n - i + 1]
  BY <1>1, ReverseIs
<1> HIDE DEF n
<1>3. ASSUME NEW i \in 1..n PROVE a[i] = b[i]
  <2> DEFINE j == n - i + 1
  <2>1. j \in 1..n /\ n - j + 1 = i
    BY <1>1
  <2> HIDE DEF j
  <2>2. Reverse(a)[j] = a[i] /\ Reverse(b)[j] = b[i]
    BY <1>2, <2>1
  <2> QED
    BY <2>2
<1> QED
  BY <1>1, <1>3, SameSeq DEF n

LEMMA ReversedFit ==
    ASSUME NEW g, EdgesFit(g) PROVE EdgesFit(Reversed(g))
<1> DEFINE Back(e) == [from |-> e.to, to |-> e.from, path |-> Reverse(e.path),
                       nodes |-> Reverse(e.nodes)]
           f == [e \in g |-> Back(e)]
<1>1. Reversed(g) = {f[e] : e \in g} /\ Reversed(g) = {Back(e) : e \in g}
  BY DEF Reversed
<1>2. \A e \in g : /\ Back(e).from = e.to /\ Back(e).to = e.from
                   /\ Back(e).path = Reverse(e.path) /\ Back(e).nodes = Reverse(e.nodes)
  OBVIOUS
<1> HIDE DEF f, Back
<1>3. IsFiniteSet(Reversed(g))
  BY <1>1, ImageFinite DEF EdgesFit
<1>4. \A e \in g : /\ Back(e).from \in Nat /\ Back(e).to \in Nat
                   /\ Back(e).path \in Seq(Nat) /\ Back(e).nodes \in Seq(Nat)
  BY <1>2, ReverseIs DEF EdgesFit
<1>5. \A d, e \in g : Back(d).path = Back(e).path => d = e
  BY <1>2, ReversesAlike DEF EdgesFit
<1> QED
  BY <1>1, <1>3, <1>4, <1>5 DEF EdgesFit

(* The sort key of the graph puts edges in order, whatever they are.       *)
LEMMA AheadOrder ==
    ASSUME NEW g, EdgesFit(g)
    PROVE  LET Less == {p \in g \X g : Ahead(p[1], p[2])}
           IN  StrictOn(Less, g) /\ TotalOn(Less, g)
<1> DEFINE Less == {p \in g \X g : Ahead(p[1], p[2])}
           Same(d, e) == d.to = e.to /\ Len(d.path) = Len(e.path)
<1>1. \A e \in g : /\ e.to \in Int /\ Len(e.path) \in Nat /\ DOMAIN e.path = 1..Len(e.path)
                   /\ e.path \in [1..Len(e.path) -> Int]
  <2> TAKE e \in g
  <2>1. e.to \in Nat /\ e.path \in Seq(Nat)
    BY DEF EdgesFit
  <2> QED
    BY <2>1
<1>2. \A d, e \in g : <<d, e>> \in Less <=>
         \/ d.to < e.to
         \/ d.to = e.to /\ Len(d.path) < Len(e.path)
         \/ Same(d, e) /\ LexLess(Len(d.path), d.path, e.path)
  BY <1>1 DEF Ahead, LexLess
<1> HIDE DEF Less
<1>3. \A x \in g : <<x, x>> \notin Less
  BY <1>1, <1>2 DEF LexLess
<1>4. ASSUME NEW x \in g, NEW y \in g, NEW z \in g, <<x, y>> \in Less, <<y, z>> \in Less
      PROVE  <<x, z>> \in Less
  <2>1. ASSUME Same(x, y), LexLess(Len(x.path), x.path, y.path),
               Same(y, z), LexLess(Len(y.path), y.path, z.path)
        PROVE  Same(x, z) /\ LexLess(Len(x.path), x.path, z.path)
    <3> DEFINE n == Len(x.path)
    <3>1. n \in Nat /\ x.path \in [1..n -> Int] /\ y.path \in [1..n -> Int] /\ z.path \in [1..n -> Int]
      BY <1>1, <2>1
    <3>2. LexLess(n, x.path, y.path) /\ LexLess(n, y.path, z.path)
      BY <2>1
    <3> HIDE DEF n
    <3>3. LexLess(n, x.path, z.path)
      BY <3>1, <3>2, Lexicographic
    <3> QED
      BY <2>1, <3>3 DEF n
  <2> QED
    BY <1>1, <1>2, <1>4, <2>1
<1>5. ASSUME NEW x \in g, NEW y \in g, x # y PROVE <<x, y>> \in Less \/ <<y, x>> \in Less
  <2>1. ASSUME Same(x, y)
        PROVE  LexLess(Len(x.path), x.path, y.path) \/ LexLess(Len(x.path), y.path, x.path)
    <3> DEFINE n == Len(x.path)
               D == {i \in 1..n : x.path[i] # y.path[i]}
    <3>1. x.path # y.path
      BY <1>5 DEF EdgesFit
    <3>2. n \in Nat /\ x.path \in [1..n -> Int] /\ y.path \in [1..n -> Int]
      BY <1>1, <2>1
    <3> HIDE DEF n
    <3>3. D # {}
      <4>1. SUFFICES ASSUME \A i \in 1..n : x.path[i] = y.path[i] PROVE FALSE
        OBVIOUS
      <4>2. x.path \in Seq(Nat) /\ y.path \in Seq(Nat)
        BY DEF EdgesFit
      <4>3. Len(x.path) = n /\ Len(y.path) = n
        BY <2>1 DEF n
      <4>4. x.path = y.path
        BY <4>1, <4>2, <4>3, SameSeq
      <4> QED
        BY <3>1, <4>4
    <3>4. PICK m \in D : \A i \in D : m <= i
      <4>1. D \subseteq Nat
        OBVIOUS
      <4> HIDE DEF D
      <4> QED
        BY <3>3, <4>1, LeastOfSome
    <3>5. \A i \in 1..(m - 1) : x.path[i] = y.path[i]
      <4> TAKE i \in 1..(m - 1)
      <4>1. i \in 1..n /\ ~(m <= i)
        BY <3>2
      <4> QED
        BY <3>4, <4>1
    <3>6. x.path[m] < y.path[m] \/ y.path[m] < x.path[m]
      BY <3>2
    <3> QED
      BY <3>5, <3>6 DEF LexLess, n
  <2> QED
    BY <1>1, <1>2, <2>1
<1> QED
  BY <1>3, <1>4, <1>5 DEF StrictOn, TotalOn, Less

LEMMA InOrderLists ==
    ASSUME NEW g, EdgesFit(g), NEW es, es \subseteq g
    PROVE  Listed(InOrder(es), es)
<1> DEFINE Less == {p \in es \X es : Ahead(p[1], p[2])}
           More == {p \in g \X g : Ahead(p[1], p[2])}
<1>1. IsFiniteSet(es)
  BY FS_Subset DEF EdgesFit
<1>2. StrictOn(More, g) /\ TotalOn(More, g)
  BY AheadOrder
<1>3. \A d, e \in es : <<d, e>> \in Less <=> Ahead(d, e)
  OBVIOUS
<1>4. \A d, e \in es : <<d, e>> \in Less <=> <<d, e>> \in More
  OBVIOUS
<1>5. InOrder(es) = [k \in 1..Cardinality(es) |->
                       CHOOSE x \in es : Cardinality({y \in es : <<y, x>> \in Less}) = k - 1]
  <2>1. \A x \in es : {y \in es : Ahead(y, x)} = {y \in es : <<y, x>> \in Less}
    BY <1>3
  <2>2. InOrder(es) = [k \in 1..Cardinality(es) |->
                         CHOOSE x \in es : Cardinality({y \in es : Ahead(y, x)}) = k - 1]
    BY DEF InOrder, Sorted
  <2> HIDE DEF Less
  <2>3. \A k : (CHOOSE x \in es : Cardinality({y \in es : Ahead(y, x)}) = k - 1)
             = (CHOOSE x \in es : Cardinality({y \in es : <<y, x>> \in Less}) = k - 1)
    BY <2>1
  <2> QED
    BY <2>2, <2>3
<1> HIDE DEF Less, More
<1>6. StrictOn(Less, es) /\ TotalOn(Less, es)
  BY <1>2, <1>4 DEF StrictOn, TotalOn
<1> QED
  BY <1>1, <1>5, <1>6, ListIs

-----------------------------------------------------------------------------
(* A bounded search is a search of a tree: Kids are the entries that grow  *)
(* from one, Levels what grows from the first edge in so many steps.       *)
Entries == [node : Nat, nodes : Seq(Nat), path : Seq(Nat)]
Start(f) == [node |-> f.to, nodes |-> f.nodes, path |-> f.path]
Kid(w, e) == [node |-> e.to, nodes |-> Append(w.nodes, e.to), path |-> w.path \o e.path]
Fresh(g, w) == {e \in g : e.from = w.node /\ e.to \notin Range(w.nodes)}
Kids(g, w) == {Kid(w, e) : e \in Fresh(g, w)}
Open(goals, f, w) == w.node = f.from \/ w.node \notin goals

Deeper(g, goals, f, G) == G \cup UNION {Kids(g, w) : w \in {v \in G : Open(goals, f, v)}}

Levels(g, goals, f) ==
    LET grown[k \in 0..Cardinality(g)] ==
            IF k = 0 THEN {Start(f)} ELSE Deeper(g, goals, f, grown[k - 1])
    IN  grown

LEMMA KidIs ==
    ASSUME NEW g, EdgesFit(g), NEW w \in Entries, NEW v \in Kids(g, w)
    PROVE  v \in Entries
<1>1. PICK e \in Fresh(g, w) : v = Kid(w, e)
  BY DEF Kids
<1>2. e.to \in Nat /\ e.path \in Seq(Nat)
  BY DEF EdgesFit, Fresh
<1>3. w.nodes \in Seq(Nat) /\ w.path \in Seq(Nat)
  BY DEF Entries
<1>4. Append(w.nodes, e.to) \in Seq(Nat)
  BY <1>2, <1>3
<1>5. w.path \o e.path \in Seq(Nat)
  BY <1>2, <1>3
<1> QED
  BY <1>1, <1>2, <1>4, <1>5 DEF Kid, Entries

LEMMA LevelsAre ==
    ASSUME NEW g, EdgesFit(g), NEW goals, NEW f \in g
    PROVE  LET L == Levels(g, goals, f)
           IN  /\ L[0] = {Start(f)} /\ L[0] \subseteq Entries
               /\ \A k \in 1..Cardinality(g) : L[k] = Deeper(g, goals, f, L[k - 1])
               /\ \A k \in 0..Cardinality(g) : L[k] \subseteq Entries
<1> DEFINE N == Cardinality(g)
           X == SUBSET Entries
           base == {Start(f)}
           Next1(G) == Deeper(g, goals, f, G)
           onto == [p \in (1..N) \X X |-> Next1(p[2])]
           grown[k \in 0..N] == IF k = 0 THEN base ELSE Next1(grown[k - 1])
           Is(h) == h = [k \in 0..N |-> IF k = 0 THEN base ELSE Next1(h[k - 1])]
<1>1. N \in Nat
  BY FS_CardinalityType DEF EdgesFit
<1>2. base \in X
  BY DEF EdgesFit, Entries, Start
<1>3. ASSUME NEW G \in X PROVE Next1(G) \in X
  BY KidIs DEF Deeper
<1>4. Levels(g, goals, f) = grown
  BY DEF Levels
<1>5. grown = CHOOSE h : Is(h)
  OBVIOUS
<1>6. onto \in [(1..N) \X X -> X]
  BY <1>3
<1>7. \A k \in 1..N : \A c \in X : onto[<<k, c>>] = Next1(c)
  OBVIOUS
<1> HIDE DEF X, base, onto, Next1
<1>8. \E h : Is(h)
  <2> HIDE DEF N
  <2>3. PICK h \in [0..N -> X] : Follows(h, N, base, onto)
    BY <1>1, <1>2, <1>6, RecursionExists
  <2>4. h[0] = base /\ \A k \in 1..N : h[k] = Next1(h[k - 1])
    <3>1. \A k \in 1..N : k - 1 \in 0..N
      BY <1>1
    <3> QED
      BY <1>7, <2>3, <3>1 DEF Follows
  <2>5. \A k \in 0..N : h[k] = IF k = 0 THEN base ELSE Next1(h[k - 1])
    BY <1>1, <2>4
  <2>6. h = [k \in 0..N |-> h[k]]
    OBVIOUS
  <2> QED
    BY <2>5, <2>6
<1> HIDE DEF Is, grown
<1>9. Is(grown)
  BY <1>5, <1>8
<1>10. grown[0] = base /\ \A k \in 1..N : grown[k] = Next1(grown[k - 1])
  BY <1>1, <1>9 DEF Is
<1>11. \A k \in 0..N : grown[k] \in X
  <2> DEFINE Good == {k \in 0..N : grown[k] \in X}
  <2>1. 0 \in Good
    BY <1>1, <1>2, <1>10
  <2>2. ASSUME NEW k \in 1..N, k - 1 \in Good PROVE k \in Good
    BY <1>3, <1>10, <2>2
  <2> HIDE DEF Good
  <2>3. \A k \in 0..N : k \in Good
    BY <1>1, <2>1, <2>2, HandedOn
  <2> QED
    BY <2>3 DEF Good
<1> QED
  BY <1>2, <1>4, <1>10, <1>11 DEF X, base, Next1

(* What is found so deep is so deep in the tree because every step took it *)
(* to a new node: an entry is held with the set of these nodes.            *)
Held(g, goals, f, w) ==
    /\ w \in Entries
    /\ \E T : /\ T \subseteq Range(w.nodes) /\ T \subseteq {e.to : e \in g}
              /\ w \in Levels(g, goals, f)[Cardinality(T)]

LEMMA EndsFinite ==
    ASSUME NEW g, EdgesFit(g)
    PROVE  /\ IsFiniteSet({e.to : e \in g}) /\ Cardinality({e.to : e \in g}) \in Nat
           /\ Cardinality({e.to : e \in g}) <= Cardinality(g) /\ Cardinality(g) \in Nat
<1> DEFINE T == {e.to : e \in g}
           h == [e \in g |-> e.to]
<1>1. h \in Surjection(g, T)
  BY DEF Surjection
<1>2. IsFiniteSet(g)
  BY DEF EdgesFit
<1> HIDE DEF h, T
<1>3. IsFiniteSet(T) /\ Cardinality(T) <= Cardinality(g)
  BY <1>1, <1>2, FS_Surjection
<1>4. Cardinality(T) \in Nat /\ Cardinality(g) \in Nat
  BY <1>2, <1>3, FS_CardinalityType
<1> QED
  BY <1>3, <1>4 DEF T

LEMMA StartIsHeld ==
    ASSUME NEW g, EdgesFit(g), NEW goals, NEW f \in g
    PROVE  Held(g, goals, f, Start(f))
<1>1. Start(f) \in Levels(g, goals, f)[0] /\ Start(f) \in Entries
  BY LevelsAre
<1>2. Cardinality({}) = 0
  BY FS_EmptySet
<1> QED
  BY <1>1, <1>2 DEF Held

LEMMA KidIsHeld ==
    ASSUME NEW g, EdgesFit(g), NEW goals, NEW f \in g, NEW w, Held(g, goals, f, w),
           Open(goals, f, w), NEW v \in Kids(g, w)
    PROVE  Held(g, goals, f, v)
<1> DEFINE E == {e.to : e \in g}
           L == Levels(g, goals, f)
<1>1. PICK e \in Fresh(g, w) : v = Kid(w, e)
  BY DEF Kids
<1>2. e \in g /\ e.to \notin Range(w.nodes) /\ e.to \in E
  BY DEF Fresh
<1>3. PICK T : T \subseteq Range(w.nodes) /\ T \subseteq E /\ w \in L[Cardinality(T)]
  BY DEF Held
<1> DEFINE U == T \cup {e.to}
<1>4. IsFiniteSet(T) /\ IsFiniteSet(U) /\ Cardinality(U) = Cardinality(T) + 1
      /\ Cardinality(T) \in Nat /\ Cardinality(U) <= Cardinality(E)
  <2>1. IsFiniteSet(E)
    BY EndsFinite
  <2>2. e.to \notin T /\ U \subseteq E
    BY <1>2, <1>3
  <2> HIDE DEF E, U
  <2>3. IsFiniteSet(T)
    BY <1>3, <2>1, FS_Subset
  <2>4. Cardinality(U) <= Cardinality(E)
    BY <2>1, <2>2, FS_Subset
  <2>5. IsFiniteSet(U) /\ Cardinality(U) = Cardinality(T) + 1
    BY <2>2, <2>3, FS_AddElement DEF U
  <2> QED
    BY <2>3, <2>4, <2>5, FS_CardinalityType
<1>5. Cardinality(U) \in 1..Cardinality(g) /\ Cardinality(U) - 1 = Cardinality(T)
  BY <1>4, EndsFinite
<1>6. L[Cardinality(U)] = Deeper(g, goals, f, L[Cardinality(T)])
  BY <1>5, LevelsAre
<1>7. v \in L[Cardinality(U)]
  BY <1>3, <1>6 DEF Deeper
<1>8. w \in Entries /\ v \in Entries
  BY KidIs DEF Held
<1>9. U \subseteq Range(v.nodes)
  <2>1. w.nodes \in Seq(Nat) /\ e.to \in Nat
    BY <1>2, <1>8 DEF Entries, EdgesFit
  <2>2. v.nodes = Append(w.nodes, e.to)
    BY <1>1 DEF Kid
  <2>3. e.to \in Range(v.nodes)
    <3>1. Len(w.nodes) + 1 \in DOMAIN v.nodes /\ v.nodes[Len(w.nodes) + 1] = e.to
      BY <2>1, <2>2
    <3> QED
      BY <3>1 DEF Range
  <2>4. Range(w.nodes) \subseteq Range(v.nodes)
    <3>1. \A i \in DOMAIN w.nodes : i \in DOMAIN v.nodes /\ v.nodes[i] = w.nodes[i]
      BY <2>1, <2>2
    <3> QED
      BY <3>1 DEF Range
  <2> QED
    BY <1>3, <2>3, <2>4
<1>10. U \subseteq E
  BY <1>2, <1>3
<1> QED
  BY <1>7, <1>8, <1>9, <1>10 DEF Held

LEMMA LevelsGrow ==
    ASSUME NEW g, EdgesFit(g), NEW goals, NEW f \in g, NEW k \in 0..Cardinality(g)
    PROVE  Levels(g, goals, f)[k] \subseteq Levels(g, goals, f)[Cardinality(g)]
<1> DEFINE N == Cardinality(g)
           L == Levels(g, goals, f)
           Good == {m \in 0..N : k <= m => L[k] \subseteq L[m]}
<1>1. N \in Nat
  BY EndsFinite
<1>2. \A m \in 1..N : L[m - 1] \subseteq L[m]
  BY LevelsAre DEF Deeper
<1> HIDE DEF N, L
<1>3. 0 \in Good
  <2>1. k <= 0 => k = 0
    BY <1>1
  <2> QED
    BY <1>1, <2>1
<1>4. ASSUME NEW m \in 1..N, m - 1 \in Good PROVE m \in Good
  <2>1. CASE k <= m - 1
    BY <1>1, <1>2, <1>4, <2>1
  <2>2. CASE ~(k <= m - 1)
    <3>1. k <= m => k = m
      BY <1>1, <2>2 DEF N
    <3> QED
      BY <1>1, <3>1
  <2> QED
    BY <2>1, <2>2
<1> HIDE DEF Good
<1>5. \A m \in 0..N : m \in Good
  BY <1>1, <1>3, <1>4, HandedOn
<1>6. N \in 0..N /\ k <= N
  BY <1>1 DEF N
<1> QED
  BY <1>5, <1>6 DEF Good, N, L

(* A set of entries that begins with the first, is closed and held is all  *)
(* that there is.                                                          *)
LEMMA ClosedIsAll ==
    ASSUME NEW g, EdgesFit(g), NEW goals, NEW f \in g, NEW V, Start(f) \in V,
           \A w \in V : Held(g, goals, f, w),
           \A w \in V : Open(goals, f, w) => Kids(g, w) \subseteq V
    PROVE  V = Levels(g, goals, f)[Cardinality(g)]
<1> DEFINE N == Cardinality(g)
           L == Levels(g, goals, f)
           Good == {m \in 0..N : L[m] \subseteq V}
<1>1. N \in Nat
  BY EndsFinite
<1>2. L[0] = {Start(f)} /\ \A k \in 1..N : L[k] = Deeper(g, goals, f, L[k - 1])
  BY LevelsAre
<1>3. V \subseteq L[N]
  <2> SUFFICES ASSUME NEW w \in V PROVE w \in L[N]
    OBVIOUS
  <2>1. PICK T : T \subseteq {e.to : e \in g} /\ w \in L[Cardinality(T)]
    BY DEF Held
  <2>2. Cardinality(T) \in 0..N
    <3>1. IsFiniteSet(T) /\ Cardinality(T) <= Cardinality({e.to : e \in g})
      BY <2>1, EndsFinite, FS_Subset
    <3>2. Cardinality(T) \in Nat
      BY <3>1, FS_CardinalityType
    <3> QED
      BY <3>1, <3>2, EndsFinite
  <2> QED
    BY <2>1, <2>2, LevelsGrow
<1> HIDE DEF N, L
<1>4. 0 \in Good
  BY <1>1, <1>2
<1>5. ASSUME NEW k \in 1..N, k - 1 \in Good PROVE k \in Good
  <2>1. L[k] = Deeper(g, goals, f, L[k - 1]) /\ L[k - 1] \subseteq V
    BY <1>2, <1>5
  <2>2. L[k] \subseteq V
    BY <2>1 DEF Deeper
  <2> QED
    BY <1>1, <2>2
<1> HIDE DEF Good
<1>6. \A k \in 0..N : k \in Good
  BY <1>1, <1>4, <1>5, HandedOn
<1>7. N \in 0..N
  BY <1>1
<1>8. L[N] \subseteq V
  BY <1>6, <1>7 DEF Good
<1> QED
  BY <1>3, <1>8 DEF N, L

-----------------------------------------------------------------------------
(* A search under way: V is what it has visited.                           *)
Exploring(g, goals, f, V, stack, found) ==
    /\ V \subseteq Entries /\ stack \in Seq(Entries)
    /\ Start(f) \in V \cup Range(stack)
    /\ \A w \in V \cup Range(stack) : Held(g, goals, f, w)
    /\ \A w \in V : Open(goals, f, w) => Kids(g, w) \subseteq V \cup Range(stack)
    /\ found = {w \in V : ~Open(goals, f, w)}

LEMMA FrontAndLast ==
    ASSUME NEW S, NEW s \in Seq(S), s # <<>>
    PROVE  /\ Front(s) \in Seq(S) /\ Last(s) \in S
           /\ Range(s) = Range(Front(s)) \cup {Last(s)}
<1> DEFINE n == Len(s)
<1>1. n \in Nat \ {0} /\ DOMAIN s = 1..n /\ \A i \in 1..n : s[i] \in S
  <2>1. n \in Nat /\ DOMAIN s = 1..n /\ \A i \in 1..n : s[i] \in S
    OBVIOUS
  <2>2. n # 0
    OBVIOUS
  <2> QED
    BY <2>1, <2>2
<1>2. Front(s) = [i \in 1..(n - 1) |-> s[i]]
  <2>1. Front(s) = SubSeq(s, 1, n - 1)
    BY DEF Front
  <2> QED
    BY <1>1, <2>1
<1>3. Last(s) = s[n]
  BY DEF Last
<1> HIDE DEF n
<1>4. n - 1 \in Nat /\ \A i \in 1..(n - 1) : i \in 1..n
  BY <1>1
<1>5. Front(s) \in [1..(n - 1) -> S]
  BY <1>1, <1>2, <1>4
<1>6. Front(s) \in Seq(S)
  BY <1>4, <1>5
<1>7. DOMAIN Front(s) = 1..(n - 1) /\ \A i \in 1..(n - 1) : Front(s)[i] = s[i]
  BY <1>2
<1>8. n \in 1..n /\ \A i \in 1..n : i = n \/ i \in 1..(n - 1)
  BY <1>1
<1>9. Range(s) = {s[i] : i \in 1..n} /\ Range(Front(s)) = {s[i] : i \in 1..(n - 1)}
  BY <1>1, <1>7 DEF Range
<1>10. Range(s) = Range(Front(s)) \cup {Last(s)}
  BY <1>3, <1>4, <1>8, <1>9
<1> QED
  BY <1>1, <1>3, <1>6, <1>8, <1>10

LEMMA RangeOfBoth ==
    ASSUME NEW S, NEW a \in Seq(S), NEW b \in Seq(S)
    PROVE  a \o b \in Seq(S) /\ Range(a \o b) = Range(a) \cup Range(b)
<1> DEFINE m == Len(a)
           n == Len(b)
<1>1. /\ m \in Nat /\ n \in Nat /\ DOMAIN a = 1..m /\ DOMAIN b = 1..n
      /\ a \o b \in Seq(S) /\ Len(a \o b) = m + n /\ DOMAIN (a \o b) = 1..(m + n)
  OBVIOUS
<1>2. \A i \in 1..m : (a \o b)[i] = a[i]
  OBVIOUS
<1>3. \A i \in 1..n : (a \o b)[m + i] = b[i]
  OBVIOUS
<1> DEFINE c == a \o b
<1> HIDE DEF m, n, c
<1>4. \A i \in 1..m : i \in 1..(m + n)
  BY <1>1
<1>5. \A i \in 1..n : m + i \in 1..(m + n)
  BY <1>1
<1>6. \A i \in 1..(m + n) : i \in 1..m \/ \E j \in 1..n : i = m + j
  <2> TAKE i \in 1..(m + n)
  <2>1. CASE i <= m
    BY <1>1, <2>1
  <2>2. CASE ~(i <= m)
    <3>1. i - m \in 1..n /\ i = m + (i - m)
      BY <1>1, <2>2
    <3> QED
      BY <3>1
  <2> QED
    BY <2>1, <2>2
<1>7. /\ Range(c) = {c[i] : i \in 1..(m + n)} /\ Range(a) = {a[i] : i \in 1..m}
      /\ Range(b) = {b[i] : i \in 1..n}
  BY <1>1 DEF Range, c
<1>8. (\A i \in 1..m : c[i] = a[i]) /\ \A i \in 1..n : c[m + i] = b[i]
  BY <1>2, <1>3 DEF c, m, n
<1>9. Range(c) = Range(a) \cup Range(b)
  <2>1. Range(c) \subseteq Range(a) \cup Range(b)
    BY <1>6, <1>7, <1>8
  <2>2. Range(a) \subseteq Range(c)
    BY <1>4, <1>7, <1>8
  <2>3. Range(b) \subseteq Range(c)
    BY <1>5, <1>7, <1>8
  <2> QED
    BY <2>1, <2>2, <2>3
<1> QED
  BY <1>1, <1>9 DEF c

(* What is put on the stack after a node are its kids.                     *)
LEMMA GrownAreKids ==
    ASSUME NEW g, EdgesFit(g), NEW w \in Entries
    PROVE  /\ Grown(w, InOrder(Fresh(g, w))) \in Seq(Entries)
           /\ Range(Grown(w, InOrder(Fresh(g, w)))) = Kids(g, w)
<1> DEFINE es == Fresh(g, w)
           n == Cardinality(es)
           q == InOrder(es)
           s == Grown(w, q)
<1>1. es \subseteq g /\ IsFiniteSet(es) /\ n \in Nat
  <2>1. es \subseteq g
    BY DEF Fresh
  <2> HIDE DEF es
  <2> QED
    BY <2>1, FS_Subset, FS_CardinalityType DEF EdgesFit
<1>2. Listed(q, es)
  <2> HIDE DEF es
  <2> QED
    BY <1>1, InOrderLists
<1> HIDE DEF q, es, n
<1>3. q \in [1..n -> es] /\ DOMAIN q = 1..n /\ \A x \in es : \E k \in 1..n : q[k] = x
  BY <1>2 DEF Listed, n
<1>4. s = [i \in 1..n |-> Kid(w, q[i])]
  BY <1>3 DEF Grown, Kid
<1>5. \A e \in es : Kid(w, e) \in Kids(g, w) /\ Kid(w, e) \in Entries
  <2>1. \A e \in es : Kid(w, e) \in Kids(g, w)
    BY DEF Kids, es
  <2> QED
    BY <2>1, KidIs
<1> HIDE DEF s
<1>6. s \in [1..n -> Entries]
  BY <1>3, <1>4, <1>5
<1>7. Range(s) = Kids(g, w)
  <2>1. DOMAIN s = 1..n /\ \A i \in 1..n : s[i] = Kid(w, q[i])
    BY <1>4
  <2>2. Range(s) = {Kid(w, q[i]) : i \in 1..n}
    BY <2>1 DEF Range
  <2>3. Kids(g, w) = {Kid(w, e) : e \in es}
    BY DEF Kids, es
  <2> QED
    BY <1>3, <2>2, <2>3
<1> QED
  BY <1>1, <1>6, <1>7 DEF s, q, es

LEMMA ExploringStarts ==
    ASSUME NEW g, EdgesFit(g), NEW goals, NEW f \in g
    PROVE  Exploring(g, goals, f, {}, <<Start(f)>>, {})
<1>1. Held(g, goals, f, Start(f)) /\ Start(f) \in Entries
  BY StartIsHeld DEF Held
<1>2. <<Start(f)>> \in Seq(Entries) /\ Range(<<Start(f)>>) = {Start(f)}
  BY <1>1 DEF Range
<1> QED
  BY <1>1, <1>2 DEF Exploring

LEMMA ExploringGoesOn ==
    ASSUME NEW g, EdgesFit(g), NEW goals, NEW f \in g, NEW V, NEW stack, NEW found,
           Exploring(g, goals, f, V, stack, found), stack # <<>>
    PROVE  LET top == Last(stack)
               W == V \cup {top}
           IN  /\ top \in Entries /\ Front(stack) \in Seq(Entries)
               /\ ~Open(goals, f, top) => Exploring(g, goals, f, W, Front(stack), found \cup {top})
               /\ Open(goals, f, top) =>
                    Exploring(g, goals, f, W, Front(stack) \o Grown(top, InOrder(Fresh(g, top))), found)
<1> DEFINE top == Last(stack)
           W == V \cup {top}
           more == Grown(top, InOrder(Fresh(g, top)))
<1>1. stack \in Seq(Entries) /\ V \subseteq Entries
  BY DEF Exploring
<1>2. top \in Entries /\ Front(stack) \in Seq(Entries) /\ Range(stack) = Range(Front(stack)) \cup {top}
  BY <1>1, FrontAndLast
<1>3. Held(g, goals, f, top)
  BY <1>2 DEF Exploring
<1>4. V \cup Range(stack) = W \cup Range(Front(stack))
  BY <1>2
<1> HIDE DEF top
<1>5. ASSUME ~Open(goals, f, top)
      PROVE  Exploring(g, goals, f, W, Front(stack), found \cup {top})
  <2>1. found \cup {top} = {w \in W : ~Open(goals, f, w)}
    BY <1>5 DEF Exploring
  <2>2. \A w \in W : Open(goals, f, w) => Kids(g, w) \subseteq W \cup Range(Front(stack))
    BY <1>4, <1>5 DEF Exploring
  <2> QED
    BY <1>1, <1>2, <1>4, <2>1, <2>2 DEF Exploring
<1>6. ASSUME Open(goals, f, top)
      PROVE  Exploring(g, goals, f, W, Front(stack) \o more, found)
  <2>1. more \in Seq(Entries) /\ Range(more) = Kids(g, top)
    BY <1>2, GrownAreKids
  <2> HIDE DEF more
  <2> DEFINE new == Front(stack) \o more
  <2>2. new \in Seq(Entries) /\ Range(new) = Range(Front(stack)) \cup Kids(g, top)
    BY <1>2, <2>1, RangeOfBoth
  <2> HIDE DEF new
  <2>3. W \cup Range(new) = (V \cup Range(stack)) \cup Kids(g, top)
    BY <1>2, <2>2
  <2>4. \A w \in Kids(g, top) : Held(g, goals, f, w)
    BY <1>3, <1>6, KidIsHeld
  <2>5. \A w \in W \cup Range(new) : Held(g, goals, f, w)
    BY <2>3, <2>4 DEF Exploring
  <2>6. \A w \in W : Open(goals, f, w) => Kids(g, w) \subseteq W \cup Range(new)
    BY <2>3 DEF Exploring
  <2>7. found = {w \in W : ~Open(goals, f, w)}
    BY <1>6 DEF Exploring
  <2>8. Start(f) \in W \cup Range(new)
    BY <2>3 DEF Exploring
  <2> QED
    BY <1>1, <1>2, <2>2, <2>5, <2>6, <2>7, <2>8 DEF Exploring, new
<1> QED
  BY <1>2, <1>5, <1>6 DEF top

LEMMA ExploredAll ==
    ASSUME NEW g, EdgesFit(g), NEW goals, NEW f \in g, NEW V, NEW found,
           Exploring(g, goals, f, V, <<>>, found)
    PROVE  found = {w \in Levels(g, goals, f)[Cardinality(g)] : ~Open(goals, f, w)}
<1>1. Range(<<>>) = {}
  BY DEF Range
<1>2. V = Levels(g, goals, f)[Cardinality(g)]
  BY <1>1, ClosedIsAll DEF Exploring
<1> QED
  BY <1>2 DEF Exploring

-----------------------------------------------------------------------------
(* The searches that wait and the one that runs.                           *)
Tree(g, goals, f) == Levels(g, goals, f)[Cardinality(g)]
FoundBy(kind, e) ==
    {w \in Tree(Graph(kind), Goals(kind), e) : ~Open(Goals(kind), e, w)}

Searching ==
    /\ phase = "arcs" => todo = {} /\ cur = Idle
    /\ \A t \in todo : t.kind \in {"trace", "terminal", "reverse"} /\ t.edge \in Graph(t.kind)
    /\ cur # Idle =>
          /\ cur.kind \in {"trace", "terminal", "reverse"} /\ cur.edge \in Graph(cur.kind)
          /\ cur.overflow \in BOOLEAN
          /\ ~cur.overflow =>
                \E V : Exploring(Graph(cur.kind), Goals(cur.kind), cur.edge, V, cur.stack, cur.found)

LEMMA GraphFits == ASSUME GraphStays, phase # "arcs", NEW kind PROVE EdgesFit(Graph(kind))
<1>1. EdgesFit(edges)
  BY RoadsFitHere, CompressedFit DEF GraphStays
<1> QED
  BY <1>1, ReversedFit DEF Graph

LEMMA SearchingInit == Init => Searching
BY DEF Init, Searching

LEMMA SearchingBegin == ASSUME GraphStays, Searched, Searching, Begin PROVE Searching'
<1> DEFINE next == CHOOSE t \in todo : TRUE
           e == next.edge
<1>1. /\ cur = Idle /\ next \in todo /\ todo' = todo \ {next}
      /\ cur' = [kind |-> next.kind, edge |-> e, stack |-> <<Start(e)>>,
                 expansions |-> 1, overflow |-> FALSE, found |-> {}]
      /\ phase' = phase /\ edges' = edges /\ arcs' = arcs
  BY DEF Begin, Start
<1> HIDE DEF next
<1>2. next.kind \in {"trace", "terminal", "reverse"} /\ e \in Graph(next.kind) /\ phase # "arcs"
  BY <1>1 DEF Searching
<1>3. Exploring(Graph(next.kind), Goals(next.kind), e, {}, <<Start(e)>>, {})
  BY <1>2, GraphFits, ExploringStarts
<1> HIDE DEF e
<1>4. \A k : Graph(k)' = Graph(k) /\ Goals(k)' = Goals(k)
  BY <1>1 DEF Graph, Goals
<1>5. cur'.kind = next.kind /\ cur'.edge = e /\ cur'.overflow = FALSE /\ cur'.stack = <<Start(e)>>
      /\ cur'.found = {}
  BY <1>1
<1>6. \E V : Exploring(Graph(cur.kind)', Goals(cur.kind)', cur'.edge, V, cur'.stack, cur'.found)
  BY <1>3, <1>5, <1>1 DEF Graph, Goals
<1>7. \A t \in todo' : t.kind \in {"trace", "terminal", "reverse"} /\ t.edge \in Graph(t.kind)'
  BY <1>1, <1>4 DEF Searching
<1>8. cur'.edge \in Graph(cur.kind)'
  BY <1>1, <1>2, <1>5 DEF Graph
<1> QED
  BY <1>1, <1>2, <1>5, <1>6, <1>7, <1>8 DEF Searching

LEMMA SearchingVisit == ASSUME GraphStays, Searched, Searching, Visit PROVE Searching'
<1> DEFINE g == Graph(cur.kind)
           goals == Goals(cur.kind)
           f == cur.edge
           top == Last(cur.stack)
           more == Front(cur.stack) \o Grown(top, InOrder(Fresh(g, top)))
           goal == top.node \in goals \ {f.from}
<1>1. /\ cur # Idle /\ cur.stack # <<>> /\ cur' = Visited(top, Front(cur.stack))
      /\ phase' = phase /\ edges' = edges /\ arcs' = arcs /\ todo' = todo
  BY DEF Visit
<1>2. cur = [kind |-> cur.kind, edge |-> cur.edge, stack |-> cur.stack,
             expansions |-> cur.expansions, overflow |-> cur.overflow, found |-> cur.found]
  BY <1>1 DEF Searched, Running
<1>3. phase # "arcs" /\ cur.kind \in {"trace", "terminal", "reverse"} /\ f \in g
      /\ cur.overflow \in BOOLEAN
  BY <1>1 DEF Searching
<1>4. EdgesFit(g)
  BY <1>3, GraphFits
<1>5. \/ /\ goal
         /\ cur' = [cur EXCEPT !.stack = Front(cur.stack), !.found = cur.found \cup {top}]
      \/ cur' = [cur EXCEPT !.stack = <<>>, !.overflow = TRUE, !.expansions = MaxExpansions]
      \/ /\ ~goal
         /\ \E x : cur' = [cur EXCEPT !.stack = more, !.expansions = x]
  <2>1. CASE goal
    BY <1>1, <2>1 DEF Visited
  <2>2. CASE ~goal
    <3> DEFINE over == [cur EXCEPT !.stack = <<>>, !.overflow = TRUE, !.expansions = MaxExpansions]
    <3>1. {e \in WaysOut(top.node) : e.to \notin Range(top.nodes)} = Fresh(g, top)
      BY DEF WaysOut, Fresh
    <3>2. cur' = over \/ \E x : cur' = [cur EXCEPT !.stack = more, !.expansions = x]
      BY <1>1, <2>2, <3>1 DEF Visited
    <3> QED
      BY <2>2, <3>2
  <2> QED
    BY <2>1, <2>2
<1> HIDE DEF more
<1>6. /\ cur'.kind = cur.kind /\ cur'.edge = f /\ cur'.overflow \in BOOLEAN
      /\ \/ goal /\ cur'.stack = Front(cur.stack) /\ cur'.found = cur.found \cup {top}
                 /\ cur'.overflow = cur.overflow
         \/ cur'.overflow = TRUE
         \/ ~goal /\ cur'.stack = more /\ cur'.found = cur.found /\ cur'.overflow = cur.overflow
  <2> HIDE DEF goal, top
  <2>1. CASE goal /\ cur' = [cur EXCEPT !.stack = Front(cur.stack), !.found = cur.found \cup {top}]
    BY <1>2, <1>3, <2>1
  <2>2. CASE cur' = [cur EXCEPT !.stack = <<>>, !.overflow = TRUE, !.expansions = MaxExpansions]
    BY <1>2, <1>3, <2>2
  <2>3. ASSUME ~goal, NEW x, cur' = [cur EXCEPT !.stack = more, !.expansions = x]
        PROVE  /\ cur'.kind = cur.kind /\ cur'.edge = f /\ cur'.overflow \in BOOLEAN
               /\ ~goal /\ cur'.stack = more /\ cur'.found = cur.found /\ cur'.overflow = cur.overflow
    BY <1>2, <1>3, <2>3
  <2> QED
    BY <1>5, <2>1, <2>2, <2>3
<1>7. goal <=> ~Open(goals, f, top)
  BY DEF Open
<1>8. ASSUME ~cur'.overflow
      PROVE  \E V : Exploring(g, goals, f, V, cur'.stack, cur'.found)
  <2>1. ~cur.overflow
    BY <1>3, <1>6, <1>8
  <2>2. PICK V : Exploring(g, goals, f, V, cur.stack, cur.found)
    BY <1>1, <2>1 DEF Searching
  <2>3. /\ ~Open(goals, f, top) =>
              Exploring(g, goals, f, V \cup {top}, Front(cur.stack), cur.found \cup {top})
        /\ Open(goals, f, top) => Exploring(g, goals, f, V \cup {top}, more, cur.found)
    BY <1>1, <1>3, <1>4, <2>2, ExploringGoesOn DEF more
  <2> HIDE DEF g, goals, f, top, goal
  <2>4. Exploring(g, goals, f, V \cup {top}, cur'.stack, cur'.found)
    <3>1. CASE goal
      BY <1>6, <1>7, <1>8, <2>3, <3>1
    <3>2. CASE ~goal
      BY <1>6, <1>7, <1>8, <2>3, <3>2
    <3> QED
      BY <3>1, <3>2
  <2> QED
    BY <2>4
<1>9. \A k : Graph(k)' = Graph(k) /\ Goals(k)' = Goals(k)
  BY <1>1 DEF Graph, Goals
<1>10. Graph(cur.kind)' = g /\ Goals(cur.kind)' = goals
  BY <1>1, <1>6 DEF Graph, Goals
<1>11. ~cur'.overflow =>
         \E V : Exploring(Graph(cur.kind)', Goals(cur.kind)', cur'.edge, V, cur'.stack, cur'.found)
  BY <1>6, <1>8, <1>10
<1>12. \A t \in todo' : t.kind \in {"trace", "terminal", "reverse"} /\ t.edge \in Graph(t.kind)'
  BY <1>1, <1>9 DEF Searching
<1>13. cur'.edge \in Graph(cur.kind)' /\ cur'.kind \in {"trace", "terminal", "reverse"}
  BY <1>3, <1>6, <1>10
<1>14. phase' # "arcs"
  BY <1>1, <1>3
<1> QED
  BY <1>6, <1>11, <1>12, <1>13, <1>14 DEF Searching

LEMMA SearchingNext ==
    GraphStays /\ Searched /\ Searching /\ [Next]_vars => Searching'
<1> SUFFICES ASSUME GraphStays, Searched, Searching, [Next]_vars PROVE Searching'
  OBVIOUS
<1>1. CASE BuildArcs
  <2>1. /\ phase' = "trace" /\ cur' = cur /\ cur = Idle
        /\ \A t \in todo' : t.kind \in {"trace", "terminal"} /\ t.edge \in edges'
    BY <1>1 DEF BuildArcs, Searching
  <2> QED
    BY <2>1 DEF Searching, Graph
<1>2. CASE TurnBack
  <2>1. /\ phase' = "reverse" /\ cur' = Idle /\ edges' = edges
        /\ \A t \in todo' : t.kind = "reverse" /\ t.edge \in Reversed(edges)
    BY <1>2 DEF TurnBack
  <2> QED
    BY <2>1 DEF Searching, Graph
<1>3. CASE Conclude \/ Finish
  <2>1. /\ phase' # "arcs" \/ phase' = phase
        /\ cur' = Idle /\ todo' = todo /\ edges' = edges
    BY <1>3 DEF Conclude, Finish
  <2> QED
    BY <2>1 DEF Searching, Graph
<1>4. CASE UNCHANGED vars
  BY <1>4 DEF vars, Searching, Graph, Goals
<1> QED
  BY <1>1, <1>2, <1>3, <1>4, SearchingBegin, SearchingVisit DEF Next

LEMMA FoundIsExact ==
    ASSUME GraphStays, Searching, cur # Idle, cur.stack = <<>>, ~cur.overflow
    PROVE  cur.found = FoundBy(cur.kind, cur.edge)
<1>1. EdgesFit(Graph(cur.kind)) /\ cur.edge \in Graph(cur.kind)
  BY GraphFits DEF Searching
<1>2. PICK V : Exploring(Graph(cur.kind), Goals(cur.kind), cur.edge, V, <<>>, cur.found)
  BY DEF Searching
<1> QED
  BY <1>1, <1>2, ExploredAll DEF FoundBy, Tree

LEMMA ExactSearch == ASSUME GraphStays, Searching PROVE SearchIsExact
<1> SUFFICES ASSUME cur # Idle, cur.stack = <<>>, ~cur.overflow PROVE SearchIsExact
  BY DEF SearchIsExact
<1>1. cur.found = FoundBy(cur.kind, cur.edge)
  BY FoundIsExact
<1> DEFINE g == Graph(cur.kind)
           grown == Levels(g, Goals(cur.kind), cur.edge)
<1>2. cur.found = {w \in grown[Cardinality(g)] : ~Open(Goals(cur.kind), cur.edge, w)}
  BY <1>1 DEF FoundBy, Tree
<1>3. \A w : ~Open(Goals(cur.kind), cur.edge, w)
             <=> w.node # cur.edge.from /\ w.node \in Goals(cur.kind)
  BY DEF Open
<1>4. cur.found = {w \in grown[Cardinality(g)] : w.node # cur.edge.from /\ w.node \in Goals(cur.kind)}
  BY <1>2, <1>3
<1> QED
  BY <1>4 DEF SearchIsExact, Levels, Deeper, Kids, Kid, Fresh, Open, Start

-----------------------------------------------------------------------------
(* Between walks and ways: cutting out what returns to where it was leaves *)
(* a way.                                                                  *)
Between(w, a, b) == w[1].from = a /\ Last(w).to = b

Cut(w, i, j) == [k \in 1..(Len(w) - (j - i + 1)) |-> IF k < i THEN w[k] ELSE w[k + (j - i + 1)]]

LEMMA CutIs ==
    ASSUME NEW R, NEW w, Walk(R, w), NEW j \in 1..Len(w), NEW i \in 1..j, w[j].to = w[i].from,
           w[1].from # Last(w).to
    PROVE  LET q == Cut(w, i, j)
           IN  /\ Walk(R, q) /\ Len(q) < Len(w) /\ Inner(q) \subseteq Inner(w)
               /\ Between(q, w[1].from, Last(w).to)
<1> DEFINE n == Len(w)
           d == j - i + 1
           m == n - d
           q == Cut(w, i, j)
<1>1. /\ n \in Nat \ {0} /\ Last(w) = w[n] /\ \A k \in 1..n : w[k] \in R
      /\ \A k \in 1..(n - 1) : w[k + 1].from = w[k].to
  BY DEF Walk, Last
<1> HIDE DEF n
<1>2. j \in 1..n /\ i \in 1..n /\ i <= j
  BY DEF n
<1>3. q = [k \in 1..m |-> IF k < i THEN w[k] ELSE w[k + d]]
  BY DEF Cut, n
<1>4. ~(i = 1 /\ j = n)
  BY <1>1
<1>5. m \in Nat \ {0} /\ m < n /\ d \in Nat \ {0} /\ m + d = n /\ i - 1 <= m /\ (m < i => m = i - 1 /\ j = n)
  BY <1>1, <1>2, <1>4
<1>6. \A k \in 1..m : q[k] = IF k < i THEN w[k] ELSE w[k + d]
  BY <1>3
<1>7. \A k \in 1..m : k \in 1..n /\ k + d \in 1..n
  BY <1>1, <1>5
<1>8. i + d = j + 1
  BY <1>2
<1> HIDE DEF q, m, d
<1>9. q \in [1..m -> R]
  <2>1. \A k \in 1..m : (IF k < i THEN w[k] ELSE w[k + d]) \in R
    BY <1>1, <1>7
  <2> QED
    BY <1>3, <2>1
<1>10. q \in Seq(R) /\ Len(q) = m /\ Last(q) = q[m]
  <2>1. m \in Nat /\ DOMAIN q = 1..m
    BY <1>5, <1>9
  <2>2. q \in Seq(R) /\ Len(q) = m
    BY <1>9, <2>1
  <2> QED
    BY <2>2 DEF Last
<1>11. \A k \in 1..(m - 1) : q[k + 1].from = q[k].to
  <2> TAKE k \in 1..(m - 1)
  <2>1. k \in 1..m /\ k + 1 \in 1..m /\ k \in 1..(n - 1) /\ k + d \in 1..(n - 1) /\ (k + d) + 1 = (k + 1) + d
    BY <1>1, <1>5
  <2>2. w[k + 1].from = w[k].to /\ w[(k + d) + 1].from = w[k + d].to
    BY <1>1, <2>1
  <2>3. CASE k + 1 < i
    BY <1>2, <1>6, <2>1, <2>2, <2>3
  <2>4. CASE k + 1 = i
    <3>1. q[k] = w[k] /\ q[k + 1] = w[i + d]
      BY <1>2, <1>6, <2>1, <2>4
    <3>2. j \in 1..(n - 1) /\ w[i + d] = w[j + 1]
      BY <1>8, <1>1, <1>2, <2>1, <2>4
    <3>3. w[j + 1].from = w[i].from
      BY <1>1, <3>2
    <3> QED
      BY <2>2, <2>4, <3>1, <3>2, <3>3
  <2>5. CASE ~(k < i)
    <3>1. q[k] = w[k + d] /\ q[k + 1] = w[(k + 1) + d]
      BY <1>2, <1>6, <2>1, <2>5
    <3> QED
      BY <2>1, <2>2, <3>1
  <2> QED
    BY <1>2, <2>1, <2>3, <2>4, <2>5
<1>12. q[1].from = w[1].from
  <2>1. 1 \in 1..m
    BY <1>5
  <2>2. CASE 1 < i
    BY <1>6, <2>1, <2>2
  <2>3. CASE i = 1
    <3>1. q[1] = w[1 + d]
      BY <1>6, <2>1, <2>3
    <3>2. j \in 1..(n - 1) /\ 1 + d = j + 1
      BY <1>1, <1>2, <1>4, <1>8, <2>3
    <3>3. w[j + 1].from = w[j].to
      BY <1>1, <3>2
    <3> QED
      BY <2>3, <3>1, <3>2, <3>3
  <2> QED
    BY <1>2, <2>2, <2>3
<1>13. q[m].to = w[n].to
  <2>1. m \in 1..m
    BY <1>5
  <2>2. CASE m < i
    <3>1. m = i - 1 /\ j = n /\ q[m] = w[m] /\ m \in 1..(n - 1) /\ m + 1 = i
      BY <1>1, <1>2, <1>5, <1>6, <2>1, <2>2
    <3>2. w[i].from = w[m].to
      BY <1>1, <3>1
    <3> QED
      BY <3>1, <3>2
  <2>3. CASE ~(m < i)
    BY <1>5, <1>6, <2>1, <2>3
  <2> QED
    BY <2>2, <2>3
<1>14. Inner(q) \subseteq Inner(w)
  <2> SUFFICES ASSUME NEW k \in 1..(m - 1) PROVE \E l \in 1..(n - 1) : q[k].to = w[l].to
    BY <1>10 DEF Inner, n
  <2>1. k \in 1..m /\ k \in 1..(n - 1) /\ k + d \in 1..(n - 1)
    BY <1>1, <1>5
  <2> QED
    BY <1>6, <2>1
<1> QED
  BY <1>1, <1>5, <1>10, <1>11, <1>12, <1>13, <1>14 DEF Walk, Between, q, n

LEMMA WalkHasWay ==
    ASSUME NEW R, NEW p, Walk(R, p), p[1].from # Last(p).to
    PROVE  \E w : /\ Simple(R, w) /\ Between(w, p[1].from, Last(p).to)
                  /\ Inner(w) \subseteq Inner(p)
<1> DEFINE Shorter == {w \in Seq(R) : /\ Walk(R, w) /\ Between(w, p[1].from, Last(p).to)
                                      /\ Inner(w) \subseteq Inner(p)}
           Lengths == {Len(w) : w \in Shorter}
<1>1. Lengths \subseteq Nat
  BY DEF Walk
<1>2. Len(p) \in Lengths
  BY DEF Walk, Between
<1>3. PICK n \in Lengths : \A m \in Lengths : n <= m
  <2> HIDE DEF Lengths
  <2> QED
    BY <1>1, <1>2, LeastOfSome
<1>4. PICK w \in Shorter : n = Len(w)
  BY <1>3
<1>5. Walk(R, w) /\ Between(w, p[1].from, Last(p).to) /\ Inner(w) \subseteq Inner(p)
  BY <1>4
<1>6. ASSUME NEW j \in 1..Len(w), NEW i \in 1..j, w[j].to = w[i].from PROVE FALSE
  <2> DEFINE q == Cut(w, i, j)
  <2>1. w[1].from # Last(w).to
    BY <1>5 DEF Between
  <2>2. /\ Walk(R, q) /\ Len(q) < Len(w) /\ Inner(q) \subseteq Inner(w)
        /\ Between(q, w[1].from, Last(w).to)
    BY <1>5, <1>6, <2>1, CutIs
  <2> HIDE DEF q
  <2>3. q \in Shorter /\ Len(q) \in Nat /\ Len(w) \in Nat
    BY <1>5, <2>2 DEF Between, Walk
  <2>4. Len(w) <= Len(q)
    BY <1>3, <1>4, <2>3
  <2> QED
    BY <2>2, <2>3, <2>4
<1>7. Simple(R, w)
  BY <1>5, <1>6 DEF Simple
<1> QED
  BY <1>5, <1>7

(* One walk after another.                                                 *)
LEMMA WalksJoin ==
    ASSUME NEW R, NEW p, Walk(R, p), NEW c, Walk(R, c), Last(p).to = c[1].from
    PROVE  /\ Walk(R, p \o c) /\ Between(p \o c, p[1].from, Last(c).to)
           /\ Inner(p \o c) = Inner(p) \cup Inner(c) \cup {c[1].from}
<1> DEFINE m == Len(p)
           n == Len(c)
           q == p \o c
<1>1. /\ p \in Seq(R) /\ c \in Seq(R) /\ m \in Nat \ {0} /\ n \in Nat \ {0}
      /\ Last(p) = p[m] /\ Last(c) = c[n]
  BY DEF Walk, Last
<1>2. q \in Seq(R) /\ Len(q) = m + n
  BY <1>1
<1>3. \A i \in 1..m : q[i] = p[i]
  BY <1>1
<1>4. \A i \in 1..n : q[m + i] = c[i]
  BY <1>1
<1>5. Last(q) = q[m + n]
  BY <1>2 DEF Last
<1>6. /\ \A i \in 1..(m - 1) : p[i + 1].from = p[i].to
      /\ \A i \in 1..(n - 1) : c[i + 1].from = c[i].to
  BY DEF Walk
<1>7. Inner(p) = {p[i].to : i \in 1..(m - 1)} /\ Inner(c) = {c[i].to : i \in 1..(n - 1)}
      /\ Inner(q) = {q[i].to : i \in 1..(m + n - 1)}
  BY <1>2 DEF Inner
<1> HIDE DEF m, n, q
<1>8. ASSUME NEW i \in 1..(m + n - 1)
      PROVE  /\ q[i + 1].from = q[i].to
             /\ q[i].to \in Inner(p) \cup Inner(c) \cup {c[1].from}
  <2>1. CASE i < m
    <3>1. i \in 1..(m - 1) /\ i \in 1..m /\ i + 1 \in 1..m
      BY <1>1, <2>1
    <3> QED
      BY <1>3, <1>6, <1>7, <3>1
  <2>2. CASE i = m
    <3>1. m \in 1..m /\ 1 \in 1..n
      BY <1>1
    <3>2. q[m] = p[m] /\ q[m + 1] = c[1]
      BY <1>3, <1>4, <3>1
    <3> QED
      BY <1>1, <2>2, <3>2
  <2>3. CASE i > m
    <3> DEFINE k == i - m
    <3>1. k \in 1..(n - 1) /\ k \in 1..n /\ k + 1 \in 1..n /\ i = m + k /\ i + 1 = m + (k + 1)
      BY <1>1, <2>3
    <3> HIDE DEF k
    <3>2. q[i] = c[k] /\ q[i + 1] = c[k + 1]
      BY <1>4, <3>1
    <3> QED
      BY <1>6, <1>7, <3>1, <3>2
  <2> QED
    BY <1>1, <2>1, <2>2, <2>3
<1>9. Inner(p) \cup Inner(c) \cup {c[1].from} \subseteq Inner(q)
  <2>1. ASSUME NEW i \in 1..(m - 1) PROVE p[i].to \in Inner(q)
    <3>1. i \in 1..m /\ i \in 1..(m + n - 1)
      BY <1>1
    <3> QED
      BY <1>3, <1>7, <3>1
  <2>2. ASSUME NEW i \in 1..(n - 1) PROVE c[i].to \in Inner(q)
    <3>1. i \in 1..n /\ m + i \in 1..(m + n - 1)
      BY <1>1
    <3> QED
      BY <1>4, <1>7, <3>1
  <2>3. c[1].from \in Inner(q)
    <3>1. m \in 1..m /\ m \in 1..(m + n - 1) /\ q[m] = p[m]
      BY <1>1, <1>3
    <3> QED
      BY <1>1, <1>7, <3>1
  <2> QED
    BY <1>7, <2>1, <2>2, <2>3
<1>10. q[1].from = p[1].from /\ Last(q).to = Last(c).to
  <2>1. 1 \in 1..m /\ n \in 1..n
    BY <1>1
  <2> QED
    BY <1>1, <1>3, <1>4, <1>5, <2>1
<1>11. Walk(R, q)
  <2>1. Len(q) \in Nat \ {0} /\ Len(q) - 1 = m + n - 1
    BY <1>1, <1>2
  <2>2. \A i \in 1..(Len(q) - 1) : q[i + 1].from = q[i].to
    BY <1>8, <2>1
  <2> QED
    BY <1>2, <2>1, <2>2 DEF Walk
<1>12. Inner(q) = Inner(p) \cup Inner(c) \cup {c[1].from}
  <2>1. Inner(q) \subseteq Inner(p) \cup Inner(c) \cup {c[1].from}
    BY <1>7, <1>8
  <2> QED
    BY <1>9, <2>1
<1> QED
  BY <1>10, <1>11, <1>12 DEF Between, q

-----------------------------------------------------------------------------
(* What a search over the compressed roads finds, the roads lead to.       *)
LEMMA EdgeIsWalk ==
    ASSUME NEW R, RoadsFit(R), NEW e \in Compressed(R)
    PROVE  \E c : /\ Walk(R, c) /\ Between(c, e.from, e.to) /\ Inner(c) \subseteq Removable(R)
                  /\ e = Edge(c) /\ c = Chain(R, c[1])
<1>1. PICK r \in R : e = Edge(Chain(R, r))
  BY DEF Compressed
<1> DEFINE c == Chain(R, r)
<1>2. Corridor(R, c) /\ c[1] = r /\ e = Edge(c) /\ c = Chain(R, c[1])
  BY <1>1, ChainIs
<1> HIDE DEF c
<1>3. Walk(R, c) /\ Inner(c) \subseteq Removable(R)
  BY <1>2 DEF Corridor, Inner
<1>4. e.from = c[1].from /\ e.to = Last(c).to
  BY <1>2 DEF Edge
<1> QED
  BY <1>2, <1>3, <1>4 DEF Between

LEMMA EntryHasWalk ==
    ASSUME NEW R, RoadsFit(R), NEW goals \in SUBSET Cross, NEW f \in Compressed(R),
           NEW x \in Tree(Compressed(R), goals, f)
    PROVE  \E p : /\ Walk(R, p) /\ Between(p, f.from, x.node)
                  /\ Inner(p) \cap goals \subseteq {f.from}
<1> DEFINE g == Compressed(R)
           N == Cardinality(g)
           L == Levels(g, goals, f)
           Led(v) == \E p : /\ Walk(R, p) /\ Between(p, f.from, v.node)
                            /\ Inner(p) \cap goals \subseteq {f.from}
           Good == {k \in 0..N : \A v \in L[k] : Led(v)}
<1>1. EdgesFit(g) /\ N \in Nat
  BY CompressedFit, EndsFinite
<1>2. L[0] = {Start(f)} /\ \A k \in 1..N : L[k] = Deeper(g, goals, f, L[k - 1])
  BY <1>1, LevelsAre
<1>3. goals \cap Removable(R) = {}
  BY DEF Removable
<1>4. Led(Start(f))
  <2>1. PICK c : Walk(R, c) /\ Between(c, f.from, f.to) /\ Inner(c) \subseteq Removable(R)
    BY EdgeIsWalk
  <2> QED
    BY <1>3, <2>1 DEF Start
<1>5. ASSUME NEW v, Led(v), Open(goals, f, v), NEW u \in Kids(g, v) PROVE Led(u)
  <2>1. PICK e \in Fresh(g, v) : u = Kid(v, e)
    BY DEF Kids
  <2>2. e \in g /\ e.from = v.node /\ u.node = e.to
    BY <2>1 DEF Fresh, Kid
  <2>3. PICK c : Walk(R, c) /\ Between(c, e.from, e.to) /\ Inner(c) \subseteq Removable(R)
    BY <2>2, EdgeIsWalk
  <2>4. PICK p : /\ Walk(R, p) /\ Between(p, f.from, v.node)
                 /\ Inner(p) \cap goals \subseteq {f.from}
    BY <1>5
  <2>5. Last(p).to = c[1].from /\ c[1].from = v.node
    BY <2>2, <2>3, <2>4 DEF Between
  <2>6. /\ Walk(R, p \o c) /\ Between(p \o c, p[1].from, Last(c).to)
        /\ Inner(p \o c) = Inner(p) \cup Inner(c) \cup {c[1].from}
    BY <2>3, <2>4, <2>5, WalksJoin
  <2>7. Between(p \o c, f.from, u.node)
    BY <2>2, <2>3, <2>4, <2>6 DEF Between
  <2>8. Inner(p \o c) \cap goals \subseteq {f.from}
    BY <1>3, <1>5, <2>3, <2>4, <2>5, <2>6 DEF Open
  <2> QED
    BY <2>6, <2>7, <2>8
<1> HIDE DEF Led, g, N, L
<1>6. 0 \in Good
  BY <1>1, <1>2, <1>4
<1>7. ASSUME NEW k \in 1..N, k - 1 \in Good PROVE k \in Good
  <2>1. \A v \in L[k] : Led(v)
    BY <1>2, <1>5, <1>7 DEF Deeper
  <2> QED
    BY <1>1, <2>1
<1> HIDE DEF Good
<1>8. N \in Good
  BY <1>1, <1>6, <1>7, HandedOn
<1>9. x \in L[N]
  BY DEF Tree, L, N, g
<1> QED
  BY <1>8, <1>9 DEF Good, Led

LEMMA FoundIsLedTo ==
    ASSUME NEW R, RoadsFit(R), NEW goals \in SUBSET Cross, NEW f \in Compressed(R),
           NEW x \in Tree(Compressed(R), goals, f), f.from # x.node
    PROVE  \E w : Simple(R, w) /\ Between(w, f.from, x.node) /\ Inner(w) \cap goals = {}
<1>1. PICK p : /\ Walk(R, p) /\ Between(p, f.from, x.node)
               /\ Inner(p) \cap goals \subseteq {f.from}
  BY EntryHasWalk
<1>2. PICK w : /\ Simple(R, w) /\ Between(w, p[1].from, Last(p).to)
               /\ Inner(w) \subseteq Inner(p)
  BY <1>1, WalkHasWay DEF Between
<1>3. f.from \notin Inner(w)
  <2> SUFFICES ASSUME NEW i \in 1..(Len(w) - 1) PROVE w[i].to # w[1].from
    BY <1>1, <1>2 DEF Between, Inner
  <2>1. i \in 1..Len(w) /\ 1 \in 1..i
    BY <1>2 DEF Simple, Walk
  <2> QED
    BY <1>2, <2>1 DEF Simple
<1>4. Between(w, f.from, x.node)
  BY <1>1, <1>2 DEF Between
<1> QED
  BY <1>1, <1>2, <1>3, <1>4

-----------------------------------------------------------------------------
(* What the roads lead to, a search finds.                                 *)
NoParallel(R) == \A r, q \in R : r.from = q.from /\ r.to = q.to => r = q

LEMMA OneWayOut ==
    ASSUME NEW R, RoadsFit(R), NoParallel(R), NEW n \in Removable(R)
    PROVE  Cardinality(Outs(R, n)) = 1
<1> DEFINE to == [r \in Outs(R, n) |-> r.to]
<1>1. IsFiniteSet(Outs(R, n))
  BY FS_Subset DEF RoadsFit, Outs
<1>2. Succs(R, n) = {to[r] : r \in Outs(R, n)}
  BY DEF Succs
<1> HIDE DEF to
<1>3. IsFiniteSet(Succs(R, n)) /\ Cardinality(Succs(R, n)) = 1
  BY <1>1, <1>2, ImageFinite DEF Removable
<1>4. PICK m : Succs(R, n) = {m}
  BY <1>3, FS_Singleton
<1>5. PICK r \in Outs(R, n) : r.to = m
  BY <1>4 DEF Succs
<1>6. Outs(R, n) = {r}
  BY <1>4, <1>5 DEF Succs, Outs, NoParallel
<1> QED
  BY <1>6, FS_Singleton

LEMMA RangeOfMore ==
    ASSUME NEW S, NEW a \in Seq(S), NEW x \in S
    PROVE  Range(Append(a, x)) = Range(a) \cup {x}
<1> DEFINE b == Append(a, x)
           n == Len(a)
<1>1. /\ b \in Seq(S) /\ Len(b) = n + 1 /\ n \in Nat
      /\ (\A i \in 1..n : b[i] = a[i]) /\ b[n + 1] = x
  BY AppendIs
<1>2. DOMAIN a = 1..n /\ DOMAIN b = 1..(n + 1)
  BY <1>1
<1> HIDE DEF b, n
<1>3. \A i \in 1..(n + 1) : i \in 1..n \/ i = n + 1
  BY <1>1
<1>4. n + 1 \in 1..(n + 1) /\ \A i \in 1..n : i \in 1..(n + 1)
  BY <1>1
<1>5. Range(a) = {a[i] : i \in 1..n} /\ Range(b) = {b[i] : i \in 1..(n + 1)}
  BY <1>2 DEF Range
<1> QED
  BY <1>1, <1>3, <1>4, <1>5 DEF b

(* A way past a number of its roads.                                       *)
Past(w, j) == [i \in 1..(Len(w) - j) |-> w[i + j]]

LEMMA PastIs ==
    ASSUME NEW R, NEW w, Simple(R, w), NEW j \in 0..(Len(w) - 1)
    PROVE  /\ Simple(R, Past(w, j)) /\ Len(Past(w, j)) = Len(w) - j
           /\ \A i \in 1..(Len(w) - j) : Past(w, j)[i] = w[i + j]
<1> DEFINE m == Len(w) - j
           v == Past(w, j)
<1>1. /\ \A i \in 1..Len(w) : w[i] \in R
      /\ \A i \in 1..(Len(w) - 1) : w[i + 1].from = w[i].to
      /\ \A l \in 1..Len(w) : \A i \in 1..l : w[l].to # w[i].from
      /\ Len(w) \in Nat
  BY DEF Simple, Walk
<1>2. m \in Nat \ {0} /\ j \in Nat /\ Len(w) = m + j
  BY <1>1
<1>3. v = [i \in 1..m |-> w[i + j]]
  BY DEF Past
<1> HIDE DEF m, v
<1>4. \A i \in 1..m : v[i] = w[i + j] /\ i + j \in 1..Len(w)
  BY <1>1, <1>2, <1>3
<1>5. v \in [1..m -> R] /\ m \in Nat
  BY <1>1, <1>2, <1>3, <1>4
<1>6. v \in Seq(R) /\ Len(v) = m
  <2>1. v \in Seq(R) /\ DOMAIN v = 1..m
    BY <1>5
  <2> QED
    BY <1>5, <2>1
<1>7. ASSUME NEW i \in 1..(m - 1) PROVE v[i + 1].from = v[i].to
  <2>1. i \in 1..m /\ i + 1 \in 1..m /\ i + j \in 1..(Len(w) - 1) /\ (i + 1) + j = (i + j) + 1
    BY <1>2
  <2> QED
    BY <1>1, <1>4, <2>1
<1>8. ASSUME NEW l \in 1..m, NEW i \in 1..l PROVE v[l].to # v[i].from
  <2>1. i \in 1..m /\ l + j \in 1..Len(w) /\ i + j \in 1..(l + j)
    BY <1>2
  <2> QED
    BY <1>1, <1>4, <2>1
<1> QED
  BY <1>2, <1>4, <1>6, <1>7, <1>8 DEF Simple, Walk, v, m

(* The edge that a way begins with, when it first leaves the chains at m.  *)
LEMMA EdgeOfWay ==
    ASSUME NEW R, RoadsFit(R), NoParallel(R), NEW w, Simple(R, w), w[1].from \notin Removable(R),
           NEW m \in 1..Len(w), w[m].to \notin Removable(R),
           \A k \in 1..(m - 1) : w[k].to \in Removable(R)
    PROVE  LET e == Edge(Upto(w, m))
           IN  /\ e = Edge(Chain(R, w[1])) /\ e \in Compressed(R)
               /\ e.from = w[1].from /\ e.to = w[m].to
               /\ Range(e.nodes) \subseteq {w[i].from : i \in 1..m} \cup {w[m].to}
<1> DEFINE c == Upto(w, m)
           e == Edge(c)
<1>1. w \in Seq(R) /\ Len(w) \in Nat /\ m \in Nat \ {0} /\ m \in 0..Len(w)
      /\ \A i \in 1..(Len(w) - 1) : w[i + 1].from = w[i].to
  BY DEF Simple, Walk
<1>2. ChainEnds(R, c)
  BY EndsOnSimple
<1>3. \A k \in 1..(m - 1) : ~ChainEnds(R, Upto(w, k))
  <2> TAKE k \in 1..(m - 1)
  <2>1. k \in 1..Len(w)
    BY <1>1
  <2> QED
    BY <2>1, OneWayOut, EndsOnSimple
<1>4. Chain(R, w[1]) = c
  BY <1>2, <1>3, ChainFollows
<1>5. e \in Compressed(R)
  BY <1>1, <1>4 DEF Compressed
<1>6. c \in Seq(R) /\ Len(c) = m /\ (\A i \in 1..m : c[i] = w[i]) /\ Last(c) = w[m] /\ 1 \in 1..m
  BY <1>1, UptoIs
<1> HIDE DEF c
<1> DEFINE t == [i \in 1..m |-> c[i].to]
<1>7. e.from = w[1].from /\ e.to = w[m].to /\ e.nodes = <<c[1].from>> \o t
  BY <1>6 DEF Edge
<1> HIDE DEF e
<1>8. t \in Seq(Nat) /\ <<c[1].from>> \in Seq(Nat) /\ Range(t) = {w[i].to : i \in 1..m}
      /\ Range(<<c[1].from>>) = {w[1].from}
  <2>1. \A i \in 1..m : c[i].to \in Nat /\ c[i].from \in Nat
    BY <1>6 DEF RoadsFit
  <2>2. t \in [1..m -> Nat] /\ DOMAIN t = 1..m
    BY <2>1
  <2>3. t \in Seq(Nat)
    BY <1>1, <2>2
  <2>4. <<c[1].from>> \in Seq(Nat)
    BY <1>6, <2>1
  <2>5. Range(t) = {w[i].to : i \in 1..m}
    BY <1>6 DEF Range
  <2>6. Range(<<c[1].from>>) = {w[1].from}
    BY <1>6 DEF Range
  <2> QED
    BY <2>3, <2>4, <2>5, <2>6
<1> HIDE DEF t
<1>9. Range(e.nodes) = {w[1].from} \cup {w[i].to : i \in 1..m}
  <2>1. Range(<<c[1].from>> \o t) = Range(<<c[1].from>>) \cup Range(t)
    BY <1>8, RangeOfBoth
  <2> QED
    BY <1>7, <1>8, <2>1
<1>10. \A i \in 1..m : i # m => i + 1 \in 1..m /\ w[i].to = w[i + 1].from
  <2> TAKE i \in 1..m
  <2>1. i # m => i + 1 \in 1..m /\ i \in 1..(Len(w) - 1)
    BY <1>1
  <2> QED
    BY <1>1, <2>1
<1>11. Range(e.nodes) \subseteq {w[i].from : i \in 1..m} \cup {w[m].to}
  BY <1>6, <1>9, <1>10
<1> QED
  BY <1>4, <1>5, <1>7, <1>11 DEF e, c

LEMMA EdgeHasNodes ==
    ASSUME NEW R, RoadsFit(R), NEW e \in Compressed(R)
    PROVE  Len(e.nodes) >= 2 /\ e.nodes \in Seq(Nat)
<1>1. PICK c : Walk(R, c) /\ e = Edge(c)
  BY EdgeIsWalk
<1> DEFINE n == Len(c)
           t == [i \in 1..n |-> c[i].to]
<1>2. e.nodes = <<c[1].from>> \o t /\ n \in Nat \ {0} /\ c \in Seq(R)
  BY <1>1 DEF Edge, Walk
<1> HIDE DEF n
<1>3. t \in Seq(Nat) /\ Len(t) = n /\ c[1].from \in Nat
  <2>1. \A i \in 1..n : c[i] \in R /\ c[i].to \in Nat /\ c[i].from \in Nat
    BY <1>2 DEF RoadsFit, n
  <2>2. t \in [1..n -> Nat] /\ n \in Nat /\ 1 \in 1..n /\ DOMAIN t = 1..n
    BY <1>2, <2>1
  <2>3. t \in Seq(Nat)
    BY <2>2
  <2>4. Len(t) = n
    BY <2>2, <2>3
  <2> QED
    BY <2>1, <2>2, <2>3, <2>4
<1> HIDE DEF t
<1>4. Len(<<c[1].from>> \o t) = 1 + n /\ <<c[1].from>> \o t \in Seq(Nat)
  BY <1>2, <1>3
<1> QED
  BY <1>2, <1>4

(* Along a way that meets no goal on its road, the search comes by at every *)
(* node the compressed graph keeps.                                        *)
Reached(g, goals, f, w, k, x) ==
    /\ Held(g, goals, f, x) /\ x.node = w[k].to
    /\ Range(x.nodes) \subseteq {w[i].from : i \in 1..k} \cup {w[k].to}
    /\ f.to \in {w[i].to : i \in 1..k} /\ Len(x.nodes) >= 2
    /\ x = Start(f) \/ Len(x.nodes) >= 3

LEMMA SearchFollows ==
    ASSUME NEW R, RoadsFit(R), NoParallel(R), NEW goals \in SUBSET Cross,
           NEW w, Simple(R, w), w[1].from \notin Removable(R), Inner(w) \cap goals = {},
           NEW n \in 1..Len(w), w[n].to \notin Removable(R)
    PROVE  LET f == Edge(Chain(R, w[1]))
           IN  f \in Compressed(R) /\ f.from = w[1].from
               /\ \E x : Reached(Compressed(R), goals, f, w, n, x)
<1> DEFINE g == Compressed(R)
           f == Edge(Chain(R, w[1]))
           Kept == {k \in 1..n : w[k].to \notin Removable(R)}
           Bad == {k \in Kept : ~\E x : Reached(g, goals, f, w, k, x)}
<1>1. /\ Len(w) \in Nat /\ n \in Kept /\ Kept \subseteq Nat /\ w \in Seq(R)
      /\ \A i \in 1..(Len(w) - 1) : w[i + 1].from = w[i].to
      /\ \A l \in 1..Len(w) : \A i \in 1..l : w[l].to # w[i].from
  BY DEF Simple, Walk
<1>2. EdgesFit(g)
  BY CompressedFit
<1>3. PICK m \in Kept : \A k \in Kept : m <= k
  <2> HIDE DEF Kept
  <2> QED
    BY <1>1, LeastOfSome
<1>4. m \in 1..Len(w) /\ m \in 1..n /\ w[m].to \notin Removable(R)
      /\ \A k \in 1..(m - 1) : w[k].to \in Removable(R)
  BY <1>1, <1>3
<1>5. /\ f = Edge(Upto(w, m)) /\ f \in g /\ f.from = w[1].from /\ f.to = w[m].to
      /\ Range(f.nodes) \subseteq {w[i].from : i \in 1..m} \cup {w[m].to}
  <2> DEFINE u == Edge(Upto(w, m))
  <2>1. /\ u = Edge(Chain(R, w[1])) /\ u \in Compressed(R)
        /\ u.from = w[1].from /\ u.to = w[m].to
        /\ Range(u.nodes) \subseteq {w[i].from : i \in 1..m} \cup {w[m].to}
    BY <1>4, EdgeOfWay, Zenon
  <2> QED
    BY <2>1, Zenon
<1> HIDE DEF f
<1>6. m \notin Bad
  <2>1. Held(g, goals, f, Start(f))
    BY <1>2, <1>5, StartIsHeld
  <2>2. Len(f.nodes) >= 2
    BY <1>5, EdgeHasNodes
  <2>3. Reached(g, goals, f, w, m, Start(f))
    BY <1>4, <1>5, <2>1, <2>2 DEF Reached, Start
  <2> QED
    BY <2>3
<1>7. ASSUME Bad # {} PROVE FALSE
  <2>1. Bad \subseteq Nat
    OBVIOUS
  <2>2. PICK k \in Bad : \A l \in Bad : k <= l
    <3> HIDE DEF Bad
    <3> QED
      BY <1>7, <2>1, LeastOfSome
  <2>3. k \in Kept /\ k \in 1..Len(w) /\ m < k /\ k \in 1..n
    BY <1>1, <1>3, <1>6, <2>2
  <2> DEFINE Gaps == {l \in 1..(k - 1) : k - l \in Kept}
  <2>4. k - m \in Gaps /\ Gaps \subseteq Nat
    BY <1>3, <1>4, <2>3
  <2>5. PICK l \in Gaps : \A i \in Gaps : l <= i
    <3> HIDE DEF Gaps
    <3> QED
      BY <2>4, LeastOfSome
  <2> DEFINE j == k - l
             v == Past(w, j)
             e == Edge(Upto(v, l))
  <2>6. j \in Kept /\ j \in 1..(k - 1) /\ l = k - j /\ l \in Nat \ {0} /\ j \in 0..(Len(w) - 1)
        /\ j \notin Bad /\ k \in Nat
    <3>1. l \in Nat /\ k - l \in Kept /\ 1 <= l /\ l <= k - 1 /\ k \in Nat /\ k <= Len(w)
      BY <1>1, <2>3, <2>5
    <3>2. j \notin Bad
      BY <2>2, <3>1
    <3> QED
      BY <1>1, <3>1, <3>2
  <2> HIDE DEF j
  <2>7. \A i \in 1..(l - 1) : w[i + j].to \in Removable(R)
    <3> TAKE i \in 1..(l - 1)
    <3>1. i + j \in 1..n /\ l - i \in 1..(k - 1) /\ k - (l - i) = i + j /\ ~(l <= l - i)
      BY <1>1, <2>3, <2>6
    <3> QED
      BY <2>5, <3>1
  <2>8. /\ Simple(R, v) /\ Len(v) = Len(w) - j
        /\ \A i \in 1..(Len(w) - j) : v[i] = w[i + j]
    <3>1. j \in 0..(Len(w) - 1)
      BY <2>6
    <3> QED
      <4>1. /\ Simple(R, Past(w, j)) /\ Len(Past(w, j)) = Len(w) - j
            /\ \A i \in 1..(Len(w) - j) : Past(w, j)[i] = w[i + j]
        BY <3>1, PastIs
      <4> QED
        BY <4>1
  <2>9. l \in 1..Len(v) /\ 1 \in 1..(Len(w) - j) /\ l \in 1..(Len(w) - j) /\ l + j = k
        /\ 1 + j \in 1..Len(w) /\ j \in 1..(Len(w) - 1) /\ j + 1 = 1 + j
        /\ \A i \in 1..l : i \in 1..(Len(w) - j)
    BY <1>1, <2>3, <2>6, <2>8
  <2> HIDE DEF v
  <2>10. v[1].from = w[j].to /\ v[l].to = w[k].to /\ v[1].from \notin Removable(R)
        /\ v[l].to \notin Removable(R)
    BY <1>1, <2>3, <2>6, <2>8, <2>9
  <2>11. \A i \in 1..(l - 1) : v[i].to \in Removable(R)
    <3> TAKE i \in 1..(l - 1)
    <3>1. i \in 1..l
      BY <2>6
    <3>2. v[i] = w[i + j]
      BY <2>8, <2>9, <3>1
    <3> QED
      BY <2>7, <3>2
  <2>12. e \in g /\ e.from = w[j].to /\ e.to = w[k].to
    <3>1. LET u == Edge(Upto(v, l))
          IN  /\ u = Edge(Chain(R, v[1])) /\ u \in Compressed(R)
              /\ u.from = v[1].from /\ u.to = v[l].to
              /\ Range(u.nodes) \subseteq {v[i].from : i \in 1..l} \cup {v[l].to}
      BY <2>8, <2>9, <2>10, <2>11, EdgeOfWay
    <3> QED
      BY <2>10, <3>1
  <2> HIDE DEF e
  <2>13. PICK x : Reached(g, goals, f, w, j, x)
    BY <2>6
  <2>14. x \in Entries /\ x.node = w[j].to /\ Held(g, goals, f, x)
    BY <2>13 DEF Reached, Held
  <2>15. Open(goals, f, x)
    <3>1. w[j].to \in Inner(w)
      BY <2>9 DEF Inner
    <3> QED
      BY <2>14, <3>1 DEF Open
  <2>16. e.to \notin Range(x.nodes)
    <3>1. \A i \in 1..j : i \in 1..k
      BY <2>6
    <3>2. \A i \in 1..j : w[k].to # w[i].from
      BY <1>1, <2>3, <3>1
    <3>3. w[k].to # w[j].to
      <4>1. j + 1 \in 1..k /\ w[j + 1].from = w[j].to
        BY <1>1, <2>6, <2>9
      <4> QED
        BY <1>1, <2>3, <4>1
    <3> QED
      BY <2>12, <2>13, <3>2, <3>3 DEF Reached
  <2> DEFINE y == Kid(x, e)
  <2>17. y \in Kids(g, x)
    BY <2>12, <2>14, <2>16 DEF Kids, Fresh
  <2>18. Held(g, goals, f, y)
    BY <1>2, <1>5, <2>14, <2>15, <2>17, KidIsHeld
  <2>19. y.node = w[k].to /\ y.nodes = Append(x.nodes, w[k].to)
    BY <2>12 DEF Kid
  <2> HIDE DEF y
  <2>20. x.nodes \in Seq(Nat) /\ w[k].to \in Nat /\ Len(x.nodes) >= 2
    BY <1>1, <2>3, <2>13, <2>14 DEF Entries, Reached, RoadsFit
  <2>21. Len(y.nodes) >= 3 /\ Range(y.nodes) = Range(x.nodes) \cup {w[k].to}
    <3>1. Range(y.nodes) = Range(x.nodes) \cup {w[k].to}
      <4> DEFINE s == x.nodes
                 t == w[k].to
      <4>1. s \in Seq(Nat) /\ t \in Nat
        BY <2>20
      <4> HIDE DEF s, t
      <4>2. Range(Append(s, t)) = Range(s) \cup {t}
        BY <4>1, RangeOfMore
      <4> QED
        BY <2>19, <4>2 DEF s, t
    <3>2. Len(Append(x.nodes, w[k].to)) = Len(x.nodes) + 1 /\ Len(x.nodes) \in Nat
      BY <2>20
    <3> QED
      BY <2>19, <2>20, <3>1, <3>2
  <2>22. Range(y.nodes) \subseteq {w[i].from : i \in 1..k} \cup {w[k].to}
    <3>1. \A i \in 1..j : i \in 1..k
      BY <2>6
    <3>2. w[j].to \in {w[i].from : i \in 1..k}
      <4>1. j + 1 \in 1..k /\ w[j + 1].from = w[j].to
        BY <1>1, <2>6, <2>9
      <4> QED
        BY <4>1
    <3> QED
      BY <2>13, <2>21, <3>1, <3>2 DEF Reached
  <2>23. f.to \in {w[i].to : i \in 1..k}
    <3>1. \A i \in 1..j : i \in 1..k
      BY <2>6
    <3> QED
      BY <2>13, <3>1 DEF Reached
  <2>24. Len(y.nodes) >= 2
    <3>1. y.nodes \in Seq(Nat)
      BY <2>19, <2>20
    <3>2. Len(y.nodes) \in Nat
      BY <3>1
    <3> QED
      BY <2>21, <3>2
  <2>25. Reached(g, goals, f, w, k, y)
    BY <2>18, <2>19, <2>21, <2>22, <2>23, <2>24 DEF Reached
  <2> QED
    BY <2>2, <2>25
<1>8. \E x : Reached(g, goals, f, w, n, x)
  BY <1>1, <1>7
<1> QED
  BY <1>5, <1>8 DEF f, g

LEMMA HeldIsThere ==
    ASSUME NEW g, EdgesFit(g), NEW goals, NEW f \in g, NEW w, Held(g, goals, f, w)
    PROVE  w \in Tree(g, goals, f)
<1>1. PICK T : T \subseteq {e.to : e \in g} /\ w \in Levels(g, goals, f)[Cardinality(T)]
  BY DEF Held
<1>2. Cardinality(T) \in 0..Cardinality(g)
  <2>1. IsFiniteSet(T) /\ Cardinality(T) <= Cardinality({e.to : e \in g})
    BY <1>1, EndsFinite, FS_Subset
  <2>2. Cardinality(T) \in Nat
    BY <2>1, FS_CardinalityType
  <2> QED
    BY <2>1, <2>2, EndsFinite
<1> QED
  BY <1>1, <1>2, LevelsGrow DEF Tree

-----------------------------------------------------------------------------
(* The books of the searches for traces: what is in traces was found, and  *)
(* what can be found is in traces once its search has come to its end.     *)
Kinds == {"trace", "terminal"}
Row(kind, e, x) == [kind |-> kind, src |-> e.from, dst |-> x.node, path |-> x.path]
Counts(kind, e, x) ==
    kind = "terminal" => <<e.from, x.node>> \notin ArcPairs(arcs) /\ Len(x.nodes) >= 3
Launched(kind, e) == e.from \in Cross /\ (kind = "trace" => e.to \notin Cross)

Booked ==
    /\ cut \in BOOLEAN
    /\ phase = "arcs" => traces = {}
    /\ \A t \in todo : t.kind # "reverse" => t.edge.from \in Cross
    /\ cur # Idle => (cur.kind # "reverse" => cur.edge.from \in Cross)
    /\ ~cut =>
          \A t \in traces : \E kind \in Kinds : \E e \in edges : \E x \in FoundBy(kind, e) :
             e.from \in Cross /\ t = Row(kind, e, x)
    /\ (phase # "arcs" /\ ~cut) =>
          \A kind \in Kinds : \A e \in edges : Launched(kind, e) =>
             \/ [kind |-> kind, edge |-> e] \in todo
             \/ cur # Idle /\ cur.kind = kind /\ cur.edge = e
             \/ \A x \in FoundBy(kind, e) : Counts(kind, e, x) => Row(kind, e, x) \in traces

LEMMA BookedInit == Init => Booked
BY DEF Init, Booked

LEMMA BookedBuildArcs == ASSUME Searching, Booked, BuildArcs PROVE Booked'
<1> DEFINE one == {[kind |-> "trace", edge |-> e] :
                     e \in {d \in edges' : d.from \in Cross /\ d.to \notin Cross}}
           two == {[kind |-> "terminal", edge |-> e] : e \in {d \in edges' : d.from \in Cross}}
<1>1. /\ phase = "arcs" /\ phase' = "trace" /\ todo' = one \cup two
      /\ cur' = cur /\ traces' = traces /\ cut' = cut /\ cur = Idle
  BY DEF BuildArcs, Searching
<1>2. traces' = {} /\ cut' \in BOOLEAN
  BY <1>1 DEF Booked
<1>3. \A t \in todo' : t.edge.from \in Cross
  BY <1>1
<1>4. \A kind \in Kinds : \A e \in edges' : Launched(kind, e) => [kind |-> kind, edge |-> e] \in todo'
  BY <1>1 DEF Launched, Kinds
<1> HIDE DEF one, two
<1> QED
  BY <1>1, <1>2, <1>3, <1>4 DEF Booked, Launched

LEMMA BookedBegin == ASSUME Searching, Booked, Begin PROVE Booked'
<1> DEFINE next == CHOOSE t \in todo : TRUE
           f == next.edge
<1>1. /\ cur = Idle /\ next \in todo /\ todo' = todo \ {next}
      /\ cur' = [kind |-> next.kind, edge |-> f, stack |-> <<Start(f)>>,
                 expansions |-> 1, overflow |-> FALSE, found |-> {}]
      /\ phase' = phase /\ edges' = edges /\ arcs' = arcs /\ traces' = traces /\ cut' = cut
  BY DEF Begin, Start
<1> HIDE DEF next
<1>2. next.kind \in {"trace", "terminal", "reverse"} /\ (next.kind # "reverse" => f.from \in Cross)
  BY <1>1 DEF Searching, Booked
<1>3. cur'.kind = next.kind /\ cur'.edge = f /\ cur' # Idle
  BY <1>1, <1>2 DEF Idle
<1>4. \A kind, e : FoundBy(kind, e)' = FoundBy(kind, e)
  BY <1>1 DEF FoundBy, Graph, Goals
<1>5. ASSUME NEW kind, NEW e, [kind |-> kind, edge |-> e] \in todo
      PROVE  [kind |-> kind, edge |-> e] \in todo' \/ (cur' # Idle /\ cur'.kind = kind /\ cur'.edge = e)
  <2>1. CASE next = [kind |-> kind, edge |-> e]
    BY <1>3, <2>1
  <2>2. CASE next # [kind |-> kind, edge |-> e]
    BY <1>1, <1>5, <2>2
  <2> QED
    BY <2>1, <2>2
<1>6. \A kind, e, x : Counts(kind, e, x)' = Counts(kind, e, x)
  BY <1>1 DEF Counts
<1>7. ASSUME ~cut, NEW t \in traces
      PROVE  \E kind \in Kinds : \E e \in edges' : \E x \in FoundBy(kind, e)' :
                e.from \in Cross /\ t = Row(kind, e, x)
  BY <1>1, <1>4, <1>7 DEF Booked
<1>8. ASSUME phase # "arcs", ~cut, NEW kind \in Kinds, NEW e \in edges, Launched(kind, e)
      PROVE  \/ [kind |-> kind, edge |-> e] \in todo'
             \/ cur' # Idle /\ cur'.kind = kind /\ cur'.edge = e
             \/ \A x \in FoundBy(kind, e)' : Counts(kind, e, x)' => Row(kind, e, x) \in traces'
  <2>1. \/ [kind |-> kind, edge |-> e] \in todo
        \/ \A x \in FoundBy(kind, e) : Counts(kind, e, x) => Row(kind, e, x) \in traces
    BY <1>1, <1>8 DEF Booked
  <2> QED
    BY <1>1, <1>4, <1>5, <1>6, <2>1
<1>9. \A t \in todo' : t.kind # "reverse" => t.edge.from \in Cross
  BY <1>1 DEF Booked
<1>10. cut' \in BOOLEAN /\ (phase' = "arcs" => traces' = {})
  BY <1>1 DEF Booked
<1>11. cur'.kind # "reverse" => cur'.edge.from \in Cross
  BY <1>2, <1>3
<1>12. ~cut' => \A t \in traces' : \E kind \in Kinds : \E e \in edges' : \E x \in FoundBy(kind, e)' :
                e.from \in Cross /\ t = Row(kind, e, x)
  BY <1>1, <1>7
<1>13. (phase' # "arcs" /\ ~cut') =>
          \A kind \in Kinds : \A e \in edges' : Launched(kind, e) =>
             \/ [kind |-> kind, edge |-> e] \in todo'
             \/ cur' # Idle /\ cur'.kind = kind /\ cur'.edge = e
             \/ \A x \in FoundBy(kind, e)' : Counts(kind, e, x)' => Row(kind, e, x) \in traces'
  BY <1>1, <1>8
<1> QED
  BY <1>9, <1>10, <1>11, <1>12, <1>13 DEF Booked, Launched, Row

LEMMA BookedSame ==
    ASSUME Booked, edges' = edges, arcs' = arcs, traces' = traces, cut' = cut, todo' = todo,
           \/ cur = Idle /\ cur' = Idle
           \/ cur # Idle /\ cur' # Idle /\ cur'.kind = cur.kind /\ cur'.edge = cur.edge,
           (phase' # "arcs" /\ phase # "arcs") \/ phase' = phase
    PROVE  Booked'
<1>1. \A kind, e : FoundBy(kind, e)' = FoundBy(kind, e)
  BY DEF FoundBy, Graph, Goals
<1>2. \A kind, e, x : Counts(kind, e, x)' = Counts(kind, e, x)
  BY DEF Counts
<1> QED
  BY <1>1, <1>2 DEF Booked, Launched, Row

LEMMA BookedConclude == ASSUME GraphStays, Searching, Booked, Conclude PROVE Booked'
<1> DEFINE k == cur.kind
           f == cur.edge
           rows == {[kind |-> k, src |-> f.from, dst |-> x.node, path |-> x.path] :
                       x \in {y \in cur.found : k = "terminal" =>
                                /\ <<f.from, y.node>> \notin ArcPairs(arcs)
                                /\ Len(y.nodes) >= 3}}
<1>1. /\ cur # Idle /\ cur.stack = <<>> /\ cur' = Idle
      /\ phase' = phase /\ edges' = edges /\ arcs' = arcs /\ todo' = todo
  BY DEF Conclude
<1>2. k \in {"trace", "terminal", "reverse"} /\ f \in Graph(k) /\ phase # "arcs"
      /\ cur.overflow \in BOOLEAN
  BY <1>1 DEF Searching
<1>3. \A kind, e : FoundBy(kind, e)' = FoundBy(kind, e)
  BY <1>1 DEF FoundBy, Graph, Goals
<1>4. \A kind, e, x : Counts(kind, e, x)' = Counts(kind, e, x)
  BY <1>1 DEF Counts
<1>5. CASE k = "reverse"
  <2>1. traces' = traces /\ cut' = cut
    BY <1>5 DEF Conclude
  <2>2. \A kind \in Kinds : kind # "reverse"
    BY DEF Kinds
  <2> QED
    BY <1>1, <1>2, <1>3, <1>4, <1>5, <2>1, <2>2 DEF Booked, Launched, Row
<1>6. CASE k # "reverse"
  <2>1. traces' = traces \cup rows /\ cut' = (cut \/ cur.overflow)
    BY <1>6 DEF Conclude
  <2>2. rows = {Row(k, f, x) : x \in {y \in cur.found : Counts(k, f, y)}}
    BY DEF Row, Counts
  <2> HIDE DEF rows
  <2>3. k \in Kinds /\ f \in edges /\ f.from \in Cross
    BY <1>1, <1>2, <1>6 DEF Kinds, Graph, Booked
  <2>4. ASSUME ~cut' PROVE ~cut /\ cur.found = FoundBy(k, f)
    <3>1. ~cut /\ ~cur.overflow
      BY <1>2, <2>1, <2>4 DEF Booked
    <3> QED
      BY <1>1, <3>1, FoundIsExact
  <2>5. ASSUME ~cut', NEW t \in traces'
        PROVE  \E kind \in Kinds : \E e \in edges' : \E x \in FoundBy(kind, e)' :
                  e.from \in Cross /\ t = Row(kind, e, x)
    <3>1. CASE t \in traces
      BY <1>1, <1>3, <2>4, <2>5, <3>1 DEF Booked
    <3>2. CASE t \in rows
      BY <1>1, <1>3, <2>2, <2>3, <2>4, <2>5, <3>2
    <3> QED
      BY <2>1, <3>1, <3>2
  <2>6. ASSUME ~cut', NEW kind \in Kinds, NEW e \in edges, Launched(kind, e)
        PROVE  \/ [kind |-> kind, edge |-> e] \in todo'
               \/ \A x \in FoundBy(kind, e)' : Counts(kind, e, x)' => Row(kind, e, x) \in traces'
    <3>1. CASE kind = k /\ e = f
      BY <1>3, <1>4, <2>1, <2>2, <2>4, <2>6, <3>1
    <3>2. CASE ~(kind = k /\ e = f)
      BY <1>1, <1>2, <1>3, <1>4, <2>1, <2>4, <2>6, <3>2 DEF Booked
    <3> QED
      BY <3>1, <3>2
  <2>7. \A t \in todo' : t.kind # "reverse" => t.edge.from \in Cross
    BY <1>1 DEF Booked
  <2>8. cut' \in BOOLEAN /\ phase' # "arcs"
    BY <1>1, <1>2, <2>1 DEF Booked
  <2>9. ~cut' => \A t \in traces' : \E kind \in Kinds : \E e \in edges' : \E x \in FoundBy(kind, e)' :
                  e.from \in Cross /\ t = Row(kind, e, x)
    BY <2>5
  <2>10. ~cut' => \A kind \in Kinds : \A e \in edges' : Launched(kind, e) =>
               \/ [kind |-> kind, edge |-> e] \in todo'
               \/ \A x \in FoundBy(kind, e)' : Counts(kind, e, x)' => Row(kind, e, x) \in traces'
    BY <1>1, <2>6
  <2> QED
    BY <1>1, <2>7, <2>8, <2>9, <2>10 DEF Booked, Launched, Row
<1> QED
  BY <1>5, <1>6

LEMMA BookedNext ==
    GraphStays /\ Searched /\ Searching /\ Booked /\ [Next]_vars => Booked'
<1> SUFFICES ASSUME GraphStays, Searched, Searching, Booked, [Next]_vars PROVE Booked'
  OBVIOUS
<1>1. CASE TurnBack
  <2>1. /\ phase = "trace" /\ phase' = "reverse" /\ todo = {} /\ cur = Idle /\ cur' = cur
        /\ edges' = edges /\ arcs' = arcs /\ traces' = traces /\ cut' = cut
        /\ \A t \in todo' : t.kind = "reverse"
    BY <1>1 DEF TurnBack
  <2>2. \A kind, e : FoundBy(kind, e)' = FoundBy(kind, e)
    BY <2>1 DEF FoundBy, Graph, Goals
  <2>3. \A kind, e, x : Counts(kind, e, x)' = Counts(kind, e, x)
    BY <2>1 DEF Counts
  <2> QED
    BY <2>1, <2>2, <2>3 DEF Booked, Launched, Row
<1>2. CASE Visit
  <2>1. /\ cur # Idle /\ cur' = Visited(Last(cur.stack), Front(cur.stack))
        /\ phase' = phase /\ edges' = edges /\ arcs' = arcs /\ todo' = todo
        /\ traces' = traces /\ cut' = cut
    BY <1>2 DEF Visit
  <2>2. cur' # Idle /\ cur'.kind = cur.kind /\ cur'.edge = cur.edge
    <3>1. cur = [kind |-> cur.kind, edge |-> cur.edge, stack |-> cur.stack,
                 expansions |-> cur.expansions, overflow |-> cur.overflow, found |-> cur.found]
          /\ cur.kind # "idle"
      BY <2>1 DEF Searched, Running
    <3>2. cur'.kind = cur.kind /\ cur'.edge = cur.edge
      BY <2>1, <3>1 DEF Visited
    <3> QED
      BY <3>1, <3>2 DEF Idle
  <2> QED
    BY <2>1, <2>2, BookedSame
<1>3. CASE Finish
  <2>1. /\ phase' # "arcs" /\ phase # "arcs" /\ cur = Idle /\ cur' = Idle
        /\ edges' = edges /\ arcs' = arcs /\ todo' = todo /\ traces' = traces /\ cut' = cut
    BY <1>3 DEF Finish
  <2> QED
    BY <2>1, BookedSame
<1>4. CASE UNCHANGED vars
  <2>1. /\ phase' = phase /\ cur' = cur
        /\ edges' = edges /\ arcs' = arcs /\ todo' = todo /\ traces' = traces /\ cut' = cut
    BY <1>4 DEF vars
  <2> QED
    BY <2>1, BookedSame
<1> QED
  BY <1>1, <1>2, <1>3, <1>4, BookedBuildArcs, BookedBegin, BookedConclude DEF Next

-----------------------------------------------------------------------------
Leads(a, b, stops) ==
    \E w \in Ways : w[1].from = a /\ Last(w).to = b /\ Inner(w) \cap stops = {}

(* A trace is where the roads lead.                                        *)
LEMMA TraceIsLed ==
    ASSUME GraphStays, Booked, phase = "done", ~cut, NEW t \in traces, t.src # t.dst
    PROVE  \/ Leads(t.src, t.dst, Cross)
           \/ t.dst \in Terminals(arcs) /\ Leads(t.src, t.dst, Terminals(arcs))
<1>1. PICK kind \in Kinds, e \in edges : \E x \in FoundBy(kind, e) :
                e.from \in Cross /\ t = Row(kind, e, x)
  BY DEF Booked
<1>2. PICK x \in FoundBy(kind, e) : t = Row(kind, e, x)
  BY <1>1
<1>3. RoadsFit(roads) /\ edges = Compressed(roads) /\ arcs = Arcs(edges)
  BY RoadsFitHere DEF GraphStays
<1>4. Graph(kind) = Compressed(roads) /\ Goals(kind) \in SUBSET Cross
      /\ (kind = "trace" => Goals(kind) = Cross) /\ (kind = "terminal" => Goals(kind) = Terminals(arcs))
  BY <1>3 DEF Graph, Goals, Kinds, Terminals, Arcs
<1>5. x \in Tree(Compressed(roads), Goals(kind), e) /\ x.node \in Goals(kind)
  BY <1>4 DEF FoundBy, Open
<1>6. t.src = e.from /\ t.dst = x.node
  BY <1>2 DEF Row
<1>7. PICK w : Simple(roads, w) /\ Between(w, e.from, x.node) /\ Inner(w) \cap Goals(kind) = {}
  BY <1>3, <1>4, <1>5, <1>6, FoundIsLedTo
<1>8. w \in Ways
  BY <1>3, <1>7, WaysAre
<1>9. Leads(t.src, t.dst, Goals(kind))
  BY <1>6, <1>7, <1>8 DEF Leads, Between
<1> QED
  BY <1>4, <1>5, <1>6, <1>9 DEF Kinds

(* And where the roads lead there is a trace.                              *)
LEMMA LedIsTraced ==
    ASSUME GraphStays, Searched, Booked, phase = "done", ~cut, NoParallel(roads),
           NEW a \in Cross, NEW b \in Cross, a # b, <<a, b>> \notin ArcPairs(arcs),
           NEW kind \in Kinds, b \in Goals(kind), Leads(a, b, Goals(kind))
    PROVE  \E t \in traces : t.src = a /\ t.dst = b
<1>1. PICK w \in Ways : w[1].from = a /\ Last(w).to = b /\ Inner(w) \cap Goals(kind) = {}
  BY DEF Leads
<1>2. RoadsFit(roads) /\ edges = Compressed(roads) /\ arcs = Arcs(edges)
  BY RoadsFitHere DEF GraphStays
<1>3. Graph(kind) = edges /\ Goals(kind) \in SUBSET Cross /\ (kind = "trace" => Goals(kind) = Cross)
  BY <1>2 DEF Graph, Goals, Kinds, Terminals, Arcs
<1>4. Simple(roads, w)
  BY <1>1, <1>2, WaysAre
<1> DEFINE n == Len(w)
           f == Edge(Chain(roads, w[1]))
<1>5. n \in 1..Len(w) /\ n \in Nat /\ w[n].to = b
  BY <1>1, <1>4 DEF Simple, Walk, Last
<1>6. w[1].from \notin Removable(roads) /\ w[n].to \notin Removable(roads)
  BY <1>1, <1>5 DEF Removable
<1>7. /\ f \in Compressed(roads) /\ f.from = w[1].from
      /\ \E x : Reached(Compressed(roads), Goals(kind), f, w, n, x)
  BY <1>1, <1>2, <1>3, <1>4, <1>5, <1>6, SearchFollows
<1> HIDE DEF f
<1>8. PICK x : Reached(edges, Goals(kind), f, w, n, x)
  BY <1>2, <1>7
<1>9. f \in edges /\ f.from = a
  BY <1>1, <1>2, <1>7
<1>10. x.node = b /\ Held(edges, Goals(kind), f, x) /\ (x = Start(f) \/ Len(x.nodes) >= 3)
  BY <1>5, <1>8 DEF Reached
<1>11. EdgesFit(edges)
  BY <1>2, CompressedFit
<1>12. x \in FoundBy(kind, f)
  <2>1. x \in Tree(edges, Goals(kind), f)
    BY <1>9, <1>10, <1>11, HeldIsThere
  <2> QED
    BY <1>3, <1>9, <1>10, <2>1 DEF FoundBy, Open
<1>13. f.to # b
  BY <1>2, <1>9 DEF Arcs, ArcPairs
<1>14. Counts(kind, f, x)
  <2>1. x # Start(f)
    BY <1>10, <1>13 DEF Start
  <2> QED
    BY <1>9, <1>10, <2>1 DEF Counts
<1>15. Launched(kind, f)
  <2>1. ASSUME kind = "trace" PROVE f.to \notin Cross
    <3>1. PICK i \in 1..n : f.to = w[i].to
      BY <1>8 DEF Reached
    <3>2. i # n
      BY <1>5, <1>13, <3>1
    <3>3. i \in 1..(Len(w) - 1)
      BY <1>5, <3>2
    <3>4. f.to \in Inner(w)
      BY <3>1, <3>3 DEF Inner
    <3> QED
      BY <1>1, <1>3, <2>1, <3>4
  <2> QED
    BY <1>9, <2>1 DEF Launched
<1>16. todo = {} /\ cur = Idle
  BY DEF Searched, Asked
<1>17. Row(kind, f, x) \in traces
  BY <1>9, <1>12, <1>14, <1>15, <1>16 DEF Booked
<1>18. Row(kind, f, x).src = a /\ Row(kind, f, x).dst = b
  BY <1>9, <1>10 DEF Row
<1> QED
  BY <1>17, <1>18

LEMMA ReasonIsTrue ==
    ASSUME GraphStays, Searched, Booked PROVE TraceReasonIsTrue
<1> DEFINE parallel == \E r, q \in roads : r # q /\ r.from = q.from /\ r.to = q.to
<1> SUFFICES ASSUME phase = "done", ~cut, ~parallel, arcs # {}, NEW a \in Cross, NEW b \in Cross,
                    a # b, <<a, b>> \notin ArcPairs(arcs)
             PROVE  TopologyGate(a, b) = "trace_only_reachability"
                    <=> \/ Leads(a, b, Cross)
                        \/ b \in Terminals(arcs) /\ Leads(a, b, Terminals(arcs))
  BY DEF TraceReasonIsTrue, Leads
<1>1. NoParallel(roads)
  BY DEF NoParallel
<1>2. TopologyGate(a, b) = "trace_only_reachability" <=> \E t \in traces : t.src = a /\ t.dst = b
  BY DEF TopologyGate
<1>3. (\E t \in traces : t.src = a /\ t.dst = b) =>
          \/ Leads(a, b, Cross)
          \/ b \in Terminals(arcs) /\ Leads(a, b, Terminals(arcs))
  BY TraceIsLed
<1>4. Leads(a, b, Cross) => \E t \in traces : t.src = a /\ t.dst = b
  <2>1. "trace" \in Kinds /\ Goals("trace") = Cross
    BY DEF Kinds, Goals
  <2> QED
    BY <1>1, <2>1, LedIsTraced
<1>5. b \in Terminals(arcs) /\ Leads(a, b, Terminals(arcs)) => \E t \in traces : t.src = a /\ t.dst = b
  <2>1. "terminal" \in Kinds /\ Goals("terminal") = Terminals(arcs)
    BY DEF Kinds, Goals
  <2> QED
    BY <1>1, <2>1, LedIsTraced
<1> QED
  BY <1>2, <1>3, <1>4, <1>5

(* Every search finds exactly what its graph leads to, and the gate gives  *)
(* a trace as its reason exactly where the roads lead, for any roads and   *)
(* any budget.                                                             *)
THEOREM TracesStayTrue == Spec => []TracesAreTrue
<1> DEFINE IInv == GraphStays /\ Searched /\ Searching /\ Booked
<1>1. Init => IInv
  BY GraphInit, SearchedInit, SearchingInit, BookedInit
<1>2. IInv /\ [Next]_vars => IInv'
  BY GraphNext, SearchedNext, SearchingNext, BookedNext
<1>3. IInv => TracesAreTrue
  BY ExactSearch, ReasonIsTrue DEF TracesAreTrue
<1> QED
  BY <1>1, <1>2, <1>3, PTL DEF Spec

-----------------------------------------------------------------------------
(* Candidates as the rules may compare them.                               *)
Fit(S) ==
    /\ IsFiniteSet(S)
    /\ \A c \in S : c.id \in Nat /\ c.line \in Lines
    /\ \A b, c \in S : b.id = c.id => b = c

LEMMA OffsetsList == ASSUME NEW S, Fit(S) PROVE Listed(ByOffset(S), S)
<1> DEFINE before(c, d) == \/ c.line.offset < d.line.offset
                           \/ c.line.offset = d.line.offset /\ c.id < d.id
           Less == {p \in S \X S : before(p[1], p[2])}
<1>1. \A c, d \in S : <<c, d>> \in Less <=> before(c, d)
  OBVIOUS
<1>2. \A c \in S : c.id \in Nat /\ c.line.offset \in Int
  BY SegmentAssumption DEF Fit
<1>3. StrictOn(Less, S)
  <2>1. \A x \in S : ~before(x, x)
    BY <1>2
  <2>2. \A x, y, z \in S : before(x, y) /\ before(y, z) => before(x, z)
    BY <1>2
  <2> HIDE DEF before, Less
  <2> QED
    BY <1>1, <2>1, <2>2 DEF StrictOn
<1>4. TotalOn(Less, S)
  <2>1. \A x, y \in S : x # y => before(x, y) \/ before(y, x)
    BY <1>2 DEF Fit
  <2> HIDE DEF before, Less
  <2> QED
    BY <1>1, <2>1 DEF TotalOn
<1>5. ByOffset(S) = [k \in 1..Cardinality(S) |->
                       CHOOSE x \in S : Cardinality({y \in S : <<y, x>> \in Less}) = k - 1]
  <2>1. \A x \in S : {y \in S : before(y, x)} = {y \in S : <<y, x>> \in Less}
    BY <1>1
  <2>2. ByOffset(S) = [k \in 1..Cardinality(S) |->
                         CHOOSE x \in S : Cardinality({y \in S : before(y, x)}) = k - 1]
    BY DEF ByOffset, Sorted
  <2> HIDE DEF before, Less
  <2>3. \A k : (CHOOSE x \in S : Cardinality({y \in S : before(y, x)}) = k - 1)
             = (CHOOSE x \in S : Cardinality({y \in S : <<y, x>> \in Less}) = k - 1)
    BY <2>1
  <2> QED
    BY <2>2, <2>3
<1>6. IsFiniteSet(S)
  BY DEF Fit
<1> HIDE DEF Less
<1> QED
  BY <1>3, <1>4, <1>5, <1>6, ListIs

-----------------------------------------------------------------------------
(* The clusters of a set share its candidates out.                         *)
Holds(cl, k, c) == \E i \in 1..Len(cl[k]) : cl[k][i] = c

SharedOut(cl, T) ==
    /\ cl \in Seq(Seq(T))
    /\ \A k \in 1..Len(cl) : cl[k] # <<>>
    /\ \A c \in T : \E k \in 1..Len(cl) : Holds(cl, k, c)
    /\ \A c \in T : \A k, l \in 1..Len(cl) : Holds(cl, k, c) /\ Holds(cl, l, c) => k = l

LEMMA JoinIs ==
    ASSUME NEW S, NEW cl \in Seq(Seq(S)), NEW c
    PROVE  \/ Join(cl, c) = Append(cl, <<c>>)
           \/ \E k \in 1..Len(cl) : Join(cl, c) = [cl EXCEPT ![k] = Append(cl[k], c)]
<1> DEFINE fits == {k \in DOMAIN cl : NearTo(c, cl[k][1])}
           first == CHOOSE k \in fits : \A l \in fits : k <= l
<1>1. DOMAIN cl = 1..Len(cl) /\ Len(cl) \in Nat
  OBVIOUS
<1>2. CASE fits = {}
  BY <1>2 DEF Join
<1>3. CASE fits # {}
  <2>1. \E k \in fits : \A l \in fits : k <= l
    <3>1. fits \subseteq Nat
      BY <1>1
    <3> HIDE DEF fits
    <3> QED
      BY <1>3, <3>1, LeastOfSome
  <2>2. first \in fits
    <3> HIDE DEF fits
    <3> QED
      BY <2>1
  <2>3. Join(cl, c) = [cl EXCEPT ![first] = Append(cl[first], c)]
    BY <1>3, <2>2 DEF Join
  <2>4. first \in 1..Len(cl)
    BY <1>1, <2>2
  <2> HIDE DEF first
  <2> QED
    BY <2>3, <2>4
<1> QED
  BY <1>2, <1>3

LEMMA JoinShares ==
    ASSUME NEW T, NEW cl, SharedOut(cl, T), NEW c, c \notin T
    PROVE  SharedOut(Join(cl, c), T \cup {c})
<1> DEFINE U == T \cup {c}
           J == Join(cl, c)
           n == Len(cl)
<1>1. /\ cl \in Seq(Seq(T)) /\ n \in Nat /\ cl \in Seq(Seq(U))
      /\ \A k \in 1..n : cl[k] \in Seq(T) /\ cl[k] \in Seq(U) /\ Len(cl[k]) \in Nat
  BY DEF SharedOut
<1>2. \A k \in 1..n : ~Holds(cl, k, c)
  BY <1>1 DEF Holds
<1>3. ASSUME J = Append(cl, <<c>>) PROVE SharedOut(J, U)
  <2>1. /\ Len(J) = n + 1 /\ J[n + 1] = <<c>> /\ \A k \in 1..n : J[k] = cl[k]
        /\ J \in Seq(Seq(U))
    <3>1. <<c>> \in Seq(U)
      OBVIOUS
    <3> QED
      BY <1>1, <1>3, <3>1
  <2> HIDE DEF J
  <2>2. \A d : Holds(J, n + 1, d) <=> d = c
    <3>1. Len(J[n + 1]) = 1 /\ J[n + 1][1] = c
      BY <2>1
    <3> QED
      BY <3>1 DEF Holds
  <2>3. \A d : \A k \in 1..n : Holds(J, k, d) <=> Holds(cl, k, d)
    BY <2>1 DEF Holds
  <2>4. \A k \in 1..Len(J) : k \in 1..n \/ k = n + 1
    BY <1>1, <2>1
  <2>5. n + 1 \in 1..Len(J) /\ \A k \in 1..n : k \in 1..Len(J)
    BY <1>1, <2>1
  <2>6. \A k \in 1..Len(J) : J[k] # <<>>
    <3>1. <<c>> # <<>>
      OBVIOUS
    <3> QED
      BY <2>1, <2>4, <3>1 DEF SharedOut
  <2>7. ASSUME NEW d \in U PROVE \E k \in 1..Len(J) : Holds(J, k, d)
    BY <2>2, <2>3, <2>5 DEF SharedOut
  <2>8. ASSUME NEW d \in U, NEW k \in 1..Len(J), NEW l \in 1..Len(J),
               Holds(J, k, d), Holds(J, l, d)
        PROVE  k = l
    <3>1. CASE d = c
      BY <1>2, <2>3, <2>4, <2>8, <3>1
    <3>2. CASE d # c
      <4>1. d \in T /\ k \in 1..n /\ l \in 1..n
        BY <2>2, <2>4, <2>8, <3>2
      <4> QED
        BY <2>3, <2>8, <4>1 DEF SharedOut
    <3> QED
      BY <3>1, <3>2
  <2> QED
    BY <2>1, <2>6, <2>7, <2>8 DEF SharedOut
<1>4. ASSUME NEW m \in 1..n, J = [cl EXCEPT ![m] = Append(cl[m], c)]
      PROVE  SharedOut(J, U)
  <2>1. /\ Len(J) = n /\ J[m] = Append(cl[m], c)
        /\ \A k \in 1..n : k # m => J[k] = cl[k]
        /\ J \in Seq(Seq(U))
    <3>1. Append(cl[m], c) \in Seq(U)
      BY <1>1
    <3> QED
      BY <1>1, <1>4, <3>1
  <2> HIDE DEF J
  <2>2. \A d : Holds(J, m, d) <=> Holds(cl, m, d) \/ d = c
    <3> DEFINE p == Len(cl[m])
    <3>1. /\ Len(J[m]) = p + 1 /\ J[m][p + 1] = c /\ p \in Nat
          /\ \A i \in 1..p : J[m][i] = cl[m][i]
      BY <1>1, <2>1
    <3> HIDE DEF p
    <3>2. \A i \in 1..(p + 1) : i \in 1..p \/ i = p + 1
      BY <3>1
    <3>3. p + 1 \in 1..(p + 1) /\ \A i \in 1..p : i \in 1..(p + 1)
      BY <3>1
    <3> QED
      BY <3>1, <3>2, <3>3 DEF Holds, p
  <2>3. \A d : \A k \in 1..n : k # m => (Holds(J, k, d) <=> Holds(cl, k, d))
    BY <2>1 DEF Holds
  <2>4. \A k \in 1..n : J[k] # <<>>
    <3>1. Append(cl[m], c) # <<>>
      <4>1. Len(Append(cl[m], c)) # 0
        BY <1>1
      <4>2. Len(<<>>) = 0
        OBVIOUS
      <4> QED
        BY <4>1, <4>2
    <3> QED
      BY <2>1, <3>1 DEF SharedOut
  <2>5. ASSUME NEW d \in U PROVE \E k \in 1..n : Holds(J, k, d)
    BY <2>2, <2>3 DEF SharedOut
  <2>6. ASSUME NEW d \in U, NEW k \in 1..n, NEW l \in 1..n, Holds(J, k, d), Holds(J, l, d)
        PROVE  k = l
    <3>1. CASE d = c
      BY <1>2, <2>3, <2>6, <3>1
    <3>2. CASE d # c
      BY <2>2, <2>3, <2>6, <3>2 DEF SharedOut
    <3> QED
      BY <3>1, <3>2
  <2> QED
    BY <2>1, <2>4, <2>5, <2>6 DEF SharedOut
<1>5. J = Append(cl, <<c>>) \/ \E m \in 1..n : J = [cl EXCEPT ![m] = Append(cl[m], c)]
  BY <1>1, JoinIs
<1>6. SharedOut(J, U)
  <2> HIDE DEF J, U, n
  <2> QED
    BY <1>3, <1>4, <1>5
<1> QED
  BY <1>6

LEMMA ClustersShare == ASSUME NEW S, Fit(S) PROVE SharedOut(Clusters(S), S)
<1> DEFINE n == Cardinality(S)
           q == ByOffset(S)
           X == Seq(Seq(S))
           onto == [p \in (1..n) \X X |-> Join(p[2], q[p[1]])]
           clusters[k \in 0..n] == IF k = 0 THEN <<>> ELSE Join(clusters[k - 1], q[k])
           Is(g) == g = [k \in 0..n |-> IF k = 0 THEN <<>> ELSE Join(g[k - 1], q[k])]
<1>1. n \in Nat
  BY FS_CardinalityType DEF Fit
<1>2. Listed(q, S)
  BY OffsetsList
<1> HIDE DEF q
<1>3. ASSUME NEW cl \in X, NEW c \in S PROVE Join(cl, c) \in X
  <2>1. CASE Join(cl, c) = Append(cl, <<c>>)
    BY <2>1
  <2>2. ASSUME NEW k \in 1..Len(cl), Join(cl, c) = [cl EXCEPT ![k] = Append(cl[k], c)]
        PROVE  Join(cl, c) \in X
    <3>1. Append(cl[k], c) \in Seq(S)
      OBVIOUS
    <3> QED
      BY <2>2, <3>1
  <2> QED
    BY <2>1, <2>2, JoinIs
<1>4. <<>> \in X
  OBVIOUS
<1>5. \E g : Is(g)
  <2>1. onto \in [(1..n) \X X -> X]
    <3>1. \A p \in (1..n) \X X : p[2] \in X /\ q[p[1]] \in S
      BY <1>2 DEF Listed
    <3> HIDE DEF X
    <3> QED
      BY <1>3, <3>1
  <2>2. \A k \in 1..n : \A cl \in X : onto[<<k, cl>>] = Join(cl, q[k])
    OBVIOUS
  <2> DEFINE base == <<>>
  <2>6. base \in X
    BY <1>4
  <2> HIDE DEF onto, X, n, base
  <2>7. \E f \in [0..n -> X] : Follows(f, n, base, onto)
    BY <1>1, <2>6, <2>1, RecursionExists
  <2>3. PICK f \in [0..n -> X] : f[0] = <<>> /\ \A k \in 1..n : f[k] = onto[<<k, f[k - 1]>>]
    BY <2>7 DEF base, Follows
  <2>4. \A k \in 1..n : f[k] = Join(f[k - 1], q[k])
    <3> TAKE k \in 1..n
    <3>1. k - 1 \in 0..n
      BY <1>1
    <3> QED
      BY <2>2, <2>3, <3>1
  <2>5. Is(f)
    <3>1. \A k \in 0..n : f[k] = IF k = 0 THEN <<>> ELSE Join(f[k - 1], q[k])
      BY <1>1, <2>3, <2>4
    <3>2. f = [k \in 0..n |-> f[k]]
      OBVIOUS
    <3> QED
      BY <3>1, <3>2
  <2> QED
    BY <2>5
<1>6. clusters = CHOOSE g : Is(g)
  OBVIOUS
<1>7. Clusters(S) = clusters[n]
  BY DEF Clusters, q
<1> HIDE DEF Is, clusters
<1>8. Is(clusters)
  BY <1>5, <1>6
<1>9. clusters[0] = <<>> /\ \A k \in 1..n : clusters[k] = Join(clusters[k - 1], q[k])
  BY <1>1, <1>8 DEF Is
<1> DEFINE Done(k) == {q[i] : i \in 1..k}
           Good == {k \in 0..n : SharedOut(clusters[k], Done(k))}
<1>10. 0 \in Good
  <2>1. Done(0) = {}
    OBVIOUS
  <2>2. SharedOut(<<>>, {})
    BY DEF SharedOut
  <2> QED
    BY <1>1, <1>9, <2>1, <2>2
<1>11. ASSUME NEW k \in 1..n, k - 1 \in Good PROVE k \in Good
  <2>1. q[k] \notin Done(k - 1)
    <3> SUFFICES ASSUME NEW i \in 1..(k - 1) PROVE q[k] # q[i]
      OBVIOUS
    <3>1. i \in 1..n /\ i # k
      BY <1>1
    <3> QED
      BY <1>2, <3>1 DEF Listed
  <2>2. Done(k) = Done(k - 1) \cup {q[k]}
    <3>1. 1..k = (1..(k - 1)) \cup {k}
      BY <1>1
    <3> QED
      BY <3>1
  <2>3. SharedOut(clusters[k - 1], Done(k - 1))
    BY <1>11
  <2> HIDE DEF Done
  <2> QED
    BY <1>1, <1>9, <2>1, <2>2, <2>3, JoinShares
<1>12. n \in Good
  <2> HIDE DEF Good
  <2> QED
    BY <1>1, <1>10, <1>11, HandedOn
<1>13. Done(n) = S
  BY <1>2 DEF Listed
<1> QED
  BY <1>7, <1>12, <1>13

-----------------------------------------------------------------------------
(* Sums.  SumFunction picks the summands in some order; all that matters   *)
(* here is that a sum of integers is one.                                  *)
AnyOf(s) == CHOOSE x \in s : TRUE
Summed(f, F, s) == IF s = {} THEN 0 ELSE f[AnyOf(s)] + F[s \ {AnyOf(s)}]
Sums(f, F, D) == F = [s \in D |-> Summed(f, F, s)]

LEMMA AnyIsOne == ASSUME NEW s, s # {} PROVE AnyOf(s) \in s
BY DEF AnyOf

(* The recursion of a fold has a solution: a largest family of subsets on  *)
(* which there is one has them all.                                        *)
LEMMA SumsExist ==
    ASSUME NEW f, NEW S, IsFiniteSet(S)
    PROVE  \E F : Sums(f, F, SUBSET S)
<1> DEFINE Closed(D) == \A s \in D : s # {} => s \ {AnyOf(s)} \in D
           Solved == {D \in SUBSET SUBSET S : Closed(D) /\ \E F : Sums(f, F, D)}
           Unsolved == {(SUBSET S) \ D : D \in Solved}
<1>1. {} \in Solved
  <2>1. Closed({})
    OBVIOUS
  <2>2. Sums(f, [s \in {} |-> 0], {})
    BY DEF Sums
  <2> QED
    BY <2>1, <2>2
<1>2. Unsolved # {} /\ \A R \in Unsolved : R \subseteq SUBSET S
  <2>1. (SUBSET S) \ {} \in Unsolved
    BY <1>1, Zenon
  <2>2. \A R \in Unsolved : R \subseteq SUBSET S
    BY Zenon
  <2> HIDE DEF Unsolved
  <2> QED
    BY <2>1, <2>2
<1>3. IsFiniteSet(SUBSET S)
  BY FS_SUBSET
<1>4. PICK R \in Unsolved : \A U \in Unsolved : U \subseteq R => U = R
  <2> HIDE DEF Unsolved
  <2> QED
    BY <1>2, <1>3, LeastBadSubset
<1>5. PICK D \in Solved : R = (SUBSET S) \ D
  BY <1>4
<1>6. PICK F : Sums(f, F, D)
  BY <1>5
<1>7. CASE R = {}
  <2>1. D = SUBSET S
    BY <1>5, <1>7
  <2> QED
    BY <1>6, <2>1
<1>8. CASE R # {}
  <2>1. PICK t \in R : \A u \in R : u \subseteq t => u = t
    <3>1. \A u \in R : u \subseteq S
      BY <1>5
    <3> QED
      BY <1>8, <3>1, LeastBadSubset
  <2>2. t \subseteq S /\ t \notin D
    BY <1>5, <2>1
  <2>3. t # {} => t \ {AnyOf(t)} \in D
    <3>1. SUFFICES ASSUME t # {} PROVE t \ {AnyOf(t)} \notin R
      BY <1>5, <2>2, <3>1
    <3>2. AnyOf(t) \in t
      BY <3>1, AnyIsOne
    <3> QED
      BY <2>1, <3>2
  <2> DEFINE E == D \cup {t}
             G == [s \in E |-> IF s = t THEN Summed(f, F, t) ELSE F[s]]
  <2>4. E \in SUBSET SUBSET S /\ Closed(E)
    BY <1>5, <2>2, <2>3
  <2>5. Sums(f, G, E)
    <3>1. \A s \in D : F[s] = Summed(f, F, s)
      BY <1>6 DEF Sums
    <3>2. \A s \in D : G[s] = F[s]
      BY <2>2
    <3>3. G[t] = Summed(f, F, t)
      OBVIOUS
    <3>4. \A s \in E : s # {} => s \ {AnyOf(s)} \in D
      BY <1>5, <2>3
    <3> HIDE DEF G
    <3>5. \A s \in E : Summed(f, G, s) = Summed(f, F, s)
      BY <3>2, <3>4 DEF Summed
    <3>6. \A s \in E : G[s] = Summed(f, G, s)
      BY <3>1, <3>2, <3>3, <3>5
    <3>7. G = [s \in E |-> G[s]]
      BY DEF G
    <3> HIDE DEF E
    <3>8. [s \in E |-> G[s]] = [s \in E |-> Summed(f, G, s)]
      BY <3>6
    <3> QED
      BY <3>7, <3>8 DEF Sums
  <2>6. (SUBSET S) \ E \in Unsolved
    BY <2>4, <2>5
  <2>7. (SUBSET S) \ E \subseteq R /\ t \notin (SUBSET S) \ E
    BY <1>5
  <2> QED
    BY <1>4, <2>1, <2>6, <2>7
<1> QED
  BY <1>7, <1>8

LEMMA SumIs ==
    ASSUME NEW f, IsFiniteSet(DOMAIN f)
    PROVE  \E F : Sums(f, F, SUBSET DOMAIN f) /\ SumFunction(f) = F[DOMAIN f]
<1> DEFINE S == DOMAIN f
           iter == CHOOSE F : F = [s \in SUBSET S |->
                      IF s = {} THEN 0 ELSE f[CHOOSE x \in s : TRUE] + F[s \ {CHOOSE x \in s : TRUE}]]
<1>1. SumFunction(f) = iter[S]
  BY Zenon DEF SumFunction, SumFunctionOnSet, FoldFunctionOnSet, MapThenFoldSet
<1>2. iter = CHOOSE F : Sums(f, F, SUBSET S)
  BY Zenon DEF Sums, Summed, AnyOf
<1>3. Sums(f, iter, SUBSET S)
  BY <1>2, SumsExist
<1> QED
  BY <1>1, <1>3

LEMMA SumTyped ==
    ASSUME NEW f, IsFiniteSet(DOMAIN f), \A x \in DOMAIN f : f[x] \in Int
    PROVE  SumFunction(f) \in Int
<1> DEFINE S == DOMAIN f
<1>1. PICK F : Sums(f, F, SUBSET S) /\ SumFunction(f) = F[S]
  BY SumIs
<1>2. \A T \in SUBSET S : F[T] = Summed(f, F, T)
  BY <1>1 DEF Sums
<1> DEFINE Bad == {T \in SUBSET S : F[T] \notin Int}
<1>3. Bad = {}
  <2>1. SUFFICES ASSUME Bad # {} PROVE FALSE
    OBVIOUS
  <2>2. \A T \in Bad : T \subseteq S
    OBVIOUS
  <2>3. PICK T \in Bad : \A U \in Bad : U \subseteq T => U = T
    <3> HIDE DEF Bad
    <3> QED
      BY <2>1, <2>2, LeastBadSubset
  <2>4. CASE T = {}
    <3>1. Summed(f, F, T) = 0
      BY <2>4 DEF Summed
    <3>2. F[T] = Summed(f, F, T) /\ F[T] \notin Int
      BY <1>2, <2>3
    <3> QED
      BY <3>1, <3>2
  <2>5. CASE T # {}
    <3>1. AnyOf(T) \in T
      BY <2>5, AnyIsOne
    <3>2. F[T \ {AnyOf(T)}] \in Int /\ f[AnyOf(T)] \in Int
      BY <2>3, <3>1
    <3>3. F[T] = f[AnyOf(T)] + F[T \ {AnyOf(T)}]
      BY <1>2, <2>3, <2>5 DEF Summed
    <3> QED
      BY <2>3, <3>2, <3>3
  <2> QED
    BY <2>4, <2>5
<1> QED
  BY <1>1, <1>3

LEMMA AverageTyped ==
    ASSUME NEW n \in Nat \ {0}, NEW f \in [1..n -> Int]
    PROVE  Average(f) \in Int
<1>1. IsFiniteSet(1..n)
  BY FS_Interval
<1>2. SumFunction(f) \in Int
  <2>1. DOMAIN f = 1..n /\ \A i \in 1..n : f[i] \in Int
    OBVIOUS
  <2> QED
    BY <1>1, <2>1, SumTyped
<1>3. Len(f) = n
  <2>1. f \in Seq(Int) /\ DOMAIN f = 1..n
    OBVIOUS
  <2> QED
    BY <2>1
<1> QED
  BY <1>2, <1>3 DEF Average, Part

-----------------------------------------------------------------------------
(* A segment of some candidates is one of their clusters.                  *)
LEMMA SegmentOfCluster ==
    ASSUME NEW S, Fit(S), NEW k \in 1..Len(Clusters(S))
    PROVE  LET q == Clusters(S)[k]
               s == Segment(q, k)
           IN  /\ q \in Seq(S) /\ Len(q) \in Nat \ {0} /\ q[1] \in S
               /\ s.members = {c.id : c \in {b \in S : Holds(Clusters(S), k, b)}}
               /\ s.src = q[1].src /\ s.dst = q[1].dst /\ s.arc = arcOf[q[1].id]
               /\ s.others \in Nat
               /\ (\E b \in S : Holds(Clusters(S), k, b) /\ b.line.others = 0) => s.others = 0
               /\ s.count \in Int /\ s.zone \in Int /\ s.offset \in Int /\ s.rank \in Int
               /\ s.line.length \in Int
<1> DEFINE cl == Clusters(S)
           q == cl[k]
           n == Len(q)
           s == Segment(q, k)
<1>1. SharedOut(cl, S)
  BY ClustersShare
<1>2. q \in Seq(S) /\ q # <<>>
  <2> HIDE DEF cl
  <2> QED
    BY <1>1 DEF SharedOut, cl
<1>3. n \in Nat \ {0} /\ DOMAIN q = 1..n /\ \A i \in 1..n : q[i] \in S
  <2> HIDE DEF cl
  <2> QED
    BY <1>2
<1>4. Range(q) = {b \in S : Holds(cl, k, b)}
  <2>1. \A b : Holds(cl, k, b) <=> \E i \in 1..n : q[i] = b
    BY DEF Holds
  <2>2. Range(q) = {q[i] : i \in 1..n}
    BY <1>3 DEF Range
  <2> HIDE DEF q, n
  <2> QED
    BY <1>3, <2>1, <2>2
<1>5. k \in Int
  OBVIOUS
<1> HIDE DEF cl
<1>6. \A b \in S : /\ b.line \in Lines /\ b.line.others \in Nat /\ b.line.zone \in Int
                   /\ b.line.offset \in Int /\ b.line.length \in Int
  BY SegmentAssumption DEF Fit
<1> HIDE DEF q, n
<1>7. Representative(q) \in S
  <2> DEFINE Score(c) == (IF c.source = "traj" THEN 10000 ELSE 0) + c.line.length
             Beats(i, j) == \/ Score(q[i]) > Score(q[j])
                            \/ Score(q[i]) = Score(q[j]) /\ i <= j
             Less == {p \in (1..n) \X (1..n) : p[1] # p[2] /\ Beats(p[1], p[2])}
  <2>1. \A i \in 1..n : Score(q[i]) \in Int /\ i \in Int
    BY <1>3, <1>6
  <2> HIDE DEF Score
  <2>2. StrictOn(Less, 1..n)
    <3>1. \A x, y, z \in 1..n : x # y /\ y # z /\ Beats(x, y) /\ Beats(y, z) => x # z /\ Beats(x, z)
      BY <2>1
    <3>2. \A x, y \in 1..n : <<x, y>> \in Less <=> x # y /\ Beats(x, y)
      OBVIOUS
    <3> HIDE DEF Less, Beats
    <3> QED
      BY <3>1, <3>2 DEF StrictOn
  <2>3. IsFiniteSet(1..n) /\ 1..n # {}
    <3>1. 1 \in 1..n /\ n \in Int
      BY <1>3
    <3>2. 1..n # {}
      BY <3>1
    <3>3. IsFiniteSet(1..n)
      BY <3>1, FS_Interval
    <3> QED
      BY <3>2, <3>3
  <2>4. PICK i \in 1..n : \A j \in 1..n : <<j, i>> \notin Less
    <3> HIDE DEF Less
    <3> QED
      BY <2>2, <2>3, FirstOfSome
  <2>5. \A j \in 1..n : Beats(i, j)
    <3>1. \A j \in 1..n : Beats(i, j) \/ (i # j /\ Beats(j, i))
      BY <2>1
    <3>2. \A j \in 1..n : ~(j # i /\ Beats(j, i))
      <4> HIDE DEF Beats
      <4> QED
        BY <2>4
    <3> HIDE DEF Beats
    <3> QED
      BY <3>1, <3>2
  <2>6. Representative(q) = q[CHOOSE j \in 1..n : \A l \in 1..n : Beats(j, l)]
    BY <1>3 DEF Representative, Score
  <2> HIDE DEF Beats
  <2>7. (CHOOSE j \in 1..n : \A l \in 1..n : Beats(j, l)) \in 1..n
    BY <2>5
  <2> QED
    BY <1>3, <2>6, <2>7
<1>8. Min({c.line.others : c \in Range(q)}) \in Nat
      /\ ((\E b \in Range(q) : b.line.others = 0) => Min({c.line.others : c \in Range(q)}) = 0)
  <2> DEFINE O == {c.line.others : c \in Range(q)}
  <2>1. O \subseteq Nat /\ O # {}
    <3>1. q[1] \in Range(q)
      BY <1>3 DEF Range
    <3>2. Range(q) \subseteq S
      BY <1>4
    <3> QED
      BY <1>6, <3>1, <3>2
  <2>2. (\E b \in Range(q) : b.line.others = 0) => 0 \in O
    OBVIOUS
  <2> HIDE DEF O
  <2>3. \E x \in O : \A y \in O : x <= y
    BY <2>1, LeastOfSome
  <2>4. Min(O) \in O /\ \A y \in O : Min(O) <= y
    BY <2>3 DEF Min
  <2>5. 0 \in O => Min(O) = 0
    <3>1. 0 \in O => Min(O) <= 0
      BY <2>4
    <3>2. Min(O) \in Nat
      BY <2>1, <2>4
    <3> HIDE DEF Min
    <3> QED
      BY <3>1, <3>2
  <2> QED
    BY <2>1, <2>2, <2>4, <2>5 DEF O
<1>9. Average([i \in DOMAIN q |-> q[i].line.zone]) \in Int
  <2>1. [i \in DOMAIN q |-> q[i].line.zone] \in [1..n -> Int]
    BY <1>3, <1>6
  <2> QED
    BY <1>3, <2>1, AverageTyped
<1>10. Average([i \in DOMAIN q |-> q[i].line.offset]) \in Int
  <2>1. [i \in DOMAIN q |-> q[i].line.offset] \in [1..n -> Int]
    BY <1>3, <1>6
  <2> QED
    BY <1>3, <2>1, AverageTyped
<1>11. /\ s.members = IdsOf(Range(q)) /\ s.src = q[1].src /\ s.dst = q[1].dst
       /\ s.arc = arcOf[q[1].id] /\ s.count = n /\ s.rank = k
       /\ s.others = Min({c.line.others : c \in Range(q)})
       /\ s.zone = Average([i \in DOMAIN q |-> q[i].line.zone])
       /\ s.offset = Average([i \in DOMAIN q |-> q[i].line.offset])
       /\ s.line = Representative(q).line
  BY DEF Segment, n
<1> HIDE DEF s
<1>12. s.members = {c.id : c \in {b \in S : Holds(cl, k, b)}}
  BY <1>4, <1>11 DEF IdsOf
<1>13. s.others \in Nat /\ ((\E b \in S : Holds(cl, k, b) /\ b.line.others = 0) => s.others = 0)
  BY <1>4, <1>8, <1>11
<1>14. s.count \in Int /\ s.zone \in Int /\ s.offset \in Int /\ s.rank \in Int /\ s.line.length \in Int
  BY <1>3, <1>5, <1>6, <1>7, <1>9, <1>10, <1>11
<1>15. q[1] \in S
  BY <1>3
<1> QED
  BY <1>2, <1>3, <1>11, <1>12, <1>13, <1>14, <1>15 DEF s, q, n, cl

-----------------------------------------------------------------------------
(* The order of the segments of an arc.                                    *)
KeyFits(s) ==
    /\ s.others \in Nat /\ s.count \in Int /\ s.zone \in Int /\ s.line.length \in Int
    /\ s.offset \in Int /\ s.rank \in Int

LEMMA BetterOrder ==
    ASSUME NEW S, \A s \in S : KeyFits(s)
    PROVE  StrictOn({p \in S \X S : Better(p[1], p[2])}, S)
<1> DEFINE Less == {p \in S \X S : Better(p[1], p[2])}
<1>1. \A s \in S : Key(s) \in [1..7 -> Int]
  <2> TAKE s \in S
  <2>1. /\ s.others \in Int /\ 0 - s.count \in Int /\ 0 - s.zone \in Int
        /\ s.line.length \in Int /\ (IF s.offset < 0 THEN 0 - s.offset ELSE s.offset) \in Int
        /\ s.offset \in Int /\ s.rank \in Int
    BY DEF KeyFits
  <2> QED
    BY <2>1 DEF Key
<1>2. \A s, t \in S : <<s, t>> \in Less
        <=> LexLess(7, Key(s), Key(t))
  BY <1>1 DEF Better, LexLess
<1> HIDE DEF Less
<1>3. \A s \in S : <<s, s>> \notin Less
  BY <1>1, <1>2 DEF LexLess
<1>4. ASSUME NEW x \in S, NEW y \in S, NEW z \in S, <<x, y>> \in Less, <<y, z>> \in Less
      PROVE  <<x, z>> \in Less
  <2>1. LexLess(7, Key(x), Key(y)) /\ LexLess(7, Key(y), Key(z))
    BY <1>2, <1>4
  <2>2. LexLess(7, Key(x), Key(z))
    BY <1>1, <2>1, Lexicographic
  <2> QED
    BY <1>2, <2>2
<1> QED
  BY <1>3, <1>4 DEF StrictOn, Less

(* Of two segments the better one crosses no more cross sections.          *)
LEMMA BetterCrosses ==
    ASSUME NEW s, NEW t, KeyFits(s), KeyFits(t), Better(s, t)
    PROVE  s.others <= t.others
<1>1. Key(s)[1] = s.others /\ Key(t)[1] = t.others /\ DOMAIN Key(s) = 1..7
  BY DEF Key
<1>2. PICK i \in 1..7 : Key(s)[i] < Key(t)[i] /\ \A j \in 1..(i - 1) : Key(s)[j] = Key(t)[j]
  BY <1>1 DEF Better
<1>3. CASE i = 1
  BY <1>1, <1>2, <1>3 DEF KeyFits
<1>4. CASE i # 1
  <2>1. 1 \in 1..(i - 1)
    BY <1>4
  <2> QED
    BY <1>1, <1>2, <2>1 DEF KeyFits
<1> QED
  BY <1>3, <1>4

(* An arc with a segment that crosses nothing gets one that crosses        *)
(* nothing: the best of those.                                             *)
LEMMA CleanGetsSelected ==
    ASSUME NEW G, IsFiniteSet(G), \A s \in G : KeyFits(s), \E s \in G : s.others = 0
    PROVE  \E s \in G : DroppedReason(s, G) = ""
<1> DEFINE Z == {s \in G : s.others = 0}
           Less == {p \in Z \X Z : Better(p[1], p[2])}
<1>1. IsFiniteSet(Z) /\ Z # {} /\ \A s \in Z : KeyFits(s)
  BY FS_Subset
<1>2. StrictOn(Less, Z)
  <2> HIDE DEF Z
  <2> QED
    BY <1>1, BetterOrder
<1>3. PICK x \in Z : \A y \in Z : <<y, x>> \notin Less
  <2> HIDE DEF Z, Less
  <2> QED
    BY <1>1, <1>2, FirstOfSome
<1>4. x \in G /\ x.others = 0
  OBVIOUS
<1>5. Cross1Reason(x, G) = ""
  BY <1>4 DEF Cross1Reason
<1>6. {t \in G : Better(t, x) /\ Cross1Reason(t, G) = ""} = {}
  <2> SUFFICES ASSUME NEW t \in G, Better(t, x) PROVE FALSE
    OBVIOUS
  <2>1. t.others <= 0
    BY <1>4, BetterCrosses
  <2>2. t \in Z
    BY <2>1 DEF KeyFits
  <2> QED
    BY <1>3, <2>2
<1>7. ~(Cardinality({}) >= TopK)
  <2>1. Cardinality({}) = 0
    BY FS_EmptySet
  <2> QED
    BY <2>1, SegmentAssumption
<1>8. DroppedReason(x, G) = ""
  BY <1>5, <1>6, <1>7 DEF DroppedReason
<1> QED
  BY <1>4, <1>8

-----------------------------------------------------------------------------
(* What the steps keep.                                                    *)
Fields == {"id", "source", "traj", "road", "src", "dst", "gap", "line"}

OncePerTraj(S) ==
    \A b, c \in S : (b.source = "traj" /\ c.source = "traj" /\ b.traj = c.traj
                     /\ Pair(b) = Pair(c)) => b = c

Candidates ==
    /\ Fit(cands) /\ OncePerTraj(cands)
    /\ \A c \in cands : DOMAIN c = Fields
    /\ DOMAIN fate = IdsOf(cands) /\ DOMAIN arcOf = IdsOf(cands)

SharedFate ==
    \A c, d \in cands :
        (/\ arcOf[c.id] # NoArc /\ arcOf[c.id] = arcOf[d.id] /\ Pair(c) = Pair(d)
         /\ fate[c.id] = "src_conflicts_with_unique_unanchored_prior_endpoint")
        => fate[d.id] = fate[c.id]

Groups == {Segments(OnArc(c)) : c \in Left}
ReasonOf(s) == DroppedReason(s, CHOOSE g \in Groups : s \in g)

SelectionInv ==
    /\ roads \in RoadSets
    /\ step \in {"wait", "pairing", "gate", "filter", "select", "end"}
    /\ step = "wait" => cands = {}
    /\ step # "wait" => Candidates
    /\ step = "filter" => \A c \in cands : arcOf[c.id] # NoArc => fate[c.id] = ""
    /\ step \in {"select", "end"} => SharedFate
    /\ step = "end" => /\ selected = {s \in UNION Groups : ReasonOf(s) = ""}
                       /\ DOMAIN rest = {s \in UNION Groups : ReasonOf(s) # ""}

LEMMA RawIsFinite ==
    ASSUME NEW d \in Drives, d.roads \in RoadSets
    PROVE  IsFiniteSet(FromTrajs(d) \cup FromRoads(d))
<1> DEFINE One(t, i, j) == [id |-> 1000 * t + 10 * i + j, source |-> "traj", traj |-> t, road |-> 0,
                    src |-> d.trajs[t][i], dst |-> d.trajs[t][j], gap |-> j - i]
           Before(t, j) == {One(t, i, j) : i \in 1..(j - 1)}
           Of(t) == {Before(t, j) : j \in DOMAIN d.trajs[t]}
           All == {UNION Of(t) : t \in DOMAIN d.trajs}
<1>1. d.trajs \in Seq(Seq(Cross)) /\ IsFiniteSet(d.roads)
  BY SegmentAssumption, SearchAssumption
<1>2. Len(d.trajs) \in Nat /\ DOMAIN d.trajs = 1..Len(d.trajs)
  BY <1>1
<1>3. \A t \in DOMAIN d.trajs : /\ Len(d.trajs[t]) \in Nat
                                 /\ DOMAIN d.trajs[t] = 1..Len(d.trajs[t])
  BY <1>1
<1>4. \A m \in Int : IsFiniteSet(1..m)
  BY FS_Interval
<1> HIDE DEF One
<1>5. \A t : \A j \in Int : IsFiniteSet(Before(t, j))
  <2> TAKE t
  <2> TAKE j \in Int
  <2> DEFINE f == [i \in 1..(j - 1) |-> One(t, i, j)]
  <2>1. Before(t, j) = {f[i] : i \in 1..(j - 1)}
    OBVIOUS
  <2>2. IsFiniteSet(1..(j - 1))
    BY <1>4
  <2> HIDE DEF f, Before
  <2> QED
    BY <2>1, <2>2, ImageFinite
<1> HIDE DEF Before
<1>6. ASSUME NEW t \in DOMAIN d.trajs PROVE IsFiniteSet(UNION Of(t))
  <2>1. IsFiniteSet(Of(t))
    <3> DEFINE f == [j \in DOMAIN d.trajs[t] |-> Before(t, j)]
    <3>1. Of(t) = {f[j] : j \in DOMAIN d.trajs[t]}
      OBVIOUS
    <3>2. IsFiniteSet(DOMAIN d.trajs[t])
      BY <1>3, <1>4
    <3> HIDE DEF f, Of
    <3> QED
      BY <3>1, <3>2, ImageFinite
  <2>2. \A B \in Of(t) : IsFiniteSet(B)
    BY <1>3, <1>5
  <2> HIDE DEF Of
  <2> QED
    BY <2>1, <2>2, FS_UNION
<1> HIDE DEF Of
<1>7. IsFiniteSet(UNION All)
  <2>1. IsFiniteSet(All)
    <3> DEFINE f == [t \in DOMAIN d.trajs |-> UNION Of(t)]
    <3>1. All = {f[t] : t \in DOMAIN d.trajs}
      OBVIOUS
    <3>2. IsFiniteSet(DOMAIN d.trajs)
      BY <1>2, <1>4
    <3> HIDE DEF f, All
    <3> QED
      BY <3>1, <3>2, ImageFinite
  <2>2. \A B \in All : IsFiniteSet(B)
    BY <1>6
  <2> HIDE DEF All
  <2> QED
    BY <2>1, <2>2, FS_UNION
<1>8. FromTrajs(d) = UNION All
  BY DEF FromTrajs, All, Of, Before, One
<1>9. IsFiniteSet(FromRoads(d))
  <2> DEFINE One1(r) == [id |-> r.id, source |-> "prior", traj |-> 0, road |-> r.id,
                 src |-> IF r.id \in d.reversed THEN r.to ELSE r.from,
                 dst |-> IF r.id \in d.reversed THEN r.from ELSE r.to, gap |-> 0]
             f == [r \in d.roads |-> One1(r)]
  <2>1. FromRoads(d) = {f[r] : r \in d.roads}
    BY DEF FromRoads
  <2> HIDE DEF f
  <2> QED
    BY <1>1, <2>1, ImageFinite
<1> QED
  BY <1>7, <1>8, <1>9, FS_Union

LEMMA RawIs ==
    ASSUME NEW d \in Drives, d.roads \in RoadSets, NEW c \in FromTrajs(d) \cup FromRoads(d)
    PROVE  /\ c.id \in Nat
           /\ c.source = "traj" =>
                 \E t \in DOMAIN d.trajs : \E j \in DOMAIN d.trajs[t] : \E i \in 1..(j - 1) :
                     c = [id |-> 1000 * t + 10 * i + j, source |-> "traj", traj |-> t, road |-> 0,
                          src |-> d.trajs[t][i], dst |-> d.trajs[t][j], gap |-> j - i]
<1>1. CASE c \in FromTrajs(d)
  <2>1. \E t \in DOMAIN d.trajs : \E j \in DOMAIN d.trajs[t] : \E i \in 1..(j - 1) :
           c = [id |-> 1000 * t + 10 * i + j, source |-> "traj", traj |-> t, road |-> 0,
                src |-> d.trajs[t][i], dst |-> d.trajs[t][j], gap |-> j - i]
    BY <1>1 DEF FromTrajs
  <2> QED
    BY <1>1, <2>1, SegmentAssumption
<1>2. CASE c \in FromRoads(d)
  <2>1. PICK r \in d.roads : c.id = r.id /\ c.source = "prior"
    BY <1>2 DEF FromRoads
  <2>2. r.id \in Nat
    BY SearchAssumption
  <2> QED
    BY <2>1, <2>2
<1> QED
  BY <1>1, <1>2

LEMMA RawOnce ==
    ASSUME NEW d \in Drives, d.roads \in RoadSets,
           NEW b \in FromTrajs(d) \cup FromRoads(d), NEW c \in FromTrajs(d) \cup FromRoads(d),
           b.source = "traj", c.source = "traj", b.traj = c.traj, b.src = c.src, b.dst = c.dst
    PROVE  b = c
<1>1. PICK t \in DOMAIN d.trajs : \E j \in DOMAIN d.trajs[t] : \E i \in 1..(j - 1) :
           b = [id |-> 1000 * t + 10 * i + j, source |-> "traj", traj |-> t, road |-> 0,
                src |-> d.trajs[t][i], dst |-> d.trajs[t][j], gap |-> j - i]
  BY RawIs
<1>2. PICK u \in DOMAIN d.trajs : \E j \in DOMAIN d.trajs[u] : \E i \in 1..(j - 1) :
           c = [id |-> 1000 * u + 10 * i + j, source |-> "traj", traj |-> u, road |-> 0,
                src |-> d.trajs[u][i], dst |-> d.trajs[u][j], gap |-> j - i]
  BY RawIs
<1>3. t = u
  BY <1>1, <1>2
<1>4. PICK j \in DOMAIN d.trajs[t] : \E i \in 1..(j - 1) :
           b = [id |-> 1000 * t + 10 * i + j, source |-> "traj", traj |-> t, road |-> 0,
                src |-> d.trajs[t][i], dst |-> d.trajs[t][j], gap |-> j - i]
  BY <1>1
<1>5. PICK i \in 1..(j - 1) :
           b = [id |-> 1000 * t + 10 * i + j, source |-> "traj", traj |-> t, road |-> 0,
                src |-> d.trajs[t][i], dst |-> d.trajs[t][j], gap |-> j - i]
  BY <1>4
<1>6. PICK m \in DOMAIN d.trajs[t] : \E l \in 1..(m - 1) :
           c = [id |-> 1000 * t + 10 * l + m, source |-> "traj", traj |-> t, road |-> 0,
                src |-> d.trajs[t][l], dst |-> d.trajs[t][m], gap |-> m - l]
  BY <1>2, <1>3
<1>7. PICK l \in 1..(m - 1) :
           c = [id |-> 1000 * t + 10 * l + m, source |-> "traj", traj |-> t, road |-> 0,
                src |-> d.trajs[t][l], dst |-> d.trajs[t][m], gap |-> m - l]
  BY <1>6
<1>8. \A x \in DOMAIN d.trajs[t] : \A y \in 1..(x - 1) : y \in DOMAIN d.trajs[t]
  <2>1. d.trajs \in Seq(Seq(Cross))
    BY SegmentAssumption
  <2>2. d.trajs[t] \in Seq(Cross)
    BY <2>1
  <2>3. DOMAIN d.trajs[t] = 1..Len(d.trajs[t]) /\ Len(d.trajs[t]) \in Nat
    BY <2>2
  <2> QED
    BY <2>3
<1>9. d.trajs[t][i] = d.trajs[t][l] /\ d.trajs[t][j] = d.trajs[t][m]
  BY <1>5, <1>7
<1>10. i = l /\ j = m
  BY <1>5, <1>7, <1>8, <1>9, SegmentAssumption
<1> QED
  BY <1>5, <1>7, <1>10

LEMMA StepGenerate == ASSUME SelectionInv, Generate PROVE SelectionInv'
<1>1. PICK d \in Drives : /\ d.roads = roads
        /\ \E line \in [{c.id : c \in FromTrajs(d) \cup FromRoads(d)} -> Lines] :
              cands' = {[id |-> c.id, source |-> c.source, traj |-> c.traj, road |-> c.road,
                         src |-> c.src, dst |-> c.dst, gap |-> c.gap, line |-> line[c.id]] :
                            c \in FromTrajs(d) \cup FromRoads(d)}
        /\ fate' = [i \in {c.id : c \in FromTrajs(d) \cup FromRoads(d)} |-> ""]
        /\ arcOf' = [i \in {c.id : c \in FromTrajs(d) \cup FromRoads(d)} |-> NoArc]
  BY Zenon DEF Generate
<1> DEFINE raw == FromTrajs(d) \cup FromRoads(d)
<1>2. PICK line \in [{c.id : c \in raw} -> Lines] :
              cands' = {[id |-> c.id, source |-> c.source, traj |-> c.traj, road |-> c.road,
                         src |-> c.src, dst |-> c.dst, gap |-> c.gap, line |-> line[c.id]] :
                            c \in raw}
  BY <1>1
<1> DEFINE Full(c) == [id |-> c.id, source |-> c.source, traj |-> c.traj, road |-> c.road,
                       src |-> c.src, dst |-> c.dst, gap |-> c.gap, line |-> line[c.id]]
           f == [c \in raw |-> Full(c)]
<1>3. d.roads \in RoadSets
  BY <1>1 DEF SelectionInv
<1>4. step' = "pairing" /\ roads' = roads
  BY DEF Generate, topologyVars
<1>5. IsFiniteSet(raw)
  BY <1>3, RawIsFinite
<1>6. \A c \in raw : c.id \in Nat
  BY <1>3, RawIs
<1>7. \A b, c \in raw : b.id = c.id => b = c
  BY SegmentAssumption
<1>8. \A b, c \in raw : (b.source = "traj" /\ c.source = "traj" /\ b.traj = c.traj
                         /\ b.src = c.src /\ b.dst = c.dst) => b = c
  BY <1>3, RawOnce
<1>9. fate' = [i \in {c.id : c \in raw} |-> ""] /\ arcOf' = [i \in {c.id : c \in raw} |-> NoArc]
  BY <1>1
<1> HIDE DEF raw
<1>10. cands' = {f[c] : c \in raw}
  BY <1>2
<1>11. \A c \in raw : line[c.id] \in Lines
  OBVIOUS
<1>12. \A c \in raw : /\ Full(c).id = c.id /\ Full(c).source = c.source /\ Full(c).traj = c.traj
                      /\ Full(c).src = c.src /\ Full(c).dst = c.dst
                      /\ Full(c).line \in Lines /\ DOMAIN Full(c) = Fields
  BY <1>11 DEF Fields
<1>13. cands' = {Full(c) : c \in raw}
  BY <1>2
<1>14. IsFiniteSet(cands')
  <2> HIDE DEF f
  <2> QED
    BY <1>5, <1>10, ImageFinite
<1> HIDE DEF f, Full
<1>15. Fit(cands)'
  BY <1>6, <1>7, <1>12, <1>13, <1>14 DEF Fit
<1>16. OncePerTraj(cands)'
  BY <1>8, <1>12, <1>13 DEF OncePerTraj, Pair
<1>17. IdsOf(cands)' = {c.id : c \in raw}
  BY <1>12, <1>13 DEF IdsOf
<1>18. Candidates'
  BY <1>9, <1>12, <1>13, <1>15, <1>16, <1>17 DEF Candidates
<1> QED
  BY <1>3, <1>4, <1>18 DEF SelectionInv

LEMMA StepPairing == ASSUME SelectionInv, Pairing PROVE SelectionInv'
<1>1. /\ step = "pairing" /\ step' = "gate" /\ roads' = roads /\ arcOf' = arcOf
      /\ DOMAIN fate' = DOMAIN fate /\ cands' = {Anchored(c) : c \in cands}
  BY DEF Pairing, topologyVars
<1>2. Candidates
  BY <1>1 DEF SelectionInv
<1>3. \A c \in cands : /\ Anchored(c).id = c.id /\ Anchored(c).source = c.source
                       /\ Anchored(c).traj = c.traj /\ Anchored(c).line = c.line
                       /\ DOMAIN Anchored(c) = Fields
                       /\ c.source = "traj" => Anchored(c) = c
  BY <1>2 DEF Candidates, Anchored, Loose, Fields
<1>4. IsFiniteSet(cands')
  <2> DEFINE f == [c \in cands |-> Anchored(c)]
  <2>1. cands' = {f[c] : c \in cands}
    BY <1>1
  <2>2. IsFiniteSet(cands)
    BY <1>2 DEF Candidates, Fit
  <2> HIDE DEF f
  <2> QED
    BY <2>1, <2>2, ImageFinite
<1>5. Fit(cands)'
  BY <1>1, <1>2, <1>3, <1>4 DEF Candidates, Fit
<1>6. OncePerTraj(cands)'
  BY <1>1, <1>2, <1>3 DEF Candidates, OncePerTraj, Pair
<1>7. IdsOf(cands)' = IdsOf(cands)
  BY <1>1, <1>3 DEF IdsOf
<1>8. Candidates'
  BY <1>1, <1>2, <1>3, <1>5, <1>6, <1>7 DEF Candidates
<1> QED
  BY <1>1, <1>8 DEF SelectionInv

LEMMA StepGate == ASSUME SelectionInv, Gate PROVE SelectionInv'
<1> DEFINE in == {c \in Left : ArcsOf(Pair(c)) # {} /\ ProductionGate(c.src, c.dst) = ""}
<1>1. /\ step = "gate" /\ step' = "filter" /\ roads' = roads /\ cands' = cands
      /\ fate' = [i \in DOMAIN fate |->
                    LET c == CHOOSE d \in cands : d.id = i
                    IN  IF fate[i] # "" THEN fate[i] ELSE ProductionGate(c.src, c.dst)]
      /\ \E nearest : arcOf' = [i \in DOMAIN fate |-> IF i \in IdsOf(in) THEN nearest[i] ELSE NoArc]
  BY DEF Gate, topologyVars
<1>2. Candidates
  BY <1>1 DEF SelectionInv
<1>3. Candidates'
  BY <1>1, <1>2 DEF Candidates, Fit, OncePerTraj, IdsOf, Pair
<1>4. ASSUME NEW c \in cands, arcOf'[c.id] # NoArc PROVE fate'[c.id] = ""
  <2>1. c.id \in DOMAIN fate
    BY <1>2 DEF Candidates, IdsOf
  <2>2. c.id \in IdsOf(in)
    <3> HIDE DEF in
    <3> QED
      BY <1>1, <1>4, <2>1
  <2>3. c \in in
    BY <1>2, <2>2 DEF Candidates, Fit, IdsOf, Left
  <2>4. (CHOOSE d \in cands : d.id = c.id) = c
    BY <1>2 DEF Candidates, Fit
  <2>5. fate[c.id] = "" /\ ProductionGate(c.src, c.dst) = ""
    BY <2>3 DEF Left
  <2> QED
    BY <1>1, <2>1, <2>4, <2>5
<1> QED
  BY <1>1, <1>3, <1>4 DEF SelectionInv

LEMMA AtMostOne ==
    ASSUME NEW S, IsFiniteSet(S), Cardinality(S) <= 1, NEW x \in S, NEW y \in S
    PROVE  x = y
<1>1. IsFiniteSet(S \ {x}) /\ Cardinality(S \ {x}) = Cardinality(S) - 1
  BY FS_RemoveElement
<1>2. Cardinality(S \ {x}) \in Nat /\ Cardinality(S) \in Nat
  BY <1>1, FS_CardinalityType
<1>3. S \ {x} = {}
  BY <1>1, <1>2, FS_EmptySet
<1> QED
  BY <1>3

LEMMA StepFilter == ASSUME SelectionInv, Filter PROVE SelectionInv'
<1> DEFINE owner == "src_conflicts_with_unique_unanchored_prior_endpoint"
<1>1. /\ step = "filter" /\ step' = "select" /\ roads' = roads /\ cands' = cands /\ arcOf' = arcOf
      /\ fate' = [i \in DOMAIN fate |->
                    LET c == CHOOSE d \in cands : d.id = i
                    IN  IF fate[i] # "" THEN fate[i]
                        ELSE IF LosesToPrior(c) THEN owner ELSE CrossReason(c)]
  BY DEF Filter, topologyVars
<1>2. Candidates
  BY <1>1 DEF SelectionInv
<1>3. Candidates'
  BY <1>1, <1>2 DEF Candidates, Fit, OncePerTraj, IdsOf, Pair
<1>4. ASSUME NEW c \in cands, NEW d \in cands, arcOf[c.id] # NoArc, arcOf[c.id] = arcOf[d.id],
             Pair(c) = Pair(d), fate'[c.id] = owner
      PROVE  c = d
  <2>1. fate[c.id] = "" /\ fate[d.id] = ""
    BY <1>1, <1>4 DEF SelectionInv
  <2>2. c \in OnArc(c) /\ d \in OnArc(c)
    BY <1>4, <2>1 DEF OnArc, Left
  <2>3. LosesToPrior(c)
    <3>1. c.id \in DOMAIN fate /\ (CHOOSE e \in cands : e.id = c.id) = c
      BY <1>2 DEF Candidates, Fit, IdsOf
    <3>2. CrossReason(c) # owner
      <4>1. c.line.fault # owner
        BY <1>2, SegmentAssumption DEF Candidates, Fit
      <4> QED
        BY <4>1 DEF CrossReason
    <3> QED
      BY <1>1, <1>4, <2>1, <3>1, <3>2
  <2>4. c.source = "traj" /\ d.source = "traj"
    BY <2>2, <2>3 DEF LosesToPrior
  <2>5. c.traj = d.traj
    <3> DEFINE f == [e \in OnArc(c) |-> e.traj]
               T == {e.traj : e \in OnArc(c)}
    <3>1. IsFiniteSet(T)
      <4>1. T = {f[e] : e \in OnArc(c)}
        OBVIOUS
      <4>2. IsFiniteSet(OnArc(c))
        <5>1. IsFiniteSet(cands) /\ OnArc(c) \subseteq cands
          BY <1>2 DEF Candidates, Fit, OnArc, Left
        <5> QED
          BY <5>1, FS_Subset
      <4> HIDE DEF f, T
      <4> QED
        BY <4>1, <4>2, ImageFinite
    <3>2. Cardinality(T) <= 1
      BY <2>3 DEF LosesToPrior
    <3>3. c.traj \in T /\ d.traj \in T
      BY <2>2
    <3> HIDE DEF T
    <3> QED
      BY <3>1, <3>2, <3>3, AtMostOne
  <2> QED
    BY <1>2, <1>4, <2>4, <2>5 DEF Candidates, OncePerTraj
<1>5. SharedFate'
  BY <1>1, <1>4 DEF SharedFate, Pair
<1> QED
  BY <1>1, <1>3, <1>5 DEF SelectionInv

LEMMA StepSelect == ASSUME SelectionInv, Select PROVE SelectionInv'
<1> DEFINE reason == [s \in UNION Groups |-> ReasonOf(s)]
<1>1. /\ step = "select" /\ step' = "end" /\ roads' = roads /\ cands' = cands /\ arcOf' = arcOf
      /\ fate' = fate /\ drive' = drive
  BY DEF Select, topologyVars
<1>2. /\ selected' = {s \in DOMAIN reason : reason[s] = ""}
      /\ rest' = [s \in {t \in DOMAIN reason : reason[t] # ""} |-> reason[s]]
  BY Zenon DEF Select, Groups, ReasonOf
<1>3. /\ selected' = {s \in UNION Groups : ReasonOf(s) = ""}
      /\ DOMAIN rest' = {s \in UNION Groups : ReasonOf(s) # ""}
  BY <1>2
<1>4. Groups' = Groups /\ \A s : ReasonOf(s)' = ReasonOf(s)
  <2>1. Groups' = Groups
    BY <1>1 DEF Groups, Segments, Segment, OnArc, Left, Pair
  <2>2. \A s, g : DroppedReason(s, g)' = DroppedReason(s, g)
    BY <1>1 DEF DroppedReason, Cross1Reason
  <2> QED
    BY <2>1, <2>2 DEF ReasonOf
<1>5. Candidates' /\ SharedFate'
  BY <1>1 DEF SelectionInv, Candidates, Fit, OncePerTraj, IdsOf, Pair, SharedFate
<1> QED
  BY <1>1, <1>3, <1>4, <1>5 DEF SelectionInv

LEMMA SelectionInit == SegmentInit => SelectionInv
BY DEF SegmentInit, Init, SelectionInv

LEMMA SelectionNext == SelectionInv /\ [SegmentNext]_allVars => SelectionInv'
<1> SUFFICES ASSUME SelectionInv, [SegmentNext]_allVars PROVE SelectionInv'
  OBVIOUS
<1>1. ASSUME roads' = roads, UNCHANGED segmentVars PROVE SelectionInv'
  <2>1. /\ step' = step /\ drive' = drive /\ cands' = cands /\ fate' = fate /\ arcOf' = arcOf
        /\ selected' = selected /\ rest' = rest /\ roads' = roads
    BY <1>1 DEF segmentVars
  <2>2. Groups' = Groups /\ \A s : ReasonOf(s)' = ReasonOf(s)
    <3>1. Groups' = Groups
      BY <2>1 DEF Groups, Segments, Segment, OnArc, Left, Pair
    <3>2. \A s, g : DroppedReason(s, g)' = DroppedReason(s, g)
      BY <2>1 DEF DroppedReason, Cross1Reason
    <3> QED
      BY <3>1, <3>2 DEF ReasonOf
  <2>3. Candidates' = Candidates /\ SharedFate' = SharedFate
    BY <2>1 DEF Candidates, Fit, OncePerTraj, IdsOf, Pair, SharedFate
  <2> QED
    BY <2>1, <2>2, <2>3 DEF SelectionInv
<1>2. CASE Next /\ UNCHANGED segmentVars
  <2>1. roads' = roads
    BY <1>2 DEF Next, BuildArcs, TurnBack, Begin, Visit, Conclude, Finish
  <2> QED
    BY <1>1, <1>2, <2>1
<1>3. CASE UNCHANGED allVars
  BY <1>1, <1>3 DEF allVars, topologyVars
<1> QED
  BY <1>2, <1>3, StepGenerate, StepPairing, StepGate, StepFilter, StepSelect DEF SegmentNext

-----------------------------------------------------------------------------
(* The segments that were formed.                                          *)
LEMMA OnArcFits ==
    ASSUME Candidates, NEW c \in Left
    PROVE  /\ Fit(OnArc(c)) /\ c \in OnArc(c)
           /\ \A d \in OnArc(c) : OnArc(d) = OnArc(c) /\ Pair(d) = Pair(c) /\ arcOf[d.id] = arcOf[c.id]
<1>1. OnArc(c) \subseteq cands
  BY DEF OnArc, Left
<1>2. Fit(OnArc(c))
  BY <1>1, FS_Subset DEF Candidates, Fit
<1> QED
  BY <1>2 DEF OnArc

LEMMA SegmentsAre ==
    ASSUME Candidates, NEW c \in Left, NEW s \in Segments(OnArc(c))
    PROVE  /\ KeyFits(s) /\ s.arc = arcOf[c.id] /\ <<s.src, s.dst>> = Pair(c)
           /\ \E d \in OnArc(c) : d.id \in s.members
           /\ \A d \in cands : d.id \in s.members =>
                 d \in Left /\ OnArc(d) = OnArc(c) /\ Pair(d) = Pair(c)
<1> DEFINE S == OnArc(c)
           cl == Clusters(S)
<1>1. /\ Fit(S)
      /\ \A d \in S : OnArc(d) = OnArc(c) /\ Pair(d) = Pair(c) /\ arcOf[d.id] = arcOf[c.id]
      /\ S \subseteq Left /\ S \subseteq cands
  BY OnArcFits DEF OnArc, Left
<1>2. cl \in Seq(Seq(S))
  BY <1>1, ClustersShare DEF SharedOut
<1>3. PICK k \in 1..Len(cl) : s = Segment(cl[k], k)
  <2>1. DOMAIN cl = 1..Len(cl)
    <3> HIDE DEF cl
    <3> QED
      BY <1>2
  <2> QED
    BY <2>1 DEF Segments
<1> DEFINE q == cl[k]
<1>4. /\ q \in Seq(S) /\ Len(q) \in Nat \ {0} /\ q[1] \in S
      /\ s.members = {b.id : b \in {b \in S : Holds(cl, k, b)}}
      /\ s.src = q[1].src /\ s.dst = q[1].dst /\ s.arc = arcOf[q[1].id]
      /\ KeyFits(s)
  BY <1>1, <1>3, SegmentOfCluster DEF KeyFits
<1> HIDE DEF q
<1>5. s.arc = arcOf[c.id] /\ <<s.src, s.dst>> = Pair(c)
  BY <1>1, <1>4 DEF Pair
<1>6. Holds(cl, k, q[1])
  BY <1>4 DEF Holds, q
<1>7. q[1].id \in s.members
  BY <1>4, <1>6
<1>8. ASSUME NEW d \in cands, d.id \in s.members PROVE d \in S
  BY <1>1, <1>4, <1>8 DEF Candidates, Fit
<1> QED
  BY <1>1, <1>4, <1>5, <1>7, <1>8

(* Every candidate that is left is part of one segment and no other is of  *)
(* any.                                                                    *)
LEMMA InOneSegment ==
    ASSUME Candidates, NEW c \in cands
    PROVE  Cardinality({s \in UNION Groups : c.id \in s.members})
               = (IF fate[c.id] = "" THEN 1 ELSE 0)
<1> DEFINE mine == {s \in UNION Groups : c.id \in s.members}
<1>1. ASSUME NEW s \in mine PROVE c \in Left /\ s \in Segments(OnArc(c))
  <2>1. PICK d \in Left : s \in Segments(OnArc(d))
    BY DEF Groups
  <2> QED
    BY <2>1, SegmentsAre
<1>2. CASE fate[c.id] # ""
  <2>1. mine = {}
    BY <1>1, <1>2 DEF Left
  <2> QED
    BY <1>2, <2>1, FS_EmptySet
<1>3. CASE fate[c.id] = ""
  <2> DEFINE S == OnArc(c)
             cl == Clusters(S)
  <2>1. c \in Left
    BY <1>3 DEF Left
  <2>2. c \in S /\ Fit(S)
    BY <2>1, OnArcFits
  <2>3. SharedOut(cl, S)
    BY <2>2, ClustersShare
  <2>4. PICK k \in 1..Len(cl) : Holds(cl, k, c)
    BY <2>2, <2>3 DEF SharedOut
  <2>5. DOMAIN cl = 1..Len(cl)
    BY <2>3 DEF SharedOut
  <2>6. \A l \in 1..Len(cl) : c.id \in Segment(cl[l], l).members <=> l = k
    <3> TAKE l \in 1..Len(cl)
    <3>1. Segment(cl[l], l).members = {b.id : b \in {b \in S : Holds(cl, l, b)}}
      BY <2>2, SegmentOfCluster
    <3>2. c.id \in Segment(cl[l], l).members <=> Holds(cl, l, c)
      <4> HIDE DEF cl, S
      <4> QED
        BY <2>2, <3>1 DEF Fit
    <3> QED
      BY <2>2, <2>3, <2>4, <3>2 DEF SharedOut
  <2>7. Segments(S) = {Segment(cl[l], l) : l \in 1..Len(cl)}
    BY <2>5 DEF Segments
  <2>8. mine = {Segment(cl[k], k)}
    <3>1. Segment(cl[k], k) \in mine
      <4>1. Segment(cl[k], k) \in Segments(S)
        BY <2>7
      <4>2. Segments(S) \in Groups
        BY <2>1 DEF Groups
      <4> QED
        BY <2>6, <4>1, <4>2
    <3>2. ASSUME NEW s \in mine PROVE s = Segment(cl[k], k)
      <4>1. PICK l \in 1..Len(cl) : s = Segment(cl[l], l)
        BY <1>1, <2>7
      <4> QED
        BY <2>6, <4>1
    <3> HIDE DEF mine
    <3> QED
      BY <3>1, <3>2
  <2> HIDE DEF mine
  <2> QED
    BY <1>3, <2>8, FS_Singleton DEF mine
<1> QED
  BY <1>2, <1>3

LEMMA SegmentsFinite ==
    ASSUME NEW S, Fit(S)
    PROVE  DOMAIN Clusters(S) = 1..Len(Clusters(S)) /\ IsFiniteSet(Segments(S))
<1> DEFINE cl == Clusters(S)
           f == [l \in 1..Len(cl) |-> Segment(cl[l], l)]
<1>1. cl \in Seq(Seq(S))
  BY ClustersShare DEF SharedOut
<1>2. DOMAIN cl = 1..Len(cl) /\ Len(cl) \in Nat
  <2> HIDE DEF cl
  <2> QED
    BY <1>1
<1>3. Segments(S) = {f[l] : l \in 1..Len(cl)}
  BY <1>2 DEF Segments
<1>4. IsFiniteSet(1..Len(cl))
  BY <1>2, FS_Interval
<1> HIDE DEF f, cl
<1>5. IsFiniteSet(Segments(S))
  BY <1>3, <1>4, ImageFinite
<1> QED
  BY <1>2, <1>5 DEF cl

(* A candidate that crosses no other cross section makes its segment one.  *)
LEMMA CleanMemberCleans ==
    ASSUME NEW S, Fit(S), NEW k \in 1..Len(Clusters(S)),
           NEW b \in S, Holds(Clusters(S), k, b), b.line.others = 0
    PROVE  Segment(Clusters(S)[k], k).others = 0
<1> DEFINE q == Clusters(S)[k]
           s == Segment(q, k)
<1>1. /\ q \in Seq(S) /\ Len(q) \in Nat \ {0} /\ q[1] \in S
      /\ s.members = {c.id : c \in {d \in S : Holds(Clusters(S), k, d)}}
      /\ s.src = q[1].src /\ s.dst = q[1].dst /\ s.arc = arcOf[q[1].id]
      /\ s.others \in Nat
      /\ (\E d \in S : Holds(Clusters(S), k, d) /\ d.line.others = 0) => s.others = 0
      /\ s.count \in Int /\ s.zone \in Int /\ s.offset \in Int /\ s.rank \in Int
      /\ s.line.length \in Int
  BY SegmentOfCluster
<1> QED
  BY <1>1

(* An arc with a candidate that crosses no other cross section has its     *)
(* segment.                                                                *)
LEMMA CleanArcIsServed ==
    ASSUME Candidates, NEW c \in cands, fate[c.id] = "", c.line.others = 0
    PROVE  \E s \in UNION Groups : /\ ReasonOf(s) = ""
                                   /\ s.arc = arcOf[c.id] /\ <<s.src, s.dst>> = Pair(c)
<1> DEFINE S == OnArc(c)
           cl == Clusters(S)
           G == Segments(S)
<1>1. c \in Left
  BY DEF Left
<1>2. c \in S /\ Fit(S)
  BY <1>1, OnArcFits
<1>3. SharedOut(cl, S)
  BY <1>2, ClustersShare
<1>4. DOMAIN cl = 1..Len(cl) /\ IsFiniteSet(G)
  BY <1>2, SegmentsFinite
<1>5. PICK k \in 1..Len(cl) : Holds(cl, k, c)
  BY <1>2, <1>3 DEF SharedOut
<1>6. Segment(cl[k], k) \in G /\ Segment(cl[k], k).others = 0
  <2>1. Segment(cl[k], k).others = 0
    <3> HIDE DEF S
    <3> QED
      BY <1>2, <1>5, CleanMemberCleans
  <2>2. Segment(cl[k], k) \in G
    BY <1>4 DEF Segments
  <2> QED
    BY <2>1, <2>2
<1>7. \A s \in G : KeyFits(s) /\ s.arc = arcOf[c.id] /\ <<s.src, s.dst>> = Pair(c)
  BY <1>1, SegmentsAre
<1>8. \E s \in G : DroppedReason(s, G) = ""
  <2> HIDE DEF G
  <2> QED
    BY <1>4, <1>6, <1>7, CleanGetsSelected
<1>9. PICK s \in G : DroppedReason(s, G) = ""
  BY <1>8
<1>10. G \in Groups
  BY <1>1 DEF Groups
<1>11. \A g \in Groups : s \in g => g = G
  <2> TAKE g \in Groups
  <2> HAVE s \in g
  <2>1. PICK d \in Left : g = Segments(OnArc(d))
    BY DEF Groups
  <2>2. PICK e \in OnArc(d) : e.id \in s.members
    BY <2>1, SegmentsAre
  <2>3. e \in cands
    BY <2>2 DEF OnArc, Left
  <2>4. OnArc(e) = OnArc(d)
    BY <2>1, <2>2, <2>3, SegmentsAre
  <2>5. OnArc(e) = OnArc(c)
    BY <1>1, <1>9, <2>2, <2>3, SegmentsAre
  <2> QED
    BY <2>1, <2>4, <2>5
<1> HIDE DEF G
<1>12. (CHOOSE g \in Groups : s \in g) = G
  BY <1>9, <1>10, <1>11
<1>13. ReasonOf(s) = ""
  BY <1>9, <1>12 DEF ReasonOf
<1> QED
  BY <1>7, <1>9, <1>10, <1>13

(* Every candidate that passed every filter is part of one segment, an arc *)
(* with one that crosses no other cross section gets a segment, and the    *)
(* candidates of an arc share their fate at the gate of the owners, for    *)
(* any drives, lines and limits.                                           *)
THEOREM EvidenceIsKept == SegmentSpec => []EvidenceGetsASegment
<1>1. ASSUME SelectionInv PROVE EvidenceGetsASegment
  <2>1. ASSUME step = "end", NEW c \in cands
        PROVE  LET mine == {s \in selected \cup DOMAIN rest : c.id \in s.members}
               IN  /\ Cardinality(mine) = (IF fate[c.id] = "" THEN 1 ELSE 0)
                   /\ (fate[c.id] = "" /\ c.line.others = 0) =>
                         \E s \in selected : s.arc = arcOf[c.id] /\ <<s.src, s.dst>> = Pair(c)
    <3>1. /\ Candidates
          /\ selected = {s \in UNION Groups : ReasonOf(s) = ""}
          /\ DOMAIN rest = {s \in UNION Groups : ReasonOf(s) # ""}
      BY <1>1, <2>1 DEF SelectionInv
    <3>2. selected \cup DOMAIN rest = UNION Groups
      BY <3>1
    <3>3. Cardinality({s \in UNION Groups : c.id \in s.members})
             = (IF fate[c.id] = "" THEN 1 ELSE 0)
      BY <3>1, InOneSegment
    <3>4. (fate[c.id] = "" /\ c.line.others = 0) =>
             \E s \in selected : s.arc = arcOf[c.id] /\ <<s.src, s.dst>> = Pair(c)
      BY <3>1, CleanArcIsServed
    <3> QED
      BY <3>2, <3>3, <3>4
  <2>2. step \in {"select", "end"} => SharedFate
    BY <1>1 DEF SelectionInv
  <2> QED
    BY <2>1, <2>2 DEF EvidenceGetsASegment, SharedFate
<1>2. SelectionInv => EvidenceGetsASegment
  BY <1>1
<1> QED
  BY SelectionInit, SelectionNext, <1>2, PTL DEF SegmentSpec
=============================================================================
