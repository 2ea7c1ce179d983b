---------------------------- MODULE ArcLinesProofs ----------------------------
(***************************************************************************)
(* Proofs about ArcLines: whatever lines, trajectories and surfaces a      *)
(* patch has (LinesFit), what is allotted is sound, siblings follow their  *)
(* own supports, and no other way to share these out is better.            *)
(*                                                                         *)
(* From the bottom up: orders and the lists they make, candidates, rows,   *)
(* intervals and their shares, the lines that are drawn, the search for    *)
(* the best assignment, and the inductive invariant.                       *)
(***************************************************************************)
EXTENDS ArcLines, FiniteSetTheorems, WellFoundedInduction, TLAPS

-----------------------------------------------------------------------------
(* Inductions over numbers and finite sets.                                *)
LEMMA LeastOfSome ==
    ASSUME NEW S, S \subseteq Nat, S # {}
    PROVE  \E p \in S : \A q \in S : p <= q
<1> DEFINE Less == OpToRel(<, Nat)
<1>1. PICK p \in S : \A q \in S : <<q, p>> \notin Less
  BY NatLessThanWellFounded, WFMin
<1>2. Less = {s \in Nat \X Nat : s[1] < s[2]}
  BY DEF OpToRel
<1>3. \A q \in Nat : q < p => <<q, p>> \in Less
  BY <1>2
<1> HIDE DEF Less
<1>4. \A q \in S : ~(q < p)
  BY <1>1, <1>3
<1> QED
  BY <1>4

(* What holds at 0 and is handed on from each number to the next holds up  *)
(* to N.                                                                   *)
LEMMA HandedOn ==
    ASSUME NEW N \in Nat, NEW Good, 0 \in Good,
           \A k \in 1..N : k - 1 \in Good => k \in Good
    PROVE  \A k \in 0..N : k \in Good
<1> DEFINE Bad == {k \in 0..N : k \notin Good}
<1>1. SUFFICES ASSUME Bad # {} PROVE FALSE
  OBVIOUS
<1>2. Bad \subseteq Nat
  OBVIOUS
<1>3. PICK m \in Bad : \A n \in Bad : m <= n
  <2> HIDE DEF Bad
  <2> QED
    BY <1>1, <1>2, LeastOfSome
<1>4. m # 0 /\ m \in 1..N
  BY <1>3
<1>5. m - 1 \in 0..N /\ m - 1 \notin Bad
  BY <1>3, <1>4
<1> QED
  BY <1>3, <1>4, <1>5

(* A finite set that is bad in some way has a bad subset all whose proper  *)
(* subsets are good.                                                       *)
LEMMA LeastBadSubset ==
    ASSUME NEW S, IsFiniteSet(S), NEW Bad, \A T \in Bad : T \subseteq S, Bad # {}
    PROVE  \E T \in Bad : \A U \in Bad : U \subseteq T => U = T
<1>1. IsWellFoundedOn(StrictSubsetOrdering(S), SUBSET S)
  BY FS_StrictSubsetOrderingWellFounded, FS_FiniteSubsetsOfFinite
<1>2. PICK T \in Bad : \A U \in Bad : <<U, T>> \notin StrictSubsetOrdering(S)
  <2>1. Bad \subseteq SUBSET S
    OBVIOUS
  <2> QED
    BY <1>1, <2>1, WFMin
<1>3. \A U \in Bad : U \subseteq T /\ U # T => <<U, T>> \in StrictSubsetOrdering(S)
  BY DEF StrictSubsetOrdering
<1>4. \A U \in Bad : U \subseteq T => U = T
  BY <1>2, <1>3
<1> QED
  BY <1>4

(* What a function makes of the members of a finite set is finite.         *)
LEMMA ImageFinite ==
    ASSUME NEW S, IsFiniteSet(S), NEW f
    PROVE  IsFiniteSet({f[x] : x \in S})
<1> DEFINE T == {f[x] : x \in S}
           g == [x \in S |-> f[x]]
<1>1. g \in Surjection(S, T)
  BY DEF Surjection
<1> HIDE DEF g, T
<1> QED
  BY <1>1, FS_Surjection DEF T

(* A function can be defined by what it is at 0 and how it goes on.        *)
Follows(f, N, base, onto) == f[0] = base /\ \A k \in 1..N : f[k] = onto[<<k, f[k - 1]>>]

LEMMA RecursionExists ==
    ASSUME NEW N \in Nat, NEW X, NEW base \in X, NEW onto \in [(1..N) \X X -> X]
    PROVE  \E f \in [0..N -> X] : Follows(f, N, base, onto)
<1> DEFINE Is(f, j) == Follows(f, j, base, onto)
           Good == {j \in 0..N : \E f \in [0..j -> X] : Is(f, j)}
<1> USE DEF Follows
<1>1. 0 \in Good
  <2> DEFINE f == [k \in 0..0 |-> base]
  <2>1. f \in [0..0 -> X] /\ Is(f, 0) /\ 0 \in 0..N
    OBVIOUS
  <2> HIDE DEF f, Is
  <2> QED
    BY <2>1
<1>2. ASSUME NEW j \in 1..N, j - 1 \in Good PROVE j \in Good
  <2>1. PICK f \in [0..(j - 1) -> X] : Is(f, j - 1)
    BY <1>2
  <2> DEFINE g == [k \in 0..j |-> IF k = j THEN onto[<<j, f[j - 1]>>] ELSE f[k]]
  <2>2. f[j - 1] \in X
    OBVIOUS
  <2>3. g \in [0..j -> X]
    BY <2>2
  <2>4. ASSUME NEW k \in 1..j PROVE g[k] = onto[<<k, g[k - 1]>>]
    <3>1. CASE k = j
      <4>1. g[j] = onto[<<j, f[j - 1]>>] /\ g[j - 1] = f[j - 1]
        OBVIOUS
      <4> HIDE DEF g
      <4> QED
        BY <3>1, <4>1
    <3>2. CASE k # j
      <4>1. k \in 1..(j - 1) /\ g[k] = f[k] /\ g[k - 1] = f[k - 1]
        BY <3>2
      <4> HIDE DEF g
      <4> QED
        BY <2>1, <4>1
    <3> QED
      BY <3>1, <3>2
  <2>5. g[0] = base
    BY <2>1
  <2> HIDE DEF g
  <2>6. Is(g, j) /\ j \in 0..N
    BY <2>4, <2>5
  <2> QED
    BY <2>3, <2>6
<1> HIDE DEF Is
<1>3. N \in Good
  <2> HIDE DEF Good
  <2> QED
    BY <1>1, <1>2, HandedOn
<1> QED
  BY <1>3 DEF Is, Good

-----------------------------------------------------------------------------
(* Orders.  Less is the strict order as a set of pairs.                    *)
StrictOn(Less, S) ==
    /\ \A x \in S : <<x, x>> \notin Less
    /\ \A x, y, z \in S : <<x, y>> \in Less /\ <<y, z>> \in Less => <<x, z>> \in Less
TotalOn(Less, S) == \A x, y \in S : x # y => <<x, y>> \in Less \/ <<y, x>> \in Less

LEMMA FirstOfSome ==
    ASSUME NEW S, IsFiniteSet(S), S # {}, NEW Less, StrictOn(Less, S)
    PROVE  \E x \in S : \A y \in S : <<y, x>> \notin Less
<1> DEFINE Bad == {T \in SUBSET S : T # {} /\ \A x \in T : \E y \in T : <<y, x>> \in Less}
<1>1. SUFFICES ASSUME S \in Bad PROVE FALSE
  OBVIOUS
<1>2. \A T \in Bad : T \subseteq S
  OBVIOUS
<1>3. PICK T \in Bad : \A U \in Bad : U \subseteq T => U = T
  <2> HIDE DEF Bad
  <2> QED
    BY <1>1, <1>2, LeastBadSubset
<1>4. PICK x \in T : TRUE
  BY <1>3
<1> DEFINE U == {y \in T : <<y, x>> \in Less}
<1>5. U # {} /\ U \subseteq S /\ x \notin U
  BY <1>3, <1>4 DEF StrictOn
<1>6. ASSUME NEW y \in U PROVE \E z \in U : <<z, y>> \in Less
  <2>1. PICK z \in T : <<z, y>> \in Less
    BY <1>3
  <2>2. <<z, x>> \in Less
    BY <1>3, <1>4, <2>1 DEF StrictOn
  <2> QED
    BY <2>1, <2>2
<1>7. U \in Bad
  BY <1>5, <1>6
<1> QED
  BY <1>3, <1>4, <1>5, <1>7

RankBy(S, Less, x) == Cardinality({y \in S : <<y, x>> \in Less})

(* The rank of an element, the number of those before it, tells it from    *)
(* the others, and there is an element of every rank.                      *)
LEMMA RanksAre ==
    ASSUME NEW S, IsFiniteSet(S), NEW Less, StrictOn(Less, S), TotalOn(Less, S)
    PROVE  /\ \A x \in S : RankBy(S, Less, x) \in 0..(Cardinality(S) - 1)
           /\ \A x, y \in S : RankBy(S, Less, x) = RankBy(S, Less, y) => x = y
           /\ \A k \in 0..(Cardinality(S) - 1) : \E x \in S : RankBy(S, Less, x) = k
<1> DEFINE before(x) == {y \in S : <<y, x>> \in Less}
           rank(x) == Cardinality(before(x))
           n == Cardinality(S)
           R == 0..(n - 1)
           f == [x \in S |-> rank(x)]
<1>1. n \in Nat
  BY FS_CardinalityType
<1>2. \A x \in S : IsFiniteSet(before(x)) /\ rank(x) \in Nat
  <2> TAKE x \in S
  <2>1. before(x) \in SUBSET S
    OBVIOUS
  <2> HIDE DEF before
  <2> QED
    BY <2>1, FS_Subset, FS_CardinalityType
<1>3. ASSUME NEW x \in S, NEW y \in S, <<x, y>> \in Less PROVE rank(x) < rank(y)
  <2>1. before(x) \subseteq before(y) /\ x \in before(y) /\ x \notin before(x)
    BY <1>3 DEF StrictOn
  <2> HIDE DEF before
  <2>2. rank(x) <= rank(y) /\ (rank(x) = rank(y) => before(x) = before(y))
    BY <1>2, <2>1, FS_Subset
  <2> QED
    BY <1>2, <2>1, <2>2
<1>4. \A x \in S : rank(x) \in R
  <2> TAKE x \in S
  <2>1. before(x) \in SUBSET S /\ x \notin before(x)
    BY DEF StrictOn
  <2> HIDE DEF before
  <2>2. rank(x) <= n /\ rank(x) # n
    BY <2>1, FS_Subset
  <2> QED
    BY <1>1, <1>2, <2>2
<1>5. \A x, y \in S : rank(x) = rank(y) => x = y
  <2> SUFFICES ASSUME NEW x \in S, NEW y \in S, x # y PROVE rank(x) # rank(y)
    OBVIOUS
  <2>1. <<x, y>> \in Less \/ <<y, x>> \in Less
    BY DEF TotalOn
  <2>2. rank(x) < rank(y) \/ rank(y) < rank(x)
    BY <1>3, <2>1
  <2>3. rank(x) \in Nat /\ rank(y) \in Nat
    BY <1>2
  <2> HIDE DEF rank
  <2> QED
    BY <2>2, <2>3
<1> HIDE DEF rank
<1>6. f \in Injection(S, R)
  BY <1>4, <1>5 DEF Injection, IsInjective
<1>7. IsFiniteSet(R) /\ Cardinality(R) = n
  BY <1>1, FS_Interval
<1> HIDE DEF R, n
<1>8. f \in Surjection(S, R)
  <2> HIDE DEF f
  <2> QED
    BY <1>6, <1>7, FS_Injection DEF n
<1>9. \A k \in R : \E x \in S : rank(x) = k
  BY <1>8 DEF Surjection
<1>10. \A x \in S : RankBy(S, Less, x) = rank(x)
  BY Zenon DEF RankBy, rank, before
<1> QED
  BY <1>4, <1>5, <1>9, <1>10 DEF R, n

(* The order of the first difference.                                      *)
LexLess(n, a, b) == \E i \in 1..n : a[i] < b[i] /\ \A j \in 1..(i - 1) : a[j] = b[j]

LEMMA Lexicographic ==
    ASSUME NEW n \in Nat, NEW a \in [1..n -> Int], NEW b \in [1..n -> Int], NEW c \in [1..n -> Int],
           LexLess(n, a, b), LexLess(n, b, c)
    PROVE  LexLess(n, a, c)
<1> USE DEF LexLess
<1>1. PICK i \in 1..n : a[i] < b[i] /\ \A j \in 1..(i - 1) : a[j] = b[j]
  OBVIOUS
<1>2. PICK k \in 1..n : b[k] < c[k] /\ \A j \in 1..(k - 1) : b[j] = c[j]
  OBVIOUS
<1>3. CASE i <= k
  <2>1. a[i] < c[i]
    <3>1. CASE i = k
      BY <1>1, <1>2, <3>1
    <3>2. CASE i # k
      <4>1. i \in 1..(k - 1)
        BY <1>3, <3>2
      <4> QED
        BY <1>1, <1>2, <4>1
    <3> QED
      BY <3>1, <3>2
  <2>2. \A j \in 1..(i - 1) : j \in 1..(k - 1)
    BY <1>3
  <2> QED
    BY <1>1, <1>2, <2>1, <2>2
<1>4. CASE k < i
  <2>1. k \in 1..(i - 1) /\ \A j \in 1..(k - 1) : j \in 1..(i - 1)
    BY <1>4
  <2>2. a[k] < c[k]
    BY <1>1, <1>2, <2>1
  <2> QED
    BY <1>1, <1>2, <2>1, <2>2
<1> QED
  BY <1>3, <1>4

(* What Sorted gives, for any order: every member once, in order.          *)
Listed(q, S) ==
    /\ q \in [1..Cardinality(S) -> S]
    /\ \A x \in S : \E k \in 1..Cardinality(S) : q[k] = x
    /\ \A k, l \in 1..Cardinality(S) : q[k] = q[l] => k = l

LEMMA ListIs ==
    ASSUME NEW S, IsFiniteSet(S), NEW Less, StrictOn(Less, S), TotalOn(Less, S),
           NEW q, q = [k \in 1..Cardinality(S) |-> q[k]],
           \A k \in 1..Cardinality(S) : q[k] \in S /\ RankBy(S, Less, q[k]) = k - 1
    PROVE  Listed(q, S)
<1> DEFINE rank(x) == RankBy(S, Less, x)
           n == Cardinality(S)
<1>1. n \in Nat
  BY FS_CardinalityType
<1>2. /\ \A x \in S : rank(x) \in 0..(n - 1)
      /\ \A x, y \in S : rank(x) = rank(y) => x = y
  BY RanksAre
<1>4. \A k \in 1..n : q[k] \in S /\ rank(q[k]) = k - 1
  OBVIOUS
<1> HIDE DEF rank
<1>5. q \in [1..n -> S]
  <2>1. q = [k \in 1..n |-> q[k]]
    OBVIOUS
  <2> QED
    BY <1>4, <2>1
<1>6. ASSUME NEW x \in S PROVE \E k \in 1..n : q[k] = x
  <2>1. PICK k \in 1..n : k - 1 = rank(x)
    <3> DEFINE k == rank(x) + 1
    <3>1. k \in 1..n /\ k - 1 = rank(x)
      BY <1>1, <1>2
    <3> HIDE DEF k
    <3> QED
      BY <3>1
  <2>2. rank(q[k]) = rank(x) /\ q[k] \in S
    BY <1>4, <2>1
  <2> QED
    BY <1>2, <2>2
<1>7. \A k, l \in 1..n : q[k] = q[l] => k = l
  <2> TAKE k, l \in 1..n
  <2>1. k - 1 = rank(q[k]) /\ l - 1 = rank(q[l])
    BY <1>4
  <2> HAVE q[k] = q[l]
  <2>2. k - 1 = l - 1
    BY <2>1
  <2> QED
    BY <1>1, <2>2
<1> QED
  BY <1>5, <1>6, <1>7 DEF Listed

(* Keys that are sequences of numbers, all of one length and no two alike. *)
KeysFit(S, n, K) ==
    /\ IsFiniteSet(S) /\ n \in Nat
    /\ \A x \in S : K[x] \in [1..n -> Int]
    /\ \A x, y \in S : K[x] = K[y] => x = y

LEMMA PrecedesIs ==
    ASSUME NEW n \in Nat, NEW a \in [1..n -> Int], NEW b
    PROVE  Precedes(a, b) <=> LexLess(n, a, b)
<1>1. DOMAIN a = 1..n
  OBVIOUS
<1> QED
  BY <1>1 DEF Precedes, LexLess

LEMMA LexTotal ==
    ASSUME NEW n \in Nat, NEW a \in [1..n -> Int], NEW b \in [1..n -> Int], a # b
    PROVE  LexLess(n, a, b) \/ LexLess(n, b, a)
<1> DEFINE D == {i \in 1..n : a[i] # b[i]}
<1>1. D # {}
  OBVIOUS
<1>2. PICK i \in D : \A j \in D : i <= j
  <2>1. D \subseteq Nat
    OBVIOUS
  <2> HIDE DEF D
  <2> QED
    BY <1>1, <2>1, LeastOfSome
<1>3. \A j \in 1..(i - 1) : a[j] = b[j]
  <2> TAKE j \in 1..(i - 1)
  <2>1. j \in 1..n /\ j < i
    BY <1>2
  <2> QED
    BY <1>2, <2>1
<1>4. a[i] < b[i] \/ b[i] < a[i]
  <2>1. i \in 1..n /\ a[i] # b[i]
    BY <1>2
  <2>2. a[i] \in Int /\ b[i] \in Int
    BY <2>1
  <2> QED
    BY <2>1, <2>2
<1> QED
  BY <1>2, <1>3, <1>4 DEF LexLess

LEMMA KeysOrder ==
    ASSUME NEW S, NEW n, NEW K, KeysFit(S, n, K)
    PROVE  LET Less == {p \in S \X S : Precedes(K[p[1]], K[p[2]])}
           IN  StrictOn(Less, S) /\ TotalOn(Less, S)
<1> DEFINE Less == {p \in S \X S : Precedes(K[p[1]], K[p[2]])}
<1>1. \A x, y \in S : <<x, y>> \in Less <=> LexLess(n, K[x], K[y])
  <2> TAKE x, y \in S
  <2>1. <<x, y>> \in Less <=> Precedes(K[x], K[y])
    OBVIOUS
  <2> QED
    BY <2>1, PrecedesIs DEF KeysFit
<1> HIDE DEF Less
<1>2. \A x \in S : ~LexLess(n, K[x], K[x])
  BY DEF LexLess, KeysFit
<1>3. \A x, y, z \in S : LexLess(n, K[x], K[y]) /\ LexLess(n, K[y], K[z]) => LexLess(n, K[x], K[z])
  BY Lexicographic DEF KeysFit
<1>4. \A x, y \in S : x # y => LexLess(n, K[x], K[y]) \/ LexLess(n, K[y], K[x])
  BY LexTotal DEF KeysFit
<1>5. StrictOn(Less, S)
  BY <1>1, <1>2, <1>3 DEF StrictOn
<1>6. TotalOn(Less, S)
  BY <1>1, <1>4 DEF TotalOn
<1> QED
  BY <1>5, <1>6 DEF Less

LEMMA KeysRank ==
    ASSUME NEW S, NEW n, NEW K, KeysFit(S, n, K)
    PROVE  Listed(Ranked(S, K), S)
<1> DEFINE Less == {p \in S \X S : Precedes(K[p[1]], K[p[2]])}
<1>1. StrictOn(Less, S) /\ TotalOn(Less, S)
  BY KeysOrder
<1>2. \A x \in S : {y \in S : Precedes(K[y], K[x])} = {y \in S : <<y, x>> \in Less}
  OBVIOUS
<1> HIDE DEF Less
<1>3. \A x \in S : Cardinality({y \in S : Precedes(K[y], K[x])}) = RankBy(S, Less, x)
  BY <1>2 DEF RankBy
<1>4. IsFiniteSet(S)
  BY DEF KeysFit
<1> DEFINE e(k) == CHOOSE x \in S : Cardinality({y \in S : Precedes(K[y], K[x])}) = k - 1
           q == Ranked(S, K)
<1>5. \A k \in 1..Cardinality(S) : e(k) \in S /\ RankBy(S, Less, e(k)) = k - 1
  <2> TAKE k \in 1..Cardinality(S)
  <2>1. k - 1 \in 0..(Cardinality(S) - 1)
    BY <1>4, FS_CardinalityType
  <2>2. \E x \in S : RankBy(S, Less, x) = k - 1
    BY <1>1, <1>4, <2>1, RanksAre
  <2>3. \E x \in S : Cardinality({y \in S : Precedes(K[y], K[x])}) = k - 1
    BY <1>3, <2>2
  <2>5. e(k) \in S /\ Cardinality({y \in S : Precedes(K[y], K[e(k)])}) = k - 1
    BY <2>3
  <2> QED
    BY <1>3, <2>5
<1>6. q = [k \in 1..Cardinality(S) |-> e(k)]
  BY DEF Ranked
<1> HIDE DEF e, q
<1>7. q = [k \in 1..Cardinality(S) |-> q[k]]
  BY <1>6
<1>8. \A k \in 1..Cardinality(S) : q[k] \in S /\ RankBy(S, Less, q[k]) = k - 1
  BY <1>5, <1>6
<1>9. Listed(q, S)
  BY <1>1, <1>4, <1>7, <1>8, ListIs
<1> QED
  BY <1>9 DEF q

LEMMA KeysFirst ==
    ASSUME NEW S, NEW n, NEW K, KeysFit(S, n, K), S # {}
    PROVE  \E s \in S : \A u \in S \ {s} : Precedes(K[s], K[u])
<1> DEFINE Less == {p \in S \X S : Precedes(K[p[1]], K[p[2]])}
<1>1. StrictOn(Less, S) /\ TotalOn(Less, S)
  BY KeysOrder
<1>2. \A x, y \in S : <<x, y>> \in Less => Precedes(K[x], K[y])
  OBVIOUS
<1> HIDE DEF Less
<1>3. PICK s \in S : \A y \in S : <<y, s>> \notin Less
  BY <1>1, FirstOfSome DEF KeysFit
<1>4. \A u \in S \ {s} : <<s, u>> \in Less
  BY <1>1, <1>3 DEF TotalOn
<1> QED
  BY <1>2, <1>4

LEMMA KeysLast ==
    ASSUME NEW S, NEW n, NEW K, KeysFit(S, n, K), S # {}
    PROVE  \E s \in S : \A u \in S \ {s} : Precedes(K[u], K[s])
<1> DEFINE Less == {p \in S \X S : Precedes(K[p[1]], K[p[2]])}
           More == {p \in S \X S : <<p[2], p[1]>> \in Less}
<1>1. StrictOn(Less, S) /\ TotalOn(Less, S)
  BY KeysOrder
<1>2. \A x, y \in S : <<x, y>> \in Less => Precedes(K[x], K[y])
  OBVIOUS
<1> HIDE DEF Less
<1>3. \A x, y \in S : <<x, y>> \in More <=> <<y, x>> \in Less
  OBVIOUS
<1> HIDE DEF More
<1>4. StrictOn(More, S)
  BY <1>1, <1>3 DEF StrictOn
<1>5. PICK s \in S : \A y \in S : <<y, s>> \notin More
  BY <1>4, FirstOfSome DEF KeysFit
<1>6. \A u \in S \ {s} : <<u, s>> \in Less
  BY <1>1, <1>3, <1>5 DEF TotalOn
<1> QED
  BY <1>2, <1>6

-----------------------------------------------------------------------------
(* Least and greatest of a finite set of numbers.                          *)
LEMMA MinIs ==
    ASSUME NEW S, IsFiniteSet(S), S # {}, S \subseteq Int
    PROVE  Min(S) \in S /\ \A y \in S : Min(S) <= y
<1> DEFINE Less == {p \in S \X S : p[1] < p[2]}
<1>1. \A x, y \in S : <<x, y>> \in Less <=> x < y
  OBVIOUS
<1> HIDE DEF Less
<1>2. StrictOn(Less, S)
  BY <1>1 DEF StrictOn
<1>3. \E x \in S : \A y \in S : <<y, x>> \notin Less
  BY <1>2, FirstOfSome
<1>4. \E x \in S : \A y \in S : x =< y
  <2>1. PICK x \in S : \A y \in S : ~(y < x)
    BY <1>1, <1>3
  <2>2. \A y \in S : x =< y
    BY <2>1
  <2> QED
    BY <2>2
<1> QED
  BY <1>4 DEF Min

LEMMA MaxIs ==
    ASSUME NEW S, IsFiniteSet(S), S # {}, S \subseteq Int
    PROVE  Max(S) \in S /\ \A y \in S : y <= Max(S)
<1> DEFINE More == {p \in S \X S : p[1] > p[2]}
<1>1. \A x, y \in S : <<x, y>> \in More <=> x > y
  OBVIOUS
<1> HIDE DEF More
<1>2. StrictOn(More, S)
  BY <1>1 DEF StrictOn
<1>3. \E x \in S : \A y \in S : <<y, x>> \notin More
  BY <1>2, FirstOfSome
<1>4. \E x \in S : \A y \in S : x >= y
  <2>1. PICK x \in S : \A y \in S : ~(y > x)
    BY <1>1, <1>3
  <2>2. \A y \in S : x >= y
    BY <2>1
  <2> QED
    BY <2>2
<1> QED
  BY <1>4 DEF Max

LEMMA MinOfTwo ==
    ASSUME NEW a \in Int, NEW b \in Int
    PROVE  /\ Min({a, b}) = IF a <= b THEN a ELSE b
           /\ Max({a, b}) = IF a <= b THEN b ELSE a
<1>1. IsFiniteSet({a, b}) /\ {a, b} # {} /\ {a, b} \subseteq Int
  <2>1. IsFiniteSet({a}) /\ IsFiniteSet({b})
    BY FS_Singleton
  <2>2. {a, b} = {a} \cup {b}
    OBVIOUS
  <2> QED
    BY <2>1, <2>2, FS_Union
<1>2. Min({a, b}) \in {a, b} /\ Min({a, b}) <= a /\ Min({a, b}) <= b
  BY <1>1, MinIs
<1>3. Max({a, b}) \in {a, b} /\ a <= Max({a, b}) /\ b <= Max({a, b})
  BY <1>1, MaxIs
<1> QED
  BY <1>2, <1>3

LEMMA MaxWithZero == ASSUME NEW a \in Int PROVE Max({0, a}) = IF 0 <= a THEN a ELSE 0
BY MinOfTwo

-----------------------------------------------------------------------------
(* What the lines and the pieces of trajectories look like.                *)
SegmentsFit(S) ==
    /\ IsFiniteSet(S)
    /\ \A s \in S : /\ IsLine(s.line) /\ s.trip \in Nat /\ s.order \in Nat
                    /\ s.ends \subseteq Ends
    /\ \A s, u \in S : s.trip = u.trip /\ s.order = u.order => s = u

LEMMA CellsFinite == ASSUME Cells \in Nat, NEW D, D \subseteq 1..Cells PROVE IsFiniteSet(D)
<1>1. IsFiniteSet(1..Cells)
  BY FS_Interval
<1> QED
  BY <1>1, FS_Subset

LEMMA LineEnds ==
    ASSUME LinesFit, NEW f, IsLine(f)
    PROVE  /\ IsFiniteSet(DOMAIN f) /\ DOMAIN f \subseteq Nat
           /\ Min(DOMAIN f) \in DOMAIN f /\ Max(DOMAIN f) \in DOMAIN f
           /\ \A c \in DOMAIN f : Min(DOMAIN f) <= c /\ c <= Max(DOMAIN f) /\ f[c] \in Positions
           /\ f # NoLine
           /\ IsFiniteSet(DOMAIN f) /\ Cardinality(DOMAIN f) \in Nat
<1> DEFINE D == DOMAIN f
<1>1. D # {} /\ D \subseteq 1..Cells /\ f \in [D -> Positions]
  BY DEF IsLine
<1>2. IsFiniteSet(D) /\ Cardinality(D) \in Nat
  BY <1>1, CellsFinite, FS_CardinalityType DEF LinesFit
<1>3. D \subseteq Int /\ D \subseteq Nat
  BY <1>1
<1>4. f # NoLine
  <2>1. DOMAIN NoLine = {}
    BY DEF NoLine
  <2> QED
    BY <1>1, <2>1
<1> HIDE DEF D
<1>5. Min(D) \in D /\ \A y \in D : Min(D) <= y
  BY <1>1, <1>2, <1>3, MinIs
<1>6. Max(D) \in D /\ \A y \in D : y <= Max(D)
  BY <1>1, <1>2, <1>3, MaxIs
<1>7. \A c \in D : f[c] \in Positions
  BY <1>1
<1> QED
  BY <1>2, <1>3, <1>4, <1>5, <1>6, <1>7 DEF D

(* Spans: stretches of cells, told apart by where they begin.              *)
LEMMA SpansAre ==
    ASSUME LinesFit, NEW near, near \subseteq 1..Cells, NEW starts,
           starts = {c \in near : c - 1 \notin near}
    PROVE  LET span(c) == {d \in near : d >= c /\ c..d \subseteq near}
               spans == {span(c) : c \in starts}
           IN  /\ IsFiniteSet(spans)
               /\ \A s \in spans : s # {} /\ s \subseteq near /\ Min(s) \in Int
               /\ \A r, s \in spans : Min(r) = Min(s) => r = s
<1> DEFINE span(c) == {d \in near : d >= c /\ c..d \subseteq near}
           f == [c \in starts |-> span(c)]
           spans == {span(c) : c \in starts}
<1>1. IsFiniteSet(spans)
  <2>1. IsFiniteSet(starts)
    BY CellsFinite DEF LinesFit
  <2>2. spans = {f[c] : c \in starts}
    OBVIOUS
  <2> HIDE DEF f, spans
  <2>3. IsFiniteSet({f[c] : c \in starts})
    BY <2>1, ImageFinite
  <2> QED
    BY <2>2, <2>3
<1>2. ASSUME NEW c \in starts PROVE span(c) # {} /\ span(c) \subseteq near /\ Min(span(c)) = c
  <2>1. c \in Int /\ c \in near /\ near \subseteq Int
    OBVIOUS
  <2>2. c..c \subseteq near
    BY <2>1
  <2>3. c \in span(c) /\ span(c) \subseteq near /\ \A d \in span(c) : c <= d
    BY <2>1, <2>2
  <2>4. IsFiniteSet(span(c)) /\ span(c) \subseteq Int
    <3>1. span(c) \subseteq 1..Cells
      BY <2>3
    <3> QED
      BY <2>1, <2>3, <3>1, CellsFinite DEF LinesFit
  <2> HIDE DEF span
  <2>5. Min(span(c)) \in span(c) /\ Min(span(c)) <= c
    BY <2>3, <2>4, MinIs
  <2>6. Min(span(c)) \in Int /\ c <= Min(span(c))
    BY <2>3, <2>4, <2>5
  <2> QED
    BY <2>1, <2>3, <2>5, <2>6
<1> HIDE DEF span
<1>3. starts \subseteq Int
  <2>1. near \subseteq Int /\ starts \subseteq near
    OBVIOUS
  <2> QED
    BY <2>1
<1>4. \A s \in spans : s # {} /\ s \subseteq near /\ Min(s) \in Int
  BY <1>2, <1>3
<1>5. \A r, s \in spans : Min(r) = Min(s) => r = s
  BY <1>2
<1> QED
  BY <1>1, <1>4, <1>5 DEF span

LEMMA TripFits ==
    ASSUME LinesFit, scene \in Scenes, NEW i \in DOMAIN scene.trips
    PROVE  IsLine(scene.trips[i].line) /\ i \in Nat
BY DEF LinesFit, SceneFits

LEMMA PiecesFit ==
    ASSUME LinesFit, scene \in Scenes, NEW a \in Arcs, NEW i \in DOMAIN scene.trips
    PROVE  /\ SegmentsFit(Pieces(a, i))
           /\ \A s \in Pieces(a, i) : /\ s.trip = i
                                     /\ DOMAIN s.line \subseteq DOMAIN scene.trips[i].line
<1> DEFINE t == scene.trips[i]
           near == {c \in DOMAIN t.line : Dist(t.line[c], scene.line[a][c]) <= Reach}
           starts == {c \in near : c - 1 \notin near}
           spans == Spans(a, t)
           order(s) == Cardinality({r \in spans : Min(r) < Min(s)})
           piece(s) == [trip |-> i, order |-> order(s), line |-> Part(t, s), ends |-> Touches(a, t, s)]
<1>1. IsLine(t.line) /\ i \in Nat
  BY TripFits
<1>2. near \subseteq DOMAIN t.line /\ near \subseteq 1..Cells
  BY <1>1 DEF IsLine
<1>3. /\ IsFiniteSet(spans)
      /\ \A s \in spans : s # {} /\ s \subseteq near /\ Min(s) \in Int
      /\ \A r, s \in spans : Min(r) = Min(s) => r = s
  <2>1. spans = {{d \in near : d >= c /\ c..d \subseteq near} : c \in starts}
    BY DEF Spans
  <2> HIDE DEF near, spans
  <2> QED
    BY <1>2, <2>1, SpansAre
<1> HIDE DEF spans
<1>4. \A s \in spans : order(s) \in Nat
  <2> TAKE s \in spans
  <2>1. IsFiniteSet({r \in spans : Min(r) < Min(s)})
    BY <1>3, FS_Subset
  <2> QED
    BY <2>1, FS_CardinalityType
<1>5. \A r, s \in spans : order(r) = order(s) => r = s
  <2> DEFINE Less == {p \in spans \X spans : Min(p[1]) < Min(p[2])}
  <2>1. \A r, s \in spans : <<r, s>> \in Less <=> Min(r) < Min(s)
    OBVIOUS
  <2> HIDE DEF Less
  <2>2. StrictOn(Less, spans) /\ TotalOn(Less, spans)
    <3>1. StrictOn(Less, spans)
      BY <1>3, <2>1 DEF StrictOn
    <3>2. TotalOn(Less, spans)
      BY <1>3, <2>1 DEF TotalOn
    <3> QED
      BY <3>1, <3>2
  <2>3. \A s \in spans : {r \in spans : Min(r) < Min(s)} = {r \in spans : <<r, s>> \in Less}
    BY <2>1
  <2>4. \A s \in spans : order(s) = RankBy(spans, Less, s)
    BY <2>3 DEF RankBy
  <2>5. \A r, s \in spans : RankBy(spans, Less, r) = RankBy(spans, Less, s) => r = s
    BY <1>3, <2>2, RanksAre
  <2> HIDE DEF order
  <2> QED
    BY <2>4, <2>5
<1> HIDE DEF order
<1>6. \A s \in spans : /\ IsLine(Part(t, s)) /\ Touches(a, t, s) \subseteq Ends
                       /\ DOMAIN Part(t, s) \subseteq DOMAIN t.line
  <2> TAKE s \in spans
  <2>1. s # {} /\ s \subseteq DOMAIN t.line /\ s \subseteq 1..Cells
    BY <1>2, <1>3
  <2>2. \A c \in s : t.line[c] \in Positions
    BY <1>1, <2>1 DEF IsLine
  <2> HIDE DEF t, near
  <2>3. Part(t, s) \in [s -> Positions] /\ DOMAIN Part(t, s) = s
    BY <2>2 DEF Part
  <2>4. Touches(a, t, s) \subseteq Ends
    BY DEF Touches
  <2> QED
    BY <2>1, <2>3, <2>4 DEF IsLine
<1> DEFINE P == {piece(s) : s \in spans}
<1>7. Pieces(a, i) = P
  BY Zenon DEF Pieces, P, piece, order, spans, t
<1>8. IsFiniteSet(P)
  <2> DEFINE f == [s \in spans |-> piece(s)]
  <2>1. P = {f[s] : s \in spans}
    OBVIOUS
  <2> HIDE DEF f
  <2>2. IsFiniteSet({f[s] : s \in spans})
    BY <1>3, ImageFinite
  <2> HIDE DEF P
  <2> QED
    BY <2>1, <2>2
<1>9. \A s \in spans : /\ piece(s).trip = i /\ piece(s).order = order(s)
                       /\ piece(s).line = Part(t, s) /\ piece(s).ends = Touches(a, t, s)
  OBVIOUS
<1> HIDE DEF piece, near
<1>10. \A s \in P : /\ IsLine(s.line) /\ s.trip \in Nat /\ s.order \in Nat
                    /\ s.ends \subseteq Ends /\ s.trip = i
                    /\ DOMAIN s.line \subseteq DOMAIN t.line
  <2> HIDE DEF t
  <2> QED
    BY <1>1, <1>4, <1>6, <1>9
<1>11. \A s, u \in P : s.order = u.order => s = u
  BY <1>5, <1>9
<1> HIDE DEF P
<1> QED
  BY <1>7, <1>8, <1>10, <1>11 DEF SegmentsFit, t

(* Of all trajectories together.                                           *)
LEMMA AllPiecesFit ==
    ASSUME LinesFit, scene \in Scenes, NEW a \in Arcs
    PROVE  /\ SegmentsFit(UNION {Pieces(a, i) : i \in DOMAIN scene.trips})
           /\ \A s \in UNION {Pieces(a, i) : i \in DOMAIN scene.trips} :
                 s.trip \in DOMAIN scene.trips
<1> DEFINE I == DOMAIN scene.trips
           all == UNION {Pieces(a, i) : i \in I}
<1>1. IsFiniteSet(I)
  BY DEF LinesFit, SceneFits
<1>2. \A i \in I : SegmentsFit(Pieces(a, i)) /\ \A s \in Pieces(a, i) : s.trip = i
  <2> TAKE i \in I
  <2> QED
    BY PiecesFit
<1>3. IsFiniteSet(all)
  <2> DEFINE f == [i \in I |-> Pieces(a, i)]
             Q == {f[i] : i \in I}
  <2>1. IsFiniteSet(Q)
    <3> HIDE DEF f
    <3> QED
      BY <1>1, ImageFinite
  <2>2. \A T \in Q : IsFiniteSet(T)
    BY <1>2 DEF SegmentsFit
  <2>3. all = UNION Q
    OBVIOUS
  <2> HIDE DEF Q, all
  <2> QED
    BY <2>1, <2>2, <2>3, FS_UNION
<1> HIDE DEF I
<1>4. \A s \in all : \E i \in I : s \in Pieces(a, i)
  OBVIOUS
<1> HIDE DEF all
<1>5. \A s \in all : /\ IsLine(s.line) /\ s.trip \in Nat /\ s.order \in Nat
                     /\ s.ends \subseteq Ends /\ s.trip \in I
  BY <1>2, <1>4 DEF SegmentsFit
<1>6. \A s, u \in all : s.trip = u.trip /\ s.order = u.order => s = u
  <2> SUFFICES ASSUME NEW s \in all, NEW u \in all, s.trip = u.trip, s.order = u.order
               PROVE  s = u
    OBVIOUS
  <2>1. PICK i \in I : s \in Pieces(a, i)
    BY <1>4
  <2>2. PICK j \in I : u \in Pieces(a, j)
    BY <1>4
  <2>3. i = j
    BY <1>2, <2>1, <2>2
  <2> QED
    BY <1>2, <2>1, <2>2, <2>3 DEF SegmentsFit
<1>7. SegmentsFit(all)
  BY <1>3, <1>5, <1>6 DEF SegmentsFit
<1> QED
  BY <1>5, <1>7 DEF all, I

LEMMA SomeFit ==
    ASSUME NEW S, SegmentsFit(S), NEW T, T \subseteq S PROVE SegmentsFit(T)
BY FS_Subset DEF SegmentsFit

(* The longest segment of some is well defined, and a line.                *)
LEMMA BestIs ==
    ASSUME LinesFit, NEW S, SegmentsFit(S), S # {}
    PROVE  IsLine(Best(S))
<1> DEFINE Key(s) == <<0 - Cardinality(DOMAIN s.line), s.trip, s.order>>
           K == [s \in S |-> Key(s)]
<1>1. \A s \in S : Cardinality(DOMAIN s.line) \in Nat
  BY LineEnds DEF SegmentsFit
<1>2. \A s \in S : K[s] \in [1..3 -> Int] /\ K[s][2] = s.trip /\ K[s][3] = s.order
  BY <1>1 DEF SegmentsFit
<1>3. \A s, u \in S : K[s] = K[u] => s = u
  <2> HIDE DEF K
  <2> QED
    BY <1>2 DEF SegmentsFit
<1>4. \A s \in S : K[s] = Key(s)
  OBVIOUS
<1> HIDE DEF K, Key
<1>5. KeysFit(S, 3, K)
  BY <1>2, <1>3 DEF KeysFit, SegmentsFit
<1>6. \E s \in S : \A u \in S \ {s} : Precedes(K[s], K[u])
  BY <1>5, KeysFirst
<1>7. \E s \in S : \A u \in S \ {s} : Precedes(Key(s), Key(u))
  BY <1>4, <1>6
<1> DEFINE best == CHOOSE s \in S : \A u \in S \ {s} : Precedes(Key(s), Key(u))
<1>8. best \in S
  BY <1>7
<1>9. Best(S) = best.line
  BY Zenon DEF Best, best, Key
<1> HIDE DEF best
<1> QED
  BY <1>8, <1>9 DEF SegmentsFit

-----------------------------------------------------------------------------
(* Candidates.                                                             *)
LEMMA ApartIs ==
    ASSUME LinesFit, NEW f, IsLine(f), NEW g \in WholeLines
    PROVE  Apart(f, g) \in Nat /\ Apart(f, g) < Far
<1> DEFINE D == DOMAIN f
           near == {Dist(f[c], g[c]) : c \in D}
           ends == {Cell * (Min(D) - 1), Cell * (Cells - Max(D))}
<1>1. /\ IsFiniteSet(D) /\ D \subseteq 1..Cells
      /\ Min(D) \in D /\ Max(D) \in D
      /\ \A c \in D : f[c] \in Positions
  BY LineEnds DEF IsLine
<1>2. Far \in Nat /\ SectionLength \in Nat /\ SectionLength < Far
  BY DEF LinesFit, Far
<1>3. \A c \in D : g[c] \in Positions
  BY <1>1 DEF WholeLines
<1>4. \A x \in near : x \in Nat /\ x < Far
  <2> TAKE x \in near
  <2> SUFFICES ASSUME NEW c \in D, x = Dist(f[c], g[c]) PROVE x \in Nat /\ x < Far
    OBVIOUS
  <2>1. f[c] \in 0..SectionLength /\ g[c] \in 0..SectionLength
    BY <1>1, <1>3 DEF Positions
  <2> QED
    BY <1>2, <2>1 DEF Dist
<1>5. \A x \in ends : x \in Nat /\ x < Far
  <2>1. Cell \in Nat /\ Cells \in Nat /\ Cell * Cells < Far
    BY DEF LinesFit
  <2>2. ASSUME NEW c \in 0..Cells PROVE Cell * c \in Nat /\ Cell * c < Far
    <3>1. Cell * c <= Cell * Cells /\ Cell * c >= 0 /\ Cell * c \in Int
      BY <2>1
    <3> QED
      BY <1>2, <2>1, <3>1
  <2>3. Min(D) - 1 \in 0..Cells /\ Cells - Max(D) \in 0..Cells
    BY <1>1, <2>1
  <2> QED
    BY <2>2, <2>3
<1>6. IsFiniteSet(near)
  <2> DEFINE h == [c \in D |-> Dist(f[c], g[c])]
  <2>1. near = {h[c] : c \in D}
    OBVIOUS
  <2> HIDE DEF h, near
  <2> QED
    BY <1>1, <2>1, ImageFinite
<1>7. IsFiniteSet(ends)
  <2>1. ends = {Cell * (Min(D) - 1)} \cup {Cell * (Cells - Max(D))}
    OBVIOUS
  <2> HIDE DEF ends
  <2> QED
    BY <2>1, FS_Singleton, FS_Union
<1>8. near # {}
  BY <1>1
<1>9. Apart(f, g) = Max(near \cup ends)
  BY DEF Apart
<1> HIDE DEF near, ends
<1>10. IsFiniteSet(near \cup ends) /\ near \cup ends # {} /\ near \cup ends \subseteq Int
  <2>1. IsFiniteSet(near \cup ends)
    BY <1>6, <1>7, FS_Union
  <2>2. \A x \in near \cup ends : x \in Int
    BY <1>4, <1>5
  <2> QED
    BY <1>8, <2>1, <2>2
<1>11. Max(near \cup ends) \in near \cup ends
  BY <1>10, MaxIs
<1> QED
  BY <1>4, <1>5, <1>9, <1>11

(* The nearest that some segments come to an arc.                          *)
Nearest(S, b) == Min({Apart(s.line, scene.line[b]) : s \in S})

LEMMA LineOfArc ==
    ASSUME LinesFit, scene \in Scenes, NEW a \in Arcs
    PROVE  scene.line[a] \in WholeLines /\ scene.hint[a] \in WholeLines \cup {NoLine}
BY DEF LinesFit, SceneFits

LEMMA NearestIs ==
    ASSUME LinesFit, scene \in Scenes, NEW S, SegmentsFit(S), S # {}, NEW b \in Arcs
    PROVE  /\ Nearest(S, b) \in Nat /\ Nearest(S, b) < Far
           /\ Nearest(S, b) \in {Apart(s.line, scene.line[b]) : s \in S}
           /\ \A s \in S : Nearest(S, b) <= Apart(s.line, scene.line[b])
           /\ IsFiniteSet({Apart(s.line, scene.line[b]) : s \in S})
<1> DEFINE A == {Apart(s.line, scene.line[b]) : s \in S}
<1>1. \A s \in S : Apart(s.line, scene.line[b]) \in Nat /\ Apart(s.line, scene.line[b]) < Far
  BY LineOfArc, ApartIs DEF SegmentsFit
<1>2. A \subseteq Nat /\ A # {} /\ A \subseteq Int
  BY <1>1
<1>3. IsFiniteSet(A)
  <2> DEFINE h == [s \in S |-> Apart(s.line, scene.line[b])]
  <2>1. A = {h[s] : s \in S}
    OBVIOUS
  <2>2. IsFiniteSet(S)
    BY DEF SegmentsFit
  <2> HIDE DEF h, A
  <2> QED
    BY <2>1, <2>2, ImageFinite
<1>4. Nearest(S, b) = Min(A)
  BY DEF Nearest
<1>5. \A x \in A : x < Far
  BY <1>1
<1>6. \A s \in S : Apart(s.line, scene.line[b]) \in A
  OBVIOUS
<1> HIDE DEF A
<1>7. Min(A) \in A /\ \A y \in A : Min(A) <= y
  BY <1>2, <1>3, MinIs
<1> QED
  BY <1>2, <1>3, <1>4, <1>5, <1>6, <1>7 DEF A

(* It runs nearer to its own arc than to any competing one.                *)
Honest(S, a) == \A b \in Rivals(a) : Nearest(S, b) - Nearest(S, a) >= Margin

RivalDist(S, a) == Min({Far} \cup {Apart(s.line, scene.line[b]) : s \in S, b \in Rivals(a)})

LEMMA RivalIs ==
    ASSUME LinesFit, scene \in Scenes, NEW S, SegmentsFit(S), S # {}, NEW a \in Arcs
    PROVE  /\ RivalDist(S, a) \in Nat
           /\ \A b \in Rivals(a) : RivalDist(S, a) <= Nearest(S, b)
<1> DEFINE B == Rivals(a)
           A(b) == {Apart(s.line, scene.line[b]) : s \in S}
           all == {Far} \cup {Apart(s.line, scene.line[b]) : s \in S, b \in B}
<1>1. B \subseteq Arcs /\ IsFiniteSet(B)
  <2>1. B \subseteq Arcs
    BY DEF Rivals
  <2>2. IsFiniteSet(Arcs)
    BY DEF LinesFit
  <2> QED
    BY <2>1, <2>2, FS_Subset
<1> HIDE DEF B
<1>2. \A b \in B : IsFiniteSet(A(b)) /\ A(b) \subseteq Nat
  <2> TAKE b \in B
  <2>1. b \in Arcs
    BY <1>1
  <2>2. \A s \in S : Apart(s.line, scene.line[b]) \in Nat
    BY <2>1, LineOfArc, ApartIs DEF SegmentsFit
  <2> QED
    BY <2>1, <2>2, NearestIs
<1>3. IsFiniteSet(UNION {A(b) : b \in B})
  <2> DEFINE h == [b \in B |-> A(b)]
             Q == {h[b] : b \in B}
  <2>1. Q = {A(b) : b \in B} /\ \A T \in Q : IsFiniteSet(T)
    <3> HIDE DEF A
    <3> QED
      BY <1>2
  <2>2. IsFiniteSet(Q)
    <3> HIDE DEF h
    <3> QED
      BY <1>1, ImageFinite
  <2> HIDE DEF Q
  <2>3. IsFiniteSet(UNION Q)
    BY <2>1, <2>2, FS_UNION
  <2> QED
    BY <2>1, <2>3
<1>4. all = {Far} \cup UNION {A(b) : b \in B}
  OBVIOUS
<1>5. RivalDist(S, a) = Min(all)
  BY DEF RivalDist, B
<1>6. all # {} /\ IsFiniteSet(all) /\ all \subseteq Nat
  <2>1. Far \in Nat
    BY DEF Far
  <2>2. IsFiniteSet({Far})
    BY FS_Singleton
  <2>3. UNION {A(b) : b \in B} \subseteq Nat
    BY <1>2
  <2> HIDE DEF all, A
  <2> QED
    BY <1>3, <1>4, <2>1, <2>2, <2>3, FS_Union
<1>7. \A b \in B : A(b) \subseteq all
  OBVIOUS
<1> HIDE DEF all
<1>8. Min(all) \in all /\ \A y \in all : Min(all) <= y
  <2>1. all \subseteq Int
    BY <1>6
  <2> QED
    BY <1>6, <2>1, MinIs
<1>9. \A b \in B : Nearest(S, b) \in A(b)
  BY <1>1, NearestIs
<1> HIDE DEF A
<1> QED
  BY <1>5, <1>6, <1>7, <1>8, <1>9 DEF B

CandidateFields == {"trip", "source", "kind", "segments", "ref", "cov", "from", "to", "ends", "full",
                    "dist", "rival", "prefers", "sound", "trusted", "dominant", "voices"}

CandidateFits(c, a) ==
    /\ DOMAIN c = CandidateFields
    /\ SegmentsFit(c.segments) /\ c.segments # {} /\ \A s \in c.segments : s.trip = c.trip
    /\ IsLine(c.ref) /\ c.from[2] \in Positions /\ c.to[2] \in Positions
    /\ c.ends \subseteq Ends
    /\ c.trip \in Nat /\ {c.dist, c.rival, c.cov, c.sound} \subseteq Nat
    /\ c.kind # "no_support"
    /\ c.prefers => Honest(c.segments, a)

LEMMA CandidateIs ==
    ASSUME LinesFit, scene \in Scenes, NEW a \in Arcs, NEW i \in DOMAIN scene.trips,
           Candidate(a, i).kind # "no_support"
    PROVE  CandidateFits(Candidate(a, i), a) /\ Candidate(a, i).trip = i
<1> DEFINE t == scene.trips[i]
           pieces == Pieces(a, i)
           good == {s \in pieces : Sound(s.line)}
           through == Crosses(t, Src[a], "src") /\ Crosses(t, Dst[a], "dst")
           terminal == through /\ Sound(t.line) /\ Spans(a, t) # {}
           segments == IF terminal THEN {[trip |-> i, order |-> 0, line |-> t.line, ends |-> Ends]}
                       ELSE good
           cells == UNION {DOMAIN s.line : s \in segments}
           ends == UNION {s.ends : s \in segments}
           full == \/ terminal
                   \/ /\ ends = Ends /\ Cardinality(segments) <= 2
                      /\ 100 * Cardinality(cells) >= 72 * Cells
           own == Min({Apart(s.line, scene.line[a]) : s \in segments})
           rival == Min({Far} \cup {Apart(s.line, scene.line[b]) : s \in segments, b \in Rivals(a)})
           kind == IF terminal THEN "terminal_crossing_support" ELSE "partial_arc_support"
           sound == Cardinality(good) + (IF terminal THEN 1 ELSE 0)
           prefers == rival = Far \/ rival - own >= Margin
           sure == [trip |-> i, source |-> t.source, kind |-> kind,
              segments |-> segments, ref |-> Best(segments), cov |-> Cardinality(cells),
              from |-> <<Min(cells), t.line[Min(cells)]>>,
              to |-> <<Max(cells), t.line[Max(cells)]>>,
              ends |-> ends, full |-> full, dist |-> own, rival |-> rival,
              prefers |-> prefers, sound |-> sound,
              trusted |-> FALSE, dominant |-> FALSE, voices |-> 0]
           c == Candidate(a, i)
<1>1. c = IF segments = {} THEN [trip |-> i, kind |-> "no_support"] ELSE sure
  BY DEF Candidate
<1>2. IsLine(t.line) /\ i \in Nat
  BY TripFits
<1>3. SegmentsFit(good) /\ SegmentsFit(pieces)
      /\ \A s \in good : s.trip = i /\ DOMAIN s.line \subseteq DOMAIN t.line
  <2>1. SegmentsFit(pieces) /\ \A s \in pieces : s.trip = i /\ DOMAIN s.line \subseteq DOMAIN t.line
    BY PiecesFit
  <2>2. good \subseteq pieces
    OBVIOUS
  <2> HIDE DEF pieces, good, t
  <2> QED
    BY <2>1, <2>2, SomeFit
<1>4. SegmentsFit(segments)
      /\ \A s \in segments : s.trip = i /\ DOMAIN s.line \subseteq DOMAIN t.line
  <2>1. CASE terminal
    <3> DEFINE one == [trip |-> i, order |-> 0, line |-> t.line, ends |-> Ends]
    <3>1. segments = {one}
      BY <2>1
    <3>2. one.trip = i /\ one.order = 0 /\ one.line = t.line /\ one.ends = Ends
      OBVIOUS
    <3>3. IsFiniteSet({one})
      BY FS_Singleton
    <3> HIDE DEF one, segments, t
    <3> QED
      BY <1>2, <3>1, <3>2, <3>3 DEF SegmentsFit
  <2>2. CASE ~terminal
    <3>1. segments = good
      BY <2>2
    <3> HIDE DEF segments, good, t
    <3> QED
      BY <1>3, <3>1
  <2> QED
    BY <2>1, <2>2
<1>5. segments # {}
  BY <1>1
<1>6. c = sure
  BY <1>1, <1>5
<1>7. IsFiniteSet(good) /\ Cardinality(good) \in Nat
  BY <1>3, FS_CardinalityType DEF SegmentsFit
<1>8. rival = RivalDist(segments, a) /\ own = Nearest(segments, a)
  BY DEF RivalDist, Nearest
<1>9. kind # "no_support" /\ sound \in Nat
  <2> HIDE DEF good, terminal
  <2> QED
    BY <1>7
<1> HIDE DEF segments, kind, sound, good, full, pieces, terminal, c
<1>11. cells \subseteq DOMAIN t.line /\ cells # {} /\ ends \subseteq Ends
  <2>1. PICK s \in segments : TRUE
    BY <1>5
  <2>2. DOMAIN s.line # {}
    BY <1>4 DEF SegmentsFit, IsLine
  <2> HIDE DEF t
  <2> QED
    BY <1>4, <2>1, <2>2 DEF SegmentsFit
<1>12. /\ IsFiniteSet(cells) /\ Cardinality(cells) \in Nat /\ Min(cells) \in DOMAIN t.line
       /\ Max(cells) \in DOMAIN t.line
  <2>1. IsFiniteSet(DOMAIN t.line) /\ DOMAIN t.line \subseteq Nat
    BY <1>2, LineEnds
  <2> HIDE DEF t, cells
  <2>2. IsFiniteSet(cells) /\ cells \subseteq Int
    BY <1>11, <2>1, FS_Subset
  <2>3. Min(cells) \in cells /\ Max(cells) \in cells
    BY <1>11, <2>2, MinIs, MaxIs
  <2> QED
    BY <1>11, <2>2, <2>3, FS_CardinalityType
<1>13. t.line[Min(cells)] \in Positions /\ t.line[Max(cells)] \in Positions
  <2> HIDE DEF t, cells
  <2> QED
    BY <1>2, <1>12 DEF IsLine
<1>14. IsLine(Best(segments))
  BY <1>4, <1>5, BestIs
<1>15. rival \in Nat /\ own \in Nat
  <2> HIDE DEF rival, own
  <2> QED
    BY <1>4, <1>5, <1>8, RivalIs, NearestIs
<1>16. prefers => Honest(segments, a)
  <2> SUFFICES ASSUME prefers, NEW b \in Rivals(a)
               PROVE  Nearest(segments, b) - Nearest(segments, a) >= Margin
    BY DEF Honest
  <2>1. b \in Arcs
    BY DEF Rivals
  <2>2. rival <= Nearest(segments, b) /\ Nearest(segments, b) < Far /\ Nearest(segments, b) \in Nat
    <3> HIDE DEF rival
    <3> QED
      BY <1>4, <1>5, <1>8, <2>1, RivalIs, NearestIs
  <2>3. Far \in Nat /\ Margin \in Nat
    BY DEF Far, LinesFit
  <2>4. rival = Far \/ rival - own >= Margin
    BY DEF prefers
  <2> HIDE DEF rival, own
  <2> QED
    BY <1>8, <1>15, <2>2, <2>3, <2>4
<1> HIDE DEF cells, ends, own, rival, prefers, t
<1>17. c.trip = i /\ c.kind = kind /\ c.segments = segments /\ c.ref = Best(segments)
  BY <1>6
<1>18. c.cov = Cardinality(cells) /\ c.ends = ends /\ c.dist = own /\ c.rival = rival
  BY <1>6
<1>19. c.prefers = prefers /\ c.sound = sound
  BY <1>6
<1>20. c.from = <<Min(cells), t.line[Min(cells)]>> /\ c.to = <<Max(cells), t.line[Max(cells)]>>
  BY <1>6
<1>21. c.from[2] \in Positions /\ c.to[2] \in Positions
  BY <1>13, <1>20
<1>22. DOMAIN c = CandidateFields
  BY <1>6 DEF CandidateFields
<1>23. CandidateFits(c, a)
  BY <1>2, <1>4, <1>5, <1>9, <1>11, <1>12, <1>14, <1>15, <1>16, <1>17, <1>18, <1>19, <1>21, <1>22
  DEF CandidateFits
<1> QED
  BY <1>17, <1>23 DEF c

AnchoredLine(r) ==
    r.ref # NoLine => IsLine(r.ref) /\ r.from[2] \in Positions /\ r.to[2] \in Positions

StitchedFits(s) ==
    /\ AnchoredLine(s)
    /\ s.usable => SegmentsFit(s.segments) /\ s.segments # {}

LEMMA StitchedIs ==
    ASSUME LinesFit, scene \in Scenes, NEW a \in Arcs
    PROVE  StitchedFits(Stitched(a))
<1> DEFINE all == UNION {Pieces(a, i) : i \in DOMAIN scene.trips}
           cells == UNION {DOMAIN s.line : s \in all}
           ready == /\ Cardinality(all) >= 2
                    /\ {1, Cells} \subseteq cells
                    /\ UNION {s.ends : s \in all} = Ends
                    /\ 100 * Cardinality(cells) >= 72 * Cells
           Index(s, c) == c - Min(DOMAIN scene.trips[s.trip].line)
           Key(s) == <<s.order, Index(s, Min(DOMAIN s.line)), Index(s, Max(DOMAIN s.line)), s.trip>>
           key == [s \in all |-> Key(s)]
           queue == Ranked(all, key)
           first == queue[1].line
           last == queue[Len(queue)].line
           usable == ready /\ \A s \in all : Sound(s.line)
           sure == [usable |-> TRUE, segments |-> all, ref |-> Best(all), cov |-> Cardinality(cells),
                    from |-> <<Min(DOMAIN first), first[Min(DOMAIN first)]>>,
                    to |-> <<Max(DOMAIN last), last[Max(DOMAIN last)]>>]
           not == [usable |-> FALSE, ref |-> NoLine, from |-> None, to |-> None]
<1>1. Stitched(a) = IF usable THEN sure ELSE not
  BY DEF Stitched
<1>2. CASE ~usable
  <2>1. Stitched(a) = not
    BY <1>1, <1>2
  <2>2. ~not.usable /\ not.ref = NoLine
    OBVIOUS
  <2> HIDE DEF not
  <2> QED
    BY <2>1, <2>2 DEF AnchoredLine, StitchedFits
<1>3. CASE usable
  <2>1. SegmentsFit(all) /\ \A s \in all : s.trip \in DOMAIN scene.trips
    BY AllPiecesFit
  <2>2. Cardinality(all) >= 2
    BY <1>3
  <2>3. Stitched(a) = sure
    BY <1>1, <1>3
  <2> HIDE DEF usable, not, ready, cells
  <2> HIDE DEF all
  <2>4. IsFiniteSet(all) /\ Cardinality(all) \in Nat /\ all # {}
    <3>1. IsFiniteSet(all) /\ Cardinality(all) \in Nat
      BY <2>1, FS_CardinalityType DEF SegmentsFit
    <3>2. all # {}
      BY <2>2, FS_EmptySet
    <3> QED
      BY <3>1, <3>2
  <2>5. ASSUME NEW s \in all PROVE Key(s) \in [1..4 -> Int] /\ Key(s)[1] = s.order /\ Key(s)[4] = s.trip
    <3>1. IsLine(s.line) /\ IsLine(scene.trips[s.trip].line) /\ s.order \in Nat /\ s.trip \in Nat
      BY <2>1, TripFits DEF SegmentsFit
    <3>2. /\ Min(DOMAIN s.line) \in Int /\ Max(DOMAIN s.line) \in Int
          /\ Min(DOMAIN scene.trips[s.trip].line) \in Int
      <4>1. Min(DOMAIN s.line) \in Nat /\ Max(DOMAIN s.line) \in Nat
        BY <3>1, LineEnds
      <4>2. Min(DOMAIN scene.trips[s.trip].line) \in Nat
        BY <3>1, LineEnds
      <4> QED
        BY <4>1, <4>2
    <3> DEFINE x == Index(s, Min(DOMAIN s.line))
               y == Index(s, Max(DOMAIN s.line))
    <3>3. x \in Int /\ y \in Int
      BY <3>2
    <3>4. Key(s) = <<s.order, x, y, s.trip>>
      OBVIOUS
    <3> HIDE DEF x, y, Key
    <3> QED
      BY <3>1, <3>3, <3>4
  <2> HIDE DEF Key
  <2>6. KeysFit(all, 4, key)
    <3>1. \A s \in all : key[s] = Key(s)
      OBVIOUS
    <3> HIDE DEF key
    <3> QED
      BY <2>1, <2>4, <2>5, <3>1 DEF KeysFit, SegmentsFit
  <2> HIDE DEF key
  <2>7. Listed(queue, all)
    BY <2>6, KeysRank
  <2> HIDE DEF queue
  <2>8. Len(queue) = Cardinality(all)
    BY <2>4, <2>7 DEF Listed
  <2>9. queue[1] \in all /\ queue[Len(queue)] \in all
    BY <2>2, <2>4, <2>7, <2>8 DEF Listed
  <2>10. IsLine(first) /\ IsLine(last)
    BY <2>1, <2>9 DEF SegmentsFit
  <2> HIDE DEF first, last
  <2>11. first[Min(DOMAIN first)] \in Positions /\ last[Max(DOMAIN last)] \in Positions
    BY <2>10, LineEnds
  <2>12. IsLine(Best(all))
    BY <2>1, <2>4, BestIs
  <2>13. sure.ref = Best(all) /\ sure.segments = all /\ sure.from[2] \in Positions /\ sure.to[2] \in Positions
    BY <2>11
  <2> HIDE DEF sure
  <2> QED
    BY <2>1, <2>3, <2>4, <2>12, <2>13 DEF AnchoredLine, StitchedFits
<1> QED
  BY <1>2, <1>3

-----------------------------------------------------------------------------
(* The candidates of an arc, in order.                                     *)
OptionsFit(q, a) ==
    /\ q \in Seq({q[k] : k \in DOMAIN q})
    /\ \A k \in 1..Len(q) : CandidateFits(q[k], a)
    /\ \A k, l \in 1..Len(q) : q[k].trip = q[l].trip => k = l

LEMMA JudgedIs ==
    ASSUME NEW a, NEW c, CandidateFits(c, a), NEW all, NEW s
    PROVE  /\ CandidateFits(Judged(c, all, s), a)
           /\ Judged(c, all, s).trip = c.trip
           /\ Judged(c, all, s).voices = Voices(c, all)
<1> DEFINE d == Judged(c, all, s)
           yes == Trusted(c, all, s)
           top == Dominant(c, all)
<1>1. d = [c EXCEPT !.trusted = yes, !.dominant = top, !.voices = Voices(c, all)]
  BY DEF Judged
<1> HIDE DEF d, yes, top
<1>2. DOMAIN c = CandidateFields
  BY DEF CandidateFits
<1>3. /\ d.segments = c.segments /\ d.trip = c.trip /\ d.ref = c.ref /\ d.from = c.from
      /\ d.to = c.to /\ d.ends = c.ends /\ d.kind = c.kind /\ d.prefers = c.prefers
  BY <1>1, <1>2 DEF CandidateFields
<1>4. d.dist = c.dist /\ d.rival = c.rival /\ d.cov = c.cov /\ d.sound = c.sound
  BY <1>1, <1>2 DEF CandidateFields
<1>5. d.voices = Voices(c, all) /\ DOMAIN d = CandidateFields
  BY <1>1, <1>2 DEF CandidateFields
<1> QED
  BY <1>3, <1>4, <1>5 DEF CandidateFits, d

LEMMA OptionsAre ==
    ASSUME LinesFit, scene \in Scenes, NEW a \in Arcs
    PROVE  OptionsFit(Options(a), a)
<1> DEFINE I == DOMAIN scene.trips
           found == {Candidate(a, i) : i \in I}
           all == {c \in found : c.kind # "no_support"}
           J(c) == Judged(c, all, Stitched(a))
           judged == {J(c) : c \in all}
           key == [c \in judged |-> SelectionKey(c)]
           q == Options(a)
<1>1. q = Ranked(judged, key)
  BY DEF Options
<1>2. IsFiniteSet(found)
  <2> DEFINE f == [i \in I |-> Candidate(a, i)]
  <2>1. found = {f[i] : i \in I}
    OBVIOUS
  <2>2. IsFiniteSet(I)
    BY DEF LinesFit, SceneFits
  <2> HIDE DEF f, found, I
  <2> QED
    BY <2>1, <2>2, ImageFinite
<1>3. IsFiniteSet(all)
  <2>1. all \subseteq found
    OBVIOUS
  <2> HIDE DEF all, found
  <2> QED
    BY <1>2, <2>1, FS_Subset
<1>4. \A c \in all : CandidateFits(c, a) /\ \E i \in I : c = Candidate(a, i) /\ c.trip = i
  <2> TAKE c \in all
  <2>1. PICK i \in I : c = Candidate(a, i)
    OBVIOUS
  <2>2. c.kind # "no_support"
    OBVIOUS
  <2> HIDE DEF all, found
  <2>3. CandidateFits(c, a) /\ c.trip = i
    BY <2>1, <2>2, CandidateIs
  <2> QED
    BY <2>1, <2>3
<1>5. \A c, d \in all : c.trip = d.trip => c = d
  <2> HIDE DEF all
  <2> QED
    BY <1>4
<1>6. ASSUME NEW c \in all PROVE Voices(c, all) \in Nat
  <2> DEFINE full == {d \in all : d.full}
             pool == IF full = {} THEN all ELSE full
             near == {e \in pool : ClusterKey(e) = ClusterKey(c)}
             f == [d \in near |-> d.source]
             V == {d.source : d \in near}
  <2>1. Voices(c, all) = Cardinality(V)
    BY DEF Voices
  <2>2. near \subseteq all
    OBVIOUS
  <2> HIDE DEF all, near
  <2>3. IsFiniteSet(near)
    BY <1>3, <2>2, FS_Subset
  <2>4. V = {f[d] : d \in near}
    OBVIOUS
  <2> HIDE DEF f, V
  <2>5. IsFiniteSet(V)
    BY <2>3, <2>4, ImageFinite
  <2> QED
    BY <2>1, <2>5, FS_CardinalityType
<1>7. IsFiniteSet(judged)
  <2> DEFINE f == [c \in all |-> J(c)]
  <2>1. judged = {f[c] : c \in all}
    OBVIOUS
  <2> HIDE DEF f, judged, all
  <2> QED
    BY <1>3, <2>1, ImageFinite
<1> HIDE DEF all
<1>8. \A c \in all : CandidateFits(J(c), a) /\ J(c).trip = c.trip /\ J(c).voices \in Nat
  BY <1>4, <1>6, JudgedIs
<1> HIDE DEF J
<1>9. \A c \in judged : CandidateFits(c, a) /\ c.voices \in Nat
  BY <1>8
<1>10. \A c, d \in judged : c.trip = d.trip => c = d
  BY <1>5, <1>8
<1> HIDE DEF judged
<1>11. ASSUME NEW c \in judged
       PROVE  SelectionKey(c) \in [1..10 -> Int] /\ SelectionKey(c)[10] = c.trip
  <2> DEFINE margin == IF c.rival = Far \/ c.rival = c.dist THEN 0 - Far ELSE c.rival - c.dist
             No(p) == IF p THEN 0 ELSE 1
  <2>1. SelectionKey(c) = <<No(c.prefers), No(c.trusted), No(c.full), No(c.dominant), 0 - c.voices,
                            0 - margin, c.dist, 0 - c.cov, 0 - c.sound, c.trip>>
    BY DEF SelectionKey
  <2>2. c.dist \in Nat /\ c.rival \in Nat /\ c.cov \in Nat /\ c.sound \in Nat /\ c.trip \in Nat
    BY <1>9 DEF CandidateFits
  <2>3. c.voices \in Nat /\ Far \in Nat
    BY <1>9 DEF Far
  <2>4. margin \in Int /\ 0 - margin \in Int
    BY <2>2, <2>3
  <2>5. No(c.prefers) \in Int /\ No(c.trusted) \in Int /\ No(c.full) \in Int /\ No(c.dominant) \in Int
    OBVIOUS
  <2>6. 0 - c.voices \in Int /\ 0 - c.cov \in Int /\ 0 - c.sound \in Int /\ c.dist \in Int /\ c.trip \in Int
    BY <2>2, <2>3
  <2> HIDE DEF margin, No
  <2> QED
    BY <2>1, <2>4, <2>5, <2>6
<1>12. KeysFit(judged, 10, key)
  <2>1. \A c \in judged : key[c] = SelectionKey(c)
    OBVIOUS
  <2> HIDE DEF key
  <2> QED
    BY <1>7, <1>10, <1>11, <2>1 DEF KeysFit
<1> HIDE DEF key
<1>13. Listed(q, judged)
  BY <1>1, <1>12, KeysRank
<1> HIDE DEF q
<1>14. Cardinality(judged) \in Nat
  BY <1>7, FS_CardinalityType
<1>15. DOMAIN q = 1..Cardinality(judged) /\ Len(q) = Cardinality(judged)
  BY <1>13, <1>14 DEF Listed
<1>16. q \in Seq({q[k] : k \in DOMAIN q})
  <2> DEFINE R == {q[k] : k \in DOMAIN q}
  <2>1. q \in [1..Cardinality(judged) -> judged]
    BY <1>13 DEF Listed
  <2>2. \A k \in 1..Cardinality(judged) : q[k] \in R
    BY <1>15
  <2> HIDE DEF R
  <2>3. q \in [1..Cardinality(judged) -> R]
    BY <2>1, <2>2
  <2>4. q \in Seq(R)
    BY <1>14, <2>3
  <2> QED
    BY <2>4 DEF R
<1>17. \A k \in 1..Len(q) : q[k] \in judged
  BY <1>13, <1>15 DEF Listed
<1>18. \A k, l \in 1..Len(q) : q[k].trip = q[l].trip => k = l
  BY <1>10, <1>13, <1>15, <1>17 DEF Listed
<1>19. OptionsFit(q, a)
  BY <1>9, <1>16, <1>17, <1>18 DEF OptionsFit
<1> QED
  BY <1>19 DEF q

-----------------------------------------------------------------------------
(* Rows.                                                                   *)
RowFields == {"kind", "segments", "ref", "cov", "from", "to", "ends", "full", "dominant", "prefers",
              "trusted", "reference", "dist", "stitched", "options"}

RowFits(r, a) ==
    /\ DOMAIN r = RowFields
    /\ OptionsFit(r.options, a) /\ StitchedFits(r.stitched)
    /\ AnchoredLine(r)
    /\ SegmentsFit(r.segments)
    /\ r.kind # "no_support" => r.segments # {}

LEMMA NoSegments == SegmentsFit({})
BY FS_EmptySet DEF SegmentsFit

LEMMA BareFits ==
    ASSUME LinesFit, scene \in Scenes, NEW a \in Arcs
    PROVE  RowFits(Bare(a), a)
<1> DEFINE r == Bare(a)
<1>1. r.kind = "no_support" /\ r.segments = {} /\ r.ref = NoLine
  BY DEF Bare
<1>2. r.options = Options(a) /\ r.stitched = Stitched(a)
  BY DEF Bare
<1>3. DOMAIN r = RowFields
  BY DEF Bare, RowFields
<1> HIDE DEF r
<1>4. SegmentsFit(r.segments)
  BY <1>1, NoSegments
<1>5. OptionsFit(r.options, a) /\ StitchedFits(r.stitched)
  BY <1>2, OptionsAre, StitchedIs
<1>6. RowFits(r, a)
  BY <1>1, <1>3, <1>4, <1>5 DEF RowFits, AnchoredLine
<1> QED
  BY <1>6 DEF r

LEMMA CandidateRow ==
    ASSUME NEW a, NEW r, RowFits(r, a), NEW c, CandidateFits(c, a)
    PROVE  /\ RowFits(FromCandidate(r, c), a)
           /\ FromCandidate(r, c).segments = c.segments
           /\ FromCandidate(r, c).kind # "no_support"
<1> DEFINE d == FromCandidate(r, c)
           reference == IF c.trusted THEN "selected_support" ELSE None
<1>1. d = [r EXCEPT !.kind = c.kind, !.segments = c.segments, !.ref = c.ref, !.cov = c.cov,
                    !.from = c.from, !.to = c.to, !.full = c.full, !.dominant = c.dominant,
                    !.trusted = c.trusted, !.dist = c.dist, !.reference = reference]
  BY DEF FromCandidate
<1> HIDE DEF d, reference
<1>2. DOMAIN r = RowFields
  BY DEF RowFits
<1>3. d.kind = c.kind /\ d.segments = c.segments /\ d.ref = c.ref /\ d.from = c.from /\ d.to = c.to
  BY <1>1, <1>2 DEF RowFields
<1>4. d.options = r.options /\ d.stitched = r.stitched /\ DOMAIN d = RowFields
  BY <1>1, <1>2 DEF RowFields
<1>5. AnchoredLine(d)
  BY <1>3 DEF AnchoredLine, CandidateFits
<1>6. SegmentsFit(c.segments) /\ c.segments # {} /\ c.kind # "no_support"
  BY DEF CandidateFits
<1> QED
  BY <1>3, <1>4, <1>5, <1>6 DEF RowFits, d

LEMMA StitchedRow ==
    ASSUME NEW a, NEW r, RowFits(r, a), r.stitched.usable
    PROVE  RowFits(FromStitched(r, r.stitched), a)
<1> DEFINE s == r.stitched
           d == FromStitched(r, s)
<1>1. DOMAIN r = RowFields
  BY DEF RowFits
<1>2. AnchoredLine(s) /\ SegmentsFit(s.segments) /\ s.segments # {}
  BY DEF RowFits, StitchedFits
<1> HIDE DEF s
<1>3. d = [r EXCEPT !.kind = "stitched_arc_support", !.segments = s.segments, !.ref = s.ref,
                    !.cov = s.cov, !.from = s.from, !.to = s.to, !.full = TRUE, !.dominant = TRUE,
                    !.reference = "stitched_support"]
  BY DEF FromStitched
<1> HIDE DEF d
<1>4. d.kind # "no_support" /\ d.segments = s.segments /\ d.ref = s.ref /\ d.from = s.from /\ d.to = s.to
  BY <1>1, <1>3 DEF RowFields
<1>5. d.options = r.options /\ d.stitched = r.stitched /\ DOMAIN d = RowFields
  BY <1>1, <1>3 DEF RowFields
<1>6. AnchoredLine(d)
  BY <1>2, <1>4 DEF AnchoredLine
<1>7. RowFits(d, a)
  BY <1>2, <1>4, <1>5, <1>6 DEF RowFits
<1> QED
  BY <1>7 DEF d, s

LEMMA StrippedRow ==
    ASSUME NEW a, NEW r, RowFits(r, a)
    PROVE  /\ RowFits(Stripped(r), a) /\ Stripped(r).kind = "no_support"
<1> DEFINE d == Stripped(r)
<1>1. d = [r EXCEPT !.kind = "no_support", !.segments = {}, !.ref = NoLine, !.cov = 0, !.from = None,
              !.to = None, !.ends = {}, !.full = FALSE, !.dominant = FALSE, !.trusted = FALSE,
              !.reference = None]
  BY DEF Stripped
<1> HIDE DEF d
<1>2. DOMAIN r = RowFields
  BY DEF RowFits
<1>3. d.kind = "no_support" /\ d.segments = {} /\ d.ref = NoLine
  BY <1>1, <1>2 DEF RowFields
<1>4. d.options = r.options /\ d.stitched = r.stitched /\ DOMAIN d = RowFields
  BY <1>1, <1>2 DEF RowFields
<1> QED
  <2>1. SegmentsFit(d.segments)
    BY <1>3, NoSegments
  <2>2. RowFits(d, a)
    BY <1>3, <1>4, <2>1 DEF RowFits, AnchoredLine
  <2> QED
    BY <1>3, <2>2 DEF d

LEMMA GivenRow ==
    ASSUME NEW a, NEW r, RowFits(r, a), NEW c, CandidateFits(c, a)
    PROVE  /\ RowFits(Given(r, c), a)
           /\ Given(r, c).segments = c.segments /\ Given(r, c).prefers = c.prefers
           /\ Given(r, c).kind # "no_support"
<1> DEFINE f == FromCandidate(r, c)
           d == Given(r, c)
<1>1. d = [f EXCEPT !.ends = c.ends, !.prefers = c.prefers]
  BY DEF Given
<1>2. RowFits(f, a) /\ f.segments = c.segments /\ f.kind # "no_support"
  BY CandidateRow
<1> HIDE DEF d, f
<1>3. DOMAIN f = RowFields
  BY <1>2 DEF RowFits
<1>4. /\ d.kind = f.kind /\ d.segments = f.segments /\ d.ref = f.ref /\ d.from = f.from
      /\ d.to = f.to /\ d.prefers = c.prefers
  BY <1>1, <1>3 DEF RowFields
<1>5. d.options = f.options /\ d.stitched = f.stitched /\ DOMAIN d = RowFields
  BY <1>1, <1>3 DEF RowFields
<1>6. AnchoredLine(d)
  BY <1>2, <1>4 DEF AnchoredLine, RowFits
<1> QED
  BY <1>2, <1>4, <1>5, <1>6 DEF RowFits, d

LEMMA SupportedRow ==
    ASSUME LinesFit, scene \in Scenes, NEW a \in Arcs
    PROVE  RowFits(Supported(Bare(a)), a)
<1> DEFINE r == Bare(a)
           trusted == {k \in DOMAIN r.options : r.options[k].trusted}
<1>1. RowFits(r, a)
  BY BareFits
<1>2. OptionsFit(r.options, a)
  BY <1>1 DEF RowFits
<1>3. Supported(r) = IF trusted # {} THEN FromCandidate(r, r.options[Min(trusted)])
                     ELSE IF r.stitched.usable THEN FromStitched(r, r.stitched)
                     ELSE IF r.options # <<>> THEN FromCandidate(r, r.options[1])
                     ELSE r
  BY DEF Supported
<1> HIDE DEF r
<1>4. DOMAIN r.options = 1..Len(r.options) /\ Len(r.options) \in Nat
  BY <1>2 DEF OptionsFit
<1>5. \A k \in 1..Len(r.options) : RowFits(FromCandidate(r, r.options[k]), a)
  BY <1>1, <1>2, CandidateRow DEF OptionsFit
<1>6. CASE trusted # {}
  <2>1. trusted \subseteq 1..Len(r.options)
    BY <1>4
  <2>2. IsFiniteSet(1..Len(r.options))
    BY <1>4, FS_Interval
  <2> HIDE DEF trusted
  <2>3. IsFiniteSet(trusted) /\ trusted \subseteq Int
    <3>1. IsFiniteSet(trusted)
      BY <2>1, <2>2, FS_Subset
    <3>2. \A k \in trusted : k \in Int
      BY <1>4, <2>1
    <3> QED
      BY <3>1, <3>2
  <2>4. Min(trusted) \in trusted
    BY <1>6, <2>3, MinIs
  <2>5. Min(trusted) \in 1..Len(r.options)
    BY <2>1, <2>4
  <2>6. Supported(r) = FromCandidate(r, r.options[Min(trusted)])
    BY <1>3, <1>6
  <2> QED
    BY <1>5, <2>5, <2>6 DEF r
<1>7. CASE trusted = {} /\ r.stitched.usable
  <2>1. Supported(r) = FromStitched(r, r.stitched)
    BY <1>3, <1>7
  <2>2. RowFits(FromStitched(r, r.stitched), a)
    BY <1>1, <1>7, StitchedRow
  <2> QED
    BY <2>1, <2>2 DEF r
<1>8. CASE trusted = {} /\ ~r.stitched.usable /\ r.options # <<>>
  <2>1. Supported(r) = FromCandidate(r, r.options[1])
    BY <1>3, <1>8
  <2>2. 1 \in 1..Len(r.options)
    BY <1>2, <1>4, <1>8 DEF OptionsFit
  <2> QED
    BY <1>5, <2>1, <2>2 DEF r
<1>9. CASE trusted = {} /\ ~r.stitched.usable /\ r.options = <<>>
  <2>1. Supported(r) = r
    BY <1>3, <1>9
  <2> QED
    BY <1>1, <2>1 DEF r
<1> QED
  BY <1>6, <1>7, <1>8, <1>9

-----------------------------------------------------------------------------
(* Intervals of a cross section.                                           *)
LEMMA FirstBestIs ==
    ASSUME NEW q, NEW m \in Nat, m # 0, DOMAIN q = 1..m, NEW n \in Nat, NEW key,
           \A k \in 1..m : key[k] \in [1..n -> Int]
    PROVE  \E k \in 1..m : FirstBest(q, key) = q[k]
<1> DEFINE D == 1..m
           K == [k \in D |-> Append(key[k], k)]
<1>1. \A k \in D : /\ K[k] \in [1..(n + 1) -> Int] /\ K[k][n + 1] = k
  <2> TAKE k \in D
  <2> DEFINE s == key[k]
  <2>1. s \in [1..n -> Int] /\ k \in Int
    OBVIOUS
  <2>2. K[k] = Append(s, k)
    OBVIOUS
  <2> HIDE DEF s, K
  <2>3. s \in Seq(Int) /\ Len(s) = n
    BY <2>1
  <2>4. Append(s, k) \in Seq(Int) /\ Len(Append(s, k)) = n + 1 /\ Append(s, k)[n + 1] = k
    BY <2>1, <2>3
  <2>5. Append(s, k) \in [1..(n + 1) -> Int]
    <3> DEFINE t == Append(s, k)
    <3>1. t \in Seq(Int) /\ Len(t) = n + 1
      BY <2>4
    <3> HIDE DEF t
    <3>2. t \in [1..Len(t) -> Int]
      BY <3>1
    <3> QED
      BY <3>1, <3>2 DEF t
  <2> QED
    BY <2>2, <2>4, <2>5
<1>2. KeysFit(D, n + 1, K)
  <2>1. IsFiniteSet(D)
    BY FS_Interval
  <2> HIDE DEF K
  <2> QED
    BY <1>1, <2>1 DEF KeysFit
<1>3. \A k \in D : K[k] = Append(key[k], k)
  OBVIOUS
<1> HIDE DEF K
<1>4. PICK k \in D : \A j \in D \ {k} : Precedes(K[k], K[j])
  <2>1. 1 \in D
    OBVIOUS
  <2> HIDE DEF D
  <2> QED
    BY <1>2, <2>1, KeysFirst
<1>5. \A j \in D \ {k} : Precedes(Append(key[k], k), Append(key[j], j))
  BY <1>3, <1>4
<1> DEFINE best == CHOOSE k_1 \in D : \A j \in D \ {k_1} :
                       Precedes(Append(key[k_1], k_1), Append(key[j], j))
<1>6. best \in D
  BY <1>4, <1>5
<1>7. FirstBest(q, key) = q[best]
  BY Zenon DEF FirstBest
<1> HIDE DEF best
<1> QED
  BY <1>6, <1>7

SurfaceFits(surface) ==
    /\ surface \in Seq(Positions \X Positions)
    /\ \A k \in DOMAIN surface : surface[k][1] < surface[k][2]

(* An interval on the section and, where one is known, in one piece of its *)
(* surface.                                                                *)
Legal(i, surface) ==
    /\ i \in Int \X Int
    /\ 0 <= i[1] /\ i[1] < i[2] /\ i[2] <= SectionLength + Width \div 2
    /\ surface = <<>> \/ \E k \in DOMAIN surface :
                             surface[k][1] <= i[1] /\ i[2] <= surface[k][2]

LEMMA SurfacePiece ==
    ASSUME LinesFit, NEW surface, SurfaceFits(surface), surface # <<>>, NEW n \in Nat, NEW key,
           \A k \in DOMAIN surface : key[k] \in [1..n -> Int]
    PROVE  \E k \in DOMAIN surface :
               /\ FirstBest(surface, key) = surface[k]
               /\ surface[k] \in Positions \X Positions /\ surface[k][1] < surface[k][2]
<1>1. Len(surface) \in Nat /\ Len(surface) # 0 /\ DOMAIN surface = 1..Len(surface)
  BY DEF SurfaceFits
<1>2. \A k \in 1..Len(surface) : surface[k] \in Positions \X Positions /\ surface[k][1] < surface[k][2]
  BY <1>1 DEF SurfaceFits
<1>3. \E k \in 1..Len(surface) : FirstBest(surface, key) = surface[k]
  BY <1>1, FirstBestIs
<1> QED
  BY <1>1, <1>2, <1>3

LEMMA HalfWidth ==
    ASSUME LinesFit
    PROVE  /\ Width \div 2 \in Nat /\ 1 <= Width \div 2 /\ Width \div 2 <= Width
           /\ Width \in Nat /\ SectionLength \in Nat /\ Width <= SectionLength
BY DEF LinesFit

LEMMA PieceLegal ==
    ASSUME LinesFit, NEW surface, NEW k \in DOMAIN surface,
           surface[k] \in Positions \X Positions, surface[k][1] < surface[k][2],
           NEW i \in Int \X Int, surface[k][1] <= i[1], i[1] < i[2], i[2] <= surface[k][2]
    PROVE  Legal(i, surface)
<1>1. surface[k][1] \in 0..SectionLength /\ surface[k][2] \in 0..SectionLength
  BY DEF Positions
<1>2. i[1] \in Int /\ i[2] \in Int
  OBVIOUS
<1>3. 0 <= i[1] /\ i[2] <= SectionLength + Width \div 2
  BY <1>1, <1>2, HalfWidth
<1> QED
  BY <1>3 DEF Legal

LEMMA ClipLegal ==
    ASSUME LinesFit, NEW surface, SurfaceFits(surface), NEW i \in Int \X Int, NEW center \in Int,
           i[1] < i[2], 0 < i[2], i[2] <= SectionLength + Width \div 2
    PROVE  Legal(Clip(i, center, surface), surface)
<1> DEFINE from == Max({0, i[1]})
           want == <<from, Max({from, i[2]})>>
           Key(s) == <<IF s[1] <= center /\ center <= s[2] THEN 0 ELSE 1,
                       0 - Max({0, Length(Overlap(s, want))}), Dist(s[1] + s[2], 2 * center)>>
           key == [k \in DOMAIN surface |-> Key(surface[k])]
           best == FirstBest(surface, key)
           over == Overlap(best, want)
<1>1. Clip(i, center, surface) = IF surface = <<>> THEN want
                                 ELSE IF Length(over) > 0 THEN over ELSE best
  BY DEF Clip
<1>2. i[1] \in Int /\ i[2] \in Int
  OBVIOUS
<1>3. from \in Int /\ 0 <= from /\ i[1] <= from /\ from < i[2]
  <2>1. Max({0, i[1]}) = IF 0 <= i[1] THEN i[1] ELSE 0
    BY <1>2, MaxWithZero
  <2> HIDE DEF from
  <2> QED
    BY <1>2, <2>1 DEF from
<1>4. Max({from, i[2]}) = i[2]
  <2> HIDE DEF from
  <2>1. Max({from, i[2]}) = IF from <= i[2] THEN i[2] ELSE from
    BY <1>2, <1>3, MinOfTwo
  <2> QED
    BY <1>2, <1>3, <2>1
<1>5. want = <<from, i[2]>>
  BY <1>4
<1> DEFINE w == want
<1>6. w \in Int \X Int /\ w[1] = from /\ w[2] = i[2]
  <2> HIDE DEF from, want
  <2> QED
    BY <1>2, <1>3, <1>5
<1>7. CASE surface = <<>>
  <2>1. Clip(i, center, surface) = w
    BY <1>1, <1>7
  <2> HIDE DEF w, from
  <2> QED
    BY <1>3, <1>6, <1>7, <2>1 DEF Legal
<1>8. CASE surface # <<>>
  <2>1. ASSUME NEW s \in Positions \X Positions
        PROVE  /\ Overlap(s, w) \in Int \X Int
               /\ Overlap(s, w)[1] >= s[1] /\ Overlap(s, w)[2] <= s[2]
               /\ Key(s) \in [1..3 -> Int]
    <3>1. s[1] \in Int /\ s[2] \in Int
      BY DEF Positions
    <3> DEFINE o == Overlap(s, w)
    <3>2. o[1] = Max({s[1], w[1]}) /\ o[2] = Min({s[2], w[2]}) /\ o = <<o[1], o[2]>>
      BY DEF Overlap
    <3> HIDE DEF o
    <3>3. w[1] \in Int /\ w[2] \in Int
      BY <1>6
    <3>4. o[1] \in Int /\ o[2] \in Int /\ o[1] >= s[1] /\ o[2] <= s[2]
      <4> HIDE DEF w
      <4>1. Max({s[1], w[1]}) = IF s[1] <= w[1] THEN w[1] ELSE s[1]
        BY <3>1, <3>3, MinOfTwo
      <4>2. Min({s[2], w[2]}) = IF s[2] <= w[2] THEN s[2] ELSE w[2]
        BY <3>1, <3>3, MinOfTwo
      <4> QED
        BY <3>1, <3>2, <3>3, <4>1, <4>2
    <3>5. Max({0, Length(o)}) \in Int
      <4>1. Length(o) \in Int
        BY <3>4 DEF Length
      <4>2. Max({0, Length(o)}) = IF 0 <= Length(o) THEN Length(o) ELSE 0
        BY <4>1, MaxWithZero
      <4> QED
        BY <4>1, <4>2
    <3>6. Dist(s[1] + s[2], 2 * center) \in Int
      BY <3>1 DEF Dist
    <3> DEFINE x == IF s[1] <= center /\ center <= s[2] THEN 0 ELSE 1
               y == 0 - Max({0, Length(o)})
               z == Dist(s[1] + s[2], 2 * center)
    <3>7. Key(s) = <<x, y, z>>
      BY DEF o
    <3>8. x \in Int /\ y \in Int /\ z \in Int
      BY <3>5, <3>6
    <3> HIDE DEF x, y, z, Key
    <3>9. Key(s) \in [1..3 -> Int]
      BY <3>7, <3>8
    <3> HIDE DEF w
    <3> QED
      BY <3>2, <3>4, <3>9 DEF o
  <2>2. \A k \in DOMAIN surface : key[k] \in [1..3 -> Int]
    <3>1. \A k \in DOMAIN surface : surface[k] \in Positions \X Positions /\ key[k] = Key(surface[k])
      BY DEF SurfaceFits
    <3> HIDE DEF Key, key
    <3> QED
      BY <2>1, <3>1
  <2> HIDE DEF key, Key
  <2>3. PICK k \in DOMAIN surface :
            /\ best = surface[k]
            /\ surface[k] \in Positions \X Positions /\ surface[k][1] < surface[k][2]
    <3> HIDE DEF best
    <3> QED
      BY <1>8, <2>2, SurfacePiece DEF best
  <2>4. Overlap(best, w) = over
    OBVIOUS
  <2> HIDE DEF best, w, from, over
  <2>5. CASE Length(over) > 0
    <3>1. Clip(i, center, surface) = over
      BY <1>1, <1>8, <2>5
    <3>2. over \in Int \X Int /\ over[1] >= surface[k][1] /\ over[2] <= surface[k][2]
      BY <2>1, <2>3, <2>4
    <3>3. over[1] < over[2]
      BY <2>5, <3>2 DEF Length
    <3> QED
      BY <2>3, <3>1, <3>2, <3>3, PieceLegal
  <2>6. CASE ~(Length(over) > 0)
    <3>1. Clip(i, center, surface) = surface[k]
      BY <1>1, <1>8, <2>3, <2>6
    <3>2. surface[k] \in Int \X Int /\ surface[k][1] <= surface[k][1] /\ surface[k][2] <= surface[k][2]
      BY <2>3 DEF Positions
    <3> QED
      BY <2>3, <3>1, <3>2, PieceLegal
  <2> QED
    BY <2>5, <2>6
<1> QED
  BY <1>7, <1>8

LEMMA AroundLegal ==
    ASSUME LinesFit, NEW surface, SurfaceFits(surface), NEW x \in Positions
    PROVE  Legal(Clip(Around(x), x, surface), surface)
<1> DEFINE i == Around(x)
<1>1. x \in Int /\ 0 <= x /\ x <= SectionLength
  BY DEF LinesFit, Positions
<1>2. i = <<x - Width \div 2, x + Width \div 2>>
  BY DEF Around
<1>3. i \in Int \X Int /\ i[1] < i[2] /\ 0 < i[2] /\ i[2] <= SectionLength + Width \div 2
  BY <1>1, <1>2, HalfWidth
<1> HIDE DEF i
<1>4. Legal(Clip(i, x, surface), surface)
  BY <1>1, <1>3, ClipLegal
<1> QED
  BY <1>4 DEF i

LEMMA LongestIs ==
    ASSUME LinesFit, NEW surface, SurfaceFits(surface), surface # <<>>
    PROVE  \E k \in DOMAIN surface :
               /\ Longest(surface) = surface[k]
               /\ surface[k] \in Positions \X Positions /\ surface[k][1] < surface[k][2]
<1> DEFINE key == [k \in DOMAIN surface |-> <<0 - Length(surface[k])>>]
<1>1. \A k \in DOMAIN surface : key[k] \in [1..1 -> Int]
  <2> TAKE k \in DOMAIN surface
  <2>1. surface[k] \in Positions \X Positions
    BY DEF SurfaceFits
  <2>2. surface[k][1] \in Int /\ surface[k][2] \in Int
    BY <2>1 DEF Positions
  <2> DEFINE x == 0 - Length(surface[k])
  <2>3. x \in Int
    BY <2>2 DEF Length
  <2>4. key[k] = <<x>>
    OBVIOUS
  <2> HIDE DEF x, key
  <2> QED
    BY <2>3, <2>4
<1>2. Longest(surface) = FirstBest(surface, key)
  BY DEF Longest
<1> HIDE DEF key
<1> QED
  BY <1>1, <1>2, SurfacePiece

LEMMA LongestLegal ==
    ASSUME LinesFit, NEW surface, SurfaceFits(surface), surface # <<>>
    PROVE  Legal(Longest(surface), surface)
<1>1. PICK k \in DOMAIN surface :
          /\ Longest(surface) = surface[k]
          /\ surface[k] \in Positions \X Positions /\ surface[k][1] < surface[k][2]
  BY LongestIs
<1>2. surface[k] \in Int \X Int /\ surface[k][1] <= surface[k][1] /\ surface[k][2] <= surface[k][2]
  BY <1>1 DEF Positions
<1> QED
  BY <1>1, <1>2, PieceLegal

LEMMA PartOf ==
    ASSUME NEW n \in Nat, NEW r \in 0..n, NEW x \in Nat
    PROVE  (r * x) \div (n + 1) \in Nat /\ (r * x) \div (n + 1) <= x
<1> DEFINE d == n + 1
           p == r * x
           q == p \div d
<1>1. d \in Nat /\ d > 0 /\ p \in Nat /\ p <= n * x /\ n * x <= d * x
  BY SMT
<1>2. q \in Int /\ d * q <= p /\ p < d * q + d
  <2> HIDE DEF p, d
  <2> QED
    BY <1>1, SMT
<1>3. q >= 0
  <2> HIDE DEF p, q, d
  <2>1. CASE q <= 0 - 1
    <3>1. d * q <= d * (0 - 1)
      BY <1>1, <1>2, <2>1, SMT
    <3> QED
      BY <1>1, <1>2, <3>1
  <2> QED
    BY <1>2, <2>1
<1>4. q <= x
  <2>1. CASE q >= x + 1
    <3> HIDE DEF p, q
    <3>1. d * q >= d * (x + 1) /\ d * (x + 1) = d * x + d
      BY <1>1, <1>2, <2>1, SMT
    <3> HIDE DEF d
    <3> QED
      BY <1>1, <1>2, <3>1
  <2> HIDE DEF q
  <2> QED
    BY <1>2, <2>1
<1> QED
  BY <1>2, <1>3, <1>4

LEMMA RawLegal ==
    ASSUME LinesFit, NEW surface, SurfaceFits(surface),
           NEW crossings, IsFiniteSet(crossings), \A c \in crossings : c.at \in Positions,
           NEW projection, IsFiniteSet(projection), projection \subseteq Positions,
           NEW count \in Nat, NEW rank \in 0..count
    PROVE  Legal(Raw(crossings, projection, rank, count, surface), surface)
<1> DEFINE clean == {c \in crossings : c.clean}
           counted == IF clean = {} THEN crossings ELSE clean
           at == {c.at : c \in counted}
           span == <<Min(at), Max(at)>>
           long == Longest(surface)
           share == long[1] + (rank * Length(long)) \div (count + 1)
           raw == Raw(crossings, projection, rank, count, surface)
<1>1. raw = IF at # {}
            THEN Clip(IF Length(span) = 0 THEN Around(span[1]) ELSE span, Mid(span), surface)
            ELSE IF projection # {} THEN Clip(Around(Min(projection)), Min(projection), surface)
            ELSE IF surface # <<>> /\ count > 1 THEN Clip(Around(share), share, surface)
            ELSE IF surface # <<>> THEN Longest(surface)
            ELSE <<0, Width>>
  BY DEF Raw
<1>2. Positions \subseteq Int
  BY DEF Positions
<1>3. counted \subseteq crossings
  OBVIOUS
<1>4. at \subseteq Positions /\ IsFiniteSet(at)
  <2>1. IsFiniteSet(counted)
    <3> HIDE DEF counted
    <3> QED
      BY <1>3, FS_Subset
  <2> DEFINE f == [c \in counted |-> c.at]
  <2>2. at = {f[c] : c \in counted}
    OBVIOUS
  <2> HIDE DEF counted
  <2>3. at \subseteq Positions
    BY <1>3
  <2> HIDE DEF f, at
  <2> QED
    BY <2>1, <2>2, <2>3, ImageFinite
<1> HIDE DEF raw, at
<1>5. CASE at # {}
  <2>1. Min(at) \in at /\ Max(at) \in at /\ Min(at) <= Max(at)
    <3>1. at \subseteq Int
      BY <1>2, <1>4
    <3> QED
      BY <1>4, <1>5, <3>1, MinIs, MaxIs
  <2> DEFINE x == Min(at)
             y == Max(at)
  <2>2. x \in Positions /\ y \in Positions /\ x \in Int /\ y \in Int /\ x <= y
    BY <1>2, <1>4, <2>1
  <2>3. span = <<x, y>> /\ span[1] = x /\ span[2] = y /\ Length(span) = y - x /\ Mid(span) = (x + y) \div 2
    BY DEF Length, Mid
  <2> HIDE DEF x, y, span
  <2>4. CASE Length(span) = 0
    <3>1. x = y /\ Mid(span) = x
      BY <2>2, <2>3, <2>4
    <3>2. raw = Clip(Around(x), x, surface)
      BY <1>1, <1>5, <2>3, <2>4, <3>1
    <3> QED
      BY <2>2, <3>2, AroundLegal DEF raw
  <2>5. CASE Length(span) # 0
    <3>1. raw = Clip(span, Mid(span), surface)
      BY <1>1, <1>5, <2>5
    <3>2. span \in Int \X Int /\ Mid(span) \in Int /\ span[1] < span[2]
      BY <2>2, <2>3, <2>5
    <3>3. 0 <= span[1] /\ 0 < span[2] /\ span[2] <= SectionLength + Width \div 2
      BY <2>2, <2>3, <3>2, HalfWidth DEF Positions
    <3> QED
      BY <3>1, <3>2, <3>3, ClipLegal DEF raw
  <2> QED
    BY <2>4, <2>5
<1>6. CASE at = {} /\ projection # {}
  <2>1. Min(projection) \in projection
    <3>1. projection \subseteq Int
      BY <1>2
    <3> QED
      BY <1>6, <3>1, MinIs
  <2>2. raw = Clip(Around(Min(projection)), Min(projection), surface)
    BY <1>1, <1>6
  <2>3. Min(projection) \in Positions
    BY <2>1
  <2> QED
    BY <2>2, <2>3, AroundLegal DEF raw
<1>7. CASE at = {} /\ projection = {} /\ surface # <<>> /\ count > 1
  <2>1. raw = Clip(Around(share), share, surface)
    BY <1>1, <1>7
  <2>2. share \in Positions
    <3>1. long \in Positions \X Positions /\ long[1] < long[2]
      BY <1>7, LongestIs
    <3> HIDE DEF long
    <3>2. long[1] \in 0..SectionLength /\ long[2] \in 0..SectionLength
      BY <3>1 DEF Positions
    <3>3. Length(long) \in Nat /\ Length(long) = long[2] - long[1]
      BY <3>1, <3>2 DEF Length
    <3> DEFINE q == (rank * Length(long)) \div (count + 1)
    <3>4. q \in Nat /\ q <= Length(long)
      BY <3>3, PartOf
    <3> HIDE DEF q
    <3>5. long[1] + q \in 0..SectionLength
      BY <3>2, <3>3, <3>4, HalfWidth
    <3> QED
      BY <3>5 DEF q, Positions
  <2> HIDE DEF share
  <2> QED
    BY <2>1, <2>2, AroundLegal DEF raw
<1>8. CASE at = {} /\ projection = {} /\ surface # <<>> /\ ~(count > 1)
  <2>1. raw = Longest(surface)
    BY <1>1, <1>8
  <2> QED
    BY <1>8, <2>1, LongestLegal DEF raw
<1>9. CASE at = {} /\ projection = {} /\ surface = <<>>
  <2>1. raw = <<0, Width>>
    BY <1>1, <1>9
  <2>2. raw \in Int \X Int /\ raw[1] = 0 /\ raw[2] = Width
    BY <2>1, HalfWidth
  <2>3. 0 < Width /\ Width <= SectionLength + Width \div 2
    BY HalfWidth
  <2> QED
    BY <1>9, <2>2, <2>3 DEF Legal, raw
<1> QED
  BY <1>5, <1>6, <1>7, <1>8, <1>9

-----------------------------------------------------------------------------
(* The shares of the intervals of a section.                               *)
CenterAfter(raw, k, before) ==
    IF k = 1 THEN Mid(raw[1])
    ELSE IF Mid(raw[k]) < before + Gap THEN before + Gap
    ELSE Mid(raw[k])

LEMMA PushedIs ==
    ASSUME NEW raw, NEW m \in Nat, Len(raw) = m, \A k \in 1..m : Mid(raw[k]) \in Int, Gap \in Int
    PROVE  \A k \in 1..m : Pushed(raw)[k] \in Int
<1> DEFINE body(c, k) == IF k = 1 THEN Mid(raw[1])
                         ELSE IF Mid(raw[k]) < c[k - 1] + Gap THEN c[k - 1] + Gap
                         ELSE Mid(raw[k])
           Sol(c) == c = [k \in 1..m |-> body(c, k)]
           onto == [p \in (1..m) \X Int |-> CenterAfter(raw, p[1], p[2])]
<1>1. onto \in [(1..m) \X Int -> Int]
  <2>1. \A p \in (1..m) \X Int : CenterAfter(raw, p[1], p[2]) \in Int
    <3> TAKE p \in (1..m) \X Int
    <3>1. p[1] \in 1..m /\ p[2] \in Int
      OBVIOUS
    <3>2. p[1] = 1 => 1 \in 1..m
      BY <3>1
    <3> QED
      BY <3>1, <3>2 DEF CenterAfter
  <2> QED
    BY <2>1
<1>2. \A k \in 1..m, x \in Int : onto[<<k, x>>] = CenterAfter(raw, k, x)
  OBVIOUS
<1> HIDE DEF onto
<1>3. PICK f \in [0..m -> Int] : Follows(f, m, 0, onto)
  <2>1. 0 \in Int
    OBVIOUS
  <2> QED
    BY <1>1, <2>1, RecursionExists
<1>4. \A k \in 1..m : f[k] = CenterAfter(raw, k, f[k - 1])
  <2> TAKE k \in 1..m
  <2>1. k - 1 \in 0..m
    OBVIOUS
  <2>2. f[k - 1] \in Int
    BY <2>1
  <2> QED
    BY <1>2, <1>3, <2>2 DEF Follows
<1> DEFINE g == [k \in 1..m |-> f[k]]
<1>5. \A k \in 1..m : g[k] = body(g, k)
  <2> TAKE k \in 1..m
  <2>1. CASE k = 1
    BY <1>4, <2>1 DEF CenterAfter
  <2>2. CASE k # 1
    <3>1. k - 1 \in 1..m
      BY <2>2
    <3>2. g[k - 1] = f[k - 1] /\ g[k] = f[k]
      BY <3>1
    <3> HIDE DEF g
    <3> QED
      BY <1>4, <2>2, <3>2 DEF CenterAfter
  <2> QED
    BY <2>1, <2>2
<1>6. Sol(g)
  <2>1. g = [k \in 1..m |-> g[k]]
    OBVIOUS
  <2> HIDE DEF g, body
  <2>2. [k \in 1..m |-> g[k]] = [k \in 1..m |-> body(g, k)]
    BY <1>5
  <2> QED
    BY <2>1, <2>2
<1> DEFINE c == Pushed(raw)
<1>7. c = CHOOSE h : Sol(h)
  BY DEF Pushed
<1>8. Sol(c)
  <2> HIDE DEF Sol, c, g
  <2> QED
    BY <1>6, <1>7
<1> HIDE DEF c
<1>9. \A k \in 1..m : c[k] = body(c, k)
  BY <1>8
<1> DEFINE Good == {k \in 0..m : k = 0 \/ c[k] \in Int}
<1>10. ASSUME NEW k \in 1..m, k - 1 \in Good PROVE k \in Good
  <2>1. c[k] = body(c, k)
    BY <1>9
  <2>2. c[k] \in Int
    <3>1. CASE k = 1
      BY <2>1, <3>1
    <3>2. CASE k # 1
      <4>1. c[k - 1] \in Int
        BY <1>10, <3>2
      <4> QED
        BY <2>1, <3>2, <4>1
    <3> QED
      BY <3>1, <3>2
  <2> QED
    BY <2>2
<1>11. 0 \in Good
  OBVIOUS
<1>12. \A k \in 0..m : k \in Good
  <2> HIDE DEF Good
  <2> QED
    BY <1>10, <1>11, HandedOn
<1>13. \A k \in 1..m : c[k] \in Int
  BY <1>12
<1> QED
  BY <1>13 DEF c

LEMMA CentersAre ==
    ASSUME NEW raw, NEW m \in Nat, Len(raw) = m, m # 0,
           \A k \in 1..m : Mid(raw[k]) \in Int, Gap \in Int, SectionLength \in Int
    PROVE  \A k \in 1..m : Centers(raw)[k] \in Int
<1> DEFINE c == Pushed(raw)
           over == IF c[m] > SectionLength THEN c[m] - SectionLength ELSE 0
<1>1. \A k \in 1..m : c[k] \in Int
  BY PushedIs
<1>2. Centers(raw) = [k \in 1..m |-> IF over = 0 THEN c[k] ELSE Max({0, c[k] - over})]
  BY DEF Centers
<1> HIDE DEF c
<1>3. over \in Int
  BY <1>1
<1> HIDE DEF over
<1>4. \A k \in 1..m : c[k] - over \in Int /\ Max({0, c[k] - over}) \in Int
  <2> TAKE k \in 1..m
  <2>1. c[k] - over \in Int
    BY <1>1, <1>3
  <2>2. Max({0, c[k] - over}) = IF 0 <= c[k] - over THEN c[k] - over ELSE 0
    BY <2>1, MaxWithZero
  <2> QED
    BY <2>1, <2>2
<1> QED
  BY <1>1, <1>2, <1>4

(* A share lies within the interval it is a share of, and is not empty.    *)
LEMMA ShareWithin ==
    ASSUME NEW raw, NEW m \in Nat, Len(raw) = m, NEW k \in 1..m,
           \A l \in 1..m : raw[l] \in Int \X Int /\ raw[l][1] < raw[l][2],
           Gap \in Int, SectionLength \in Int
    PROVE  /\ Share(raw, k) \in Int \X Int
           /\ raw[k][1] <= Share(raw, k)[1] /\ Share(raw, k)[1] < Share(raw, k)[2]
           /\ Share(raw, k)[2] <= raw[k][2]
<1> DEFINE c == Centers(raw)
           i == raw[k]
           mine == Clamp(c[k], i[1], i[2])
           near == (c[k - 1] + mine + Gap) \div 2
           far == (mine + c[k + 1] - Gap) \div 2
           left == IF k = 1 THEN i[1] ELSE Max({i[1], near})
           right == IF k = m THEN i[2] ELSE Min({i[2], far})
           low == Max({i[1], mine - Sliver})
           high == Min({i[2], mine + Sliver})
<1>1. Share(raw, k) = IF left < right THEN <<left, right>> ELSE <<low, high>>
  BY DEF Share
<1>2. \A l \in 1..m : Mid(raw[l]) \in Int
  <2> TAKE l \in 1..m
  <2>1. raw[l][1] \in Int /\ raw[l][2] \in Int
    OBVIOUS
  <2> QED
    BY <2>1 DEF Mid
<1>3. \A l \in 1..m : c[l] \in Int
  <2>1. m # 0
    OBVIOUS
  <2> QED
    BY <1>2, <2>1, CentersAre
<1> HIDE DEF c
<1>4. i[1] \in Int /\ i[2] \in Int /\ i[1] < i[2]
  OBVIOUS
<1> HIDE DEF i
<1>5. mine \in Int /\ i[1] <= mine /\ mine <= i[2]
  BY <1>3, <1>4 DEF Clamp
<1> HIDE DEF mine
<1>6. left \in Int /\ i[1] <= left
  <2>1. CASE k = 1
    BY <1>4, <2>1
  <2>2. CASE k # 1
    <3>1. k - 1 \in 1..m
      BY <2>2
    <3>2. near \in Int
      BY <1>3, <1>5, <3>1
    <3> HIDE DEF near
    <3>3. Max({i[1], near}) = IF i[1] <= near THEN near ELSE i[1]
      BY <1>4, <3>2, MinOfTwo
    <3> QED
      BY <1>4, <2>2, <3>2, <3>3
  <2> QED
    BY <2>1, <2>2
<1>7. right \in Int /\ right <= i[2]
  <2>1. CASE k = m
    BY <1>4, <2>1
  <2>2. CASE k # m
    <3>1. k + 1 \in 1..m
      BY <2>2
    <3>2. far \in Int
      BY <1>3, <1>5, <3>1
    <3> HIDE DEF far
    <3>3. Min({i[2], far}) = IF i[2] <= far THEN i[2] ELSE far
      BY <1>4, <3>2, MinOfTwo
    <3> QED
      BY <1>4, <2>2, <3>2, <3>3
  <2> QED
    BY <2>1, <2>2
<1>8. low \in Int /\ high \in Int /\ i[1] <= low /\ low < high /\ high <= i[2]
  <2> DEFINE x == mine - Sliver
             y == mine + Sliver
  <2>1. x \in Int /\ y \in Int /\ x < mine /\ mine < y
    BY <1>5 DEF Sliver
  <2>2. low = Max({i[1], x}) /\ high = Min({i[2], y})
    OBVIOUS
  <2> HIDE DEF x, y, low, high
  <2>3. Max({i[1], x}) = IF i[1] <= x THEN x ELSE i[1]
    BY <1>4, <2>1, MinOfTwo
  <2>4. Min({i[2], y}) = IF i[2] <= y THEN i[2] ELSE y
    BY <1>4, <2>1, MinOfTwo
  <2> QED
    BY <1>4, <1>5, <2>1, <2>2, <2>3, <2>4
<1> HIDE DEF left, right, low, high
<1>9. CASE left < right
  <2>1. Share(raw, k) = <<left, right>>
    BY <1>1, <1>9
  <2> QED
    BY <1>4, <1>6, <1>7, <1>9, <2>1 DEF i
<1>10. CASE ~(left < right)
  <2>1. Share(raw, k) = <<low, high>>
    BY <1>1, <1>10
  <2> QED
    BY <1>4, <1>8, <2>1 DEF i
<1> QED
  BY <1>9, <1>10

LEMMA LegalWithin ==
    ASSUME LinesFit, NEW surface, SurfaceFits(surface), NEW i, Legal(i, surface),
           NEW j \in Int \X Int, i[1] <= j[1], j[1] < j[2], j[2] <= i[2]
    PROVE  Legal(j, surface)
<1>1. i[1] \in Int /\ i[2] \in Int /\ j[1] \in Int /\ j[2] \in Int
  BY DEF Legal
<1>2. 0 <= j[1] /\ j[2] <= SectionLength + Width \div 2
  BY <1>1, HalfWidth DEF Legal
<1>3. CASE surface = <<>>
  BY <1>2, <1>3 DEF Legal
<1>4. CASE surface # <<>>
  <2>1. PICK k \in DOMAIN surface : surface[k][1] <= i[1] /\ i[2] <= surface[k][2]
    BY <1>4 DEF Legal
  <2>2. surface[k] \in Positions \X Positions
    BY DEF SurfaceFits
  <2>3. surface[k][1] \in Int /\ surface[k][2] \in Int
    BY <2>2 DEF Positions
  <2>4. surface[k][1] <= j[1] /\ j[2] <= surface[k][2]
    BY <1>1, <2>1, <2>3
  <2> QED
    BY <1>2, <2>4 DEF Legal
<1> QED
  BY <1>3, <1>4

-----------------------------------------------------------------------------
(* Lines, from anchor to anchor.                                           *)
RowsFit == \A a \in Arcs : RowFits(row[a], a)

LEMMA WholeIsLine ==
    ASSUME LinesFit, NEW f \in WholeLines
    PROVE  IsLine(f) /\ DOMAIN f = 1..Cells /\ Min(DOMAIN f) = 1 /\ Max(DOMAIN f) = Cells
<1>1. Cells \in Nat /\ Cells >= 2
  BY DEF LinesFit
<1>2. DOMAIN f = 1..Cells /\ f \in [1..Cells -> Positions]
  BY DEF WholeLines
<1>3. 1 \in 1..Cells /\ Cells \in 1..Cells
  BY <1>1
<1>4. IsLine(f)
  BY <1>2, <1>3 DEF IsLine
<1>5. /\ Min(DOMAIN f) \in 1..Cells /\ Max(DOMAIN f) \in 1..Cells
      /\ Min(DOMAIN f) <= 1 /\ Cells <= Max(DOMAIN f)
  BY <1>2, <1>3, <1>4, LineEnds
<1> QED
  BY <1>1, <1>2, <1>4, <1>5

LEMMA LatIs ==
    ASSUME LinesFit, NEW f, IsLine(f), NEW end
    PROVE  LatAt(f, end) \in Positions
<1>1. f[Min(DOMAIN f)] \in Positions /\ f[Max(DOMAIN f)] \in Positions
  BY LineEnds
<1> QED
  BY <1>1 DEF LatAt, Edge

LEMMA GeometryIs ==
    ASSUME NEW a, NEW r, RowFits(r, a), Geometry(r).ref # NoLine
    PROVE  Geometry(r).from[2] \in Positions /\ Geometry(r).to[2] \in Positions
<1> DEFINE selected == [source |-> "selected_support", ref |-> r.ref, from |-> r.from, to |-> r.to]
           stitched == [source |-> "stitched_support", ref |-> r.stitched.ref,
                        from |-> r.stitched.from, to |-> r.stitched.to]
           none == [source |-> None, ref |-> NoLine, from |-> None, to |-> None]
<1>1. Geometry(r) \in {selected, stitched, none}
  <2> DEFINE first == IF r.reference = "stitched_support" THEN stitched ELSE selected
             second == IF r.reference = "stitched_support" THEN selected ELSE stitched
  <2>1. Geometry(r) = IF first.ref # NoLine THEN first ELSE IF second.ref # NoLine THEN second ELSE none
    BY DEF Geometry
  <2>2. first \in {selected, stitched} /\ second \in {selected, stitched}
    OBVIOUS
  <2> HIDE DEF first, second, selected, stitched, none
  <2> QED
    BY <2>1, <2>2
<1>2. CASE Geometry(r) = selected
  <2>1. selected.ref = r.ref /\ selected.from = r.from /\ selected.to = r.to
    OBVIOUS
  <2> HIDE DEF selected
  <2> QED
    BY <1>2, <2>1 DEF RowFits, AnchoredLine
<1>3. CASE Geometry(r) = stitched
  <2>1. AnchoredLine(r.stitched)
    BY DEF RowFits, StitchedFits
  <2>2. stitched.ref = r.stitched.ref /\ stitched.from = r.stitched.from /\ stitched.to = r.stitched.to
    OBVIOUS
  <2> HIDE DEF stitched
  <2> QED
    BY <1>3, <2>1, <2>2 DEF AnchoredLine
<1>4. CASE Geometry(r) = none
  <2>1. none.ref = NoLine
    OBVIOUS
  <2> QED
    BY <1>4, <2>1
<1> QED
  BY <1>1, <1>2, <1>3, <1>4

LEMMA OwnAnchorIs ==
    ASSUME LinesFit, scene \in Scenes, NEW a \in Arcs, RowFits(row[a], a), NEW end \in Ends
    PROVE  OwnAnchor(a, end) \in Positions
<1> DEFINE g == Geometry(row[a])
<1>1. OwnAnchor(a, end) = IF end \in row[a].ends /\ g.ref # NoLine
                          THEN (IF end = "src" THEN g.from ELSE g.to)[2]
                          ELSE LatAt(scene.line[a], end)
  BY DEF OwnAnchor
<1> HIDE DEF g
<1>2. g.ref # NoLine => g.from[2] \in Positions /\ g.to[2] \in Positions
  BY GeometryIs DEF g
<1>3. LatAt(scene.line[a], end) \in Positions
  BY LineOfArc, WholeIsLine, LatIs
<1> QED
  BY <1>1, <1>2, <1>3

LEMMA OnNearestIs ==
    ASSUME LinesFit, NEW surface, SurfaceFits(surface), NEW s \in Positions
    PROVE  OnNearest(surface, s) \in Positions
<1> DEFINE Key(i) == IF i[1] - Tolerance <= s /\ s <= i[2] + Tolerance THEN <<0, 0>>
                     ELSE <<1, Dist(i[1] + i[2], 2 * s)>>
           key == [k \in DOMAIN surface |-> Key(surface[k])]
           i == FirstBest(surface, key)
<1>1. OnNearest(surface, s) = IF surface = <<>> THEN s ELSE Clamp(s, i[1], i[2])
  BY DEF OnNearest
<1>2. CASE surface # <<>>
  <2>1. \A k \in DOMAIN surface : key[k] \in [1..2 -> Int]
    <3> TAKE k \in DOMAIN surface
    <3>1. surface[k] \in Positions \X Positions /\ key[k] = Key(surface[k])
      BY DEF SurfaceFits
    <3>2. surface[k][1] \in Int /\ surface[k][2] \in Int /\ s \in Int
      BY <3>1 DEF Positions
    <3> DEFINE x == Dist(surface[k][1] + surface[k][2], 2 * s)
    <3>3. x \in Int
      BY <3>2 DEF Dist
    <3>4. Key(surface[k]) \in {<<0, 0>>, <<1, x>>}
      OBVIOUS
    <3> HIDE DEF Key, key, x
    <3> QED
      BY <3>1, <3>3, <3>4
  <2> HIDE DEF key
  <2>2. \E k \in DOMAIN surface :
           i = surface[k] /\ surface[k] \in Positions \X Positions /\ surface[k][1] < surface[k][2]
    BY <1>2, <2>1, SurfacePiece
  <2> HIDE DEF i
  <2>3. i[1] \in Positions /\ i[2] \in Positions
    BY <2>2
  <2>4. Clamp(s, i[1], i[2]) \in Positions
    BY <2>3 DEF Clamp
  <2> QED
    BY <1>1, <1>2, <2>4
<1>3. CASE surface = <<>>
  BY <1>1, <1>3
<1> QED
  BY <1>2, <1>3

LEMMA FusedIs ==
    ASSUME LinesFit, scene \in Scenes, NEW a \in Arcs, RowFits(row[a], a)
    PROVE  Fused(a) \in WholeLines
<1> DEFINE over(c) == {s \in row[a].segments : c \in DOMAIN s.line}
           Key(s) == <<Min(DOMAIN s.line), s.order, s.trip>>
           first(c) == CHOOSE s \in over(c) : \A u \in over(c) \ {s} : Precedes(Key(u), Key(s))
           at(c) == IF over(c) = {} THEN scene.line[a][c] ELSE first(c).line[c]
<1>1. Fused(a) = [c \in 1..Cells |-> at(c)]
  BY DEF Fused
<1>2. SegmentsFit(row[a].segments)
  BY DEF RowFits
<1>3. ASSUME NEW c \in 1..Cells PROVE at(c) \in Positions
  <2>1. CASE over(c) = {}
    <3>1. scene.line[a][c] \in Positions
      BY LineOfArc DEF WholeLines
    <3> QED
      BY <2>1, <3>1
  <2>2. CASE over(c) # {}
    <3> DEFINE S == over(c)
               K == [s \in S |-> Key(s)]
    <3>1. S \subseteq row[a].segments
      OBVIOUS
    <3>2. SegmentsFit(S)
      BY <1>2, <3>1, SomeFit
    <3>3. \A s \in S : c \in DOMAIN s.line
      OBVIOUS
    <3> HIDE DEF over
    <3>4. \A s \in S : Min(DOMAIN s.line) \in Nat /\ s.order \in Nat /\ s.trip \in Nat
      <4> TAKE s \in S
      <4>1. IsLine(s.line) /\ s.order \in Nat /\ s.trip \in Nat
        BY <3>2 DEF SegmentsFit
      <4>2. Min(DOMAIN s.line) \in DOMAIN s.line /\ DOMAIN s.line \subseteq Nat
        BY <4>1, LineEnds
      <4> QED
        BY <4>1, <4>2
    <3>5. \A s \in S : K[s] = Key(s) /\ Key(s) \in [1..3 -> Int]
      BY <3>4
    <3>6. \A s, u \in S : Key(s) = Key(u) => s.order = u.order /\ s.trip = u.trip
      BY <3>4
    <3> HIDE DEF K, Key
    <3>7. KeysFit(S, 3, K)
      BY <3>2, <3>5, <3>6 DEF KeysFit, SegmentsFit
    <3>8. PICK s \in S : \A u \in S \ {s} : Precedes(K[u], K[s])
      BY <2>2, <3>7, KeysLast
    <3>9. \A u \in S \ {s} : Precedes(Key(u), Key(s))
      BY <3>5, <3>8
    <3>10. first(c) \in S
      BY <3>9
    <3> HIDE DEF first
    <3>11. first(c).line[c] \in Positions
      BY <3>2, <3>3, <3>10, LineEnds DEF SegmentsFit
    <3> QED
      BY <2>2, <3>11
  <2> QED
    BY <2>1, <2>2
<1> HIDE DEF at
<1> QED
  BY <1>1, <1>3 DEF WholeLines

LEMMA DrawnIs ==
    ASSUME LinesFit, NEW f \in WholeLines, NEW at
    PROVE  /\ DOMAIN Drawn(f, at) = 1..Cells
           /\ \A end \in Ends : LatAt(Drawn(f, at), end) = at[end]
           /\ at \in [Ends -> Positions] => Drawn(f, at) \in WholeLines
<1> DEFINE d == Drawn(f, at)
<1>1. Cells \in Nat /\ Cells >= 2 /\ 1 \in 1..Cells /\ Cells \in 1..Cells /\ 1 # Cells
  BY DEF LinesFit
<1>2. DOMAIN f = 1..Cells /\ Min(1..Cells) = 1 /\ Max(1..Cells) = Cells
  BY WholeIsLine
<1>3. d = [f EXCEPT ![1] = at["src"], ![Cells] = at["dst"]]
  BY DEF Drawn
<1> HIDE DEF d
<1>4. DOMAIN d = 1..Cells /\ d[1] = at["src"] /\ d[Cells] = at["dst"]
  BY <1>1, <1>2, <1>3
<1>5. LatAt(d, "src") = at["src"] /\ LatAt(d, "dst") = at["dst"]
  BY <1>2, <1>4 DEF LatAt, Edge
<1>6. ASSUME at \in [Ends -> Positions] PROVE d \in WholeLines
  <2>1. at["src"] \in Positions /\ at["dst"] \in Positions
    BY <1>6 DEF Ends
  <2> QED
    BY <1>1, <1>3, <2>1 DEF WholeLines
<1> QED
  BY <1>4, <1>5, <1>6 DEF d, Ends

LEMMA SegmentIs ==
    ASSUME LinesFit, scene \in Scenes, NEW a \in Arcs, RowFits(row[a], a), NEW at
    PROVE  /\ \A end \in Ends : LatAt(Segment(a, at).line, end) = at[end]
           /\ at \in [Ends -> Positions] => Segment(a, at).line \in WholeLines
           /\ Segment(a, at).driver = "support" => row[a].kind # "no_support" /\ row[a].prefers
<1> DEFINE driver == Driver(a, at)
           base == CASE driver = "support" -> Fused(a)
                     [] driver = "hint" -> scene.hint[a]
                     [] driver = "arc" -> scene.line[a]
           offered == Geometry(row[a]).ref # NoLine /\ row[a].kind # "no_support"
           hinted == scene.hint[a] # NoLine
<1>1. Segment(a, at) = [driver |-> driver, line |-> Drawn(base, at)]
  BY DEF Segment
<1>2. /\ driver \in {"support", "hint", "arc"}
      /\ driver = "support" => offered /\ Bound(a)
      /\ driver = "hint" => hinted
  <2> DEFINE weak == offered /\ row[a].kind = "partial_arc_support" /\ ~row[a].full
             support == Drawn(Fused(a), at)
             arc == Drawn(scene.line[a], at)
             hint == Drawn(scene.hint[a], at)
             most == Max({Fit(arc)} \cup IF hinted THEN {Fit(hint)} ELSE {})
  <2>1. driver = IF offered /\ ~Bound(a) THEN "arc"
                 ELSE IF offered /\ Sound(support) THEN "support"
                 ELSE IF weak \/ Sound(arc) THEN "arc"
                 ELSE IF hinted /\ Sound(hint) THEN "hint"
                 ELSE IF offered /\ Fit(support) >= most THEN "support"
                 ELSE IF hinted /\ Fit(hint) > Fit(arc) THEN "hint"
                 ELSE "arc"
    BY DEF Driver
  <2> HIDE DEF driver, offered, hinted, weak, support, arc, hint, most
  <2> QED
    BY <2>1
<1> HIDE DEF driver
<1>3. base \in WholeLines
  <2>1. Fused(a) \in WholeLines /\ scene.line[a] \in WholeLines
    BY FusedIs, LineOfArc
  <2>2. hinted => scene.hint[a] \in WholeLines
    BY LineOfArc
  <2> HIDE DEF hinted
  <2> QED
    BY <1>2, <2>1, <2>2
<1> HIDE DEF base
<1>4. Segment(a, at).driver = driver /\ Segment(a, at).line = Drawn(base, at)
  BY <1>1
<1>5. driver = "support" => row[a].kind # "no_support" /\ row[a].prefers
  BY <1>2 DEF Bound
<1> QED
  BY <1>3, <1>4, <1>5, DrawnIs

-----------------------------------------------------------------------------
(* What is allotted at one end of a cross section.                         *)
SeedsFit == entered \subseteq Arcs /\ \A a \in entered : seed[a].line \in WholeLines

LEMMA SurfaceOf ==
    ASSUME LinesFit, scene \in Scenes, NEW a \in Arcs, NEW end \in Ends
    PROVE  SurfaceFits(scene.surface[Section(a, end)])
BY DEF LinesFit, SceneFits, SurfaceFits

LEMMA ProjectionIs ==
    ASSUME LinesFit, scene \in Scenes, RowsFit, SeedsFit, NEW a \in Arcs, NEW end \in Ends
    PROVE  IsFiniteSet(Projection(a, end)) /\ Projection(a, end) \subseteq Positions
<1> DEFINE c == Corridors(a)
<1>1. c # NoLine => IsLine(c)
  <2>1. RowFits(row[a], a)
    BY DEF RowsFit
  <2>2. row[a].ref # NoLine => IsLine(row[a].ref)
    BY <2>1 DEF RowFits, AnchoredLine
  <2>3. row[a].stitched.ref # NoLine => IsLine(row[a].stitched.ref)
    BY <2>1 DEF RowFits, StitchedFits, AnchoredLine
  <2>4. c = IF row[a].ref # NoLine THEN row[a].ref ELSE row[a].stitched.ref
    BY DEF Corridors
  <2> QED
    BY <2>2, <2>3, <2>4
<1>2. Projection(a, end) = IF c # NoLine THEN {LatAt(c, end)}
                           ELSE IF a \in entered THEN {LatAt(seed[a].line, end)} ELSE {}
  BY DEF Projection
<1> HIDE DEF c
<1>3. c # NoLine => LatAt(c, end) \in Positions
  BY <1>1, LatIs
<1>4. a \in entered => LatAt(seed[a].line, end) \in Positions
  BY WholeIsLine, LatIs DEF SeedsFit
<1>5. IsFiniteSet({}) /\ IsFiniteSet({LatAt(c, end)}) /\ IsFiniteSet({LatAt(seed[a].line, end)})
  BY FS_EmptySet, FS_Singleton
<1>6. CASE c # NoLine
  BY <1>2, <1>3, <1>5, <1>6
<1>7. CASE c = NoLine /\ a \in entered
  BY <1>2, <1>4, <1>5, <1>7
<1>8. CASE c = NoLine /\ a \notin entered
  <2>1. Projection(a, end) = {}
    BY <1>2, <1>8
  <2> QED
    BY <1>5, <2>1
<1> QED
  BY <1>6, <1>7, <1>8

LEMMA GroupFinite ==
    ASSUME LinesFit, NEW x, NEW end
    PROVE  Group(x, end) \subseteq Arcs /\ IsFiniteSet(Group(x, end))
           /\ Cardinality(Group(x, end)) \in Nat
<1>1. Group(x, end) \subseteq Arcs
  BY DEF Group
<1>2. IsFiniteSet(Arcs)
  BY DEF LinesFit
<1>3. IsFiniteSet(Group(x, end))
  BY <1>1, <1>2, FS_Subset
<1> QED
  BY <1>1, <1>3, FS_CardinalityType

LEMMA RawOfLegal ==
    ASSUME LinesFit, scene \in Scenes, RowsFit, SeedsFit, NEW a \in Arcs, NEW end \in Ends
    PROVE  Legal(RawOf(a, end), scene.surface[Section(a, end)])
<1> DEFINE x == Section(a, end)
           mine == {i \in Through(x, end) : Owner(scene.trips[i], x, end) = a}
           Hit(i) == [trip |-> i, at |-> scene.trips[i].line[EndCell(end)],
                      clean |-> end \notin scene.trips[i].unclean]
           crossings == {Hit(i) : i \in mine}
           before == {b \in Group(x, end) : b <= a}
<1>1. RawOf(a, end) = Raw(crossings, Projection(a, end), Cardinality(before),
                          Cardinality(Group(x, end)), scene.surface[x])
  BY DEF RawOf
<1>2. mine \subseteq DOMAIN scene.trips /\ \A i \in mine : Crosses(scene.trips[i], x, end)
  BY DEF Through
<1>3. IsFiniteSet(mine)
  <2>1. IsFiniteSet(DOMAIN scene.trips)
    BY DEF LinesFit, SceneFits
  <2> HIDE DEF mine
  <2> QED
    BY <1>2, <2>1, FS_Subset
<1>4. IsFiniteSet(crossings)
  <2> DEFINE f == [i \in mine |-> Hit(i)]
  <2>1. crossings = {f[i] : i \in mine}
    OBVIOUS
  <2> HIDE DEF f, crossings, mine
  <2> QED
    BY <1>3, <2>1, ImageFinite
<1> HIDE DEF mine
<1>5. \A c \in crossings : c.at \in Positions
  <2> SUFFICES ASSUME NEW i \in mine PROVE Hit(i).at \in Positions
    OBVIOUS
  <2>1. i \in DOMAIN scene.trips /\ Crosses(scene.trips[i], x, end)
    BY <1>2
  <2>2. EndCell(end) \in DOMAIN scene.trips[i].line
    BY <2>1 DEF LinesFit, SceneFits
  <2>3. scene.trips[i].line[EndCell(end)] \in Positions
    BY <2>1, <2>2, TripFits, LineEnds
  <2> QED
    BY <2>3
<1> HIDE DEF crossings
<1>6. Cardinality(before) \in 0..Cardinality(Group(x, end))
  <2>1. before \subseteq Group(x, end)
    OBVIOUS
  <2> HIDE DEF before
  <2>2. Cardinality(before) <= Cardinality(Group(x, end)) /\ IsFiniteSet(before)
    BY <2>1, GroupFinite, FS_Subset
  <2>3. Cardinality(before) \in Nat
    BY <2>2, FS_CardinalityType
  <2> QED
    BY <2>2, <2>3, GroupFinite
<1>7. SurfaceFits(scene.surface[x])
  BY SurfaceOf
<1> HIDE DEF before, x
<1>8. IsFiniteSet(Projection(a, end)) /\ Projection(a, end) \subseteq Positions
  BY ProjectionIs
<1>9. Legal(RawOf(a, end), scene.surface[x])
  BY <1>1, <1>4, <1>5, <1>6, <1>7, <1>8, GroupFinite, RawLegal
<1> QED
  BY <1>9 DEF x

LEMMA MidIs == ASSUME NEW i \in Int \X Int PROVE Mid(i) \in Int
BY DEF Mid

(* The arcs of a section in an order, each with a share of its own that is *)
(* legal, and ok if the share begins where the one before ends.            *)
LEMMA AllottedIs ==
    ASSUME LinesFit, scene \in Scenes, RowsFit, SeedsFit, NEW end \in Ends, NEW x \in Sections(end)
    PROVE  \E q, sh :
              /\ Listed(q, Group(x, end))
              /\ \A k \in 1..Cardinality(Group(x, end)) :
                    /\ Legal(sh[k], scene.surface[x])
                    /\ \E r \in Allotted(x, end) : r.arc = q[k]
              /\ \A r \in Allotted(x, end) : \E k \in 1..Cardinality(Group(x, end)) :
                    r.arc = q[k] /\ r.to = sh[k] /\ (r.ok => InOrder(sh, k))
<1> DEFINE G == Group(x, end)
           Of(a) == [arc |-> a, raw |-> RawOf(a, end)]
           of == {Of(a) : a \in G}
           key == [r \in of |-> <<Mid(r.raw), r.arc>>]
           order == Ranked(of, key)
           raw == [k \in DOMAIN order |-> order[k].raw]
           share == Allocation(raw)
           Rec(k) == [arc |-> order[k].arc, raw |-> raw[k], to |-> share[k], ok |-> InOrder(share, k)]
           surface == scene.surface[x]
           m == Cardinality(of)
<1>1. Allotted(x, end) = {Rec(k) : k \in DOMAIN order}
  BY DEF Allotted
<1>2. \A a \in G : a \in Arcs /\ Section(a, end) = x
  BY DEF Group
<1>3. SurfaceFits(surface)
  <2>1. PICK a \in Arcs : x = Section(a, end)
    BY DEF Sections
  <2> QED
    BY <2>1, SurfaceOf
<1> HIDE DEF surface
<1>4. \A a \in G : Legal(RawOf(a, end), surface)
  BY <1>2, RawOfLegal DEF surface
<1>5. IsFiniteSet(G) /\ Cardinality(G) \in Nat /\ G \subseteq Arcs
  BY GroupFinite
<1> HIDE DEF G
<1>6. \A a \in G : Of(a).arc = a /\ Of(a).raw = RawOf(a, end)
  OBVIOUS
<1>7. IsFiniteSet(of) /\ m = Cardinality(G) /\ m \in Nat
  <2> DEFINE f == [a \in G |-> Of(a)]
  <2>1. f \in Bijection(G, of)
    <3>1. f \in [G -> of] /\ \A r \in of : \E a \in G : f[a] = r
      OBVIOUS
    <3>2. \A a, b \in G : f[a] = f[b] => a = b
      <4>1. \A a \in G : f[a] = Of(a)
        OBVIOUS
      <4> HIDE DEF f, Of
      <4> QED
        BY <1>6, <4>1
    <3> HIDE DEF f, of
    <3> QED
      BY <3>1, <3>2 DEF Bijection, Injection, Surjection, IsInjective
  <2> HIDE DEF f, of
  <2>2. ExistsBijection(G, of)
    BY <2>1 DEF ExistsBijection
  <2>3. IsFiniteSet(of) /\ Cardinality(of) = Cardinality(G)
    BY <1>5, <2>2, FS_Bijection
  <2> QED
    BY <1>5, <2>3
<1> HIDE DEF Of
<1>8. ASSUME NEW r \in of
      PROVE  r.arc \in G /\ Legal(r.raw, surface) /\ <<Mid(r.raw), r.arc>> \in [1..2 -> Int]
  <2>1. PICK a \in G : r = Of(a)
    OBVIOUS
  <2>2. r.arc = a /\ Legal(r.raw, surface)
    BY <1>4, <1>6, <2>1
  <2>3. Mid(r.raw) \in Int
    BY <2>2, MidIs DEF Legal
  <2>4. r.arc \in Int
    <3>1. r.arc \in Arcs
      BY <1>5, <2>2
    <3>2. \A y \in Arcs : y \in Int
      BY DEF LinesFit
    <3> QED
      BY <3>1, <3>2
  <2> QED
    BY <2>2, <2>3, <2>4
<1>9. \A r, s \in of : r.arc = s.arc => r = s
  BY <1>6
<1>10. \A a \in G : \E r \in of : r.arc = a
  BY <1>6
<1> HIDE DEF of
<1>11. KeysFit(of, 2, key)
  <2>1. \A r \in of : key[r] = <<Mid(r.raw), r.arc>> /\ key[r][2] = r.arc
    OBVIOUS
  <2> HIDE DEF key
  <2>2. \A r, s \in of : key[r] = key[s] => r = s
    BY <1>9, <2>1
  <2> QED
    BY <1>7, <1>8, <2>1, <2>2 DEF KeysFit
<1> HIDE DEF key
<1>12. Listed(order, of)
  BY <1>11, KeysRank
<1> HIDE DEF order
<1>13. DOMAIN order = 1..m /\ \A k \in 1..m : order[k] \in of
  BY <1>12 DEF Listed
<1>14. DOMAIN raw = 1..m /\ Len(raw) = m /\ \A k \in 1..m : raw[k] = order[k].raw
  BY <1>7, <1>13
<1>15. \A k \in 1..m : Legal(raw[k], surface)
  BY <1>8, <1>13, <1>14
<1> HIDE DEF raw
<1>16. \A k \in 1..m : raw[k] \in Int \X Int /\ raw[k][1] < raw[k][2]
  BY <1>15 DEF Legal
<1>17. \A k \in 1..m : share[k] = Share(raw, k)
  BY <1>14 DEF Allocation
<1> HIDE DEF share
<1>18. \A k \in 1..m : Legal(share[k], surface)
  <2> TAKE k \in 1..m
  <2>1. Gap \in Int /\ SectionLength \in Int
    BY DEF LinesFit
  <2>2. /\ Share(raw, k) \in Int \X Int
        /\ raw[k][1] <= Share(raw, k)[1] /\ Share(raw, k)[1] < Share(raw, k)[2]
        /\ Share(raw, k)[2] <= raw[k][2]
    BY <1>7, <1>14, <1>16, <2>1, ShareWithin
  <2> QED
    BY <1>3, <1>15, <1>17, <2>2, LegalWithin
<1> DEFINE q == [k \in 1..m |-> order[k].arc]
<1>19. Listed(q, G)
  <2>1. \A k \in 1..m : q[k] = order[k].arc /\ q[k] \in G
    BY <1>8, <1>13
  <2>2. q \in [1..m -> G]
    BY <2>1
  <2> HIDE DEF q
  <2>3. \A a \in G : \E k \in 1..m : q[k] = a
    <3> TAKE a \in G
    <3>1. PICK r \in of : r.arc = a
      BY <1>10
    <3>2. PICK k \in 1..m : order[k] = r
      BY <1>12 DEF Listed
    <3> QED
      BY <2>1, <3>1, <3>2
  <2>4. \A k, l \in 1..m : q[k] = q[l] => k = l
    <3> SUFFICES ASSUME NEW k \in 1..m, NEW l \in 1..m, q[k] = q[l] PROVE k = l
      OBVIOUS
    <3>1. order[k] = order[l]
      BY <1>9, <1>13, <2>1
    <3> QED
      BY <1>12, <3>1 DEF Listed
  <2> QED
    BY <1>7, <2>2, <2>3, <2>4 DEF Listed
<1>20. \A k \in 1..m : /\ Rec(k).arc = order[k].arc /\ Rec(k).to = share[k]
                       /\ (Rec(k).ok => InOrder(share, k))
  OBVIOUS
<1> HIDE DEF Rec
<1>21. \A k \in 1..m : q[k] = order[k].arc
  OBVIOUS
<1> HIDE DEF q
<1>22. \A k \in 1..m : \E r \in Allotted(x, end) : r.arc = q[k]
  BY <1>1, <1>13, <1>20, <1>21
<1>23. \A r \in Allotted(x, end) : \E k \in 1..m :
          r.arc = q[k] /\ r.to = share[k] /\ (r.ok => InOrder(share, k))
  BY <1>1, <1>13, <1>20, <1>21
<1> HIDE DEF m
<1>24. Cardinality(Group(x, end)) = m
  BY <1>7 DEF G
<1> QED
  BY <1>18, <1>19, <1>22, <1>23, <1>24 DEF G, surface

(* Sums.  SumFunction picks the summands in some order; all that matters   *)
(* here is that a sum of integers is one.                                  *)
AnyOf(s) == CHOOSE x \in s : TRUE
Summed(f, F, s) == IF s = {} THEN 0 ELSE f[AnyOf(s)] + F[s \ {AnyOf(s)}]
Sums(f, F, D) == F = [s \in D |-> Summed(f, F, s)]

LEMMA AnyIsOne == ASSUME NEW s, s # {} PROVE AnyOf(s) \in s
BY DEF AnyOf

(* The recursion of a fold has a solution: a largest family of subsets on  *)
(* which there is one has them all.                                        *)
LEMMA SumsExist ==
    ASSUME NEW f, NEW S, IsFiniteSet(S)
    PROVE  \E F : Sums(f, F, SUBSET S)
<1> DEFINE Closed(D) == \A s \in D : s # {} => s \ {AnyOf(s)} \in D
           Solved == {D \in SUBSET SUBSET S : Closed(D) /\ \E F : Sums(f, F, D)}
           Unsolved == {(SUBSET S) \ D : D \in Solved}
<1>1. {} \in Solved
  <2>1. Closed({})
    OBVIOUS
  <2>2. Sums(f, [s \in {} |-> 0], {})
    BY DEF Sums
  <2> QED
    BY <2>1, <2>2
<1>2. Unsolved # {} /\ \A R \in Unsolved : R \subseteq SUBSET S
  <2>1. (SUBSET S) \ {} \in Unsolved
    BY <1>1, Zenon
  <2>2. \A R \in Unsolved : R \subseteq SUBSET S
    BY Zenon
  <2> HIDE DEF Unsolved
  <2> QED
    BY <2>1, <2>2
<1>3. IsFiniteSet(SUBSET S)
  BY FS_SUBSET
<1>4. PICK R \in Unsolved : \A U \in Unsolved : U \subseteq R => U = R
  <2> HIDE DEF Unsolved
  <2> QED
    BY <1>2, <1>3, LeastBadSubset
<1>5. PICK D \in Solved : R = (SUBSET S) \ D
  BY <1>4
<1>6. PICK F : Sums(f, F, D)
  BY <1>5
<1>7. CASE R = {}
  <2>1. D = SUBSET S
    BY <1>5, <1>7
  <2> QED
    BY <1>6, <2>1
<1>8. CASE R # {}
  <2>1. PICK t \in R : \A u \in R : u \subseteq t => u = t
    <3>1. \A u \in R : u \subseteq S
      BY <1>5
    <3> QED
      BY <1>8, <3>1, LeastBadSubset
  <2>2. t \subseteq S /\ t \notin D
    BY <1>5, <2>1
  <2>3. t # {} => t \ {AnyOf(t)} \in D
    <3>1. SUFFICES ASSUME t # {} PROVE t \ {AnyOf(t)} \notin R
      BY <1>5, <2>2, <3>1
    <3>2. AnyOf(t) \in t
      BY <3>1, AnyIsOne
    <3> QED
      BY <2>1, <3>2
  <2> DEFINE E == D \cup {t}
             G == [s \in E |-> IF s = t THEN Summed(f, F, t) ELSE F[s]]
  <2>4. E \in SUBSET SUBSET S /\ Closed(E)
    BY <1>5, <2>2, <2>3
  <2>5. Sums(f, G, E)
    <3>1. \A s \in D : F[s] = Summed(f, F, s)
      BY <1>6 DEF Sums
    <3>2. \A s \in D : G[s] = F[s]
      BY <2>2
    <3>3. G[t] = Summed(f, F, t)
      OBVIOUS
    <3>4. \A s \in E : s # {} => s \ {AnyOf(s)} \in D
      BY <1>5, <2>3
    <3> HIDE DEF G
    <3>5. \A s \in E : Summed(f, G, s) = Summed(f, F, s)
      BY <3>2, <3>4 DEF Summed
    <3>6. \A s \in E : G[s] = Summed(f, G, s)
      BY <3>1, <3>2, <3>3, <3>5
    <3>7. G = [s \in E |-> G[s]]
      BY DEF G
    <3> HIDE DEF E
    <3>8. [s \in E |-> G[s]] = [s \in E |-> Summed(f, G, s)]
      BY <3>6
    <3> QED
      BY <3>7, <3>8 DEF Sums
  <2>6. (SUBSET S) \ E \in Unsolved
    BY <2>4, <2>5
  <2>7. (SUBSET S) \ E \subseteq R /\ t \notin (SUBSET S) \ E
    BY <1>5
  <2> QED
    BY <1>4, <2>1, <2>6, <2>7
<1> QED
  BY <1>7, <1>8

LEMMA SumIs ==
    ASSUME NEW f, IsFiniteSet(DOMAIN f)
    PROVE  \E F : Sums(f, F, SUBSET DOMAIN f) /\ SumFunction(f) = F[DOMAIN f]
<1> DEFINE S == DOMAIN f
           iter == CHOOSE F : F = [s \in SUBSET S |->
                      IF s = {} THEN 0 ELSE f[CHOOSE x \in s : TRUE] + F[s \ {CHOOSE x \in s : TRUE}]]
<1>1. SumFunction(f) = iter[S]
  BY Zenon DEF SumFunction, SumFunctionOnSet, FoldFunctionOnSet, MapThenFoldSet
<1>2. iter = CHOOSE F : Sums(f, F, SUBSET S)
  BY Zenon DEF Sums, Summed, AnyOf
<1>3. Sums(f, iter, SUBSET S)
  BY <1>2, SumsExist
<1> QED
  BY <1>1, <1>3

LEMMA SumsAre ==
    ASSUME NEW S, IsFiniteSet(S), NEW f \in [S -> Int], NEW F, Sums(f, F, SUBSET S)
    PROVE  \A T \in SUBSET S : F[T] \in Int
<1>1. \A T \in SUBSET S : F[T] = Summed(f, F, T)
  BY DEF Sums
<1> DEFINE Bad == {T \in SUBSET S : F[T] \notin Int}
<1>2. SUFFICES ASSUME Bad # {} PROVE FALSE
  OBVIOUS
<1>3. PICK T \in Bad : \A U \in Bad : U \subseteq T => U = T
  <2>1. \A U \in Bad : U \subseteq S
    OBVIOUS
  <2> HIDE DEF Bad
  <2> QED
    BY <1>2, <2>1, LeastBadSubset
<1>4. F[T] = Summed(f, F, T) /\ F[T] \notin Int /\ T \subseteq S
  BY <1>1
<1>5. CASE T = {}
  BY <1>4, <1>5 DEF Summed
<1>6. CASE T # {}
  <2>1. AnyOf(T) \in T
    BY <1>6, AnyIsOne
  <2>2. T \ {AnyOf(T)} \in SUBSET S /\ T \ {AnyOf(T)} # T
    BY <1>4, <2>1
  <2>3. T \ {AnyOf(T)} \notin Bad
    BY <1>3, <2>2
  <2>4. F[T \ {AnyOf(T)}] \in Int
    BY <2>2, <2>3
  <2>5. f[AnyOf(T)] \in Int
    BY <1>4, <2>1
  <2>6. F[T] = f[AnyOf(T)] + F[T \ {AnyOf(T)}]
    BY <1>4, <1>6 DEF Summed
  <2> QED
    BY <1>4, <2>4, <2>5, <2>6
<1> QED
  BY <1>5, <1>6

LEMMA SumInt ==
    ASSUME NEW S, IsFiniteSet(S), NEW f \in [S -> Int]
    PROVE  SumFunction(f) \in Int
<1>1. DOMAIN f = S
  OBVIOUS
<1>2. PICK F : Sums(f, F, SUBSET S) /\ SumFunction(f) = F[S]
  BY <1>1, SumIs
<1> QED
  BY <1>2, SumsAre

LEMMA SumZero ==
    ASSUME NEW S, IsFiniteSet(S), NEW f \in [S -> Int], \A x \in S : f[x] = 0
    PROVE  SumFunction(f) = 0
<1>1. DOMAIN f = S
  OBVIOUS
<1>2. PICK F : Sums(f, F, SUBSET S) /\ SumFunction(f) = F[S]
  BY <1>1, SumIs
<1>3. \A T \in SUBSET S : F[T] = Summed(f, F, T)
  BY <1>2 DEF Sums
<1> DEFINE Bad == {T \in SUBSET S : F[T] # 0}
<1>4. SUFFICES ASSUME Bad # {} PROVE FALSE
  BY <1>2
<1>5. PICK T \in Bad : \A U \in Bad : U \subseteq T => U = T
  <2>1. \A U \in Bad : U \subseteq S
    OBVIOUS
  <2> HIDE DEF Bad
  <2> QED
    BY <1>4, <2>1, LeastBadSubset
<1>6. F[T] = Summed(f, F, T) /\ F[T] # 0 /\ T \subseteq S
  BY <1>3
<1>7. CASE T = {}
  BY <1>6, <1>7 DEF Summed
<1>8. CASE T # {}
  <2>1. AnyOf(T) \in T
    BY <1>8, AnyIsOne
  <2>2. T \ {AnyOf(T)} \in SUBSET S /\ T \ {AnyOf(T)} # T
    BY <1>6, <2>1
  <2>3. T \ {AnyOf(T)} \notin Bad
    BY <1>5, <2>2
  <2>4. F[T \ {AnyOf(T)}] = 0
    BY <2>2, <2>3
  <2>5. f[AnyOf(T)] = 0
    BY <1>6, <2>1
  <2>6. F[T] = f[AnyOf(T)] + F[T \ {AnyOf(T)}]
    BY <1>6, <1>8 DEF Summed
  <2> QED
    BY <1>6, <2>4, <2>5, <2>6
<1> QED
  BY <1>7, <1>8

(* A sum changes by as much as one of its summands.                        *)
LEMMA SumChange ==
    ASSUME NEW S, IsFiniteSet(S), NEW f \in [S -> Int], NEW g \in [S -> Int], NEW a \in S,
           \A x \in S \ {a} : g[x] = f[x]
    PROVE  SumFunction(g) = SumFunction(f) + (g[a] - f[a])
<1>1. DOMAIN f = S /\ DOMAIN g = S
  OBVIOUS
<1>2. PICK F : Sums(f, F, SUBSET S) /\ SumFunction(f) = F[S]
  BY <1>1, SumIs
<1>3. PICK G : Sums(g, G, SUBSET S) /\ SumFunction(g) = G[S]
  BY <1>1, SumIs
<1>4. \A T \in SUBSET S : F[T] \in Int /\ G[T] \in Int
  BY <1>2, <1>3, SumsAre
<1>5. \A T \in SUBSET S : F[T] = Summed(f, F, T) /\ G[T] = Summed(g, G, T)
  BY <1>2, <1>3 DEF Sums
<1> DEFINE d == g[a] - f[a]
           by(T) == IF a \in T THEN d ELSE 0
           Bad == {T \in SUBSET S : G[T] # F[T] + by(T)}
<1>6. d \in Int
  OBVIOUS
<1>7. SUFFICES ASSUME Bad # {} PROVE FALSE
  BY <1>2, <1>3
<1>8. PICK T \in Bad : \A U \in Bad : U \subseteq T => U = T
  <2>1. \A U \in Bad : U \subseteq S
    OBVIOUS
  <2> HIDE DEF Bad
  <2> QED
    BY <1>7, <2>1, LeastBadSubset
<1>9. F[T] = Summed(f, F, T) /\ G[T] = Summed(g, G, T) /\ G[T] # F[T] + by(T) /\ T \subseteq S
  BY <1>5
<1>10. CASE T = {}
  BY <1>9, <1>10 DEF Summed
<1>11. CASE T # {}
  <2> DEFINE x == AnyOf(T)
             U == T \ {x}
  <2>1. x \in T
    BY <1>11, AnyIsOne
  <2> HIDE DEF x
  <2>2. U \in SUBSET S /\ U # T /\ U \subseteq T /\ x \in S
    BY <1>9, <2>1
  <2>3. G[U] = F[U] + by(U)
    <3>1. U \notin Bad
      <4> HIDE DEF Bad, U
      <4> QED
        BY <1>8, <2>2
    <3> HIDE DEF U
    <3> QED
      BY <2>2, <3>1
  <2>4. F[T] = f[x] + F[U] /\ G[T] = g[x] + G[U]
    BY <1>9, <1>11 DEF Summed, x
  <2>5. f[x] \in Int /\ g[x] \in Int /\ F[U] \in Int
    BY <1>4, <2>2
  <2>6. CASE x = a
    <3>1. by(U) = 0 /\ by(T) = d
      BY <2>1, <2>6
    <3> HIDE DEF U, by
    <3> QED
      BY <1>9, <2>3, <2>4, <2>5, <2>6, <3>1
  <2>7. CASE x # a
    <3>1. by(U) = by(T) /\ f[x] = g[x] /\ by(T) \in Int
      BY <1>6, <2>2, <2>7
    <3> HIDE DEF U, by, d
    <3> QED
      BY <1>9, <2>3, <2>4, <2>5, <3>1
  <2> QED
    BY <2>6, <2>7
<1> QED
  BY <1>10, <1>11

-----------------------------------------------------------------------------
(* The search for the best assignment.                                     *)
Offer(a) == Contenders(row[a])
Family(a, k) == ConflictKey(Offer(a)[k])

LEMMA OfferIs ==
    ASSUME LinesFit, NEW a \in Arcs, RowFits(row[a], a)
    PROVE  /\ DOMAIN Offer(a) = 1..Len(Offer(a)) /\ Len(Offer(a)) \in Nat
           /\ Len(Offer(a)) <= TopK /\ Len(Offer(a)) <= Len(row[a].options)
           /\ Len(Offer(a)) < TopK => Len(Offer(a)) = Len(row[a].options)
           /\ \A k \in 1..Len(Offer(a)) : /\ Offer(a)[k] = row[a].options[k]
                                          /\ CandidateFits(Offer(a)[k], a)
<1> DEFINE q == row[a].options
           R == {q[k] : k \in DOMAIN q}
           m == Min({TopK, Len(q)})
<1>1. q \in Seq(R) /\ \A k \in 1..Len(q) : CandidateFits(q[k], a)
  BY DEF RowFits, OptionsFit
<1>2. Offer(a) = SubSeq(q, 1, m)
  BY DEF Offer, Contenders
<1> HIDE DEF q, R
<1>3. Len(q) \in Nat /\ TopK \in Nat
  BY <1>1 DEF LinesFit
<1>4. m = IF TopK <= Len(q) THEN TopK ELSE Len(q)
  BY <1>3, MinOfTwo
<1>5. m \in Nat /\ m <= TopK /\ m <= Len(q) /\ (m < TopK => m = Len(q))
  BY <1>3, <1>4
<1> HIDE DEF m
<1>6. /\ Offer(a) \in Seq(R) /\ Len(Offer(a)) = m
      /\ \A k \in 1..m : Offer(a)[k] = q[k]
  BY <1>1, <1>2, <1>3, <1>5
<1>7. DOMAIN Offer(a) = 1..m
  BY <1>6
<1> QED
  BY <1>1, <1>3, <1>5, <1>6, <1>7 DEF q

Partial(group) ==
    [pick : [group -> Int], served : Int, rank : Int, dist : Int, cov : Int,
     keys : SUBSET {Family(a, k) : a \in group, k \in 1..TopK}]

Picked(f) == {a \in DOMAIN f : f[a] # 0}

(* A choice for each arc of a group, of contenders of no common family.    *)
Allowed(f, group) ==
    /\ f \in [group -> Int]
    /\ \A a \in group : f[a] \in 0..Len(Offer(a))
    /\ \A a, b \in group : a # b /\ f[a] # 0 /\ f[b] # 0 => Family(a, f[a]) # Family(b, f[b])

(* A branch of the search after j arcs.                                    *)
LeafFits(p, group, j) ==
    /\ p \in Partial(group)
    /\ Allowed(p.pick, group)
    /\ p.keys = {Family(a, p.pick[a]) : a \in Picked(p.pick)}
    /\ p.served = Cardinality(Picked(p.pick))
    /\ p.rank = SumFunction(p.pick) + (j - p.served) * (TopK + 10)

(* The contender k of an arc, or none, is added to a branch.               *)
Go(p, a, k) == Add(p, a, k, IF k = 0 THEN NoChoice ELSE ChoiceOf(Offer(a)[k], k))
Free(p, a) == {k \in 1..Len(Offer(a)) : Family(a, k) \notin p.keys}

LEMMA ExtendedIs ==
    ASSUME LinesFit, NEW a \in Arcs, RowFits(row[a], a), NEW p
    PROVE  Extended(p, a) = {Go(p, a, k) : k \in {0} \cup Free(p, a)}
<1> DEFINE choices == Contenders(row[a])
           free == {k \in DOMAIN choices : ConflictKey(choices[k]) \notin p.keys}
<1>1. choices = Offer(a) /\ DOMAIN choices = 1..Len(Offer(a))
  BY OfferIs DEF Offer
<1>2. free = Free(p, a)
  BY <1>1 DEF Free, Family
<1>3. Extended(p, a) = {Add(p, a, 0, NoChoice)} \cup {Add(p, a, k, ChoiceOf(choices[k], k)) : k \in free}
  BY DEF Extended
<1> HIDE DEF choices, free
<1>4. Go(p, a, 0) = Add(p, a, 0, NoChoice)
  BY DEF Go
<1>5. \A k \in Free(p, a) : Go(p, a, k) = Add(p, a, k, ChoiceOf(choices[k], k))
  <2> TAKE k \in Free(p, a)
  <2>1. k # 0
    BY DEF Free
  <2> QED
    BY <1>1, <2>1 DEF Go
<1>6. Extended(p, a) = {Go(p, a, 0)} \cup {Go(p, a, k) : k \in Free(p, a)}
  BY <1>2, <1>3, <1>4, <1>5
<1> QED
  BY <1>6

LEMMA GoesTo ==
    ASSUME NEW group, NEW p \in Partial(group), NEW a \in group, NEW k
    PROVE  /\ Go(p, a, k).pick = [p.pick EXCEPT ![a] = k]
           /\ Go(p, a, k).keys = p.keys \cup (IF k = 0 THEN {} ELSE {Family(a, k)})
           /\ Go(p, a, k).served = p.served + (IF k = 0 THEN 0 ELSE 1)
           /\ Go(p, a, k).rank = p.rank + (IF k = 0 THEN TopK + 10 ELSE k)
           /\ Go(p, a, k).dist = p.dist + (IF k = 0 THEN 20000000 ELSE Offer(a)[k].dist)
           /\ Go(p, a, k).cov = p.cov + (IF k = 0 THEN 0 ELSE Offer(a)[k].cov)
           /\ DOMAIN Go(p, a, k) = {"pick", "served", "rank", "dist", "cov", "keys"}
<1> DEFINE c == IF k = 0 THEN NoChoice ELSE ChoiceOf(Offer(a)[k], k)
           to == [b \in DOMAIN p.pick |-> IF b = a THEN k ELSE p.pick[b]]
<1>1. Go(p, a, k) = [pick |-> to, served |-> p.served + c.served, rank |-> p.rank + c.rank,
                     dist |-> p.dist + c.dist, cov |-> p.cov + c.cov, keys |-> p.keys \cup c.keys]
  BY DEF Go, Add
<1>2. /\ c.keys = IF k = 0 THEN {} ELSE {Family(a, k)}
      /\ c.served = IF k = 0 THEN 0 ELSE 1
      /\ c.rank = IF k = 0 THEN TopK + 10 ELSE k
      /\ c.dist = IF k = 0 THEN 20000000 ELSE Offer(a)[k].dist
      /\ c.cov = IF k = 0 THEN 0 ELSE Offer(a)[k].cov
  BY DEF NoChoice, ChoiceOf, Family
<1> HIDE DEF c
<1>3. to = [p.pick EXCEPT ![a] = k]
  OBVIOUS
<1> HIDE DEF to
<1> QED
  BY <1>1, <1>2, <1>3

LEMMA PartialIs ==
    ASSUME NEW group, NEW p \in Partial(group)
    PROVE  /\ p.pick \in [group -> Int]
           /\ p.served \in Int /\ p.rank \in Int /\ p.dist \in Int /\ p.cov \in Int
           /\ p.keys \subseteq {Family(b, l) : b \in group, l \in 1..TopK}
BY DEF Partial

LEMMA GoPartial ==
    ASSUME LinesFit, NEW group, group \subseteq Arcs, \A b \in group : RowFits(row[b], b),
           NEW p \in Partial(group), NEW a \in group, NEW k \in {0} \cup Free(p, a)
    PROVE  Go(p, a, k) \in Partial(group)
<1> DEFINE q == Go(p, a, k)
           f == p.pick
           g == q.pick
<1>1. /\ g = [f EXCEPT ![a] = k]
      /\ q.keys = p.keys \cup (IF k = 0 THEN {} ELSE {Family(a, k)})
      /\ q.served = p.served + (IF k = 0 THEN 0 ELSE 1)
      /\ q.rank = p.rank + (IF k = 0 THEN TopK + 10 ELSE k)
      /\ q.dist = p.dist + (IF k = 0 THEN 20000000 ELSE Offer(a)[k].dist)
      /\ q.cov = p.cov + (IF k = 0 THEN 0 ELSE Offer(a)[k].cov)
      /\ DOMAIN q = {"pick", "served", "rank", "dist", "cov", "keys"}
  <2>1. p \in Partial(group) /\ a \in group
    OBVIOUS
  <2> QED
    BY <2>1, GoesTo
<1>2. q = [pick |-> g, served |-> q.served, rank |-> q.rank, dist |-> q.dist, cov |-> q.cov,
           keys |-> q.keys]
  BY DEF Go, Add
<1> HIDE DEF q
<1>3. /\ f \in [group -> Int] /\ p.served \in Int /\ p.rank \in Int /\ p.dist \in Int /\ p.cov \in Int
      /\ p.keys \subseteq {Family(b, l) : b \in group, l \in 1..TopK}
  BY PartialIs
<1>4. /\ Len(Offer(a)) \in Nat /\ Len(Offer(a)) <= TopK /\ TopK \in Nat
      /\ \A l \in 1..Len(Offer(a)) : CandidateFits(Offer(a)[l], a)
  BY OfferIs DEF LinesFit
<1>5. k \in Int /\ (k # 0 => k \in 1..TopK /\ k \in 1..Len(Offer(a)))
  BY <1>4 DEF Free
<1>6. g \in [group -> Int]
  BY <1>1, <1>3, <1>5
<1> HIDE DEF f, g
<1>7. q.keys \subseteq {Family(b, l) : b \in group, l \in 1..TopK}
  BY <1>1, <1>3, <1>5
<1>8. q.dist \in Int /\ q.cov \in Int
  <2>1. k # 0 => Offer(a)[k].dist \in Nat /\ Offer(a)[k].cov \in Nat
    BY <1>4, <1>5 DEF CandidateFits
  <2> QED
    BY <1>1, <1>3, <2>1
<1>9. q.served \in Int /\ q.rank \in Int
  BY <1>1, <1>3, <1>4, <1>5
<1>10. q \in Partial(group)
  BY <1>2, <1>6, <1>7, <1>8, <1>9 DEF Partial
<1> QED
  BY <1>10 DEF q

LEMMA LeafGoesOn ==
    ASSUME LinesFit, NEW group, group \subseteq Arcs, \A b \in group : RowFits(row[b], b),
           IsFiniteSet(group), NEW j \in Nat, NEW p, LeafFits(p, group, j),
           NEW a \in group, p.pick[a] = 0, NEW k \in {0} \cup Free(p, a)
    PROVE  LeafFits(Go(p, a, k), group, j + 1)
<1> DEFINE q == Go(p, a, k)
           f == p.pick
           g == q.pick
<1>1. /\ p \in Partial(group) /\ Allowed(f, group) /\ p.keys = {Family(b, f[b]) : b \in Picked(f)}
      /\ p.served = Cardinality(Picked(f))
      /\ p.rank = SumFunction(f) + (j - p.served) * (TopK + 10)
  BY DEF LeafFits
<1>2. /\ g = [f EXCEPT ![a] = k]
      /\ q.keys = p.keys \cup (IF k = 0 THEN {} ELSE {Family(a, k)})
      /\ q.served = p.served + (IF k = 0 THEN 0 ELSE 1)
      /\ q.rank = p.rank + (IF k = 0 THEN TopK + 10 ELSE k)
      /\ q.dist = p.dist + (IF k = 0 THEN 20000000 ELSE Offer(a)[k].dist)
      /\ q.cov = p.cov + (IF k = 0 THEN 0 ELSE Offer(a)[k].cov)
      /\ DOMAIN q = {"pick", "served", "rank", "dist", "cov", "keys"}
  BY <1>1, GoesTo
<1>3. q = [pick |-> g, served |-> q.served, rank |-> q.rank, dist |-> q.dist, cov |-> q.cov,
           keys |-> q.keys]
  BY DEF Go, Add
<1>10. q \in Partial(group)
  <2>1. p \in Partial(group)
    BY <1>1
  <2> HIDE DEF f, g
  <2> QED
    BY <2>1, GoPartial
<1> HIDE DEF q
<1>4. /\ f \in [group -> Int] /\ p.served \in Int /\ p.rank \in Int /\ p.dist \in Int /\ p.cov \in Int
      /\ p.keys \subseteq {Family(b, l) : b \in group, l \in 1..TopK}
  <2>1. p \in Partial(group)
    BY <1>1
  <2> QED
    BY <2>1, PartialIs
<1>5. /\ Len(Offer(a)) \in Nat /\ Len(Offer(a)) <= TopK /\ TopK \in Nat
      /\ \A l \in 1..Len(Offer(a)) : CandidateFits(Offer(a)[l], a)
  BY OfferIs DEF LinesFit
<1>6. k \in 0..Len(Offer(a)) /\ (k # 0 => k \in 1..TopK /\ k \in Free(p, a) /\ k \in 1..Len(Offer(a)))
  BY <1>5 DEF Free
<1>7. g \in [group -> Int] /\ g[a] = k /\ \A b \in group \ {a} : g[b] = f[b]
  BY <1>2, <1>4, <1>6
<1> HIDE DEF f, g
<1>8. Picked(f) \subseteq group /\ a \notin Picked(f) /\ IsFiniteSet(Picked(f))
  <2>1. Picked(f) \subseteq group /\ a \notin Picked(f)
    BY <1>4 DEF Picked, f
  <2> QED
    BY <2>1, FS_Subset
<1>9. Picked(g) = IF k = 0 THEN Picked(f) ELSE Picked(f) \cup {a}
  <2>1. DOMAIN f = group /\ DOMAIN g = group
    BY <1>4, <1>7
  <2>2. f[a] = 0
    BY DEF f
  <2>3. CASE k = 0
    BY <1>7, <2>1, <2>2, <2>3 DEF Picked
  <2>4. CASE k # 0
    BY <1>7, <2>1, <2>2, <2>4 DEF Picked
  <2> QED
    BY <2>3, <2>4
<1>11. Allowed(g, group)
  <2>1. \A b \in group : f[b] \in 0..Len(Offer(b))
    BY <1>1 DEF Allowed
  <2>2. \A b \in group : g[b] \in 0..Len(Offer(b))
    BY <1>6, <1>7, <2>1
  <2>3. \A b, d \in group : b # d /\ f[b] # 0 /\ f[d] # 0 => Family(b, f[b]) # Family(d, f[d])
    BY <1>1 DEF Allowed
  <2>4. \A b \in group \ {a} : f[b] # 0 /\ k # 0 => Family(b, f[b]) # Family(a, k)
    <3> SUFFICES ASSUME NEW b \in group \ {a}, f[b] # 0, k # 0 PROVE Family(b, f[b]) # Family(a, k)
      OBVIOUS
    <3>1. Family(b, f[b]) \in p.keys
      <4>1. b \in Picked(f)
        BY <1>4 DEF Picked, f
      <4> QED
        BY <1>1, <4>1
    <3>2. Family(a, k) \notin p.keys
      BY <1>6 DEF Free
    <3> QED
      BY <3>1, <3>2
  <2>5. ASSUME NEW b \in group, NEW d \in group, b # d, g[b] # 0, g[d] # 0
        PROVE  Family(b, g[b]) # Family(d, g[d])
    <3>1. CASE b = a
      BY <1>7, <2>4, <2>5, <3>1
    <3>2. CASE d = a
      BY <1>7, <2>4, <2>5, <3>2
    <3>3. CASE b # a /\ d # a
      BY <1>7, <2>3, <2>5, <3>3
    <3> QED
      BY <3>1, <3>2, <3>3
  <2> QED
    BY <1>7, <2>2, <2>5 DEF Allowed
<1>15. q.keys = p.keys \cup (IF k = 0 THEN {} ELSE {Family(a, k)})
  BY <1>2
<1>16. q.served = p.served + (IF k = 0 THEN 0 ELSE 1)
  BY <1>2
<1>12. q.keys = {Family(b, g[b]) : b \in Picked(g)}
  <2>1. \A b \in Picked(f) : Family(b, g[b]) = Family(b, f[b])
    BY <1>7, <1>8
  <2>2. {Family(b, g[b]) : b \in Picked(f)} = p.keys
    BY <1>1, <2>1
  <2>3. CASE k = 0
    BY <1>9, <1>15, <2>2, <2>3
  <2>4. CASE k # 0
    <3>1. q.keys = p.keys \cup {Family(a, k)} /\ Picked(g) = Picked(f) \cup {a} /\ g[a] = k
      BY <1>7, <1>9, <1>15, <2>4
    <3> QED
      BY <2>2, <3>1
  <2> QED
    BY <2>3, <2>4
<1>13. q.served = Cardinality(Picked(g))
  <2>1. CASE k = 0
    BY <1>1, <1>4, <1>9, <1>16, <2>1
  <2>2. CASE k # 0
    <3>1. Cardinality(Picked(f) \cup {a}) = Cardinality(Picked(f)) + 1
      BY <1>8, FS_AddElement
    <3> QED
      BY <1>1, <1>9, <1>16, <2>2, <3>1
  <2> QED
    BY <2>1, <2>2
<1>14. q.rank = SumFunction(g) + ((j + 1) - q.served) * (TopK + 10)
  <2>1. SumFunction(g) = SumFunction(f) + (g[a] - f[a])
    BY <1>4, <1>7, SumChange DEF f
  <2>2. f[a] = 0 /\ g[a] = k /\ SumFunction(f) \in Int /\ k \in Int
    BY <1>4, <1>6, <1>7, SumInt DEF f
  <2>3. SumFunction(g) = SumFunction(f) + k
    BY <2>1, <2>2
  <2> DEFINE s == SumFunction(f)
             t == TopK + 10
             d == j - p.served
  <2>4. p.rank = s + d * t /\ t \in Int /\ d \in Int
    BY <1>1, <1>4, <1>5
  <2>5. (d + 1) * t = d * t + t /\ d * t \in Int
    <3> HIDE DEF d, t
    <3> QED
      BY <2>4, SMT
  <2>6. CASE k = 0
    <3>1. q.served = p.served /\ (j + 1) - q.served = d + 1
      BY <1>2, <1>4, <2>6
    <3>2. q.rank = p.rank + t
      BY <1>2, <2>6
    <3> HIDE DEF s, d, t
    <3>3. q.rank = s + (d + 1) * t
      BY <2>2, <2>4, <2>5, <3>2 DEF s
    <3>4. SumFunction(g) = s
      BY <2>2, <2>3, <2>6 DEF s
    <3> QED
      BY <3>1, <3>3, <3>4 DEF t
  <2>7. CASE k # 0
    <3>1. q.served = p.served + 1 /\ (j + 1) - q.served = d
      BY <1>2, <1>4, <2>7
    <3>2. q.rank = p.rank + k
      BY <1>2, <2>7
    <3> HIDE DEF s, d, t
    <3>3. q.rank = (s + k) + d * t
      BY <2>2, <2>4, <2>5, <3>2 DEF s
    <3>4. SumFunction(g) = s + k
      BY <2>3 DEF s
    <3> QED
      BY <3>1, <3>3, <3>4 DEF t
  <2> QED
    BY <2>6, <2>7
<1>17. LeafFits(q, group, j + 1)
  BY <1>10, <1>11, <1>12, <1>13, <1>14 DEF LeafFits, g
<1> QED
  BY <1>17 DEF q

(* The branches after j arcs: one for every choice for these.              *)
Until(f, order, j) == \A k \in DOMAIN order : k > j => f[order[k]] = 0

LevelFits(L, group, order, j) ==
    /\ IsFiniteSet(L)
    /\ \A p \in L : LeafFits(p, group, j) /\ Until(p.pick, order, j)
    /\ \A p, q \in L : p.pick = q.pick => p = q
    /\ \A f \in [group -> Int] :
           Allowed(f, group) /\ Until(f, order, j) => \E p \in L : p.pick = f

LEMMA ExtendedFinite ==
    ASSUME LinesFit, NEW a \in Arcs, RowFits(row[a], a), NEW p
    PROVE  IsFiniteSet(Extended(p, a))
<1> DEFINE K == {0} \cup Free(p, a)
           g == [k \in K |-> Go(p, a, k)]
<1>1. Len(Offer(a)) \in Nat
  BY OfferIs
<1>2. K \subseteq 0..Len(Offer(a))
  BY <1>1 DEF Free
<1>3. IsFiniteSet(K)
  <2>1. 0 \in Int /\ Len(Offer(a)) \in Int
    BY <1>1
  <2>2. IsFiniteSet(0..Len(Offer(a)))
    BY <2>1, FS_Interval
  <2> HIDE DEF K
  <2> QED
    BY <1>2, <2>2, FS_Subset
<1>4. IsFiniteSet({g[k] : k \in K})
  <2> HIDE DEF K, g
  <2> QED
    BY <1>3, ImageFinite
<1>5. {g[k] : k \in K} = {Go(p, a, k) : k \in K}
  <2> HIDE DEF K
  <2> QED
    OBVIOUS
<1> QED
  BY <1>4, <1>5, ExtendedIs

LEMMA LevelGoesOn ==
    ASSUME LinesFit, NEW group, group \subseteq Arcs, \A b \in group : RowFits(row[b], b),
           IsFiniteSet(group), NEW order, Listed(order, group), NEW j \in 1..Cardinality(group),
           NEW L, LevelFits(L, group, order, j - 1)
    PROVE  LevelFits(UNION {Extended(p, order[j]) : p \in L}, group, order, j)
<1> DEFINE n == Cardinality(group)
           a == order[j]
           M == UNION {Extended(p, a) : p \in L}
<1>1. /\ n \in Nat /\ j \in Nat /\ j - 1 \in Nat /\ (j - 1) + 1 = j
      /\ DOMAIN order = 1..n
      /\ \A k \in 1..n : order[k] \in group
      /\ \A k, l \in 1..n : order[k] = order[l] => k = l
      /\ \A b \in group : \E k \in 1..n : order[k] = b
  BY FS_CardinalityType DEF Listed
<1>2. a \in group /\ a \in Arcs /\ RowFits(row[a], a)
  BY <1>1
<1>3. /\ IsFiniteSet(L)
      /\ \A p \in L : LeafFits(p, group, j - 1) /\ Until(p.pick, order, j - 1)
      /\ \A p, q \in L : p.pick = q.pick => p = q
      /\ \A f \in [group -> Int] :
             Allowed(f, group) /\ Until(f, order, j - 1) => \E p \in L : p.pick = f
  BY DEF LevelFits
<1>4. \A q \in M : \E p \in L : \E k \in {0} \cup Free(p, a) : q = Go(p, a, k)
  <2>1. \A p \in L : Extended(p, a) = {Go(p, a, k) : k \in {0} \cup Free(p, a)}
    BY <1>2, ExtendedIs
  <2> HIDE DEF a
  <2> QED
    BY <2>1
<1>5. \A p \in L : \A k \in {0} \cup Free(p, a) : Go(p, a, k) \in M
  <2>1. \A p \in L : Extended(p, a) = {Go(p, a, k) : k \in {0} \cup Free(p, a)}
    BY <1>2, ExtendedIs
  <2> HIDE DEF a
  <2> QED
    BY <2>1
<1>6. \A p \in L : /\ p \in Partial(group) /\ p.pick \in [group -> Int] /\ p.pick[a] = 0
                   /\ Allowed(p.pick, group)
                   /\ p.keys = {Family(b, p.pick[b]) : b \in Picked(p.pick)}
  <2> TAKE p \in L
  <2>1. LeafFits(p, group, j - 1) /\ Until(p.pick, order, j - 1)
    BY <1>3
  <2>2. p \in Partial(group) /\ Allowed(p.pick, group)
        /\ p.keys = {Family(b, p.pick[b]) : b \in Picked(p.pick)}
    BY <2>1 DEF LeafFits
  <2>3. p.pick \in [group -> Int]
    BY <2>2 DEF Allowed
  <2>4. p.pick[a] = 0
    BY <1>1, <2>1 DEF Until
  <2> QED
    BY <2>2, <2>3, <2>4
<1>7. IsFiniteSet(M)
  <2> DEFINE g == [p \in L |-> Extended(p, a)]
             G == {g[p] : p \in L}
  <2>1. IsFiniteSet(G)
    <3> HIDE DEF g
    <3> QED
      BY <1>3, ImageFinite
  <2>2. G = {Extended(p, a) : p \in L}
    <3> HIDE DEF a
    <3> QED
      OBVIOUS
  <2>3. \A p \in L : IsFiniteSet(Extended(p, a))
    BY <1>2, ExtendedFinite
  <2> HIDE DEF a, g, G
  <2>4. \A S \in G : IsFiniteSet(S)
    BY <2>2, <2>3
  <2>5. IsFiniteSet(UNION G)
    BY <2>1, <2>4, FS_UNION
  <2> QED
    BY <2>2, <2>5
<1>8. ASSUME NEW p \in L, NEW k \in {0} \cup Free(p, a)
      PROVE  /\ LeafFits(Go(p, a, k), group, j) /\ Until(Go(p, a, k).pick, order, j)
             /\ Go(p, a, k).pick = [p.pick EXCEPT ![a] = k]
  <2>1. LeafFits(Go(p, a, k), group, (j - 1) + 1)
    BY <1>1, <1>2, <1>3, <1>6, LeafGoesOn
  <2>2. Go(p, a, k).pick = [p.pick EXCEPT ![a] = k]
    BY <1>2, <1>6, GoesTo
  <2>3. \A l \in 1..n : l > j => order[l] # a /\ p.pick[order[l]] = 0
    <3>1. Until(p.pick, order, j - 1)
      BY <1>3
    <3> QED
      BY <1>1, <3>1 DEF Until
  <2>4. Until(Go(p, a, k).pick, order, j)
    <3>1. \A l \in 1..n : order[l] # a => [p.pick EXCEPT ![a] = k][order[l]] = p.pick[order[l]]
      BY <1>1, <1>6
    <3> QED
      BY <1>1, <2>2, <2>3, <3>1 DEF Until
  <2> QED
    BY <1>1, <2>1, <2>2, <2>4
<1> HIDE DEF M, a
<1>9. \A q \in M : LeafFits(q, group, j) /\ Until(q.pick, order, j)
  BY <1>4, <1>8
<1>10. ASSUME NEW q \in M, NEW r \in M, q.pick = r.pick PROVE q = r
  <2>b. PICK p \in L : \E k \in {0} \cup Free(p, a) : q = Go(p, a, k)
    BY <1>4
  <2>1. PICK k \in {0} \cup Free(p, a) : q = Go(p, a, k)
    BY <2>b
  <2>c. PICK s \in L : \E l \in {0} \cup Free(s, a) : r = Go(s, a, l)
    BY <1>4
  <2>2. PICK l \in {0} \cup Free(s, a) : r = Go(s, a, l)
    BY <2>c
  <2>3. [p.pick EXCEPT ![a] = k] = [s.pick EXCEPT ![a] = l]
    BY <1>8, <1>10, <2>1, <2>2
  <2>4. k = l
    BY <1>2, <1>6, <2>3
  <2>5. \A b \in group : p.pick[b] = s.pick[b]
    BY <1>2, <1>6, <2>3
  <2>6. p.pick = s.pick
    BY <1>6, <2>5
  <2> QED
    BY <1>3, <2>1, <2>2, <2>4, <2>6
<1>11. ASSUME NEW f \in [group -> Int], Allowed(f, group), Until(f, order, j)
       PROVE  \E q \in M : q.pick = f
  <2> DEFINE e == [f EXCEPT ![a] = 0]
  <2>1. e \in [group -> Int] /\ e[a] = 0 /\ \A b \in group \ {a} : e[b] = f[b]
    BY <1>2
  <2>2. \A b \in group : Len(Offer(b)) \in Nat
    BY OfferIs
  <2>3. /\ \A b \in group : f[b] \in 0..Len(Offer(b))
        /\ \A b, d \in group : b # d /\ f[b] # 0 /\ f[d] # 0 => Family(b, f[b]) # Family(d, f[d])
    BY <1>11 DEF Allowed
  <2>a. f = [e EXCEPT ![a] = f[a]]
    BY <1>2
  <2> HIDE DEF e
  <2>4. Allowed(e, group)
    <3>1. \A b \in group : e[b] \in 0..Len(Offer(b))
      BY <2>1, <2>2, <2>3
    <3>2. \A b, d \in group : b # d /\ e[b] # 0 /\ e[d] # 0 => Family(b, e[b]) # Family(d, e[d])
      BY <2>1, <2>3
    <3> QED
      BY <2>1, <3>1, <3>2 DEF Allowed
  <2>5. Until(e, order, j - 1)
    <3> SUFFICES ASSUME NEW k \in 1..n, k > j - 1 PROVE e[order[k]] = 0
      BY <1>1 DEF Until
    <3>1. CASE k = j
      BY <2>1, <3>1 DEF a
    <3>2. CASE k # j
      <4>1. k > j /\ order[k] # a /\ order[k] \in group
        BY <1>1, <3>2 DEF a
      <4>2. f[order[k]] = 0
        BY <1>1, <1>11, <4>1 DEF Until
      <4> QED
        BY <2>1, <4>1, <4>2
    <3> QED
      BY <3>1, <3>2
  <2>6. PICK p \in L : p.pick = e
    BY <1>3, <2>1, <2>4, <2>5
  <2>7. f[a] \in {0} \cup Free(p, a)
    <3> SUFFICES ASSUME f[a] # 0 PROVE f[a] \in Free(p, a)
      OBVIOUS
    <3>1. f[a] \in 1..Len(Offer(a))
      BY <1>2, <2>2, <2>3
    <3>2. Family(a, f[a]) \notin p.keys
      <4> SUFFICES ASSUME NEW b \in Picked(e) PROVE Family(a, f[a]) # Family(b, e[b])
        BY <1>6, <2>6
      <4>1. b \in group /\ e[b] # 0 /\ b # a
        BY <2>1 DEF Picked
      <4> QED
        BY <1>2, <2>1, <2>3, <4>1
    <3> QED
      BY <3>1, <3>2 DEF Free
  <2>8. Go(p, a, f[a]) \in M /\ Go(p, a, f[a]).pick = [e EXCEPT ![a] = f[a]]
    BY <1>5, <1>8, <2>6, <2>7
  <2> QED
    BY <2>a, <2>8
<1>12. LevelFits(M, group, order, j)
  BY <1>7, <1>9, <1>10, <1>11 DEF LevelFits
<1> QED
  BY <1>12 DEF M, a

Start(group) ==
    [pick |-> [b \in group |-> 0], served |-> 0, rank |-> 0, dist |-> 0, cov |-> 0, keys |-> {}]

LEMMA LevelStarts ==
    ASSUME LinesFit, NEW group, group \subseteq Arcs, \A b \in group : RowFits(row[b], b),
           IsFiniteSet(group), NEW order, Listed(order, group)
    PROVE  LevelFits({Start(group)}, group, order, 0) /\ Start(group) \in Partial(group)
<1> DEFINE z == [b \in group |-> 0]
           s == Start(group)
<1>1. /\ Cardinality(group) \in Nat /\ DOMAIN order = 1..Cardinality(group)
      /\ \A k \in DOMAIN order : order[k] \in group
      /\ \A b \in group : \E k \in DOMAIN order : order[k] = b
  BY FS_CardinalityType DEF Listed
<1>2. z \in [group -> Int] /\ \A b \in group : z[b] = 0
  OBVIOUS
<1>3. s.pick = z /\ s.served = 0 /\ s.rank = 0 /\ s.keys = {}
  BY DEF Start
<1>4. s \in Partial(group)
  BY DEF Partial, Start
<1> HIDE DEF z, s
<1>5. Allowed(z, group)
  <2>1. \A b \in group : Len(Offer(b)) \in Nat
    BY OfferIs
  <2> QED
    BY <1>2, <2>1 DEF Allowed
<1>6. Picked(z) = {} /\ Cardinality(Picked(z)) = 0
  <2>1. Picked(z) = {}
    BY <1>2 DEF Picked
  <2> QED
    BY <2>1, FS_EmptySet
<1>7. SumFunction(z) = 0
  BY <1>2, SumZero
<1>8. LeafFits(s, group, 0)
  <2>1. s.rank = SumFunction(s.pick) + (0 - s.served) * (TopK + 10)
    <3>1. TopK \in Int
      BY DEF LinesFit
    <3> QED
      BY <1>3, <1>7, <3>1
  <2> QED
    BY <1>3, <1>4, <1>5, <1>6, <2>1 DEF LeafFits
<1>9. Until(z, order, 0)
  BY <1>1, <1>2 DEF Until
<1>10. \A f \in [group -> Int] : Until(f, order, 0) => f = z
  <2> SUFFICES ASSUME NEW f \in [group -> Int], Until(f, order, 0) PROVE f = z
    OBVIOUS
  <2>1. \A b \in group : f[b] = 0
    BY <1>1 DEF Until
  <2> QED
    BY <1>2, <2>1
<1>11. IsFiniteSet({s})
  BY FS_Singleton
<1>12. LevelFits({s}, group, order, 0)
  BY <1>3, <1>8, <1>9, <1>10, <1>11 DEF LevelFits
<1> QED
  BY <1>4, <1>12 DEF s

(* The levels of the search.                                               *)
Onward(F, group, order, n) ==
    IF n = 0 THEN {Start(group)} ELSE UNION {Extended(p, order[n]) : p \in F[n - 1]}
Grown(F, group, order) ==
    F = [n \in 0..Cardinality(group) |-> Onward(F, group, order, n)]

LEMMA LevelsExist ==
    ASSUME LinesFit, NEW group, group \subseteq Arcs, \A b \in group : RowFits(row[b], b),
           IsFiniteSet(group), NEW order, Listed(order, group)
    PROVE  \E F : Grown(F, group, order)
<1> DEFINE n == Cardinality(group)
           X == SUBSET Partial(group)
           base == {Start(group)}
           on(k, L) == UNION {Extended(p, order[k]) : p \in L}
           onto == [s \in (1..n) \X X |-> on(s[1], s[2])]
<1>1. n \in Nat
  BY FS_CardinalityType
<1>2. base \in X
  BY LevelStarts
<1>3. \A k \in 1..n : \A L \in X : on(k, L) \in X
  <2> SUFFICES ASSUME NEW k \in 1..n, NEW L \in X, NEW q \in on(k, L) PROVE q \in Partial(group)
    OBVIOUS
  <2>1. order[k] \in group
    BY DEF Listed
  <2>2. PICK p \in L : q \in Extended(p, order[k])
    OBVIOUS
  <2>3. p \in Partial(group)
    OBVIOUS
  <2>4. PICK l \in {0} \cup Free(p, order[k]) : q = Go(p, order[k], l)
    BY <2>1, <2>2, ExtendedIs
  <2> QED
    BY <2>1, <2>3, <2>4, GoPartial
<1> HIDE DEF X, base, on
<1>4. onto \in [(1..n) \X X -> X]
  BY <1>3
<1>5. \A k \in 1..n : \A L \in X : onto[<<k, L>>] = on(k, L)
  OBVIOUS
<1> HIDE DEF n, onto
<1>6. PICK F \in [0..n -> X] : Follows(F, n, base, onto)
  BY <1>1, <1>2, <1>4, RecursionExists
<1>7. \A k \in 0..n : F[k] = Onward(F, group, order, k)
  <2> TAKE k \in 0..n
  <2>1. CASE k = 0
    BY <1>6, <2>1 DEF Follows, Onward, base
  <2>2. CASE k # 0
    <3>1. k \in 1..n /\ k - 1 \in 0..n
      BY <1>1, <2>2
    <3>2. F[k] = on(k, F[k - 1])
      BY <1>5, <1>6, <3>1 DEF Follows
    <3> QED
      BY <2>2, <3>2 DEF Onward, on
  <2> QED
    BY <2>1, <2>2
<1>8. F = [k \in 0..n |-> F[k]]
  OBVIOUS
<1>9. [k \in 0..n |-> F[k]] = [k \in 0..n |-> Onward(F, group, order, k)]
  BY <1>7
<1>10. Grown(F, group, order)
  BY <1>8, <1>9 DEF Grown, n
<1> QED
  BY <1>10

LEMMA LevelsAre ==
    ASSUME LinesFit, NEW group, group \subseteq Arcs, \A b \in group : RowFits(row[b], b),
           IsFiniteSet(group), NEW order, Listed(order, group), NEW F, Grown(F, group, order)
    PROVE  LevelFits(F[Cardinality(group)], group, order, Cardinality(group))
<1> DEFINE n == Cardinality(group)
           Good == {k \in 0..n : LevelFits(F[k], group, order, k)}
<1>1. n \in Nat
  BY FS_CardinalityType
<1>2. \A k \in 0..n : F[k] = Onward(F, group, order, k)
  BY DEF Grown
<1>3. 0 \in Good
  <2>1. 0 \in 0..n
    BY <1>1
  <2>2. F[0] = {Start(group)}
    BY <1>2, <2>1 DEF Onward
  <2> QED
    BY <2>1, <2>2, LevelStarts
<1>4. ASSUME NEW k \in 1..n, k - 1 \in Good PROVE k \in Good
  <2>1. k \in 0..n /\ k # 0
    BY <1>1
  <2>2. F[k] = UNION {Extended(p, order[k]) : p \in F[k - 1]}
    BY <1>2, <2>1 DEF Onward
  <2>3. LevelFits(F[k - 1], group, order, k - 1)
    BY <1>4
  <2>4. LevelFits(UNION {Extended(p, order[k]) : p \in F[k - 1]}, group, order, k)
    BY <2>3, LevelGoesOn
  <2> QED
    BY <2>1, <2>2, <2>4
<1>5. \A k \in 0..n : k \in Good
  <2> HIDE DEF Good, n
  <2> QED
    BY <1>1, <1>3, <1>4, HandedOn
<1> QED
  BY <1>1, <1>5

LEMMA Joined ==
    ASSUME NEW u \in Seq(Int), NEW v \in Seq(Int)
    PROVE  /\ u \o v \in Seq(Int) /\ Len(u \o v) = Len(u) + Len(v)
           /\ \A i \in 1..Len(u) : (u \o v)[i] = u[i]
           /\ \A i \in 1..Len(v) : (u \o v)[Len(u) + i] = v[i]
OBVIOUS

LEMMA SeqIsFunction ==
    ASSUME NEW q \in Seq(Int), NEW m, Len(q) = m PROVE q \in [1..m -> Int]
OBVIOUS

LEMMA TurnIs ==
    ASSUME NEW n \in Nat, NEW h \in Seq(Int), Len(h) = 4, NEW t \in [1..n -> Int]
    PROVE  /\ h \o t \in [1..(4 + n) -> Int]
           /\ (h \o t)[1] = h[1] /\ (h \o t)[2] = h[2]
           /\ \A i \in 1..n : (h \o t)[4 + i] = t[i]
<1>1. t \in Seq(Int) /\ Len(t) = n
  OBVIOUS
<1> DEFINE k == h \o t
           m == 4 + n
<1>2. /\ k \in Seq(Int) /\ Len(k) = Len(h) + Len(t)
      /\ \A i \in 1..Len(h) : k[i] = h[i]
      /\ \A i \in 1..Len(t) : k[Len(h) + i] = t[i]
  BY <1>1, Joined
<1> HIDE DEF k
<1>3. Len(k) = m
  BY <1>1, <1>2
<1>4. \A i \in 1..n : k[4 + i] = t[i]
  BY <1>1, <1>2
<1>5. k[1] = h[1] /\ k[2] = h[2]
  BY <1>2
<1> HIDE DEF m
<1>6. k \in [1..m -> Int]
  BY <1>2, <1>3, SeqIsFunction
<1> QED
  BY <1>4, <1>5, <1>6 DEF k, m

LEMMA AssignedIs ==
    ASSUME LinesFit, NEW group, group \subseteq Arcs, \A b \in group : RowFits(row[b], b),
           IsFiniteSet(group)
    PROVE  /\ Allowed(Assigned(group), group)
           /\ \A f \in [group -> Int] : Allowed(f, group) =>
                 \/ Cardinality(Picked(f)) < Cardinality(Picked(Assigned(group)))
                 \/ /\ Cardinality(Picked(f)) = Cardinality(Picked(Assigned(group)))
                    /\ SumFunction(f) >= SumFunction(Assigned(group))
<1> DEFINE n == Cardinality(group)
           size(a) == IF Contenders(row[a]) = <<>> THEN TopK + 10 ELSE Len(Contenders(row[a]))
           sizes == [a \in group |-> <<size(a), a>>]
           order == Ranked(group, sizes)
           F == CHOOSE G : Grown(G, group, order)
           all == F[n]
           turn_(p) == Score(p) \o [k \in 1..n |-> p.pick[order[k]]]
           best == CHOOSE p \in all : \A q \in all \ {p} : Precedes(turn_(p), turn_(q))
<1>1. Assigned(group) = best.pick
  BY Zenon DEF Assigned, Grown, Onward, Start
<1>2. n \in Nat
  BY FS_CardinalityType
<1>3. Listed(order, group)
  <2>1. \A a \in group : size(a) \in Int /\ a \in Int
    <3> TAKE a \in group
    <3>1. Len(Offer(a)) \in Nat /\ TopK \in Nat /\ a \in Nat
      BY OfferIs DEF LinesFit
    <3> QED
      BY <3>1 DEF Offer
  <2> HIDE DEF size
  <2>2. \A a \in group : sizes[a] \in [1..2 -> Int] /\ sizes[a][2] = a
    BY <2>1
  <2> HIDE DEF sizes
  <2>3. KeysFit(group, 2, sizes)
    BY <2>2 DEF KeysFit
  <2> QED
    BY <2>3, KeysRank
<1> HIDE DEF order
<1>4. LevelFits(all, group, order, n)
  <2>1. Grown(F, group, order)
    BY <1>3, LevelsExist
  <2> HIDE DEF F
  <2> QED
    BY <1>3, <2>1, LevelsAre
<1>5. /\ DOMAIN order = 1..n
      /\ \A k \in 1..n : order[k] \in group
      /\ \A b \in group : \E k \in 1..n : order[k] = b
  BY <1>3 DEF Listed
<1> HIDE DEF F
<1>6. /\ IsFiniteSet(all)
      /\ \A p \in all : LeafFits(p, group, n)
      /\ \A p, q \in all : p.pick = q.pick => p = q
      /\ \A f \in [group -> Int] : Allowed(f, group) => \E p \in all : p.pick = f
  <2>1. \A f : Until(f, order, n)
    BY <1>2, <1>5 DEF Until
  <2> QED
    BY <1>4, <2>1 DEF LevelFits
<1> HIDE DEF all
<1>7. \A p \in all : /\ p.pick \in [group -> Int] /\ Allowed(p.pick, group)
                     /\ p.served \in Int /\ p.rank \in Int /\ p.dist \in Int /\ p.cov \in Int
                     /\ p.served = Cardinality(Picked(p.pick))
                     /\ p.rank = SumFunction(p.pick) + (n - p.served) * (TopK + 10)
  BY <1>6 DEF LeafFits, Partial
<1>8. \A p \in all : /\ turn_(p) \in [1..(4 + n) -> Int]
                     /\ turn_(p)[1] = 0 - p.served /\ turn_(p)[2] = p.rank
                     /\ \A k \in 1..n : turn_(p)[4 + k] = p.pick[order[k]]
  <2> TAKE p \in all
  <2> DEFINE t == [k \in 1..n |-> p.pick[order[k]]]
  <2>1. t \in [1..n -> Int]
    BY <1>5, <1>7
  <2> DEFINE h == Score(p)
  <2>2. /\ 0 - p.served \in Int /\ p.rank \in Int /\ p.dist \in Int /\ 0 - p.cov \in Int
        /\ h = <<0 - p.served, p.rank, p.dist, 0 - p.cov>>
    BY <1>7 DEF Score
  <2>3. h \in Seq(Int) /\ Len(h) = 4 /\ h[1] = 0 - p.served /\ h[2] = p.rank
    <3> HIDE DEF h
    <3> QED
      BY <2>2
  <2>4. turn_(p) = h \o t /\ \A k \in 1..n : t[k] = p.pick[order[k]]
    OBVIOUS
  <2> HIDE DEF t, turn_, h
  <2>5. /\ h \o t \in [1..(4 + n) -> Int]
        /\ (h \o t)[1] = h[1] /\ (h \o t)[2] = h[2]
        /\ \A i \in 1..n : (h \o t)[4 + i] = t[i]
    BY <1>2, <2>1, <2>3, TurnIs
  <2> QED
    BY <2>3, <2>4, <2>5
<1> HIDE DEF turn_
<1>9. best \in all /\ \A q \in all \ {best} : Precedes(turn_(best), turn_(q))
  <2> DEFINE K == [p \in all |-> turn_(p)]
  <2>1. KeysFit(all, 4 + n, K)
    <3>1. \A p, q \in all : turn_(p) = turn_(q) => p = q
      <4> SUFFICES ASSUME NEW p \in all, NEW q \in all, turn_(p) = turn_(q) PROVE p.pick = q.pick
        BY <1>6
      <4>1. \A k \in 1..n : p.pick[order[k]] = q.pick[order[k]]
        BY <1>8
      <4>2. \A b \in group : p.pick[b] = q.pick[b]
        BY <1>5, <4>1
      <4> QED
        BY <1>7, <4>2
    <3> QED
      BY <1>2, <1>6, <1>8, <3>1 DEF KeysFit
  <2>2. all # {}
    <3>1. LevelFits({Start(group)}, group, order, 0)
      BY <1>3, LevelStarts
    <3>2. LeafFits(Start(group), group, 0)
      BY <3>1 DEF LevelFits
    <3>3. Allowed(Start(group).pick, group)
      BY <3>2 DEF LeafFits
    <3>4. Start(group).pick \in [group -> Int]
      BY <3>3 DEF Allowed
    <3> QED
      BY <1>6, <3>3, <3>4
  <2>3. \E p \in all : \A q \in all \ {p} : Precedes(K[p], K[q])
    <3> HIDE DEF K
    <3> QED
      BY <2>1, <2>2, KeysFirst
  <2>4. \E p \in all : \A q \in all \ {p} : Precedes(turn_(p), turn_(q))
    BY <2>3
  <2> QED
    BY <2>4
<1> HIDE DEF best
<1>10. Allowed(best.pick, group)
  BY <1>7, <1>9
<1>11. ASSUME NEW f \in [group -> Int], Allowed(f, group)
       PROVE  \/ Cardinality(Picked(f)) < Cardinality(Picked(best.pick))
              \/ /\ Cardinality(Picked(f)) = Cardinality(Picked(best.pick))
                 /\ SumFunction(f) >= SumFunction(best.pick)
  <2>1. PICK q \in all : q.pick = f
    BY <1>6, <1>11
  <2>2. SumFunction(best.pick) \in Int /\ SumFunction(f) \in Int /\ TopK + 10 \in Int
    <3>1. TopK + 10 \in Int
      BY DEF LinesFit
    <3> QED
      BY <1>7, <1>9, <3>1, SumInt
  <2>3. CASE q = best
    BY <2>1, <2>2, <2>3
  <2>4. CASE q # best
    <3>1. Precedes(turn_(best), turn_(q))
      BY <1>9, <2>4
    <3>2. 4 + n \in Nat
      BY <1>2
    <3>3. LexLess(4 + n, turn_(best), turn_(q))
      BY <1>8, <1>9, <3>1, <3>2, PrecedesIs
    <3>4. PICK i \in 1..(4 + n) : /\ turn_(best)[i] < turn_(q)[i]
                                  /\ \A j \in 1..(i - 1) : turn_(best)[j] = turn_(q)[j]
      BY <3>3 DEF LexLess
    <3> DEFINE s == best.served
               u == q.served
    <3>5. s \in Int /\ u \in Int /\ best.rank \in Int /\ q.rank \in Int
      BY <1>7, <1>9
    <3>6. /\ turn_(best)[1] = 0 - s /\ turn_(q)[1] = 0 - u
          /\ turn_(best)[2] = best.rank /\ turn_(q)[2] = q.rank
      BY <1>8, <1>9
    <3>7. u < s \/ (u = s /\ best.rank <= q.rank)
      <4>1. CASE i = 1
        BY <3>4, <3>5, <3>6, <4>1
      <4>2. CASE i = 2
        <5>1. 1 \in 1..(i - 1)
          BY <4>2
        <5> QED
          BY <3>4, <3>5, <3>6, <4>2, <5>1
      <4>3. CASE i # 1 /\ i # 2
        <5>1. 1 \in 1..(i - 1) /\ 2 \in 1..(i - 1)
          BY <1>2, <4>3
        <5> QED
          BY <3>4, <3>5, <3>6, <5>1
      <4> QED
        BY <4>1, <4>2, <4>3
    <3>8. /\ s = Cardinality(Picked(best.pick)) /\ u = Cardinality(Picked(f))
          /\ best.rank = SumFunction(best.pick) + (n - s) * (TopK + 10)
          /\ q.rank = SumFunction(f) + (n - u) * (TopK + 10)
      BY <1>7, <1>9, <2>1
    <3>9. (n - s) * (TopK + 10) \in Int
      BY <1>2, <2>2, <3>5
    <3> HIDE DEF s, u
    <3>10. CASE u < s
      BY <3>8, <3>10
    <3>11. CASE u = s /\ best.rank <= q.rank
      BY <2>2, <3>8, <3>9, <3>11
    <3> QED
      BY <3>7, <3>10, <3>11
  <2> QED
    BY <2>3, <2>4
<1> QED
  BY <1>1, <1>10, <1>11

-----------------------------------------------------------------------------
(* What is allotted at a section, seen from its arcs.                      *)
SlotsFit ==
    /\ \A end \in Ends, a \in Arcs :
           Legal(slot[end][a].to, scene.surface[Section(a, end)])
    /\ \A end \in Ends : \A x \in Sections(end) : \E q :
           /\ Listed(q, Group(x, end))
           /\ \A k \in 2..Cardinality(Group(x, end)) :
                  slot[end][q[k]].ok => slot[end][q[k - 1]].to[2] <= slot[end][q[k]].to[1]

LEMMA AllotIs ==
    ASSUME LinesFit, scene \in Scenes, RowsFit, SeedsFit, NEW end \in Ends, NEW S,
           S = [a \in Arcs |-> CHOOSE r \in UNION {Allotted(x, end) : x \in Sections(end)} : r.arc = a]
    PROVE  /\ \A a \in Arcs : Legal(S[a].to, scene.surface[Section(a, end)])
           /\ \A x \in Sections(end) : \E q :
                 /\ Listed(q, Group(x, end))
                 /\ \A k \in 2..Cardinality(Group(x, end)) :
                       S[q[k]].ok => S[q[k - 1]].to[2] <= S[q[k]].to[1]
<1> DEFINE all == UNION {Allotted(x, end) : x \in Sections(end)}
           Fits(x, q, sh) ==
              /\ Listed(q, Group(x, end))
              /\ \A k \in 1..Cardinality(Group(x, end)) :
                    /\ Legal(sh[k], scene.surface[x])
                    /\ \E r \in Allotted(x, end) : r.arc = q[k]
              /\ \A r \in Allotted(x, end) : \E k \in 1..Cardinality(Group(x, end)) :
                    r.arc = q[k] /\ r.to = sh[k] /\ (r.ok => InOrder(sh, k))
<1>1. \A x \in Sections(end) : \E q, sh : Fits(x, q, sh)
  BY AllottedIs
<1>2. \A x \in Sections(end) : \A r \in Allotted(x, end) : r.arc \in Group(x, end)
  <2> SUFFICES ASSUME NEW x \in Sections(end), NEW r \in Allotted(x, end)
               PROVE  r.arc \in Group(x, end)
    OBVIOUS
  <2>1. PICK q, sh : Fits(x, q, sh)
    BY <1>1
  <2> QED
    BY <2>1 DEF Listed
<1>a. \A x, q, sh : Fits(x, q, sh) =>
         /\ \A k \in 1..Cardinality(Group(x, end)) : /\ q[k] \in Group(x, end)
                                                    /\ Legal(sh[k], scene.surface[x])
                                                    /\ \E r \in Allotted(x, end) : r.arc = q[k]
         /\ \A k, l \in 1..Cardinality(Group(x, end)) : q[k] = q[l] => k = l
         /\ \A a \in Group(x, end) : \E k \in 1..Cardinality(Group(x, end)) : q[k] = a
         /\ \A r \in Allotted(x, end) : \E k \in 1..Cardinality(Group(x, end)) :
               r.arc = q[k] /\ r.to = sh[k] /\ (r.ok => InOrder(sh, k))
         /\ Listed(q, Group(x, end))
  BY DEF Listed
<1> HIDE DEF Fits
<1>3. ASSUME NEW a \in Arcs
      PROVE  S[a] \in Allotted(Section(a, end), end) /\ S[a].arc = a
  <2> DEFINE x == Section(a, end)
  <2>1. x \in Sections(end) /\ a \in Group(x, end)
    BY DEF Sections, Group
  <2>2. PICK q, sh : Fits(x, q, sh)
    BY <1>1, <2>1
  <2>3. PICK k \in 1..Cardinality(Group(x, end)) : q[k] = a
    BY <1>a, <2>1, <2>2
  <2>4. \E r \in Allotted(x, end) : r.arc = a
    BY <1>a, <2>2, <2>3
  <2>5. \E r \in all : r.arc = a
    BY <2>1, <2>4
  <2>6. S[a] = CHOOSE r \in all : r.arc = a
    OBVIOUS
  <2>7. S[a] \in all /\ S[a].arc = a
    <3> HIDE DEF all
    <3> QED
      BY <2>5, <2>6
  <2>8. PICK y \in Sections(end) : S[a] \in Allotted(y, end)
    BY <2>7
  <2>9. a \in Group(y, end)
    BY <1>2, <2>7, <2>8
  <2>10. y = x
    BY <2>9 DEF Group
  <2> QED
    BY <2>7, <2>8, <2>10
<1>4. ASSUME NEW x \in Sections(end), NEW q, NEW sh, Fits(x, q, sh),
             NEW k \in 1..Cardinality(Group(x, end))
      PROVE  S[q[k]].to = sh[k] /\ (S[q[k]].ok => InOrder(sh, k))
  <2>1. q[k] \in Group(x, end)
    BY <1>4, <1>a
  <2>2. q[k] \in Arcs /\ Section(q[k], end) = x
    BY <2>1 DEF Group
  <2>3. S[q[k]] \in Allotted(x, end) /\ S[q[k]].arc = q[k]
    BY <1>3, <2>2
  <2>4. PICK l \in 1..Cardinality(Group(x, end)) :
           S[q[k]].arc = q[l] /\ S[q[k]].to = sh[l] /\ (S[q[k]].ok => InOrder(sh, l))
    <3>1. \A r \in Allotted(x, end) : \E l \in 1..Cardinality(Group(x, end)) :
             r.arc = q[l] /\ r.to = sh[l] /\ (r.ok => InOrder(sh, l))
      BY <1>4 DEF Fits
    <3> QED
      BY <2>3, <3>1
  <2>5. l = k
    <3>1. q[k] = q[l]
      BY <2>3, <2>4
    <3> QED
      BY <1>4, <1>a, <3>1
  <2> QED
    BY <2>4, <2>5
<1>5. ASSUME NEW a \in Arcs PROVE Legal(S[a].to, scene.surface[Section(a, end)])
  <2> DEFINE x == Section(a, end)
  <2>1. x \in Sections(end) /\ a \in Group(x, end)
    BY DEF Sections, Group
  <2>2. PICK q, sh : Fits(x, q, sh)
    BY <1>1, <2>1
  <2>3. PICK k \in 1..Cardinality(Group(x, end)) : q[k] = a
    BY <1>a, <2>1, <2>2
  <2>4. S[a].to = sh[k]
    <3> HIDE DEF x
    <3>1. S[q[k]].to = sh[k]
      BY <1>4, <2>1, <2>2
    <3> QED
      BY <2>3, <3>1
  <2> QED
    BY <1>a, <2>2, <2>4
<1>6. ASSUME NEW x \in Sections(end)
      PROVE  \E q : /\ Listed(q, Group(x, end))
                    /\ \A k \in 2..Cardinality(Group(x, end)) :
                          S[q[k]].ok => S[q[k - 1]].to[2] <= S[q[k]].to[1]
  <2>1. PICK q, sh : Fits(x, q, sh)
    BY <1>1
  <2>2. Cardinality(Group(x, end)) \in Nat
    BY GroupFinite
  <2>3. ASSUME NEW k \in 2..Cardinality(Group(x, end)), S[q[k]].ok
        PROVE  S[q[k - 1]].to[2] <= S[q[k]].to[1]
    <3>1. k \in 1..Cardinality(Group(x, end)) /\ k - 1 \in 1..Cardinality(Group(x, end)) /\ k > 1
      BY <2>2
    <3>2. S[q[k]].to = sh[k] /\ S[q[k - 1]].to = sh[k - 1] /\ InOrder(sh, k)
      <4>1. S[q[k]].to = sh[k] /\ InOrder(sh, k)
        BY <1>4, <2>1, <2>3, <3>1
      <4>2. S[q[k - 1]].to = sh[k - 1]
        BY <1>4, <2>1, <3>1
      <4> QED
        BY <4>1, <4>2
    <3>3. sh[k][1] >= sh[k - 1][2]
      BY <3>1, <3>2 DEF InOrder
    <3>4. sh[k][1] \in Int /\ sh[k - 1][2] \in Int
      BY <1>a, <2>1, <3>1 DEF Legal
    <3> QED
      BY <3>2, <3>3, <3>4
  <2>4. Listed(q, Group(x, end))
    BY <1>a, <2>1
  <2> QED
    BY <2>3, <2>4
<1> QED
  BY <1>5, <1>6

(* The working segments: each ends within what was allotted to its arc,    *)
(* and only a support that prefers its arc draws one.                      *)
MadeFits ==
    \A a \in DOMAIN made :
        /\ a \in Arcs
        /\ \A end \in Ends : /\ LatAt(made[a].line, end) \in Int
                             /\ slot[end][a].to[1] <= LatAt(made[a].line, end)
                             /\ LatAt(made[a].line, end) <= slot[end][a].to[2]
        /\ made[a].driver = "support" => row[a].kind # "no_support" /\ row[a].prefers

LEMMA ClampIs ==
    ASSUME NEW x \in Int, NEW low \in Int, NEW high \in Int, low < high
    PROVE  Clamp(x, low, high) \in Int /\ low <= Clamp(x, low, high) /\ Clamp(x, low, high) <= high
BY DEF Clamp

LEMMA MakeIs ==
    ASSUME LinesFit, scene \in Scenes, RowsFit, SlotsFit, entered \subseteq Arcs, Make
    PROVE  MadeFits'
<1>1. /\ scene' = scene /\ row' = row /\ slot' = slot
      /\ made' = [a \in entered |->
                    Segment(a, [end \in Ends |->
                        Clamp(OwnAnchor(a, end), slot[end][a].to[1], slot[end][a].to[2])])]
  BY DEF Make
<1>2. ASSUME NEW a \in entered
      PROVE  /\ \A end \in Ends : /\ LatAt(made'[a].line, end) \in Int
                                  /\ slot[end][a].to[1] <= LatAt(made'[a].line, end)
                                  /\ LatAt(made'[a].line, end) <= slot[end][a].to[2]
             /\ made'[a].driver = "support" => row[a].kind # "no_support" /\ row[a].prefers
  <2> DEFINE at == [end \in Ends |->
                      Clamp(OwnAnchor(a, end), slot[end][a].to[1], slot[end][a].to[2])]
  <2>1. a \in Arcs /\ RowFits(row[a], a)
    BY DEF RowsFit
  <2>2. made'[a] = Segment(a, at)
    BY <1>1
  <2>3. \A end \in Ends : at[end] \in Int /\ slot[end][a].to[1] <= at[end] /\ at[end] <= slot[end][a].to[2]
    <3> TAKE end \in Ends
    <3>1. OwnAnchor(a, end) \in Int
      <4>1. OwnAnchor(a, end) \in Positions
        BY <2>1, OwnAnchorIs
      <4> QED
        BY <4>1 DEF Positions
    <3>2. slot[end][a].to \in Int \X Int /\ slot[end][a].to[1] < slot[end][a].to[2]
      BY <2>1 DEF SlotsFit, Legal
    <3>3. at[end] = Clamp(OwnAnchor(a, end), slot[end][a].to[1], slot[end][a].to[2])
      OBVIOUS
    <3> HIDE DEF at
    <3> QED
      BY <3>1, <3>2, <3>3, ClampIs
  <2> HIDE DEF at
  <2>4. /\ \A end \in Ends : LatAt(Segment(a, at).line, end) = at[end]
        /\ Segment(a, at).driver = "support" => row[a].kind # "no_support" /\ row[a].prefers
    BY <2>1, SegmentIs
  <2> QED
    BY <2>2, <2>3, <2>4
<1>3. DOMAIN made' = entered
  BY <1>1
<1>4. \A l, e : LatAt(l, e)' = LatAt(l, e)
  BY DEF LatAt, Edge
<1>5. MadeFits'
  BY <1>1, <1>2, <1>3, <1>4 DEF MadeFits
<1> QED
  BY <1>5

(* In a section whose arcs are all ok each share begins where those before *)
(* it have ended.                                                          *)
LEMMA KeepApart ==
    ASSUME LinesFit, SlotsFit, NEW end \in Ends, NEW x \in Sections(end),
           \A a \in Group(x, end) : slot[end][a].ok,
           NEW a \in Group(x, end), NEW b \in Group(x, end), a # b
    PROVE  \/ slot[end][a].to[2] <= slot[end][b].to[1]
           \/ slot[end][b].to[2] <= slot[end][a].to[1]
<1> DEFINE m == Cardinality(Group(x, end))
           to(d) == slot[end][d].to
<1>1. Group(x, end) \subseteq Arcs /\ m \in Nat
  BY GroupFinite
<1>2. PICK q : /\ Listed(q, Group(x, end))
               /\ \A k \in 2..m : slot[end][q[k]].ok => to(q[k - 1])[2] <= to(q[k])[1]
  BY DEF SlotsFit
<1>3. \A k \in 1..m : q[k] \in Group(x, end)
  BY <1>2 DEF Listed
<1>4. \A k \in 2..m : to(q[k - 1])[2] <= to(q[k])[1]
  <2>1. \A k \in 2..m : k \in 1..m
    BY <1>1
  <2> QED
    BY <1>2, <1>3, <2>1
<1>5. \A d \in Group(x, end) : to(d)[1] \in Int /\ to(d)[2] \in Int /\ to(d)[1] < to(d)[2]
  BY <1>1 DEF SlotsFit, Legal
<1> HIDE DEF to
<1>6. ASSUME NEW k \in 1..m PROVE \A l \in 1..m : k < l => to(q[k])[2] <= to(q[l])[1]
  <2> DEFINE Good == {l \in 0..m : k < l => to(q[k])[2] <= to(q[l])[1]}
  <2>1. 0 \in Good
    BY <1>1
  <2>2. ASSUME NEW l \in 1..m, l - 1 \in Good PROVE l \in Good
    <3>1. CASE ~(k < l)
      BY <3>1
    <3>2. CASE k < l
      <4>1. l \in 2..m /\ l - 1 \in 1..m
        <5>1. k \in Nat /\ l \in Nat /\ l <= m /\ 1 <= k
          BY <1>1
        <5> QED
          BY <1>1, <3>2, <5>1
      <4>2. to(q[l - 1])[2] <= to(q[l])[1]
        BY <1>4, <4>1
      <4>3. CASE k = l - 1
        BY <4>2, <4>3
      <4>4. CASE k # l - 1
        <5>1. to(q[k])[2] <= to(q[l - 1])[1]
          BY <2>2, <3>2, <4>4
        <5>2. /\ to(q[k])[2] \in Int /\ to(q[l - 1])[1] \in Int /\ to(q[l - 1])[2] \in Int
              /\ to(q[l])[1] \in Int /\ to(q[l - 1])[1] < to(q[l - 1])[2]
          BY <1>3, <1>5, <4>1
        <5>3. to(q[k])[2] <= to(q[l])[1]
          BY <4>2, <5>1, <5>2
        <5> QED
          BY <5>3
      <4> QED
        BY <4>3, <4>4
    <3> QED
      BY <3>1, <3>2
  <2>3. \A l \in 0..m : l \in Good
    <3> HIDE DEF Good
    <3> QED
      BY <1>1, <2>1, <2>2, HandedOn
  <2> QED
    BY <2>3
<1>7. PICK k \in 1..m : q[k] = a
  BY <1>2 DEF Listed
<1>8. PICK l \in 1..m : q[l] = b
  BY <1>2 DEF Listed
<1>9. k # l
  BY <1>7, <1>8
<1>10. k < l \/ l < k
  BY <1>9
<1> QED
  BY <1>6, <1>7, <1>8, <1>10 DEF to

LEMMA SlotsSound ==
    ASSUME LinesFit, slot # <<>> => SlotsFit, slot # <<>> => MadeFits
    PROVE  SlotsAreSound
<1> SUFFICES ASSUME slot # <<>> PROVE SlotsAreSound
  BY DEF SlotsAreSound, SlotsAreLegal, SlotsKeepApart
<1>1. SlotsAreLegal
  BY DEF SlotsAreLegal, SlotsFit, Legal
<1>2. ASSUME NEW end \in Ends, NEW x \in Sections(end),
             \A a \in Group(x, end) : slot[end][a].ok,
             NEW a \in Group(x, end), NEW b \in Group(x, end), a # b,
             slot[end][a].to[2] <= slot[end][b].to[1]
      PROVE  LiesBefore(a, b, end)
  <2>1. a \in Arcs /\ b \in Arcs
    BY DEF Group
  <2>2. slot[end][a].to[2] \in Int /\ slot[end][b].to[1] \in Int
    BY <2>1 DEF SlotsFit, Legal
  <2>3. ASSUME {a, b} \subseteq DOMAIN made
        PROVE  LatAt(made[a].line, end) <= LatAt(made[b].line, end)
    <3>1. /\ LatAt(made[a].line, end) \in Int /\ LatAt(made[b].line, end) \in Int
          /\ LatAt(made[a].line, end) <= slot[end][a].to[2]
          /\ slot[end][b].to[1] <= LatAt(made[b].line, end)
      BY <2>3 DEF MadeFits
    <3> QED
      BY <1>2, <2>2, <3>1
  <2> QED
    BY <1>2, <2>3 DEF LiesBefore
<1>3. SlotsKeepApart
  <2> SUFFICES ASSUME NEW end \in Ends, NEW x \in Sections(end),
                      \A a \in Group(x, end) : slot[end][a].ok,
                      NEW a \in Group(x, end), NEW b \in Group(x, end), a # b
               PROVE  LiesBefore(a, b, end) \/ LiesBefore(b, a, end)
    BY DEF SlotsKeepApart
  <2> QED
    BY <1>2, KeepApart
<1> QED
  BY <1>1, <1>3 DEF SlotsAreSound

-----------------------------------------------------------------------------
(* What the siblings get.                                                  *)

(* An arc that shares its pair with others and has a support that is said  *)
(* to prefer it has one that does.                                         *)
SharesHonest ==
    \A a \in Arcs : Siblings(a) # {a} /\ row[a].kind # "no_support" /\ row[a].prefers =>
        Honest(row[a].segments, a)

LEMMA SiblingsAre ==
    ASSUME LinesFit, NEW a \in Arcs
    PROVE  /\ Siblings(a) \subseteq Arcs /\ a \in Siblings(a) /\ IsFiniteSet(Siblings(a))
           /\ \A b \in Siblings(a) : Siblings(b) = Siblings(a)
<1>1. Siblings(a) \subseteq Arcs /\ a \in Siblings(a)
  BY DEF Siblings
<1>2. IsFiniteSet(Siblings(a))
  BY <1>1, FS_Subset DEF LinesFit
<1>3. \A b \in Siblings(a) : Siblings(b) = Siblings(a)
  BY DEF Siblings
<1> QED
  BY <1>1, <1>2, <1>3

LEMMA GivenIs ==
    ASSUME NEW r, DOMAIN r = RowFields, NEW c
    PROVE  Given(r, c).options = r.options /\ Stripped(r).options = r.options
BY DEF Given, FromCandidate, Stripped, RowFields

(* The rows of the siblings after the deconfliction: each has the contender*)
(* that it was assigned.                                                   *)
LEMMA Deconflicted ==
    ASSUME LinesFit, RowsFit, Deconflict, NEW a \in Arcs
    PROVE  /\ RowFits(row'[a], a) /\ row'[a].options = row[a].options
           /\ Siblings(a) = {a} => row'[a] = row[a]
           /\ Siblings(a) # {a} =>
                LET k == Assigned(Siblings(a))[a]
                IN  /\ k \in 0..Len(Offer(a))
                    /\ k = 0 => row'[a].kind = "no_support"
                    /\ k # 0 => /\ row'[a].kind # "no_support"
                                /\ row'[a].segments = Offer(a)[k].segments
                                /\ row'[a].prefers = Offer(a)[k].prefers
<1> DEFINE k == Assigned(Siblings(a))[a]
<1>1. row'[a] = IF Siblings(a) = {a} THEN row[a]
                ELSE IF k = 0 THEN Stripped(row[a]) ELSE Given(row[a], Offer(a)[k])
  BY DEF Deconflict, Offer
<1>2. RowFits(row[a], a) /\ DOMAIN row[a] = RowFields
  BY DEF RowsFit, RowFits
<1>3. k \in 0..Len(Offer(a))
  <2>1. Allowed(Assigned(Siblings(a)), Siblings(a)) /\ a \in Siblings(a)
    BY SiblingsAre, AssignedIs DEF RowsFit
  <2> QED
    BY <2>1 DEF Allowed
<1> HIDE DEF k
<1>4. CASE Siblings(a) = {a}
  BY <1>1, <1>2, <1>4
<1>5. CASE Siblings(a) # {a} /\ k = 0
  <2>1. row'[a] = Stripped(row[a])
    BY <1>1, <1>5
  <2> QED
    BY <1>2, <1>3, <1>5, <2>1, StrippedRow, GivenIs DEF k
<1>6. CASE Siblings(a) # {a} /\ k # 0
  <2>1. row'[a] = Given(row[a], Offer(a)[k])
    BY <1>1, <1>6
  <2>2. k \in 1..Len(Offer(a))
    <3>1. Len(Offer(a)) \in Nat
      BY <1>2, OfferIs
    <3> QED
      BY <1>3, <1>6, <3>1
  <2>3. CandidateFits(Offer(a)[k], a)
    BY <1>2, <2>2, OfferIs
  <2>4. /\ RowFits(Given(row[a], Offer(a)[k]), a)
        /\ Given(row[a], Offer(a)[k]).segments = Offer(a)[k].segments
        /\ Given(row[a], Offer(a)[k]).prefers = Offer(a)[k].prefers
        /\ Given(row[a], Offer(a)[k]).kind # "no_support"
    BY <1>2, <2>3, GivenRow
  <2> QED
    BY <1>2, <1>3, <1>6, <2>1, <2>4, GivenIs DEF k
<1> QED
  BY <1>4, <1>5, <1>6

(* What is asserted of a row does not change while the scene stays.        *)
LEMMA HonestStays ==
    ASSUME scene' = scene
    PROVE  \A S, a : Honest(S, a)' <=> Honest(S, a)
BY DEF Honest, Nearest, Apart, Rivals, Dist

LEMMA RowStays ==
    ASSUME scene' = scene
    PROVE  \A r, a : RowFits(r, a)' <=> RowFits(r, a)
<1>1. \A S, a : Honest(S, a)' <=> Honest(S, a)
  BY HonestStays
<1> QED
  BY <1>1 DEF RowFits, OptionsFit, CandidateFits

LEMMA SharesAreHonest ==
    ASSUME LinesFit, RowsFit, Deconflict
    PROVE  SharesHonest' /\ RowsFit'
<1>1. scene' = scene
  BY DEF Deconflict
<1>2. ASSUME NEW a \in Arcs, Siblings(a) # {a}, row'[a].kind # "no_support", row'[a].prefers
      PROVE  Honest(row'[a].segments, a)
  <2> DEFINE k == Assigned(Siblings(a))[a]
  <2>1. /\ k \in 0..Len(Offer(a)) /\ k # 0
        /\ row'[a].segments = Offer(a)[k].segments /\ row'[a].prefers = Offer(a)[k].prefers
    BY <1>2, Deconflicted
  <2> HIDE DEF k
  <2>2. Len(Offer(a)) \in Nat /\ RowFits(row[a], a)
    BY OfferIs DEF RowsFit
  <2>3. CandidateFits(Offer(a)[k], a)
    BY <2>1, <2>2, OfferIs
  <2> QED
    BY <1>2, <2>1, <2>3 DEF CandidateFits
<1>3. \A a \in Arcs : RowFits(row'[a], a)
  BY Deconflicted
<1>4. RowsFit'
  BY <1>1, <1>3, RowStays DEF RowsFit
<1>5. SharesHonest'
  <2>1. \A S, a : Honest(S, a)' <=> Honest(S, a)
    BY <1>1, HonestStays
  <2> QED
    BY <1>2, <2>1 DEF SharesHonest, Siblings
<1> QED
  BY <1>4, <1>5

(* The segments of a candidate tell which it is.                           *)
LEMMA OptionBySegments ==
    ASSUME NEW q, NEW a, OptionsFit(q, a), NEW k \in DOMAIN q
    PROVE  (CHOOSE l \in DOMAIN q : q[l].segments = q[k].segments) = k
<1>1. q \in Seq({q[l] : l \in DOMAIN q})
  BY DEF OptionsFit
<1>2. DOMAIN q = 1..Len(q)
  BY <1>1
<1>3. ASSUME NEW l \in DOMAIN q, q[l].segments = q[k].segments PROVE l = k
  <2>1. CandidateFits(q[l], a) /\ CandidateFits(q[k], a)
    BY <1>2 DEF OptionsFit
  <2>2. PICK s \in q[k].segments : TRUE
    BY <2>1 DEF CandidateFits
  <2>3. s.trip = q[k].trip /\ s.trip = q[l].trip
    BY <1>3, <2>1, <2>2 DEF CandidateFits
  <2>4. q[k].trip = q[l].trip
    BY <2>3
  <2> QED
    BY <1>2, <2>4 DEF OptionsFit
<1> QED
  BY <1>3

LEMMA ShareIsBest ==
    ASSUME LinesFit, RowsFit, Deconflict
    PROVE  DeconflictionIsBest'
<1>1. scene' = scene /\ turn' = "enter"
  BY DEF Deconflict
<1>2. SUFFICES ASSUME NEW group \in {Siblings(a) : a \in Arcs}, Cardinality(group) > 1
               PROVE  /\ Chosen(group)' \in Assignments(group)'
                      /\ \A f \in Assignments(group)' :
                           \/ Served(f) < Served(Chosen(group)')
                           \/ /\ Served(f) = Served(Chosen(group)')
                              /\ RankSum(f) >= RankSum(Chosen(group)')
  BY DEF DeconflictionIsBest
<1> DEFINE g == Assigned(group)
<1>3. /\ group \subseteq Arcs /\ IsFiniteSet(group)
      /\ \A a \in group : Siblings(a) = group
  BY SiblingsAre
<1>4. \A a \in group : RowFits(row[a], a)
  BY <1>3 DEF RowsFit
<1>5. /\ Allowed(g, group)
      /\ \A f \in [group -> Int] : Allowed(f, group) =>
            \/ Cardinality(Picked(f)) < Cardinality(Picked(g))
            \/ /\ Cardinality(Picked(f)) = Cardinality(Picked(g))
               /\ SumFunction(f) >= SumFunction(g)
  BY <1>3, <1>4, AssignedIs
<1>6. Cardinality(group) > 1
  BY <1>2
<1> HIDE DEF g
<1>7. \A a \in group : Siblings(a) # {a}
  <2>1. \A a \in group : Cardinality({a}) = 1
    BY FS_Singleton
  <2> QED
    BY <1>3, <1>6, <2>1
<1>8. \A a \in group : /\ row'[a].options = row[a].options
                       /\ g[a] \in 0..Len(Offer(a))
                       /\ g[a] = 0 => row'[a].kind = "no_support"
                       /\ g[a] # 0 => /\ row'[a].kind # "no_support"
                                      /\ row'[a].segments = Offer(a)[g[a]].segments
  <2> TAKE a \in group
  <2>1. a \in Arcs /\ Siblings(a) = group /\ Siblings(a) # {a} /\ Assigned(Siblings(a))[a] = g[a]
    BY <1>3, <1>7 DEF g
  <2> QED
    BY <2>1, Deconflicted
<1>9. \A a \in group :
         /\ Len(Offer(a)) \in Nat /\ Len(Offer(a)) <= TopK /\ Len(Offer(a)) <= Len(row[a].options)
         /\ Len(Offer(a)) < TopK => Len(Offer(a)) = Len(row[a].options)
         /\ \A k \in 1..Len(Offer(a)) : Offer(a)[k] = row[a].options[k]
  BY <1>3, <1>4, OfferIs
<1>10. \A a \in group : /\ row[a].options \in Seq({row[a].options[k] : k \in DOMAIN row[a].options})
                        /\ DOMAIN row[a].options = 1..Len(row[a].options)
                        /\ Len(row[a].options) \in Nat
                        /\ OptionsFit(row[a].options, a)
  <2> TAKE a \in group
  <2>1. OptionsFit(row[a].options, a)
    BY <1>4 DEF RowFits
  <2>2. row[a].options \in Seq({row[a].options[k] : k \in DOMAIN row[a].options})
    BY <2>1 DEF OptionsFit
  <2> QED
    BY <2>1, <2>2
<1>11. TopK \in Nat
  BY DEF LinesFit
<1>12. Chosen(group)' = g
  <2> DEFINE one(a) == IF row'[a].kind = "no_support" THEN 0
                       ELSE CHOOSE k \in DOMAIN row'[a].options :
                               row'[a].options[k].segments = row'[a].segments
  <2>1. Chosen(group)' = [a \in group |-> one(a)]
    BY DEF Chosen
  <2>2. \A a \in group : one(a) = g[a]
    <3> TAKE a \in group
    <3>1. CASE g[a] = 0
      BY <1>8, <3>1
    <3>2. CASE g[a] # 0
      <4>1. g[a] \in 1..Len(Offer(a)) /\ g[a] \in DOMAIN row[a].options
        BY <1>8, <1>9, <1>10, <3>2
      <4>2. row'[a].segments = row[a].options[g[a]].segments
        BY <1>8, <1>9, <3>2, <4>1
      <4>3. (CHOOSE k \in DOMAIN row[a].options :
               row[a].options[k].segments = row[a].options[g[a]].segments) = g[a]
        BY <1>10, <4>1, OptionBySegments
      <4>4. one(a) = CHOOSE k \in DOMAIN row[a].options :
               row[a].options[k].segments = row[a].options[g[a]].segments
        BY <1>8, <3>2, <4>2
      <4> QED
        BY <4>3, <4>4
    <3> QED
      BY <3>1, <3>2
  <2>3. g = [a \in group |-> g[a]]
    BY <1>5 DEF Allowed
  <2> HIDE DEF one
  <2> QED
    BY <2>1, <2>2, <2>3
<1> DEFINE keyOf(a, k) == ConflictKey(row[a].options[k])
           Among == {f \in [group -> 0..TopK] :
              /\ \A a \in group : f[a] <= Len(row[a].options)
              /\ \A a, d \in group : a # d /\ f[a] # 0 /\ f[d] # 0 =>
                    keyOf(a, f[a]) # keyOf(d, f[d])}
<1>13. Assignments(group)' = Among
  <2>1. Assignments(group)' =
          {f \in [group -> 0..TopK] :
              /\ \A a \in group : f[a] <= Len(row'[a].options)
              /\ \A a, d \in group : a # d /\ f[a] # 0 /\ f[d] # 0 =>
                    ConflictKey(row'[a].options[f[a]]) # ConflictKey(row'[d].options[f[d]])}
    BY DEF Assignments
  <2> QED
    BY <1>8, <2>1
<1>14. \A a \in group : \A k \in 1..Len(Offer(a)) : keyOf(a, k) = Family(a, k)
  BY <1>9 DEF Family
<1> HIDE DEF keyOf
<1>15. g \in Among
  <2>1. \A a \in group : g[a] \in 0..Len(Offer(a)) /\ g[a] \in 0..TopK /\ g[a] <= Len(row[a].options)
    BY <1>8, <1>9, <1>10, <1>11
  <2>2. \A a \in group : g[a] # 0 => keyOf(a, g[a]) = Family(a, g[a])
    BY <1>9, <1>14, <2>1
  <2>3. g \in [group -> 0..TopK]
    BY <1>5, <2>1 DEF Allowed
  <2>4. \A a, d \in group : a # d /\ g[a] # 0 /\ g[d] # 0 => Family(a, g[a]) # Family(d, g[d])
    BY <1>5 DEF Allowed
  <2> QED
    BY <2>1, <2>2, <2>3, <2>4
<1>16. ASSUME NEW f \in Among PROVE f \in [group -> Int] /\ Allowed(f, group)
  <2>1. f \in [group -> 0..TopK] /\ \A a \in group : f[a] <= Len(row[a].options)
    OBVIOUS
  <2>2. \A a, d \in group : a # d /\ f[a] # 0 /\ f[d] # 0 => keyOf(a, f[a]) # keyOf(d, f[d])
    OBVIOUS
  <2> HIDE DEF Among
  <2>3. f \in [group -> Int]
    BY <1>11, <2>1
  <2>4. \A a \in group : f[a] \in 0..Len(Offer(a))
    BY <1>9, <1>10, <1>11, <2>1
  <2>5. \A a \in group : f[a] # 0 => keyOf(a, f[a]) = Family(a, f[a])
    BY <1>9, <1>14, <2>4
  <2>6. \A a, d \in group : a # d /\ f[a] # 0 /\ f[d] # 0 => Family(a, f[a]) # Family(d, f[d])
    BY <2>2, <2>5
  <2> QED
    BY <2>3, <2>4, <2>6 DEF Allowed
<1> HIDE DEF Among
<1>17. \A f : Served(f) = Cardinality(Picked(f)) /\ RankSum(f) = SumFunction(f)
  BY DEF Served, Picked, RankSum
<1>18. g \in Among /\ \A f \in Among : \/ Served(f) < Served(g)
                                       \/ Served(f) = Served(g) /\ RankSum(f) >= RankSum(g)
  BY <1>5, <1>15, <1>16, <1>17
<1> QED
  BY <1>12, <1>13, <1>18

-----------------------------------------------------------------------------
(* The inductive invariant: what each turn of step 3 leaves for the next.  *)
Turns == {"attach", "deconflict", "enter", "seed", "allot", "make", "done", "failed"}

RowsDone == turn # "attach" => RowsFit
SharesDone == turn \notin {"attach", "deconflict"} => SharesHonest
SeedsDone == entered \subseteq Arcs /\ (turn = "allot" => SeedsFit)
SlotsDone == IF turn \in {"make", "done"} THEN SlotsFit ELSE slot = <<>>
MadeDone == IF turn = "done" THEN MadeFits ELSE made = <<>>

IInv ==
    /\ scene \in Scenes /\ turn \in Turns
    /\ RowsDone /\ SharesDone /\ DeconflictionIsBest /\ SeedsDone /\ SlotsDone /\ MadeDone

LEMMA Starts == Init => IInv
BY DEF Init, IInv, Turns, RowsDone, SharesDone, DeconflictionIsBest, SeedsDone, SlotsDone, MadeDone

LEMMA AttachIs ==
    ASSUME LinesFit, scene \in Scenes, Attach
    PROVE  RowsFit'
<1>1. scene' = scene /\ row' = [a \in Arcs |-> Supported(Bare(a))]
  BY DEF Attach
<1>2. \A a \in Arcs : RowFits(row'[a], a)
  BY <1>1, SupportedRow
<1> QED
  BY <1>1, <1>2, RowStays DEF RowsFit

LEMMA SeedIs ==
    ASSUME LinesFit, scene \in Scenes, RowsFit, entered \subseteq Arcs, Seed
    PROVE  SeedsFit'
<1> DEFINE at(a) == [end \in Ends |->
                       OnNearest(scene.surface[Section(a, end)], OwnAnchor(a, end))]
<1>1. entered' = entered /\ seed' = [a \in entered |-> Segment(a, at(a))]
  BY DEF Seed
<1>2. ASSUME NEW a \in entered PROVE seed'[a].line \in WholeLines
  <2>1. a \in Arcs /\ RowFits(row[a], a)
    BY DEF RowsFit
  <2>2. \A end \in Ends : OnNearest(scene.surface[Section(a, end)], OwnAnchor(a, end)) \in Positions
    <3> TAKE end \in Ends
    <3>1. SurfaceFits(scene.surface[Section(a, end)]) /\ OwnAnchor(a, end) \in Positions
      BY <2>1, SurfaceOf, OwnAnchorIs
    <3> QED
      BY <3>1, OnNearestIs
  <2>3. at(a) \in [Ends -> Positions]
    BY <2>2
  <2> HIDE DEF at
  <2> QED
    BY <1>1, <2>1, <2>3, SegmentIs
<1> HIDE DEF at
<1> QED
  BY <1>1, <1>2 DEF SeedsFit, WholeLines, Positions

LEMMA AllotFits ==
    ASSUME LinesFit, scene \in Scenes, RowsFit, SeedsFit, Allot
    PROVE  SlotsFit'
<1> DEFINE one(end) ==
      LET all == UNION {Allotted(x, end) : x \in Sections(end)}
      IN  [a \in Arcs |-> CHOOSE r \in all : r.arc = a]
<1>1. scene' = scene /\ slot' = [end \in Ends |-> one(end)]
  BY DEF Allot
<1>2. \A end \in Ends : slot'[end] = one(end)
  BY <1>1
<1>3. ASSUME NEW end \in Ends
      PROVE  /\ \A a \in Arcs : Legal(slot'[end][a].to, scene.surface[Section(a, end)])
             /\ \A x \in Sections(end) : \E q :
                   /\ Listed(q, Group(x, end))
                   /\ \A k \in 2..Cardinality(Group(x, end)) :
                         slot'[end][q[k]].ok => slot'[end][q[k - 1]].to[2] <= slot'[end][q[k]].to[1]
  <2>1. slot'[end] = [a \in Arcs |-> CHOOSE r \in UNION {Allotted(x, end) : x \in Sections(end)} :
                                        r.arc = a]
    BY <1>2
  <2> QED
    BY <2>1, AllotIs
<1> HIDE DEF one
<1> QED
  BY <1>1, <1>3 DEF SlotsFit

LEMMA Steps ==
    ASSUME LinesFit, IInv, [Next]_lineVars
    PROVE  IInv'
<1> USE DEF Turns, RowsDone, SharesDone, SeedsDone, SlotsDone, MadeDone
<1>1. scene \in Scenes /\ turn \in Turns /\ entered \subseteq Arcs
  BY DEF IInv
<1>2. ASSUME scene' = scene, row' = row
      PROVE  (RowsFit' <=> RowsFit) /\ (SharesHonest' <=> SharesHonest)
  <2>1. RowsFit' <=> RowsFit
    BY <1>2, RowStays DEF RowsFit
  <2>2. SharesHonest' <=> SharesHonest
    BY <1>2, HonestStays DEF SharesHonest
  <2> QED
    BY <2>1, <2>2
<1>3. ASSUME scene' = scene, slot' = slot PROVE SlotsFit' <=> SlotsFit
  BY <1>3 DEF SlotsFit
<1>4. turn' # "enter" => DeconflictionIsBest'
  BY DEF DeconflictionIsBest
<1>5. CASE Attach
  <2>1. RowsFit'
    BY <1>1, <1>5, AttachIs
  <2>2. /\ turn = "attach" /\ turn' = "deconflict" /\ scene' = scene /\ entered' = entered
        /\ slot' = slot /\ made' = made
    BY <1>5 DEF Attach
  <2> QED
    BY <1>1, <1>4, <2>1, <2>2 DEF IInv
<1>6. CASE Deconflict
  <2>1. /\ turn = "deconflict" /\ turn' = "enter" /\ scene' = scene /\ entered' = entered
        /\ slot' = slot /\ made' = made
    BY <1>6 DEF Deconflict
  <2>2. RowsFit
    BY <2>1 DEF IInv
  <2>3. SharesHonest' /\ RowsFit' /\ DeconflictionIsBest'
    BY <1>6, <2>2, SharesAreHonest, ShareIsBest
  <2> QED
    BY <1>1, <2>1, <2>3 DEF IInv
<1>7. CASE Enter
  <2>1. /\ turn = "enter" /\ turn' = "seed" /\ scene' = scene /\ entered' \in SUBSET Arcs
        /\ row' = row /\ slot' = slot /\ made' = made
    BY <1>7 DEF Enter
  <2>2. RowsFit /\ SharesHonest /\ slot = <<>> /\ made = <<>>
    BY <2>1 DEF IInv
  <2> QED
    BY <1>1, <1>2, <1>4, <2>1, <2>2 DEF IInv
<1>8. CASE Seed
  <2>1. /\ turn = "seed" /\ turn' = "allot" /\ scene' = scene /\ entered' = entered
        /\ row' = row /\ slot' = slot /\ made' = made
    BY <1>8 DEF Seed
  <2>2. RowsFit /\ SharesHonest /\ slot = <<>> /\ made = <<>>
    BY <2>1 DEF IInv
  <2>3. SeedsFit'
    BY <1>1, <1>8, <2>2, SeedIs
  <2> QED
    BY <1>1, <1>2, <1>4, <2>1, <2>2, <2>3 DEF IInv
<1>9. CASE Allot
  <2>1. /\ turn = "allot" /\ turn' = "make" /\ scene' = scene /\ entered' = entered
        /\ row' = row /\ made' = made
    BY <1>9 DEF Allot
  <2>2. RowsFit /\ SharesHonest /\ SeedsFit /\ made = <<>>
    BY <2>1 DEF IInv
  <2>3. SlotsFit'
    BY <1>1, <1>9, <2>2, AllotFits
  <2> QED
    BY <1>1, <1>2, <1>4, <2>1, <2>2, <2>3 DEF IInv
<1>10. CASE FailToAllot
  <2>1. /\ turn = "allot" /\ turn' = "failed" /\ scene' = scene /\ entered' = entered
        /\ row' = row /\ slot' = slot /\ made' = made
    BY <1>10 DEF FailToAllot
  <2>2. RowsFit /\ SharesHonest /\ slot = <<>> /\ made = <<>>
    BY <2>1 DEF IInv
  <2> QED
    BY <1>1, <1>2, <1>4, <2>1, <2>2 DEF IInv
<1>11. CASE Make
  <2>1. /\ turn = "make" /\ turn' = "done" /\ scene' = scene /\ entered' = entered
        /\ row' = row /\ slot' = slot
    BY <1>11 DEF Make
  <2>2. RowsFit /\ SharesHonest /\ SlotsFit
    BY <2>1 DEF IInv
  <2>3. MadeFits'
    BY <1>1, <1>11, <2>2, MakeIs
  <2> QED
    BY <1>1, <1>2, <1>3, <1>4, <2>1, <2>2, <2>3 DEF IInv
<1>12. CASE UNCHANGED lineVars
  <2>1. /\ scene' = scene /\ turn' = turn /\ row' = row /\ entered' = entered
        /\ seed' = seed /\ slot' = slot /\ made' = made
    BY <1>12 DEF lineVars
  <2>2. SeedsFit' <=> SeedsFit
    BY <2>1 DEF SeedsFit, WholeLines, Positions
  <2>3. MadeFits' <=> MadeFits
    BY <2>1 DEF MadeFits, LatAt, Edge
  <2>4. DeconflictionIsBest' <=> DeconflictionIsBest
    <3>1. \A group : Chosen(group)' = Chosen(group) /\ Assignments(group)' = Assignments(group)
      BY <2>1 DEF Chosen, Assignments
    <3> QED
      BY <2>1, <3>1 DEF DeconflictionIsBest
  <2> QED
    BY <1>1, <1>2, <1>3, <2>1, <2>2, <2>3, <2>4 DEF IInv
<1> QED
  BY <1>5, <1>6, <1>7, <1>8, <1>9, <1>10, <1>11, <1>12 DEF Next

LEMMA Invariant == LinesFit => (Spec => []IInv)
<1> SUFFICES ASSUME LinesFit PROVE Spec => []IInv
  OBVIOUS
<1>1. Init => IInv
  BY Starts
<1>2. IInv /\ [Next]_lineVars => IInv'
  BY Steps
<1> QED
  BY <1>1, <1>2, PTL DEF Spec

(* Every arc is allotted a stretch of one drivable piece of its cross      *)
(* section, and where no arc is out of order the stretches do not overlap  *)
(* and the lines end in their order (_allocate_group_intervals).           *)
THEOREM SlotsSoundAlways == LinesFit => (Spec => []SlotsAreSound)
<1> SUFFICES ASSUME LinesFit PROVE Spec => []SlotsAreSound
  OBVIOUS
<1>1. IInv => SlotsAreSound
  <2> SUFFICES ASSUME IInv PROVE SlotsAreSound
    OBVIOUS
  <2>1. slot # <<>> => SlotsFit
    BY DEF IInv, SlotsDone
  <2>2. slot # <<>> => MadeFits
    <3>1. made = <<>> => MadeFits
      BY DEF MadeFits
    <3> QED
      BY <3>1 DEF IInv, MadeDone
  <2> QED
    BY <2>1, <2>2, SlotsSound
<1> QED
  BY <1>1, Invariant, PTL

(* The support that draws the line of an arc with siblings runs nearer to  *)
(* that arc, by the margin, than to any other arc from its cross section   *)
(* (support_competing_arc_preferred, _support_binding_state).              *)
THEOREM SiblingsFollowAlways == LinesFit => (Spec => []SiblingsFollowTheirOwn)
<1> SUFFICES ASSUME LinesFit PROVE Spec => []SiblingsFollowTheirOwn
  OBVIOUS
<1>1. IInv => SiblingsFollowTheirOwn
  <2> SUFFICES ASSUME IInv, NEW a \in DOMAIN made, made[a].driver = "support", Siblings(a) # {a}
               PROVE  Own(a)
    BY DEF SiblingsFollowTheirOwn
  <2>1. turn = "done"
    BY DEF IInv, MadeDone
  <2>2. a \in Arcs /\ row[a].kind # "no_support" /\ row[a].prefers
    BY <2>1 DEF IInv, MadeDone, MadeFits
  <2>3. Honest(row[a].segments, a)
    BY <2>1, <2>2 DEF IInv, SharesDone, SharesHonest
  <2> QED
    BY <2>3 DEF Own, Honest, Nearest
<1> QED
  BY <1>1, Invariant, PTL

(* No choice of candidates for the siblings of a pair serves more of them, *)
(* and none that serves as many is made of better ones on the whole        *)
(* (_same_pair_support_deconflict).                                        *)
THEOREM DeconflictionIsBestAlways == LinesFit => (Spec => []DeconflictionIsBest)
<1> SUFFICES ASSUME LinesFit PROVE Spec => []DeconflictionIsBest
  OBVIOUS
<1>1. IInv => DeconflictionIsBest
  BY DEF IInv
<1> QED
  BY <1>1, Invariant, PTL
=============================================================================
