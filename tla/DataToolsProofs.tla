------------------------- MODULE DataToolsProofs -------------------------
(***************************************************************************)
(* Theorems about the tools that work on a data set: the label cache of    *)
(* GroundCache with the exports of GroundExport, for any patches, names,   *)
(* clouds and configurations, and the migrations of SchemaMigration, for   *)
(* any directories and any data set.                                       *)
(***************************************************************************)
EXTENDS GroundExport, SchemaMigration, FiniteSetTheorems, TLAPS

(* Least and greatest elements.                                            *)
LEMMA LeastOfSome ==
    ASSUME NEW S, S \subseteq Nat, S # {}
    PROVE  \E p \in S : \A q \in S : p <= q
<1> DEFINE Less == OpToRel(<, Nat)
<1>1. PICK p \in S : \A q \in S : <<q, p>> \notin Less
  BY NatLessThanWellFounded, WFMin
<1>2. Less = {s \in Nat \X Nat : s[1] < s[2]}
  BY DEF OpToRel
<1>3. \A q \in Nat : q < p => <<q, p>> \in Less
  BY <1>2
<1> HIDE DEF Less
<1>4. \A q \in S : ~(q < p)
  BY <1>1, <1>3
<1> QED
  BY <1>4

(* A finite set that is bad in some way has a bad subset all whose proper  *)
(* subsets are good: what the next two inductions rest on.                 *)
LEMMA LeastBadSubset ==
    ASSUME NEW S, IsFiniteSet(S), NEW Bad, \A T \in Bad : T \subseteq S, Bad # {}
    PROVE  \E T \in Bad : \A U \in Bad : U \subseteq T => U = T
<1>1. IsWellFoundedOn(StrictSubsetOrdering(S), SUBSET S)
  BY FS_StrictSubsetOrderingWellFounded, FS_FiniteSubsetsOfFinite
<1>2. PICK T \in Bad : \A U \in Bad : <<U, T>> \notin StrictSubsetOrdering(S)
  <2>1. Bad \subseteq SUBSET S
    OBVIOUS
  <2> QED
    BY <1>1, <2>1, WFMin
<1>3. \A U \in Bad : U \subseteq T /\ U # T => <<U, T>> \in StrictSubsetOrdering(S)
  BY DEF StrictSubsetOrdering
<1>4. \A U \in Bad : U \subseteq T => U = T
  BY <1>2, <1>3
<1> QED
  BY <1>4

LEMMA GreatestOfSome ==
    ASSUME NEW S, IsFiniteSet(S), S \subseteq Nat, S # {}
    PROVE  \E p \in S : \A q \in S : q <= p
<1> DEFINE Bad == {T \in SUBSET S : T # {} /\ ~\E p \in T : \A q \in T : q <= p}
<1>1. SUFFICES ASSUME Bad # {} PROVE FALSE
  BY <1>1
<1>2. PICK T \in Bad : \A U \in Bad : U \subseteq T => U = T
  <2> HIDE DEF Bad
  <2>1. \A T \in Bad : T \subseteq S
    BY DEF Bad
  <2> QED
    BY <1>1, <2>1, LeastBadSubset
<1>3. PICK x \in T : TRUE
  BY <1>2
<1>4. T \ {x} \notin Bad
  BY <1>2, <1>3
<1>5. CASE T \ {x} = {}
  BY <1>2, <1>3, <1>5
<1>6. CASE T \ {x} # {}
  <2>1. PICK p \in T \ {x} : \A q \in T \ {x} : q <= p
    BY <1>2, <1>4, <1>6
  <2>2. p \in Nat /\ x \in Nat
    BY <1>2, <1>3, <2>1
  <2>3. CASE p <= x
    <3>1. \A q \in T : q <= x
      BY <1>2, <2>1, <2>2, <2>3
    <3> QED
      BY <1>2, <1>3, <3>1
  <2>4. CASE x <= p
    BY <1>2, <2>1, <2>2, <2>4
  <2> QED
    BY <2>2, <2>3, <2>4
<1> QED
  BY <1>5, <1>6

-----------------------------------------------------------------------------
(* The keys.                                                               *)
UsedBefore(key, S, q) == {key[r] : r \in {s \in S : s < q}}
KeysOf(key, S) == key = [q \in S |-> FreeKey(q, UsedBefore(key, S, q))]

LEMMA KeysExist ==
    ASSUME NEW S, S \subseteq Patches
    PROVE  \E key : KeysOf(key, S)
<1> DEFINE Bad == {T \in SUBSET S : ~\E key : KeysOf(key, T)}
<1>1. SUFFICES ASSUME Bad # {} PROVE FALSE
  BY <1>1
<1>2. S \subseteq Nat /\ IsFiniteSet(S)
  BY PatchesAssumption, FS_Subset
<1>3. PICK T \in Bad : \A U \in Bad : U \subseteq T => U = T
  <2>1. \A T \in Bad : T \subseteq S
    OBVIOUS
  <2> HIDE DEF Bad
  <2> QED
    BY <1>1, <1>2, <2>1, LeastBadSubset
<1>4. T # {}
  <2>1. KeysOf([q \in {} |-> 0], {})
    BY DEF KeysOf
  <2> QED
    BY <1>3, <2>1
<1>5. PICK m \in T : \A q \in T : q <= m
  BY <1>2, <1>3, <1>4, FS_Subset, GreatestOfSome
<1>6. PICK g : KeysOf(g, T \ {m})
  BY <1>3, <1>5
<1> DEFINE h == [q \in T |-> IF q = m THEN FreeKey(m, UsedBefore(g, T, m)) ELSE g[q]]
<1>7. \A q \in T : UsedBefore(h, T, q) = UsedBefore(g, T, q)
  <2>1. ASSUME NEW q \in T PROVE UsedBefore(h, T, q) = UsedBefore(g, T, q)
    <3>1. \A r \in {s \in T : s < q} : h[r] = g[r]
      BY <1>2, <1>3, <1>5
    <3> HIDE DEF h
    <3> QED
      BY <3>1 DEF UsedBefore
  <2> QED
    BY <2>1
<1>8. \A q \in T \ {m} : UsedBefore(g, T \ {m}, q) = UsedBefore(g, T, q)
  <2>1. ASSUME NEW q \in T \ {m} PROVE {s \in T \ {m} : s < q} = {s \in T : s < q}
    BY <1>2, <1>3, <1>5
  <2> QED
    BY <2>1 DEF UsedBefore
<1>9. \A q \in T \ {m} : g[q] = FreeKey(q, UsedBefore(g, T, q))
  BY <1>6, <1>8 DEF KeysOf
<1>10. \A q \in T : h[q] = FreeKey(q, UsedBefore(h, T, q))
  BY <1>7, <1>9
<1>11. h = [q \in T |-> h[q]]
  OBVIOUS
<1> HIDE DEF h
<1>12. KeysOf(h, T)
  BY <1>10, <1>11 DEF KeysOf
<1> QED
  BY <1>3, <1>12

LEMMA KeyEquation ==
    ASSUME NEW S, S \subseteq Patches, NEW p \in S
    PROVE  KeyIn(p, S) = FreeKey(p, {KeyIn(r, S) : r \in {s \in S : s < p}})
<1> DEFINE key == CHOOSE f : f = [q \in S |-> FreeKey(q, {f[r] : r \in {s \in S : s < q}})]
<1>1. \E f : f = [q \in S |-> FreeKey(q, {f[r] : r \in {s \in S : s < q}})]
  BY KeysExist DEF KeysOf, UsedBefore
<1>2. key = [q \in S |-> FreeKey(q, {key[r] : r \in {s \in S : s < q}})]
  BY <1>1, Zenon
<1>3. \A q \in S : KeyIn(q, S) = key[q]
  BY Zenon DEF KeyIn
<1> HIDE DEF key
<1>4. {KeyIn(r, S) : r \in {s \in S : s < p}} = {key[r] : r \in {s \in S : s < p}}
  BY <1>3
<1> QED
  BY <1>2, <1>3, <1>4

(* The name, else the path, else the path with the first free number.      *)
LEMMA FreeKeyIsFree ==
    ASSUME NEW p \in Patches, NEW used, IsFiniteSet(used)
    PROVE  FreeKey(p, used) \notin used
<1> DEFINE free == {i \in 2..(Cardinality(used) + 2) : Append(Rel[p], i) \notin used}
<1>1. CASE Name[p] \notin used \/ Rel[p] \notin used
  BY <1>1 DEF FreeKey
<1>2. CASE Name[p] \in used /\ Rel[p] \in used
  <2>0. Cardinality(used) \in Nat
    BY FS_CardinalityType
  <2> DEFINE N == 2..(Cardinality(used) + 2)
             f == [i \in N |-> Append(Rel[p], i)]
  <2>1. free # {}
    <3>1. SUFFICES ASSUME free = {} PROVE FALSE
      OBVIOUS
    <3>2. f \in [N -> used]
      BY <3>1
    <3>3. IsFiniteSet(N) /\ Cardinality(N) = Cardinality(used) + 1
      BY <2>0, FS_Interval
    <3>4. PICK i, j \in N : i # j /\ f[i] = f[j]
      <4> HIDE DEF f, N
      <4> QED
        BY <2>0, <3>2, <3>3, FS_PigeonHole
    <3>5. Rel[p] \in Seq(STRING)
      BY PatchesAssumption
    <3>6. Append(Rel[p], i) = Append(Rel[p], j)
      BY <3>4
    <3>7. \A k \in Nat : Append(Rel[p], k)[Len(Rel[p]) + 1] = k
      BY <3>5
    <3> QED
      BY <2>0, <3>4, <3>6, <3>7
  <2>2. free \subseteq Nat
    BY <2>0
  <2>3. \E i \in free : \A j \in free : i <= j
    <3> HIDE DEF free
    <3> QED
      BY <2>1, <2>2, LeastOfSome
  <2>4. (CHOOSE i \in free : \A j \in free : i <= j) \in free
    <3> HIDE DEF free
    <3> QED
      BY <2>3
  <2>5. FreeKey(p, used) = Append(Rel[p], CHOOSE i \in free : \A j \in free : i <= j)
    BY <1>2 DEF FreeKey
  <2> HIDE DEF N, f
  <2> QED
    BY <2>4, <2>5
<1> QED
  BY <1>1, <1>2

(* No two patches of one batch have the same key.                          *)
LEMMA KeysDiffer ==
    ASSUME NEW S, S \subseteq Patches, NEW p \in S, NEW q \in S, p # q
    PROVE  KeyIn(p, S) # KeyIn(q, S)
<1>1. S \subseteq Nat /\ IsFiniteSet(S)
  BY PatchesAssumption, FS_Subset
<1>2. ASSUME NEW a \in S, NEW b \in S, b < a PROVE KeyIn(a, S) # KeyIn(b, S)
  <2> DEFINE D == {s \in S : s < a}
             used == {KeyIn(r, S) : r \in D}
             f == [r \in D |-> KeyIn(r, S)]
  <2>1. IsFiniteSet(D)
    BY <1>1, FS_Subset
  <2>2. f \in Surjection(D, used)
    BY DEF Surjection
  <2>3. IsFiniteSet(used)
    <3> HIDE DEF f, used, D
    <3> QED
      BY <2>1, <2>2, FS_Surjection
  <2>4. KeyIn(a, S) = FreeKey(a, used)
    BY KeyEquation
  <2>5. KeyIn(a, S) \notin used
    <3> HIDE DEF used
    <3> QED
      BY <2>3, <2>4, FreeKeyIsFree
  <2> QED
    BY <1>2, <2>5
<1> QED
  BY <1>1, <1>2

-----------------------------------------------------------------------------
(* The rows of a batch, whether it resumes or not.                         *)
K == Key(Current)
True == Truth[Current][job.cfg]

(* The label of the patch at hand is true up to the next point.            *)
Labelling ==
    pc = "label" =>
        /\ at \in Nat \ {0}
        /\ label[K] \in [1..Points(Current) -> {0, 1}]
        /\ \A i \in 1..Points(Current) : i < at => label[K][i] = True[i]

Domains ==
    /\ present \subseteq Patches /\ left \subseteq present
    /\ DOMAIN label = Keys /\ job.cfg \in Cfgs

(* The rows are those of the patches that are no longer left, one each.    *)
Progress ==
    /\ pc \in {"label", "stats", "fill"} => left # {}
    /\ pc = "manifest" => left = {}
    /\ pc \in Working =>
          /\ {r.patch : r \in rows} = present \ left
          /\ \A r \in rows : r.key = Key(r.patch)
          /\ \A q, r \in rows : q.patch = r.patch => q = r

(* What a batch that does not resume has labelled so far is true.          *)
Relabelled ==
    pc \in Working /\ ~job.resume =>
        /\ \A r \in rows : r.pass => label[r.key] = Truth[r.patch][job.cfg]
        /\ pc \in {"stats", "fill"} => label[K] = True

Steady == Domains /\ Labelling /\ Progress /\ Relabelled

LEMMA PatchFacts ==
    ASSUME Domains, left # {}
    PROVE  /\ Current \in left /\ Current \in Patches /\ K \in Keys
           /\ True \in Seq({0, 1}) /\ Len(True) = Points(Current)
<1>1. Current \in left
  <2>1. left \subseteq Nat
    BY PatchesAssumption DEF Domains
  <2>2. \E p \in left : \A q \in left : p <= q
    BY <2>1, LeastOfSome
  <2> QED
    BY <2>2 DEF Current
<1>2. Current \in present /\ Current \in Patches /\ present \in SUBSET Patches
  BY <1>1 DEF Domains
<1>3. K \in Keys
  BY <1>2 DEF K, Key, Keys
<1>4. True \in Seq({0, 1}) /\ Len(True) = Points(Current)
  <2>1. (CHOOSE c \in Cfgs : TRUE) \in Cfgs
    BY DEF Domains
  <2> QED
    BY <1>2, <2>1, PatchesAssumption DEF Domains, True, Points
<1> QED
  BY <1>1, <1>2, <1>3, <1>4

(* A label written for the patch at hand is none of a patch that has a row.*)
LEMMA RowsElsewhere ==
    ASSUME Domains, Progress, pc \in Working, left # {}, NEW r \in rows
    PROVE  r.key # K /\ r.key \in Keys
<1>1. r.patch \in present \ left /\ r.key = Key(r.patch)
  BY DEF Progress
<1>2. Current \in left /\ Current \in present
  BY PatchFacts DEF Domains
<1>3. r.patch # Current
  BY <1>1, <1>2
<1>4. r.key # K
  BY <1>1, <1>2, <1>3, KeysDiffer DEF K, Key, Domains
<1> QED
  BY <1>1, <1>4 DEF Key, Keys, Domains

LEMMA RowAdded ==
    ASSUME Domains, Progress, pc \in Working, left # {}, NEW row, EndPatch(row),
           row.patch = Current, row.key = K, label' = label
    PROVE  Domains' /\ Progress'
<1>1. /\ rows' = rows \cup {row} /\ left' = left \ {Current} /\ pc' = "patch"
      /\ UNCHANGED <<present, job>>
  BY DEF EndPatch
<1>2. Current \in left /\ Current \in present
  BY PatchFacts DEF Domains
<1>3. {r.patch : r \in rows'} = {r.patch : r \in rows} \cup {Current}
  BY <1>1
<1>4. {r.patch : r \in rows'} = present' \ left'
  BY <1>1, <1>2, <1>3 DEF Progress
<1>5. \A r \in rows' : r.key = Key(r.patch)'
  <2>1. \A p : Key(p)' = Key(p)
    BY <1>1 DEF Key
  <2> QED
    BY <1>1, <2>1 DEF Progress, K
<1>6. \A r \in rows : r.patch # Current
  BY <1>2 DEF Progress
<1>7. \A q, r \in rows' : q.patch = r.patch => q = r
  BY <1>1, <1>6 DEF Progress
<1> QED
  BY <1>1, <1>4, <1>5, <1>7 DEF Domains, Progress

(* Steps outside of a batch.                                               *)
LEMMA Outside ==
    ASSUME Domains, Domains', pc' \notin Working
    PROVE  Steady'
BY DEF Steady, Labelling, Progress, Relabelled, Working

LEMMA SteadyNext == Steady /\ [ExportNext]_allVars => Steady'
<1> SUFFICES ASSUME Steady, [ExportNext]_allVars PROVE Steady'
  OBVIOUS
<1> USE DEF Steady
<1>1. CASE UNCHANGED allVars
  BY <1>1 DEF allVars, vars, files, Domains, Labelling, Progress, Relabelled, K, True, Key, Current
<1>2. CASE AddPatch
  <2>1. Domains' /\ pc' \notin Working
    BY <1>2, PatchesAssumption DEF AddPatch, Domains, files, Ended, Working
  <2> QED
    BY <2>1, Outside
<1>3. CASE StartBatch
  <2>1. PICK r \in Resumes, c \in Cfgs : job' = [resume |-> r, cfg |-> c, verify |-> FALSE]
    BY <1>3 DEF StartBatch
  <2>2. /\ pc' = "patch" /\ left' = present /\ rows' = {} /\ job'.cfg \in Cfgs
        /\ UNCHANGED <<present, label>>
    BY <1>3, <2>1 DEF StartBatch, files
  <2> QED
    BY <2>2 DEF Domains, Labelling, Progress, Relabelled
<1>4. ASSUME NEW row, pc \in Working, left # {}, EndPatch(row), UNCHANGED label,
             row.patch = Current, row.key = K,
             ~job.resume /\ row.pass => label[K] = True
      PROVE  Steady'
  <2>1. Domains' /\ Progress'
    BY <1>4, RowAdded
  <2>2. rows' = rows \cup {row} /\ pc' = "patch" /\ UNCHANGED job
    BY <1>4 DEF EndPatch
  <2> QED
    BY <1>4, <2>1, <2>2 DEF Labelling, Relabelled, True
<1>5. CASE TakeCached
  <2>1. job.resume /\ left # {} /\ pc = "patch" /\ UNCHANGED label
    BY <1>5 DEF TakeCached, Cached
  <2>2. CASE pc' = "aborted"
    <3>1. Domains'
      BY <1>5, <2>2 DEF TakeCached, EndPatch, Domains
    <3> QED
      BY <2>2, <3>1, Outside DEF Working
  <2>3. CASE EndPatch(StatsRow(Current, stats[K]))
    BY <1>4, <2>1, <2>3 DEF StatsRow, K, Working
  <2> QED
    BY <1>5, <2>2, <2>3 DEF TakeCached, K
<1>6. CASE LabelRaises
  <2>1. left # {} /\ pc \in Working /\ UNCHANGED label /\ EndPatch(FailRow(Current))
    BY <1>6 DEF LabelRaises, Progress, Working
  <2> QED
    BY <1>4, <2>1 DEF FailRow, K
<1>7. ASSUME left # {}, pc \in Working, UNCHANGED <<present, left, rows, job>>, pc' = "label",
             NEW l, label' = [label EXCEPT ![K] = l], Labelling'
      PROVE  Steady'
  <2>1. Domains' /\ Progress'
    BY <1>7 DEF Domains, Progress, Key
  <2>2. \A r \in rows : label'[r.key] = label[r.key]
    <3>1. \A r \in rows : r.key # K /\ r.key \in Keys
      BY <1>7, RowsElsewhere
    <3> QED
      BY <1>7, <3>1 DEF Domains
  <2>3. Relabelled'
    BY <1>7, <2>2 DEF Relabelled, Working
  <2> QED
    BY <1>7, <2>1, <2>3
<1>8. CASE OpenLabel
  <2>1. /\ left # {} /\ pc \in Working /\ UNCHANGED <<present, left, rows, job>>
        /\ pc' = "label" /\ at' = 1
        /\ label' = [label EXCEPT ![K] = [i \in 1..Points(Current) |-> 0]]
    BY <1>8 DEF OpenLabel, K, Working
  <2>2. K \in Keys /\ UNCHANGED <<K, True, Points(Current)>>
    BY <2>1, PatchFacts DEF K, True, Key, Current
  <2>3. Labelling'
    BY <2>1, <2>2 DEF Labelling, Domains
  <2> QED
    BY <1>7, <2>1, <2>3
<1>9. CASE LabelPoint
  <2>1. /\ left # {} /\ pc = "label" /\ UNCHANGED <<present, left, rows, job>>
        /\ pc' = "label" /\ at' = at + 1 /\ at <= Points(Current)
        /\ label' = [label EXCEPT ![K] = [label[K] EXCEPT ![at] = True[at]]]
    BY <1>9 DEF LabelPoint, Progress, K, True
  <2>2. /\ K \in Keys /\ UNCHANGED <<K, True, Points(Current)>>
        /\ True \in Seq({0, 1}) /\ Len(True) = Points(Current)
    BY <2>1, PatchFacts DEF K, True, Key, Current
  <2>3. /\ at \in Nat \ {0} /\ label[K] \in [1..Points(Current) -> {0, 1}]
        /\ True[at] \in {0, 1} /\ at \in 1..Points(Current) /\ Points(Current) \in Nat
    BY <2>1, <2>2 DEF Labelling
  <2>4. label'[K] = [label[K] EXCEPT ![at] = True[at]]
    BY <2>1, <2>2 DEF Domains
  <2>5. label'[K] \in [1..Points(Current) -> {0, 1}]
    BY <2>3, <2>4
  <2>6. ASSUME NEW i \in 1..Points(Current), i < at + 1
        PROVE  label'[K][i] = True[i]
    <3>1. CASE i = at
      BY <2>3, <2>4, <3>1
    <3>2. CASE i # at
      <4>1. i < at
        BY <2>3, <2>6, <3>2
      <4> QED
        BY <2>1, <2>3, <2>4, <3>2, <4>1 DEF Labelling
    <3> QED
      BY <3>1, <3>2
  <2>7. Labelling'
    BY <2>1, <2>2, <2>3, <2>5, <2>6 DEF Labelling
  <2> QED
    BY <1>7, <2>1, <2>7 DEF Working
<1>10. CASE WriteIndex
  <2>1. CASE pc' = "aborted"
    <3>1. Domains'
      BY <1>10, <2>1 DEF WriteIndex, files, Domains
    <3> QED
      BY <2>1, <3>1, Outside DEF Working
  <2>2. CASE pc' = "stats" /\ UNCHANGED <<left, rows>>
    <3>1. /\ left # {} /\ pc = "label" /\ at > Points(Current)
          /\ UNCHANGED <<present, label, job>>
      BY <1>10 DEF WriteIndex, files, Progress
    <3>2. /\ UNCHANGED <<K, True>> /\ True \in Seq({0, 1}) /\ Len(True) = Points(Current)
      BY <2>2, <3>1, PatchFacts DEF K, True, Key, Current
    <3>3. label[K] = True
      <4>1. label[K] \in [1..Points(Current) -> {0, 1}] /\ at \in Nat
        BY <3>1 DEF Labelling
      <4>2. \A i \in 1..Points(Current) : label[K][i] = True[i]
        BY <3>1, <3>2, <4>1 DEF Labelling
      <4>3. label[K] = [i \in 1..Points(Current) |-> label[K][i]]
        BY <4>1
      <4>4. True = [i \in 1..Points(Current) |-> True[i]]
        BY <3>2
      <4> QED
        BY <4>2, <4>3, <4>4
    <3>4. Domains' /\ Labelling' /\ Progress'
      BY <2>2, <3>1 DEF Domains, Labelling, Progress, Working, Key
    <3>5. Relabelled'
      BY <2>2, <3>1, <3>2, <3>3 DEF Relabelled, Working
    <3> QED
      BY <3>4, <3>5
  <2> QED
    BY <1>10, <2>1, <2>2 DEF WriteIndex
<1>11. CASE OpenStats
  <2>1. /\ pc = "stats" /\ pc' = "fill" /\ UNCHANGED <<present, label, job, left, rows>>
    BY <1>11 DEF OpenStats
  <2>2. UNCHANGED <<K, True>>
    BY <2>1 DEF K, True, Key, Current
  <2> QED
    BY <2>1, <2>2 DEF Domains, Labelling, Progress, Relabelled, Working, Key
<1>12. CASE FillStats
  <2>1. /\ pc = "fill" /\ left # {} /\ UNCHANGED label
        /\ ~job.resume => label[K] = True
    BY <1>12 DEF FillStats, Progress, Relabelled, Working
  <2>2. PICK s : EndPatch(StatsRow(Current, s))
    BY <1>12 DEF FillStats
  <2> QED
    BY <1>4, <2>1, <2>2 DEF StatsRow, K, Working
<1>13. CASE OpenManifest
  <2>1. /\ pc = "patch" /\ pc' = "manifest" /\ left = {}
        /\ UNCHANGED <<present, label, job, left, rows>>
    BY <1>13 DEF OpenManifest
  <2> QED
    BY <2>1 DEF Domains, Labelling, Progress, Relabelled, Working, Key
<1>14. CASE WriteManifest
  <2>1. UNCHANGED <<present, label, job, left>> /\ Domains'
    BY <1>14 DEF WriteManifest, Domains
  <2>2. CASE pc' = "done"
    BY <2>1, <2>2, Outside DEF Working
  <2>3. CASE UNCHANGED <<pc, rows>>
    <3>1. pc = "manifest"
      BY <1>14 DEF WriteManifest
    <3> QED
      BY <2>1, <2>3, <3>1 DEF Labelling, Progress, Relabelled, Key
  <2> QED
    BY <1>14, <2>2, <2>3 DEF WriteManifest
<1>15. CASE Crash
  <2>1. Domains' /\ pc' = "crashed"
    BY <1>15 DEF Crash, files, Domains
  <2> QED
    BY <2>1, Outside DEF Working
<1>16. CASE Export
  <2>1. UNCHANGED <<present, label, left>> /\ job'.cfg = job.cfg
    BY <1>16 DEF Export, StartExport, ReuseCopy, RefuseItem, OpenCopy, WritePoint,
                 WriterRaises, CloseCopy, PublishExport, ExportCrash, EndItem, vars, files
  <2>2. pc' \in Ended \cup Exporting
    BY <1>16 DEF Export, StartExport, ReuseCopy, RefuseItem, OpenCopy, WritePoint,
                 WriterRaises, CloseCopy, PublishExport, ExportCrash, EndItem, vars, files,
                 Ended, Exporting
  <2>3. Domains'
    BY <2>1 DEF Domains
  <2> QED
    BY <2>2, <2>3, Outside DEF Ended, Exporting, Working
<1> QED
  BY <1>1, <1>2, <1>3, <1>5, <1>6, <1>8, <1>9, <1>10, <1>11, <1>12, <1>13, <1>14,
     <1>15, <1>16 DEF ExportNext, Batch

LEMMA SteadyInit == Init => Steady
BY PatchesAssumption
   DEF Init, Steady, Domains, Labelling, Progress, Relabelled, Working

(* A batch that reaches its manifest has exactly one row for every patch   *)
(* it found, under keys that all differ, whatever the directories are      *)
(* called, whatever was added, failed or crashed before.                   *)
THEOREM NoPatchIsLost == ExportSpec => []NothingLost
<1>1. ExportInit => Steady
  BY SteadyInit DEF ExportInit
<1>2. Steady => NothingLost
  <2> SUFFICES ASSUME Steady, pc = "manifest"
               PROVE  /\ {r.patch : r \in rows} = present
                      /\ \A q, r \in rows : q.key = r.key => q = r
    BY DEF NothingLost
  <2>1. /\ {r.patch : r \in rows} = present /\ left = {}
        /\ \A r \in rows : r.key = Key(r.patch)
        /\ \A q, r \in rows : q.patch = r.patch => q = r
    BY DEF Steady, Progress, Working
  <2>2. ASSUME NEW q \in rows, NEW r \in rows, q.key = r.key PROVE q = r
    <3>1. q.patch \in present /\ r.patch \in present /\ present \subseteq Patches
      BY <2>1 DEF Steady, Domains
    <3>2. KeyIn(q.patch, present) = KeyIn(r.patch, present)
      BY <2>1, <2>2 DEF Key
    <3>3. q.patch = r.patch
      BY <3>1, <3>2, KeysDiffer
    <3> QED
      BY <2>1, <3>3
  <2> QED
    BY <2>1, <2>2
<1> QED
  BY <1>1, <1>2, SteadyNext, PTL DEF ExportSpec

(* What a batch that did not resume lets pass is the whole true label of   *)
(* its own configuration, whatever labels lay there before.                *)
THEOREM ForcedBatchRelabels == ExportSpec => []ForcedBatchIsFresh
<1>1. ExportInit => Steady
  BY SteadyInit DEF ExportInit
<1>2. Steady => ForcedBatchIsFresh
  BY DEF Steady, Relabelled, ForcedBatchIsFresh, Working
<1> QED
  BY <1>1, <1>2, SteadyNext, PTL DEF ExportSpec

-----------------------------------------------------------------------------
(* From here on: as long as every batch has resumed.                       *)
Types ==
    /\ present \subseteq Patches /\ left \subseteq present
    /\ DOMAIN label = Keys /\ DOMAIN stats = Keys
    /\ job.cfg \in Cfgs
    /\ pc \in Working => job.resume = TRUE

(* The statistics come after the label, and the patch at hand has none     *)
(* that parse: that is why nothing in the cache is ever touched again.     *)
Pending ==
    /\ pc \in {"label", "stats", "fill"} => left # {}
    /\ pc \in {"label", "stats"} => stats[K] = Absent
    /\ pc = "fill" => stats[K] = Torn
    /\ pc \in {"stats", "fill"} => label[K] = True

Ordered == \A k \in Keys : stats[k] # Absent => label[k] # Absent

Whole == Types /\ Labelling /\ Pending /\ Ordered /\ LabelsAreTrue

IInv == Forced \/ Whole

LEMMA CurrentFacts ==
    ASSUME Types, left # {}
    PROVE  /\ Current \in left /\ Current \in Patches /\ K \in Keys
           /\ True \in Seq({0, 1}) /\ Len(True) = Points(Current)
BY PatchFacts DEF Types, Domains

LEMMA WholeInit == Init => Whole
BY FileAssumption
   DEF Init, Whole, Types, Working, Labelling, Pending, Ordered, LabelsAreTrue, Told

(* A step that leaves the label and the statistics alone, and begins or    *)
(* ends the work on a patch.                                               *)
LEMMA CacheKept ==
    ASSUME Whole, UNCHANGED <<label, stats>>, Types',
           pc' \notin {"label", "stats", "fill"}
    PROVE  Whole'
BY DEF Whole, Labelling, Pending, Ordered, LabelsAreTrue, Told

LEMMA WholeNext ==
    ASSUME ~Forced', Whole, [Batch]_vars
    PROVE  Whole'
<1>1. CASE UNCHANGED vars
  BY <1>1 DEF vars, files, Whole, Types, Working, Labelling, Pending, Ordered, LabelsAreTrue, Told,
              K, True, Key, Current
<1>2. CASE AddPatch
  <2>1. Types'
    BY <1>2, PatchesAssumption DEF AddPatch, Whole, Types, Working, files
  <2> QED
    BY <1>2, <2>1, CacheKept DEF AddPatch, files, Ended
<1>3. CASE StartBatch
  <2>1. PICK r \in Resumes, c \in Cfgs : job' = [resume |-> r, cfg |-> c, verify |-> FALSE]
    BY <1>3 DEF StartBatch
  <2>2. job'.resume = TRUE /\ job'.cfg \in Cfgs
    <3>1. job' \in asked'
      BY <1>3 DEF StartBatch
    <3> QED
      BY <2>1, <3>1, LaunchAssumption DEF Forced
  <2>3. Types'
    BY <1>3, <2>2 DEF StartBatch, Whole, Types, Working, files
  <2> QED
    BY <1>3, <2>3, CacheKept DEF StartBatch, files
<1>4. CASE TakeCached
  <2>1. Types' /\ pc' \in {"patch", "aborted"}
    BY <1>4 DEF TakeCached, EndPatch, Whole, Types, Working
  <2> QED
    BY <1>4, <2>1, CacheKept DEF TakeCached
<1>5. CASE OpenLabel
  <2>1. K \in Keys /\ left # {} /\ UNCHANGED <<K, True, Points(Current)>>
    BY <1>5, CurrentFacts DEF OpenLabel, Whole, K, True, Key, Current
  <2>2. stats[K] = Absent
    BY <1>5, <2>1 DEF OpenLabel, Cached, Whole, Types, Working, Ordered, K
  <2>3. label' = [label EXCEPT ![K] = [i \in 1..Points(Current) |-> 0]]
    BY <1>5 DEF OpenLabel, K
  <2>4. [i \in 1..Points(Current) |-> 0] \in Seq({0, 1})
    BY <2>1, CurrentFacts DEF Whole
  <2>5. Types' /\ Pending'
    BY <1>5, <2>1, <2>2, <2>3 DEF OpenLabel, Whole, Types, Working, Pending
  <2>6. Labelling'
    BY <1>5, <2>1, <2>3 DEF OpenLabel, Whole, Types, Working, Labelling
  <2>7. Ordered' /\ LabelsAreTrue'
    BY <1>5, <2>1, <2>2, <2>3, <2>4, FileAssumption
       DEF OpenLabel, Whole, Types, Working, Ordered, LabelsAreTrue, Told
  <2> QED
    BY <2>5, <2>6, <2>7 DEF Whole
<1>6. CASE LabelPoint
  <2>1. /\ K \in Keys /\ left # {} /\ UNCHANGED <<K, True, Points(Current)>>
        /\ True \in Seq({0, 1}) /\ Len(True) = Points(Current)
    BY <1>6, CurrentFacts DEF LabelPoint, Whole, Pending, K, True, Key, Current
  <2>2. stats[K] = Absent /\ at \in Nat \ {0} /\ at <= Points(Current)
    BY <1>6 DEF LabelPoint, Whole, Pending, Labelling
  <2>3. label' = [label EXCEPT ![K] = [label[K] EXCEPT ![at] = True[at]]]
    BY <1>6 DEF LabelPoint, K, True
  <2>4. label[K] \in [1..Points(Current) -> {0, 1}] /\ True[at] \in {0, 1}
    BY <1>6, <2>1, <2>2 DEF LabelPoint, Whole, Labelling
  <2>5. Types' /\ Pending'
    BY <1>6, <2>1, <2>2, <2>3 DEF LabelPoint, Whole, Types, Working, Pending
  <2>6. Labelling'
    <3>1. label'[K] = [label[K] EXCEPT ![at] = True[at]]
      BY <2>1, <2>3 DEF Whole, Types, Working
    <3>2. label'[K] \in [1..Points(Current) -> {0, 1}]
      BY <2>4, <3>1
    <3>3. at' = at + 1
      BY <1>6 DEF LabelPoint
    <3>4. ASSUME NEW i \in 1..Points(Current), i < at + 1
          PROVE  label'[K][i] = True[i]
      <4>1. CASE i = at
        BY <2>4, <3>1, <4>1
      <4>2. CASE i # at
        <5>1. i < at /\ i \in 1..Points(Current)
          BY <2>2, <3>4, <4>2
        <5>2. label[K][i] = True[i]
          BY <1>6, <5>1 DEF LabelPoint, Whole, Labelling
        <5> QED
          BY <2>4, <3>1, <4>2, <5>1, <5>2
      <4> QED
        BY <4>1, <4>2
    <3> QED
      BY <2>1, <2>2, <3>2, <3>3, <3>4 DEF Labelling
  <2>7. Ordered' /\ LabelsAreTrue'
    BY <1>6, <2>1, <2>2, <2>3 DEF LabelPoint, Whole, Types, Working, Ordered, LabelsAreTrue, Told
  <2> QED
    BY <2>5, <2>6, <2>7 DEF Whole
<1>7. CASE LabelRaises
  <2>1. Types' /\ pc' = "patch"
    BY <1>7 DEF LabelRaises, EndPatch, Whole, Types, Working
  <2> QED
    BY <1>7, <2>1, CacheKept DEF LabelRaises
<1>8. CASE WriteIndex
  <2>0. CASE pc' = "aborted"
    <3>1. Types'
      BY <1>8, <2>0 DEF WriteIndex, files, Whole, Types, Working
    <3> QED
      BY <1>8, <2>0, <3>1, CacheKept DEF WriteIndex, files
  <2>1. CASE pc' = "stats" /\ UNCHANGED <<left, rows>>
    <3>1. /\ left # {} /\ UNCHANGED <<K, True>> /\ K \in Keys
          /\ True \in Seq({0, 1}) /\ Len(True) = Points(Current)
      BY <1>8, <2>1, CurrentFacts DEF WriteIndex, Whole, Pending, K, True, Key, Current
    <3>2. label[K] = True
      <4>1. /\ label[K] \in [1..Points(Current) -> {0, 1}]
            /\ at > Points(Current) /\ at \in Nat
        BY <1>8 DEF WriteIndex, Whole, Labelling
      <4>2. \A i \in 1..Points(Current) : label[K][i] = True[i]
        BY <1>8, <3>1, <4>1 DEF WriteIndex, Whole, Labelling
      <4>3. True \in [1..Points(Current) -> {0, 1}]
        BY <3>1
      <4>4. label[K] = [i \in 1..Points(Current) |-> label[K][i]]
        BY <4>1
      <4>5. True = [i \in 1..Points(Current) |-> True[i]]
        BY <4>3
      <4> QED
        BY <4>2, <4>4, <4>5
    <3>3. Types' /\ Labelling' /\ Ordered' /\ LabelsAreTrue'
      BY <1>8, <2>1
         DEF WriteIndex, files, Whole, Types, Working, Labelling, Ordered, LabelsAreTrue, Told
    <3>4. Pending'
      BY <1>8, <2>1, <3>1, <3>2 DEF WriteIndex, files, Whole, Pending
    <3> QED
      BY <3>3, <3>4 DEF Whole
  <2> QED
    BY <1>8, <2>0, <2>1 DEF WriteIndex
<1>9. CASE OpenStats
  <2>1. K \in Keys /\ left # {} /\ UNCHANGED <<K, True>> /\ label[K] = True
        /\ True \in Seq({0, 1})
    BY <1>9, CurrentFacts DEF OpenStats, Whole, Pending, K, True, Key, Current
  <2>2. stats' = [stats EXCEPT ![K] = Torn] /\ UNCHANGED label /\ pc' = "fill"
    BY <1>9 DEF OpenStats, K
  <2>3. Types' /\ Labelling' /\ Pending'
    BY <1>9, <2>1, <2>2 DEF OpenStats, Whole, Types, Working, Labelling, Pending
  <2>4. Ordered' /\ LabelsAreTrue'
    BY <2>1, <2>2, FileAssumption DEF Whole, Types, Working, Ordered, LabelsAreTrue, Told
  <2> QED
    BY <2>3, <2>4 DEF Whole
<1>10. CASE FillStats
  <2>1. K \in Keys /\ left # {} /\ label[K] = True /\ Len(True) = Points(Current)
        /\ True \in Seq({0, 1})
    BY <1>10, CurrentFacts DEF FillStats, Whole, Pending
  <2>2. PICK s : /\ s.of = Current /\ s.cfg = job.cfg
                 /\ s.points = Points(Current) /\ s.ground = Ground(True)
                 /\ stats' = [stats EXCEPT ![K] = s]
    BY <1>10 DEF FillStats, K, True
  <2>3. UNCHANGED label /\ pc' = "patch" /\ Types'
    BY <1>10, <2>2 DEF FillStats, EndPatch, Whole, Types, Working
  <2>4. Ordered'
    BY <2>1, <2>2, <2>3, FileAssumption DEF Whole, Types, Working, Ordered
  <2>5. LabelsAreTrue'
    <3>1. stats'[K] = s /\ label'[K] = Truth[s.of][s.cfg]
      BY <2>1, <2>2, <2>3 DEF Whole, Types, Working, True
    <3>2. s.points = Len(label'[K]) /\ s.ground = Ground(label'[K])
      BY <2>1, <2>2, <2>3
    <3>3. \A k \in Keys : k # K => stats'[k] = stats[k] /\ label'[k] = label[k]
      BY <2>2, <2>3 DEF Whole, Types, Working
    <3> QED
      BY <3>1, <3>2, <3>3 DEF Whole, LabelsAreTrue, Told
  <2>6. Labelling' /\ Pending'
    BY <2>3 DEF Labelling, Pending
  <2> QED
    BY <2>3, <2>4, <2>5, <2>6 DEF Whole
<1>11. CASE OpenManifest \/ WriteManifest \/ Crash
  <2>1. Types' /\ pc' \in {"manifest", "done", "crashed"} /\ UNCHANGED <<label, stats>>
    <3>1. CASE OpenManifest
      BY <3>1 DEF OpenManifest, Whole, Types, Working
    <3>2. CASE WriteManifest
      BY <3>2 DEF WriteManifest, Whole, Types, Working
    <3>3. CASE Crash
      BY <3>3 DEF Crash, files, Whole, Types, Working
    <3> QED
      BY <1>11, <3>1, <3>2, <3>3
  <2> QED
    BY <2>1, CacheKept
<1> QED
  BY <1>1, <1>2, <1>3, <1>4, <1>5, <1>6, <1>7, <1>8, <1>9, <1>10, <1>11 DEF Batch

(* Once a batch was forced nothing more is claimed, and until then every   *)
(* step was one of a batch that resumes.                                   *)
LEMMA ForcedStays == [Batch]_vars /\ Forced => Forced'
<1> SUFFICES ASSUME [Batch]_vars, Forced PROVE Forced'
  OBVIOUS
<1>1. asked \subseteq asked'
  BY DEF Batch, vars, AddPatch, StartBatch, TakeCached, OpenLabel, LabelPoint,
         LabelRaises, WriteIndex, OpenStats, FillStats, OpenManifest,
         WriteManifest, Crash, EndPatch
<1> QED
  BY <1>1 DEF Forced

(* An export touches no label and no statistics.                           *)
LEMMA ExportKeeps ==
    Export => /\ UNCHANGED <<present, left, label, stats, asked>> /\ job'.cfg = job.cfg
              /\ pc' \notin Working
BY DEF Export, StartExport, ReuseCopy, RefuseItem, OpenCopy, WritePoint, WriterRaises,
       CloseCopy, PublishExport, ExportCrash, EndItem, vars, files, Exporting, Ended, Working

LEMMA InvNext == IInv /\ [ExportNext]_allVars => IInv'
<1>1. CASE [Batch]_vars
  BY <1>1, WholeNext, ForcedStays DEF IInv
<1>2. CASE Export
  <2>1. Whole => Whole'
    BY <1>2, ExportKeeps
       DEF Whole, Types, Labelling, Pending, Ordered, LabelsAreTrue, Told, Working
  <2>2. Forced' = Forced
    BY <1>2, ExportKeeps DEF Forced
  <2> QED
    BY <2>1, <2>2 DEF IInv
<1> QED
  BY <1>1, <1>2 DEF ExportNext, allVars

(* While every batch resumes, statistics that parse are those of a whole   *)
(* and true label, for all crashes, parameters, exports and added patches. *)
THEOREM CacheStaysWhole == ExportSpec => []CacheIsWhole
<1>1. ExportInit => IInv
  BY WholeInit DEF IInv, ExportInit
<1>2. IInv => CacheIsWhole
  BY DEF IInv, Whole, CacheIsWhole
<1> QED
  BY <1>1, <1>2, InvNext, PTL DEF ExportSpec

(* What a step may do to the statistics and to a label with statistics.    *)
LEMMA StepKeepsCache ==
    ASSUME Whole, [Batch]_vars
    PROVE  \A k \in Keys : Told(k) => label'[k] = label[k] /\ stats'[k] = stats[k]
<1>1. CASE OpenLabel \/ LabelPoint
  <2>1. left # {} /\ K \in Keys /\ UNCHANGED stats
    BY <1>1, CurrentFacts DEF OpenLabel, LabelPoint, Whole, Pending
  <2>2. stats[K] = Absent
    BY <1>1, <2>1 DEF OpenLabel, LabelPoint, Cached, Whole, Types, Working, Ordered, Pending, K
  <2>3. \A k \in Keys : k # K => label'[k] = label[k]
    <3>1. \E x : label' = [label EXCEPT ![K] = x]
      <4>1. CASE OpenLabel
        BY <4>1 DEF OpenLabel, K
      <4>2. CASE LabelPoint
        BY <4>2 DEF LabelPoint, K
      <4> QED
        BY <1>1, <4>1, <4>2
    <3> QED
      BY <3>1 DEF Whole, Types, Working, Told
  <2> QED
    BY <2>1, <2>2, <2>3 DEF Told
<1>2. CASE OpenStats \/ FillStats
  <2>1. left # {} /\ K \in Keys /\ UNCHANGED label /\ stats[K] \in {Absent, Torn}
    BY <1>2, CurrentFacts DEF OpenStats, FillStats, Whole, Pending
  <2>2. \E x : stats' = [stats EXCEPT ![K] = x]
    BY <1>2 DEF OpenStats, FillStats, K
  <2> QED
    BY <2>1, <2>2 DEF Whole, Types, Working, Told
<1>3. CASE ~(OpenLabel \/ LabelPoint \/ OpenStats \/ FillStats)
  BY <1>3 DEF Batch, vars, files, AddPatch, StartBatch, TakeCached, LabelRaises,
              WriteIndex, OpenManifest, WriteManifest, Crash
<1> QED
  BY <1>1, <1>2, <1>3

(* While every batch resumes, what is in the cache is final.               *)
THEOREM CacheIsFinal == ExportSpec => CachedIsFinal
<1>1. ExportInit => IInv
  BY WholeInit DEF IInv, ExportInit
<1>2. IInv /\ [ExportNext]_allVars =>
          [~Forced' => \A k \in Keys : Told(k) =>
              label'[k] = label[k] /\ stats'[k] = stats[k]]_vars
  <2>1. CASE [Batch]_vars
    BY <2>1, StepKeepsCache, ForcedStays DEF IInv
  <2>2. CASE Export
    BY <2>2, ExportKeeps
  <2> QED
    BY <2>1, <2>2 DEF ExportNext, allVars
<1> QED
  BY <1>1, <1>2, InvNext, PTL DEF ExportSpec, CachedIsFinal
-----------------------------------------------------------------------------
(* The export.  While nothing was added and every batch had configuration  *)
(* c, all that is written about a patch agrees with its true labels under  *)
(* c or claims less: a label or a copy misses ground points and has none   *)
(* that are not there, and a row that passes has the true counts.          *)
Uniform(c) == present \cap Later = {} /\ \A j \in asked : j.cfg = c

Below(s, t) ==
    \E n \in 0..Len(t) :
        s \in [1..n -> {0, 1}] /\ \A i \in 1..n : s[i] = 1 => t[i] = 1
Fills(s, t) ==
    s \in [1..Len(t) -> {0, 1}] /\ \A i \in 1..Len(t) : s[i] = 1 => t[i] = 1
Counts(r, p, c) ==
    r.points = Len(Truth[p][c]) /\ r.ground = Ground(Truth[p][c]) /\ r.points # 0
RowFits(r, c) ==
    r.patch \in present /\ r.key = Key(r.patch) /\ (r.pass => Counts(r, r.patch, c))

Labels(c) ==
    \A p \in present : label[Key(p)] = Absent \/ Fills(label[Key(p)], Truth[p][c])
Statistics(c) ==
    \A p \in present :
        stats[Key(p)] \notin {Absent, Torn} /\ stats[Key(p)].pass => Counts(stats[Key(p)], p, c)
Asked(c) == pc \in Working => job.cfg = c /\ \A r \in rows : RowFits(r, c)
Published(c) ==
    /\ manifest # Absent =>
          /\ \A r \in manifest : RowFits(r, c)
          /\ \A q, r \in manifest : q.patch = r.patch => q = r
    /\ pc = "manifest" => manifest \subseteq rows
Copies(c) ==
    \A p \in present, f \in Formats :
        copy[Key(p)][f] \notin {Absent, Torn} => Below(copy[Key(p)][f], Truth[p][c])
Exported(c) ==
    pc \in Exporting =>
        /\ manifest # Absent /\ items \subseteq manifest
        /\ \A r \in rows :
              /\ r.item \in manifest \ items
              /\ r.pass /\ r.verified /\ r.item.pass =>
                    Existing(r.item.key) = Truth[r.item.patch][c]

(* The copy at hand is a part of a label that is as long as the cloud.     *)
Writing ==
    pc = "write" =>
        /\ items # {} /\ LabelFits /\ fmt \in Formats
        /\ \E n \in 0..Len(label[Item.key]) :
              buf \in [1..n -> {0, 1}] /\ \A i \in 1..n : buf[i] = label[Item.key][i]
        /\ fmt = "las" => copy[Item.key]["laz"] = Absent

Shapes ==
    /\ DOMAIN stats = Keys /\ DOMAIN copy = Keys /\ \A k \in Keys : DOMAIN copy[k] = Formats

Agrees(c) ==
    Labels(c) /\ Statistics(c) /\ Asked(c) /\ Published(c) /\ Copies(c) /\ Exported(c)
        /\ Writing

LEMMA SameGround ==
    ASSUME NEW t \in Seq({0, 1}), NEW s, Below(s, t), Len(s) = Len(t), Ground(s) = Ground(t)
    PROVE  s = t
<1>1. PICK n \in 0..Len(t) : s \in [1..n -> {0, 1}] /\ \A i \in 1..n : s[i] = 1 => t[i] = 1
  BY DEF Below
<1>2. n = Len(t) /\ s \in [1..Len(t) -> {0, 1}] /\ t \in [1..Len(t) -> {0, 1}]
  BY <1>1
<1> DEFINE A == {i \in DOMAIN s : s[i] = 1}
           B == {i \in DOMAIN t : t[i] = 1}
<1>3. A \subseteq B /\ Cardinality(A) = Cardinality(B) /\ B \subseteq 1..Len(t)
  BY <1>1, <1>2 DEF Ground
<1>4. A = B
  <2>1. IsFiniteSet(1..Len(t))
    BY FS_Interval
  <2>2. IsFiniteSet(B)
    BY <1>3, <2>1, FS_Subset
  <2> HIDE DEF A, B
  <2> QED
    BY <1>3, <2>2, FS_Subset
<1>5. \A i \in 1..Len(t) : s[i] = t[i]
  BY <1>2, <1>4
<1> QED
  BY <1>2, <1>5

LEMMA GroundIsNat ==
    ASSUME NEW t \in Seq({0, 1})
    PROVE  Ground(t) \in Nat
<1>1. IsFiniteSet(1..Len(t))
  BY FS_Interval
<1>2. {i \in DOMAIN t : t[i] = 1} \in SUBSET (1..Len(t))
  OBVIOUS
<1>3. IsFiniteSet({i \in DOMAIN t : t[i] = 1})
  BY <1>1, <1>2, FS_Subset
<1> QED
  BY <1>3, FS_CardinalityType DEF Ground

(* What does not pass its own gate has no ground, or no other points.      *)
LEMMA GateCounts ==
    ASSUME NEW n \in Nat, NEW g \in Nat, Gate(n, g)
    PROVE  n # 0
BY DEF Gate

-----------------------------------------------------------------------------
LEMMA SameRoot ==
    ASSUME NEW c \in Cfgs, Domains, [ExportNext]_allVars, Uniform(c)'
    PROVE  /\ Uniform(c) /\ present' = present /\ \A p : Key(p)' = Key(p)
           /\ \A r : RowFits(r, c)' = RowFits(r, c)
           /\ present \subseteq Patches /\ \A p \in present : Key(p) \in Keys
<1>1. ~AddPatch
  BY DEF AddPatch, Uniform
<1>2. present' = present /\ asked \subseteq asked'
  BY <1>1 DEF ExportNext, allVars, Batch, vars, files, StartBatch, TakeCached, OpenLabel,
              LabelPoint, LabelRaises, WriteIndex, OpenStats, FillStats, OpenManifest,
              WriteManifest, Crash, EndPatch, Export, StartExport, ReuseCopy, RefuseItem,
              OpenCopy, WritePoint, WriterRaises, CloseCopy, PublishExport, ExportCrash, EndItem
<1>3. Uniform(c)
  BY <1>2 DEF Uniform
<1>4. \A p : Key(p)' = Key(p)
  BY <1>2 DEF Key
<1>5. ASSUME NEW r PROVE RowFits(r, c)' = RowFits(r, c)
  <2>1. Counts(r, r.patch, c)' = Counts(r, r.patch, c)
    BY DEF Counts
  <2> QED
    BY <1>2, <1>4, <2>1 DEF RowFits
<1>6. present \subseteq Patches /\ \A p \in present : Key(p) \in Keys
  BY DEF Domains, Key, Keys
<1> QED
  BY <1>2, <1>3, <1>4, <1>5, <1>6

(* Whatever a step does to a label leaves it a part of the truth.          *)
LEMMA LabelsNext ==
    ASSUME NEW c \in Cfgs, Steady, Agrees(c), [ExportNext]_allVars, Uniform(c)'
    PROVE  Labels(c)'
<1>1. /\ present' = present /\ \A p : Key(p)' = Key(p)
      /\ present \subseteq Patches /\ \A p \in present : Key(p) \in Keys
  BY SameRoot DEF Steady
<1>2. ASSUME NEW l, pc \in Working, left # {}, label' = [label EXCEPT ![K] = l],
             Fills(l, Truth[Current][c])
      PROVE  Labels(c)'
  <2>1. Current \in present /\ K = Key(Current) /\ DOMAIN label = Keys
    BY <1>2, PatchFacts DEF Steady, Domains, K
  <2>2. ASSUME NEW p \in present
        PROVE  label'[Key(p)] = Absent \/ Fills(label'[Key(p)], Truth[p][c])
    <3>1. CASE p = Current
      BY <1>1, <1>2, <2>1, <3>1
    <3>2. CASE p # Current
      <4>1. Key(p) # K
        BY <1>1, <2>1, <3>2, KeysDiffer DEF Key
      <4>2. label'[Key(p)] = label[Key(p)]
        BY <1>1, <1>2, <2>1, <4>1
      <4> QED
        BY <4>2 DEF Agrees, Labels
    <3> QED
      BY <3>1, <3>2
  <2> QED
    BY <1>1, <2>2 DEF Labels
<1>3. CASE OpenLabel
  <2>1. /\ pc \in Working /\ left # {} /\ job.cfg = c
        /\ label' = [label EXCEPT ![K] = [i \in 1..Points(Current) |-> 0]]
    BY <1>3 DEF OpenLabel, K, Working, Agrees, Asked
  <2>2. Len(Truth[Current][c]) = Points(Current)
    BY <2>1, PatchFacts DEF Steady, True
  <2>3. Fills([i \in 1..Points(Current) |-> 0], Truth[Current][c])
    BY <2>2 DEF Fills
  <2> QED
    BY <1>2, <2>1, <2>3
<1>4. CASE LabelPoint
  <2>1. /\ pc \in Working /\ pc = "label" /\ left # {} /\ job.cfg = c /\ at <= Points(Current)
        /\ label' = [label EXCEPT ![K] = [label[K] EXCEPT ![at] = True[at]]]
    BY <1>4 DEF LabelPoint, K, True, Working, Agrees, Asked, Steady, Progress
  <2>2. /\ True \in Seq({0, 1}) /\ Len(True) = Points(Current) /\ Current \in present
        /\ True = Truth[Current][c]
    BY <2>1, PatchFacts DEF Steady, Domains, True
  <2>3. at \in 1..Points(Current) /\ label[K] \in [1..Points(Current) -> {0, 1}]
    BY <2>1, <2>2 DEF Steady, Labelling
  <2>4. Fills(label[K], True)
    <3>1. label[K] # Absent
      BY <2>2, <2>3, FileAssumption
    <3> QED
      BY <2>2, <3>1 DEF Agrees, Labels, K
  <2>5. Fills([label[K] EXCEPT ![at] = True[at]], True)
    BY <2>2, <2>3, <2>4 DEF Fills
  <2> QED
    BY <1>2, <2>1, <2>2, <2>5
<1>5. CASE UNCHANGED label
  BY <1>1, <1>5 DEF Agrees, Labels
<1> QED
  BY <1>3, <1>4, <1>5
     DEF ExportNext, allVars, Batch, vars, files, AddPatch, StartBatch, TakeCached,
         LabelRaises, WriteIndex, OpenStats, FillStats, OpenManifest,
         WriteManifest, Crash, EndPatch, Export, StartExport, ReuseCopy, RefuseItem,
         OpenCopy, WritePoint, WriterRaises, CloseCopy, PublishExport, ExportCrash, EndItem

(* Statistics that say a patch passes have the true counts.                *)
LEMMA StatisticsNext ==
    ASSUME NEW c \in Cfgs, Steady, Shapes, Agrees(c), [ExportNext]_allVars, Uniform(c)'
    PROVE  Statistics(c)'
<1>1. /\ present' = present /\ \A p : Key(p)' = Key(p)
      /\ present \subseteq Patches /\ \A p \in present : Key(p) \in Keys
  BY SameRoot DEF Steady
<1>2. ASSUME NEW s, pc \in Working, left # {}, stats' = [stats EXCEPT ![K] = s],
             s = Torn \/ (s.pass => Counts(s, Current, c))
      PROVE  Statistics(c)'
  <2>1. Current \in present /\ K = Key(Current) /\ DOMAIN stats = Keys
    BY <1>2, PatchFacts DEF Steady, Domains, K, Shapes
  <2>2. ASSUME NEW p \in present
        PROVE  stats'[Key(p)] \notin {Absent, Torn} /\ stats'[Key(p)].pass
                   => Counts(stats'[Key(p)], p, c)
    <3>1. CASE p = Current
      BY <1>1, <1>2, <2>1, <3>1
    <3>2. CASE p # Current
      <4>1. Key(p) # K
        BY <1>1, <2>1, <3>2, KeysDiffer DEF Key
      <4>2. stats'[Key(p)] = stats[Key(p)]
        BY <1>1, <1>2, <2>1, <4>1
      <4> QED
        BY <4>2 DEF Agrees, Statistics
    <3> QED
      BY <3>1, <3>2
  <2> QED
    BY <1>1, <2>2 DEF Statistics, Counts
<1>3. CASE OpenStats
  <2>1. pc \in Working /\ left # {} /\ stats' = [stats EXCEPT ![K] = Torn]
    BY <1>3 DEF OpenStats, Steady, Progress, Working, K
  <2> QED
    BY <1>2, <2>1
<1>4. CASE FillStats
  <2>1. pc \in Working /\ left # {} /\ job.cfg = c
    BY <1>4 DEF FillStats, Steady, Progress, Working, Agrees, Asked
  <2>2. /\ True \in Seq({0, 1}) /\ Len(True) = Points(Current)
        /\ True = Truth[Current][c]
    BY <2>1, PatchFacts DEF Steady, True
  <2>3. PICK s : /\ s.points = Points(Current) /\ s.ground = Ground(True)
                 /\ s.pass = Gate(Points(Current), Ground(True))
                 /\ stats' = [stats EXCEPT ![K] = s]
    BY <1>4 DEF FillStats, K, True
  <2>4. Ground(True) \in Nat
    BY <2>2, GroundIsNat
  <2>5. s.pass => Counts(s, Current, c)
    BY <2>2, <2>3, <2>4, GateCounts DEF Counts
  <2> QED
    BY <1>2, <2>1, <2>3, <2>5
<1>5. CASE UNCHANGED stats
  BY <1>1, <1>5 DEF Agrees, Statistics, Counts
<1> QED
  BY <1>3, <1>4, <1>5
     DEF ExportNext, allVars, Batch, vars, files, AddPatch, StartBatch, TakeCached,
         LabelRaises, WriteIndex, OpenLabel, LabelPoint, OpenManifest,
         WriteManifest, Crash, EndPatch, Export, StartExport, ReuseCopy, RefuseItem,
         OpenCopy, WritePoint, WriterRaises, CloseCopy, PublishExport, ExportCrash, EndItem
(* Rows that pass say what the statistics do, and no row of the manifest   *)
(* says more.                                                              *)
LEMMA AskedNext ==
    ASSUME NEW c \in Cfgs, Steady, Agrees(c), [ExportNext]_allVars, Uniform(c)'
    PROVE  Asked(c)'
<1>1. /\ present' = present /\ \A p : Key(p)' = Key(p)
      /\ \A r : RowFits(r, c)' = RowFits(r, c)
  BY SameRoot DEF Steady
<1>2. CASE pc' \notin Working
  BY <1>2 DEF Asked
<1>3. CASE StartBatch
  BY <1>3 DEF StartBatch, Asked, Uniform
<1>4. ASSUME NEW row, pc \in Working, EndPatch(row), RowFits(row, c)
      PROVE  Asked(c)'
  BY <1>1, <1>4 DEF EndPatch, Asked, Agrees
<1>5. CASE TakeCached
  <2>1. left # {} /\ pc = "patch"
    BY <1>5 DEF TakeCached
  <2>2. Current \in present /\ stats[Key(Current)] # Absent
    BY <1>5, <2>1, PatchFacts DEF Steady, Domains, TakeCached, Cached
  <2>3. CASE pc' = "aborted"
    BY <2>3 DEF Asked, Working
  <2>4. CASE stats[Key(Current)] # Torn /\ EndPatch(StatsRow(Current, stats[Key(Current)]))
    <3>1. stats[Key(Current)].pass => Counts(stats[Key(Current)], Current, c)
      BY <2>2, <2>4 DEF Agrees, Statistics
    <3>2. RowFits(StatsRow(Current, stats[Key(Current)]), c)
      BY <2>2, <3>1 DEF RowFits, StatsRow, Counts
    <3> QED
      BY <1>4, <2>1, <2>4, <3>2 DEF Working
  <2> QED
    BY <1>5, <2>3, <2>4 DEF TakeCached
<1>6. CASE LabelRaises
  <2>1. left # {} /\ pc \in Working /\ EndPatch(FailRow(Current))
    BY <1>6 DEF LabelRaises, Steady, Progress, Working
  <2>2. Current \in present
    BY <2>1, PatchFacts DEF Steady, Domains
  <2>3. RowFits(FailRow(Current), c)
    BY <2>2 DEF RowFits, FailRow
  <2> QED
    BY <1>4, <2>1, <2>3
<1>7. CASE FillStats
  <2>1. pc \in Working /\ left # {} /\ job.cfg = c
    BY <1>7 DEF FillStats, Steady, Progress, Working, Agrees, Asked
  <2>2. /\ True \in Seq({0, 1}) /\ Len(True) = Points(Current)
        /\ True = Truth[Current][c] /\ Current \in present
    BY <2>1, PatchFacts DEF Steady, Domains, True
  <2>3. PICK s : /\ s.points = Points(Current) /\ s.ground = Ground(True)
                 /\ s.pass = Gate(Points(Current), Ground(True))
                 /\ EndPatch(StatsRow(Current, s))
    BY <1>7 DEF FillStats, True
  <2>4. s.pass => Counts(s, Current, c)
    BY <2>2, <2>3, GroundIsNat, GateCounts DEF Counts
  <2>5. RowFits(StatsRow(Current, s), c)
    BY <2>2, <2>4 DEF RowFits, StatsRow, Counts
  <2> QED
    BY <1>4, <2>1, <2>3, <2>5
<1>8. CASE pc \in Working /\ UNCHANGED <<job, rows>>
  BY <1>1, <1>8 DEF Agrees, Asked
<1>9. CASE Export
  BY <1>2, <1>9, ExportKeeps
<1> QED
  BY <1>2, <1>3, <1>5, <1>6, <1>7, <1>8, <1>9
     DEF ExportNext, allVars, Batch, vars, files, AddPatch, OpenLabel, LabelPoint, WriteIndex,
         OpenStats, OpenManifest, WriteManifest, Crash, Ended, Working

LEMMA PublishedNext ==
    ASSUME NEW c \in Cfgs, Steady, Agrees(c), [ExportNext]_allVars, Uniform(c)'
    PROVE  Published(c)'
<1>1. \A r : RowFits(r, c)' = RowFits(r, c)
  BY SameRoot DEF Steady
<1>2. CASE OpenManifest
  <2>1. manifest' = {} /\ pc' = "manifest"
    BY <1>2 DEF OpenManifest
  <2> QED
    BY <2>1 DEF Published
<1>3. CASE WriteManifest
  <2>1. pc = "manifest" /\ manifest \subseteq rows
    BY <1>3 DEF WriteManifest, Agrees, Published
  <2>2. CASE UNCHANGED manifest /\ pc' = "done"
    BY <1>1, <2>1, <2>2 DEF Agrees, Published
  <2>3. CASE UNCHANGED <<pc, rows>> /\ manifest # rows
             /\ manifest' = manifest \cup {CHOOSE r \in rows \ manifest : TRUE}
    <3>1. manifest' \subseteq rows
      BY <2>1, <2>3
    <3>2. /\ \A r \in rows : RowFits(r, c)
          /\ \A q, r \in rows : q.patch = r.patch => q = r
      BY <2>1 DEF Agrees, Asked, Steady, Progress, Working
    <3> QED
      BY <1>1, <2>1, <2>3, <3>1, <3>2 DEF Published
  <2> QED
    BY <1>3, <2>2, <2>3 DEF WriteManifest
<1>4. CASE UNCHANGED manifest /\ (pc' # "manifest" \/ UNCHANGED <<pc, rows>>)
  BY <1>1, <1>4 DEF Agrees, Published
<1>5. CASE Export
  <2>1. UNCHANGED manifest /\ pc' # "manifest"
    BY <1>5, ExportKeeps
       DEF Export, StartExport, ReuseCopy, RefuseItem, OpenCopy, WritePoint, WriterRaises,
           CloseCopy, PublishExport, ExportCrash, EndItem, vars, files, Working
  <2> QED
    BY <1>4, <2>1
<1> QED
  BY <1>2, <1>3, <1>4, <1>5
     DEF ExportNext, allVars, Batch, vars, files, AddPatch, StartBatch, TakeCached, OpenLabel,
         LabelPoint, LabelRaises, WriteIndex, OpenStats, FillStats, Crash, EndPatch, Ended
-----------------------------------------------------------------------------
(* The item at hand, and what an export step does with it.                 *)
LEMMA ItemFacts ==
    ASSUME NEW c \in Cfgs, Steady, Agrees(c), pc \in Exporting, items # {}
    PROVE  /\ Item \in items /\ Item \in manifest /\ RowFits(Item, c)
           /\ Item.patch \in present /\ Item.key = Key(Item.patch) /\ Item.key \in Keys
           /\ Truth[Item.patch][c] \in Seq({0, 1})
           /\ Points(Item.patch) = Len(Truth[Item.patch][c])
<1>1. Item \in items
  BY DEF Item
<1>2. Item \in manifest /\ RowFits(Item, c)
  BY <1>1 DEF Agrees, Exported, Published
<1>3. Item.patch \in present /\ Item.key = Key(Item.patch) /\ present \subseteq Patches
  BY <1>2 DEF RowFits, Steady, Domains
<1>4. Item.key \in Keys
  BY <1>3 DEF Key, Keys
<1>5. (CHOOSE d \in Cfgs : TRUE) \in Cfgs
  OBVIOUS
<1>6. Points(Item.patch) = Len(Truth[Item.patch][c])
  BY <1>3, <1>5, PatchesAssumption DEF Points
<1> QED
  BY <1>1, <1>2, <1>3, <1>4, <1>6, PatchesAssumption

(* No other row of the manifest goes with the directory of the item.       *)
LEMMA OtherItems ==
    ASSUME NEW c \in Cfgs, Steady, Agrees(c), pc \in Exporting, items # {},
           NEW r \in rows
    PROVE  r.item.key # Item.key /\ r.item.key \in Keys
<1>1. Item \in items /\ Item \in manifest /\ Item.patch \in present /\ Item.key = Key(Item.patch)
  BY ItemFacts
<1>2. r.item \in manifest \ items /\ manifest # Absent
  BY DEF Agrees, Exported
<1>3. r.item.patch \in present /\ r.item.key = Key(r.item.patch)
  BY <1>2 DEF Agrees, Published, RowFits
<1>4. r.item.patch # Item.patch
  BY <1>1, <1>2 DEF Agrees, Published
<1>5. present \subseteq Patches
  BY DEF Steady, Domains
<1> QED
  BY <1>1, <1>3, <1>4, <1>5, KeysDiffer DEF Key, Keys

(* What was written is a part of the truth about its patch.                *)
LEMMA BufferFits ==
    ASSUME NEW c \in Cfgs, Steady, Agrees(c), pc = "write"
    PROVE  /\ Below(buf, Truth[Item.patch][c]) /\ fmt \in Formats /\ items # {}
           /\ buf # Absent
<1>1. /\ items # {} /\ LabelFits /\ fmt \in Formats
      /\ \E n \in 0..Len(label[Item.key]) :
            buf \in [1..n -> {0, 1}] /\ \A i \in 1..n : buf[i] = label[Item.key][i]
  BY DEF Agrees, Writing
<1>2. /\ Item.patch \in present /\ Item.key = Key(Item.patch)
      /\ Truth[Item.patch][c] \in Seq({0, 1})
  BY <1>1, ItemFacts DEF Exporting
<1>3. Fills(label[Item.key], Truth[Item.patch][c])
  BY <1>1, <1>2 DEF LabelFits, Agrees, Labels
<1>4. Len(label[Item.key]) = Len(Truth[Item.patch][c])
  BY <1>2, <1>3 DEF Fills
<1>5. PICK n \in 0..Len(Truth[Item.patch][c]) :
          buf \in [1..n -> {0, 1}] /\ \A i \in 1..n : buf[i] = label[Item.key][i]
  BY <1>1, <1>4
<1>6. \A i \in 1..n : buf[i] = 1 => Truth[Item.patch][c][i] = 1
  BY <1>2, <1>3, <1>5 DEF Fills
<1>7. buf \in Seq({0, 1})
  BY <1>2, <1>5
<1> QED
  BY <1>1, <1>5, <1>6, <1>7, FileAssumption DEF Below

LEMMA CopiesNext ==
    ASSUME NEW c \in Cfgs, Steady, Shapes, Agrees(c), [ExportNext]_allVars, Uniform(c)'
    PROVE  Copies(c)'
<1>1. /\ present' = present /\ \A p : Key(p)' = Key(p)
      /\ present \subseteq Patches /\ \A p \in present : Key(p) \in Keys
  BY SameRoot DEF Steady
<1>2. ASSUME NEW x, pc \in Exporting, items # {}, copy' = [copy EXCEPT ![Item.key] = x],
             \A f \in Formats : \/ x[f] \in {Absent, Torn}
                                \/ x[f] = copy[Item.key][f]
                                \/ Below(x[f], Truth[Item.patch][c])
      PROVE  Copies(c)'
  <2>1. Item.patch \in present /\ Item.key = Key(Item.patch) /\ DOMAIN copy = Keys
    BY <1>2, ItemFacts DEF Shapes
  <2>2. ASSUME NEW p \in present, NEW f \in Formats, copy'[Key(p)][f] \notin {Absent, Torn}
        PROVE  Below(copy'[Key(p)][f], Truth[p][c])
    <3>1. CASE p = Item.patch
      <4>1. copy'[Key(p)][f] = x[f]
        BY <1>1, <1>2, <2>1, <3>1
      <4>2. CASE x[f] = copy[Item.key][f]
        BY <2>1, <2>2, <3>1, <4>1, <4>2 DEF Agrees, Copies
      <4> QED
        BY <1>2, <2>2, <3>1, <4>1, <4>2
    <3>2. CASE p # Item.patch
      <4>1. Key(p) # Item.key
        BY <1>1, <2>1, <3>2, KeysDiffer DEF Key
      <4>2. copy'[Key(p)] = copy[Key(p)]
        BY <1>1, <1>2, <2>1, <4>1
      <4> QED
        BY <2>2, <4>2 DEF Agrees, Copies
    <3> QED
      BY <3>1, <3>2
  <2> QED
    BY <1>1, <2>2 DEF Copies
<1>3. ASSUME NEW y, NEW f \in Formats, pc \in Exporting, items # {},
             copy' = [copy EXCEPT ![Item.key][f] = y],
             y \in {Absent, Torn} \/ Below(y, Truth[Item.patch][c])
      PROVE  Copies(c)'
  <2>1. copy' = [copy EXCEPT ![Item.key] = [copy[Item.key] EXCEPT ![f] = y]]
    BY <1>3
  <2>2. DOMAIN copy[Item.key] = Formats
    BY <1>3, ItemFacts DEF Shapes
  <2>3. \A g \in Formats : \/ [copy[Item.key] EXCEPT ![f] = y][g] = y
                           \/ [copy[Item.key] EXCEPT ![f] = y][g] = copy[Item.key][g]
    BY <2>2
  <2>4. \A g \in Formats :
            \/ [copy[Item.key] EXCEPT ![f] = y][g] \in {Absent, Torn}
            \/ [copy[Item.key] EXCEPT ![f] = y][g] = copy[Item.key][g]
            \/ Below([copy[Item.key] EXCEPT ![f] = y][g], Truth[Item.patch][c])
    BY <1>3, <2>3
  <2> QED
    BY <1>2, <1>3, <2>1, <2>4
<1>4. CASE OpenCopy
  <2>1. /\ pc \in Exporting /\ items # {} /\ "laz" \in Formats
        /\ copy' = [copy EXCEPT ![Item.key]["laz"] = Torn]
    BY <1>4 DEF OpenCopy, Exporting, Formats
  <2> QED
    BY <1>3, <2>1
<1>5. CASE WriterRaises
  <2>1. pc \in Exporting /\ items # {} /\ fmt \in Formats /\ Below(buf, Truth[Item.patch][c])
    BY <1>5, BufferFits DEF WriterRaises, Exporting
  <2>2. CASE copy' = [copy EXCEPT ![Item.key][fmt] = buf]
    BY <1>3, <2>1, <2>2
  <2>3. CASE copy' = [copy EXCEPT ![Item.key] = [laz |-> Absent, las |-> Torn]]
    <3>1. \A f \in Formats : [laz |-> Absent, las |-> Torn][f] \in {Absent, Torn}
      BY DEF Formats
    <3> QED
      BY <1>2, <2>1, <2>3, <3>1
  <2> QED
    BY <1>5, <2>2, <2>3 DEF WriterRaises
<1>6. CASE CloseCopy
  <2>1. pc \in Exporting /\ items # {} /\ fmt \in Formats /\ Below(buf, Truth[Item.patch][c])
    BY <1>6, BufferFits DEF CloseCopy, Exporting
  <2>2. copy' = [copy EXCEPT ![Item.key][fmt] = buf]
    BY <1>6 DEF CloseCopy
  <2> QED
    BY <1>3, <2>1, <2>2
<1>7. CASE UNCHANGED copy
  BY <1>1, <1>7 DEF Agrees, Copies
<1> QED
  BY <1>4, <1>5, <1>6, <1>7
     DEF ExportNext, allVars, exportVars, Export, StartExport, ReuseCopy, RefuseItem,
         WritePoint, PublishExport, ExportCrash
LEMMA ShapesNext == Steady /\ Shapes /\ [ExportNext]_allVars => Shapes'
<1> SUFFICES ASSUME Steady, Shapes, [ExportNext]_allVars PROVE Shapes'
  OBVIOUS
<1>1. DOMAIN stats' = Keys
  BY DEF Shapes, ExportNext, allVars, Batch, vars, files, AddPatch, StartBatch, TakeCached,
         OpenLabel, LabelPoint, LabelRaises, WriteIndex, OpenStats, FillStats, OpenManifest,
         WriteManifest, Crash, EndPatch, Export, StartExport, ReuseCopy, RefuseItem,
         OpenCopy, WritePoint, WriterRaises, CloseCopy, PublishExport, ExportCrash, EndItem
<1>2. /\ DOMAIN copy' = Keys
      /\ \A k \in Keys : DOMAIN copy'[k] = Formats
  <2>1. ASSUME NEW k, NEW x, copy' = [copy EXCEPT ![k] = x], DOMAIN x = Formats
        PROVE  <1>2!1 /\ <1>2!2
    BY <2>1 DEF Shapes
  <2>2. ASSUME NEW k, NEW f, NEW x, copy' = [copy EXCEPT ![k][f] = x]
        PROVE  <1>2!1 /\ <1>2!2
    BY <2>2 DEF Shapes
  <2>3. CASE WriterRaises
    <3>1. CASE copy' = [copy EXCEPT ![Item.key][fmt] = buf]
      BY <2>2, <3>1
    <3>2. CASE copy' = [copy EXCEPT ![Item.key] = [laz |-> Absent, las |-> Torn]]
      <4>1. DOMAIN [laz |-> Absent, las |-> Torn] = Formats
        BY DEF Formats
      <4> QED
        BY <2>1, <3>2, <4>1
    <3> QED
      BY <2>3, <3>1, <3>2 DEF WriterRaises
  <2>4. CASE OpenCopy
    BY <2>2, <2>4 DEF OpenCopy
  <2>5. CASE CloseCopy
    BY <2>2, <2>5 DEF CloseCopy
  <2>6. CASE UNCHANGED copy
    BY <2>6 DEF Shapes
  <2> QED
    BY <2>3, <2>4, <2>5, <2>6
       DEF ExportNext, allVars, exportVars, Export, StartExport, ReuseCopy, RefuseItem,
           WritePoint, PublishExport, ExportCrash
<1> QED
  BY <1>1, <1>2 DEF Shapes

(* The copy being written stays a part of its label.                       *)
LEMMA WritingNext ==
    ASSUME NEW c \in Cfgs, Steady, Shapes, Agrees(c), [ExportNext]_allVars, Uniform(c)'
    PROVE  Writing'
<1>1. CASE pc' # "write"
  BY <1>1 DEF Writing
<1>2. CASE OpenCopy
  <2>1. /\ items # {} /\ LabelFits /\ buf' = <<>> /\ fmt' = "laz"
        /\ UNCHANGED <<items, label>>
    BY <1>2 DEF OpenCopy, files
  <2>2. /\ Fills(label[Item.key], Truth[Item.patch][c])
        /\ Truth[Item.patch][c] \in Seq({0, 1})
    <3>1. /\ Item.patch \in present /\ Item.key = Key(Item.patch)
          /\ Truth[Item.patch][c] \in Seq({0, 1})
      BY <1>2, <2>1, ItemFacts DEF OpenCopy, Exporting
    <3> QED
      BY <2>1, <3>1 DEF LabelFits, Agrees, Labels
  <2>3. Len(label[Item.key]) \in Nat
    BY <2>2 DEF Fills
  <2>4. buf' \in [1..0 -> {0, 1}]
    BY <2>1
  <2>5. \E n \in 0..Len(label[Item.key]) :
            buf' \in [1..n -> {0, 1}] /\ \A i \in 1..n : buf'[i] = label[Item.key][i]
    BY <2>3, <2>4
  <2>6. Item' = Item /\ LabelFits' = LabelFits
    BY <2>1 DEF Item, LabelFits
  <2> QED
    BY <2>1, <2>5, <2>6 DEF Writing, Formats
<1>3. CASE pc = "write" /\ UNCHANGED <<items, label>>
  <2>1. /\ items # {} /\ LabelFits /\ fmt \in Formats
        /\ fmt = "las" => copy[Item.key]["laz"] = Absent
    BY <1>3 DEF Agrees, Writing
  <2>2. PICK n \in 0..Len(label[Item.key]) :
            buf \in [1..n -> {0, 1}] /\ \A i \in 1..n : buf[i] = label[Item.key][i]
    BY <1>3 DEF Agrees, Writing
  <2>3. /\ Fills(label[Item.key], Truth[Item.patch][c])
        /\ Truth[Item.patch][c] \in Seq({0, 1}) /\ Item.key \in Keys
    <3>1. /\ Item.patch \in present /\ Item.key = Key(Item.patch) /\ Item.key \in Keys
          /\ Truth[Item.patch][c] \in Seq({0, 1})
      BY <1>3, <2>1, ItemFacts DEF Exporting
    <3> QED
      BY <2>1, <3>1 DEF LabelFits, Agrees, Labels
  <2>4. /\ Len(label[Item.key]) \in Nat
        /\ label[Item.key] \in [1..Len(label[Item.key]) -> {0, 1}]
    BY <2>3 DEF Fills
  <2>5. Item' = Item /\ LabelFits' = LabelFits
    BY <1>3 DEF Item, LabelFits
  <2>6. CASE WritePoint
    <3>1. /\ Len(buf) < Len(label[Item.key]) /\ UNCHANGED <<copy, fmt>>
          /\ buf' = Append(buf, label[Item.key][Len(buf) + 1])
      BY <2>6 DEF WritePoint
    <3>2. buf \in Seq({0, 1}) /\ Len(buf) = n /\ n + 1 \in 1..Len(label[Item.key])
      BY <2>2, <2>4, <3>1
    <3>3. label[Item.key][n + 1] \in {0, 1}
      BY <2>4, <3>2
    <3>4. buf' \in [1..(n + 1) -> {0, 1}]
      <4>1. buf' \in Seq({0, 1}) /\ Len(buf') = n + 1
        BY <3>1, <3>2, <3>3
      <4> QED
        BY <4>1
    <3>5. \A i \in 1..(n + 1) : buf'[i] = label[Item.key][i]
      BY <2>2, <3>1, <3>2
    <3>6. \E m \in 0..Len(label[Item.key]) :
              buf' \in [1..m -> {0, 1}] /\ \A i \in 1..m : buf'[i] = label[Item.key][i]
      BY <3>2, <3>4, <3>5
    <3> QED
      BY <1>3, <2>1, <2>5, <3>1, <3>6 DEF Writing
  <2>7. CASE WriterRaises /\ fmt' = "las"
    <3>1. /\ buf' = <<>>
          /\ copy' = [copy EXCEPT ![Item.key] = [laz |-> Absent, las |-> Torn]]
      BY <2>7 DEF WriterRaises
    <3>2. copy'[Item.key]["laz"] = Absent
      BY <2>3, <3>1 DEF Shapes
    <3>3. buf' \in [1..0 -> {0, 1}]
      BY <3>1
    <3>4. \E m \in 0..Len(label[Item.key]) :
              buf' \in [1..m -> {0, 1}] /\ \A i \in 1..m : buf'[i] = label[Item.key][i]
      BY <2>4, <3>3
    <3> QED
      BY <1>3, <2>1, <2>5, <2>7, <3>2, <3>4 DEF Writing, Formats
  <2>8. CASE UNCHANGED <<copy, fmt, buf>>
    BY <1>3, <2>1, <2>2, <2>5, <2>8 DEF Writing
  <2>9. CASE WriterRaises /\ fmt' # "las"
    BY <1>1, <2>9 DEF WriterRaises, EndItem
  <2>10. CASE ~(WritePoint \/ WriterRaises \/ UNCHANGED <<copy, fmt, buf>>)
    BY <1>1, <1>3, <2>10
       DEF ExportNext, allVars, exportVars, Export, StartExport, ReuseCopy, RefuseItem,
           OpenCopy, CloseCopy, PublishExport, ExportCrash, EndItem
  <2> QED
    BY <2>6, <2>7, <2>8, <2>9, <2>10
<1> QED
  <2>1. CASE Batch
    BY <1>1, <2>1
       DEF Batch, AddPatch, StartBatch, TakeCached, OpenLabel, LabelPoint, LabelRaises,
           WriteIndex, OpenStats, FillStats, OpenManifest, WriteManifest, Crash, EndPatch, Ended
  <2>2. CASE ~Batch
    BY <1>1, <1>2, <1>3, <2>2
       DEF ExportNext, allVars, exportVars, vars, files, Export, StartExport, ReuseCopy, RefuseItem,
           WritePoint, WriterRaises, CloseCopy, PublishExport, ExportCrash, EndItem, Ended
  <2> QED
    BY <2>1, <2>2
(* What the export has let pass by then is the truth.                      *)
LEMMA ExportedNext ==
    ASSUME NEW c \in Cfgs, Steady, Shapes, Agrees(c), [ExportNext]_allVars, Uniform(c)'
    PROVE  Exported(c)'
<1> DEFINE Good(r) == /\ r.item \in manifest \ items
                      /\ r.pass /\ r.verified /\ r.item.pass =>
                             Existing(r.item.key) = Truth[r.item.patch][c]
<1>1. CASE pc' \notin Exporting
  BY <1>1 DEF Exported
<1>2. CASE StartExport /\ pc' \in Exporting
  <2>1. manifest # Absent /\ items' = manifest /\ rows' = {} /\ UNCHANGED manifest
    BY <1>2 DEF StartExport, files, Exporting
  <2> QED
    BY <2>1 DEF Exported
<1>3. ASSUME pc \in Exporting, items # {}, NEW pass, EndItem(pass),
             \A r \in rows : Existing(r.item.key)' = Existing(r.item.key),
             NEW k, k = Item.key,
             pass /\ job.verify /\ Item.pass => Existing(k)' = Truth[Item.patch][c]
      PROVE  Exported(c)'
  <2> DEFINE new == [item |-> Item, pass |-> pass, verified |-> job.verify]
  <2>1. /\ rows' = rows \cup {new} /\ items' = items \ {Item}
        /\ UNCHANGED manifest
    BY <1>3 DEF EndItem, files
  <2>2. /\ manifest # Absent /\ items \subseteq manifest
        /\ \A r \in rows : Good(r)
    BY <1>3 DEF Agrees, Exported
  <2>3. Item \in manifest /\ Item \in items
    BY <1>3, ItemFacts
  <2>4. new.item = Item /\ new.pass = pass /\ new.verified = job.verify
    OBVIOUS
  <2> HIDE DEF new
  <2>5. \A r \in rows' : r.item \in manifest' \ items'
    BY <2>1, <2>2, <2>3, <2>4
  <2>6. \A r \in rows' : r.pass /\ r.verified /\ r.item.pass =>
            Existing(r.item.key)' = Truth[r.item.patch][c]
    BY <1>3, <2>1, <2>2, <2>4
  <2> QED
    BY <2>1, <2>2, <2>5, <2>6 DEF Exported, Existing
<1>4. ASSUME pc \in Exporting, items # {}, NEW x, copy' = [copy EXCEPT ![Item.key] = x]
      PROVE  \A r \in rows : Existing(r.item.key)' = Existing(r.item.key)
  <2>1. \A r \in rows : r.item.key # Item.key /\ r.item.key \in Keys
    BY <1>4, OtherItems
  <2>2. \A r \in rows : copy'[r.item.key] = copy[r.item.key]
    BY <1>4, <2>1 DEF Shapes
  <2> QED
    BY <2>2 DEF Existing
<1>5. ASSUME pc \in Exporting, items # {}, NEW x, NEW f, copy' = [copy EXCEPT ![Item.key][f] = x]
      PROVE  \A r \in rows : Existing(r.item.key)' = Existing(r.item.key)
  BY <1>4, <1>5
<1>6. CASE ReuseCopy
  <2> DEFINE kept == IF Existing(Item.key) = Torn THEN <<>> ELSE Existing(Item.key)
  <2>1. /\ pc \in Exporting /\ items # {} /\ UNCHANGED copy
        /\ Existing(Item.key) # Absent
        /\ EndItem(job.verify => Len(kept) = Item.points /\ Ground(kept) = Item.ground)
    BY <1>6 DEF ReuseCopy, Reused, Exporting
  <2>2. /\ Item.patch \in present /\ Item.key = Key(Item.patch) /\ RowFits(Item, c)
        /\ Truth[Item.patch][c] \in Seq({0, 1})
    BY <2>1, ItemFacts
  <2>3. Existing(Item.key) # Torn => Below(Existing(Item.key), Truth[Item.patch][c])
    BY <2>1, <2>2 DEF Existing, Agrees, Copies, Formats
  <2>4. ASSUME job.verify => Len(kept) = Item.points /\ Ground(kept) = Item.ground,
               job.verify, Item.pass
        PROVE  Existing(Item.key) = Truth[Item.patch][c]
    <3>1. Counts(Item, Item.patch, c)
      BY <2>2, <2>4 DEF RowFits
    <3>2. Existing(Item.key) # Torn
      <4>1. Len(kept) # 0
        BY <2>4, <3>1 DEF Counts
      <4> QED
        BY <4>1
    <3>3. kept = Existing(Item.key)
      BY <3>2
    <3> HIDE DEF kept
    <3> QED
      BY <2>2, <2>3, <2>4, <3>1, <3>2, <3>3, SameGround DEF Counts
  <2>5. \A k : Existing(k)' = Existing(k)
    BY <2>1 DEF Existing
  <2>6. \A r \in rows : Existing(r.item.key)' = Existing(r.item.key)
    BY <2>5
  <2> DEFINE pass == job.verify => Len(kept) = Item.points /\ Ground(kept) = Item.ground
  <2>7. EndItem(pass) /\ (pass /\ job.verify /\ Item.pass => Existing(Item.key) = Truth[Item.patch][c])
    BY <2>1, <2>4
  <2> HIDE DEF pass, kept
  <2> QED
    BY <1>3, <2>1, <2>5, <2>6, <2>7
<1>7. CASE RefuseItem
  <2>1. pc \in Exporting /\ items # {} /\ UNCHANGED copy /\ EndItem(FALSE)
    BY <1>7 DEF RefuseItem, Exporting
  <2>2. \A r \in rows : Existing(r.item.key)' = Existing(r.item.key)
    BY <2>1 DEF Existing
  <2> QED
    BY <1>3, <2>1, <2>2
<1>8. CASE OpenCopy
  <2>1. /\ pc \in Exporting /\ items # {} /\ copy' = [copy EXCEPT ![Item.key]["laz"] = Torn]
        /\ UNCHANGED <<items, rows, manifest>>
    BY <1>8 DEF OpenCopy, Exporting, files
  <2>2. \A r \in rows : Existing(r.item.key)' = Existing(r.item.key)
    BY <1>5, <2>1
  <2> QED
    BY <2>1, <2>2 DEF Agrees, Exported, Existing
<1>9. CASE WritePoint
  <2>1. UNCHANGED <<items, rows, manifest, copy, pc>>
    BY <1>9 DEF WritePoint, vars, files
  <2> QED
    BY <2>1 DEF Agrees, Exported, Existing
<1>10. CASE WriterRaises
  <2>1. pc \in Exporting /\ items # {}
    BY <1>10, BufferFits DEF WriterRaises, Exporting
  <2>2. CASE copy' = [copy EXCEPT ![Item.key][fmt] = buf] /\ EndItem(FALSE)
    <3>1. \A r \in rows : Existing(r.item.key)' = Existing(r.item.key)
      BY <1>5, <2>1, <2>2
    <3> QED
      BY <1>3, <2>1, <2>2, <3>1
  <2>3. CASE /\ copy' = [copy EXCEPT ![Item.key] = [laz |-> Absent, las |-> Torn]]
             /\ UNCHANGED <<vars, items>>
    <3>1. \A r \in rows : Existing(r.item.key)' = Existing(r.item.key)
      BY <1>4, <2>1, <2>3
    <3> QED
      BY <2>1, <2>3, <3>1 DEF Agrees, Exported, Existing, vars, files
  <2> QED
    BY <1>10, <2>2, <2>3 DEF WriterRaises
<1>11. CASE CloseCopy
  <2>1. /\ pc \in Exporting /\ pc = "write" /\ copy' = [copy EXCEPT ![Item.key][fmt] = buf]
        /\ EndItem(Len(buf) = Item.points /\ Ground(buf) = Item.ground)
    BY <1>11 DEF CloseCopy, Exporting
  <2>2. /\ Below(buf, Truth[Item.patch][c]) /\ fmt \in Formats /\ items # {}
        /\ buf # Absent
    BY <2>1, BufferFits
  <2>3. /\ Item.key \in Keys /\ RowFits(Item, c) /\ Truth[Item.patch][c] \in Seq({0, 1})
    BY <2>1, <2>2, ItemFacts
  <2>4. \A r \in rows : Existing(r.item.key)' = Existing(r.item.key)
    BY <1>5, <2>1, <2>2
  <2>5. \A k : k = Item.key => Existing(k)' = buf
    <3>1. fmt = "las" => copy[Item.key]["laz"] = Absent
      BY <2>1 DEF Agrees, Writing
    <3>2. copy'[Item.key][fmt] = buf /\ (fmt = "las" => copy'[Item.key]["laz"] = Absent)
      BY <2>1, <2>2, <2>3, <3>1 DEF Shapes
    <3>3. fmt = "laz" \/ fmt = "las"
      BY <2>2 DEF Formats
    <3> QED
      BY <2>2, <3>2, <3>3 DEF Existing
  <2>6. ASSUME Len(buf) = Item.points, Ground(buf) = Item.ground, Item.pass
        PROVE  buf = Truth[Item.patch][c]
    BY <2>2, <2>3, <2>6, SameGround DEF RowFits, Counts
  <2> QED
    BY <1>3, <2>1, <2>2, <2>4, <2>5, <2>6
<1> QED
  <2>1. CASE Batch
    BY <1>1, <2>1
       DEF Batch, AddPatch, StartBatch, TakeCached, OpenLabel, LabelPoint, LabelRaises,
           WriteIndex, OpenStats, FillStats, OpenManifest, WriteManifest, Crash, EndPatch,
           Ended, Exporting
  <2>2. CASE PublishExport \/ ExportCrash
    BY <1>1, <2>2 DEF PublishExport, ExportCrash, Exporting
  <2>3. CASE UNCHANGED allVars
    BY <2>3 DEF allVars, exportVars, vars, files, Agrees, Exported, Existing
  <2> QED
    BY <1>1, <1>2, <1>6, <1>7, <1>8, <1>9, <1>10, <1>11, <2>1, <2>2, <2>3 DEF ExportNext, Export

-----------------------------------------------------------------------------
Truthful == Steady /\ Shapes /\ \A c \in Cfgs : Uniform(c) => Agrees(c)

LEMMA TruthfulInit == ExportInit => Truthful
<1> SUFFICES ASSUME ExportInit PROVE Truthful
  OBVIOUS
<1>1. Steady
  BY SteadyInit DEF ExportInit
<1>2. Shapes
  BY DEF ExportInit, Init, Shapes
<1>3. ASSUME NEW c \in Cfgs PROVE Agrees(c)
  <2>1. \A p \in present : Key(p) \in Keys
    BY <1>1 DEF Steady, Domains, Key, Keys
  <2>2. Labels(c) /\ Statistics(c) /\ Copies(c)
    BY <2>1 DEF ExportInit, Init, Labels, Statistics, Copies
  <2>3. Asked(c) /\ Published(c) /\ Exported(c) /\ Writing
    BY DEF ExportInit, Init, Asked, Published, Exported, Writing, Working, Exporting
  <2> QED
    BY <2>2, <2>3 DEF Agrees
<1> QED
  BY <1>1, <1>2, <1>3 DEF Truthful

LEMMA TruthfulNext == Truthful /\ [ExportNext]_allVars => Truthful'
<1> SUFFICES ASSUME Truthful, [ExportNext]_allVars PROVE Truthful'
  OBVIOUS
<1>1. Steady' /\ Shapes'
  BY SteadyNext, ShapesNext DEF Truthful
<1>2. ASSUME NEW c \in Cfgs, Uniform(c)' PROVE Agrees(c)'
  <2>1. Agrees(c) /\ Steady /\ Shapes
    BY <1>2, SameRoot DEF Truthful, Steady
  <2> QED
    BY <1>2, <2>1, LabelsNext, StatisticsNext, AskedNext, PublishedNext, CopiesNext,
       ExportedNext, WritingNext DEF Agrees
<1> QED
  BY <1>1, <1>2 DEF Truthful

(* What an export has verified and let pass is the whole cloud with its    *)
(* true labels, as long as no patch was added and every batch was given    *)
(* the same configuration: whatever crashed, failed, was resumed or was    *)
(* forced before, in batches and in exports.                               *)
THEOREM ExportsAreTrue == ExportSpec => []ExportIsTruth
<1>1. Truthful => ExportIsTruth
  <2> SUFFICES ASSUME Truthful, pc = "item", present \cap Later = {}, NEW r \in rows,
                      r.pass, r.verified, r.item.pass, NEW c \in Cfgs,
                      \A j \in asked : j.cfg = c
               PROVE  Existing(r.item.key) = Truth[r.item.patch][c]
    BY DEF ExportIsTruth
  <2> QED
    BY DEF Truthful, Uniform, Agrees, Exported, Exporting
<1> QED
  BY <1>1, TruthfulInit, TruthfulNext, PTL DEF ExportSpec
-----------------------------------------------------------------------------
(* The migrations.  The directories and their files.                       *)
DiskTypes ==
    /\ DOMAIN disk = Dirs
    /\ \A d \in Dirs : /\ DOMAIN disk[d] = {"there", "patch", "vector", "files"}
                       /\ DOMAIN disk[d].files = Files

JobTypes ==
    migration # Idle =>
        /\ DOMAIN migration = {"script", "apply", "copy", "todo", "at", "ops", "errors",
                               "modify", "undo", "step"}
        /\ migration.script \in Scripts /\ migration.todo \subseteq Dirs

LEMMA EarliestIsOne ==
    ASSUME NEW S, S \subseteq Dirs, S # {}
    PROVE  Earliest(S) \in S
<1> DEFINE I == {i \in DOMAIN DirOrder : DirOrder[i] \in S}
<1>1. DOMAIN DirOrder \subseteq Nat
  BY DirsAssumption
<1>2. I # {} /\ I \subseteq Nat
  BY <1>1 DEF Dirs, ToSet
<1>3. PICK i \in I : \A j \in I : i <= j
  <2> HIDE DEF I
  <2> QED
    BY <1>2, LeastOfSome
<1>4. \E k \in DOMAIN DirOrder :
          DirOrder[k] \in S /\ \A j \in DOMAIN DirOrder : DirOrder[j] \in S => k <= j
  BY <1>3
<1> QED
  BY <1>4 DEF Earliest

LEMMA RunningIsNotIdle ==
    ASSUME NEW m, m.script \in Scripts
    PROVE  m # Idle
BY DEF Scripts, Idle

LEMMA FoundAreDirs ==
    ASSUME NEW script
    PROVE  Found(script) \subseteq Dirs
<1>1. \A id : Siblings(id) \subseteq Dirs
  BY DEF Siblings
<1>2. \A ids : Listed(ids) \subseteq Dirs
  BY <1>1, EarliestIsOne DEF Listed
<1>3. Scanned \subseteq Dirs
  BY DEF Scanned
<1> QED
  BY <1>2, <1>3 DEF Found

(* A step writes into the files of the patch at hand and nowhere else.     *)
SameDirs ==
    \A d \in Dirs : /\ disk'[d].there = disk[d].there
                    /\ disk'[d].patch = disk[d].patch
                    /\ disk'[d].vector = disk[d].vector
                    /\ d # migration.at => disk'[d] = disk[d]

LEMMA DiskStep ==
    ASSUME DiskTypes, [MigrationNext]_migrationVars
    PROVE  DiskTypes' /\ SameDirs
<1>1. ASSUME NEW f, NEW x, disk' = [disk EXCEPT ![migration.at].files[f] = x]
      PROVE  DiskTypes' /\ SameDirs
  BY <1>1 DEF DiskTypes, SameDirs
<1>2. CASE UNCHANGED disk
  BY <1>2 DEF DiskTypes, SameDirs
<1>3. ASSUME NEW o, Done(o) PROVE DiskTypes' /\ SameDirs
  <2>1. CASE o.op = "rename"
    <3>1. disk' = [disk EXCEPT ![migration.at].files[o.to] = disk[migration.at].files[o.file],
                               ![migration.at].files[o.file] = NoFile]
      BY <1>3, <2>1 DEF Done
    <3>2. PICK half : half = [disk EXCEPT ![migration.at].files[o.to] = disk[migration.at].files[o.file]]
      OBVIOUS
    <3>3. disk' = [half EXCEPT ![migration.at].files[o.file] = NoFile]
      BY <3>1, <3>2
    <3>4. /\ DOMAIN half = Dirs
          /\ \A d \in Dirs : /\ DOMAIN half[d] = {"there", "patch", "vector", "files"}
                             /\ DOMAIN half[d].files = Files
                             /\ half[d].there = disk[d].there
                             /\ half[d].patch = disk[d].patch
                             /\ half[d].vector = disk[d].vector
                             /\ d # migration.at => half[d] = disk[d]
      BY <3>2 DEF DiskTypes
    <3> QED
      BY <3>3, <3>4 DEF DiskTypes, SameDirs
  <2>2. CASE o.op # "rename"
    BY <1>1, <1>2, <1>3, <2>2 DEF Done, Put
  <2> QED
    BY <2>1, <2>2
<1>4. ASSUME NEW o, Broken(o) PROVE DiskTypes' /\ SameDirs
  BY <1>1, <1>2, <1>4 DEF Broken, Put
<1>5. CASE Step
  BY <1>3, <1>5 DEF Step
<1>6. CASE StepFails
  BY <1>4, <1>6 DEF StepFails
<1>7. CASE Die
  BY <1>2, <1>4, <1>7 DEF Die
<1> QED
  BY <1>2, <1>5, <1>6, <1>7
     DEF MigrationNext, migrationVars, Start, NextPatch, Manifest, Finish

LEMMA JobStep ==
    ASSUME JobTypes, [MigrationNext]_migrationVars
    PROVE  JobTypes'
<1>1. CASE UNCHANGED migration
  BY <1>1 DEF JobTypes
<1>2. CASE migration' = Idle
  BY <1>2 DEF JobTypes
<1>3. ASSUME NEW script \in Scripts, NEW apply, NEW tiles, Start(script, apply, tiles)
      PROVE  JobTypes'
  <2>1. Found(script) \subseteq Dirs
    BY FoundAreDirs
  <2>2. /\ migration'.script = script /\ migration'.todo = Found(script)
        /\ DOMAIN migration' = {"script", "apply", "copy", "todo", "at", "ops", "errors",
                                "modify", "undo", "step"}
    BY <1>3 DEF Start
  <2> QED
    BY <1>3, <2>1, <2>2 DEF JobTypes
<1>4. CASE NextPatch
  <2>1. PICK d, m1, m2, m3 :
            migration' = [migration EXCEPT !.todo = @ \ {d}, !.at = d, !.ops = m1,
                                           !.errors = m2, !.modify = m3]
    BY <1>4 DEF NextPatch
  <2>2. migration # Idle
    BY <1>4 DEF NextPatch
  <2> QED
    BY <2>1, <2>2 DEF JobTypes
<1>5. CASE Step
  <2>1. PICK m1 : migration' = [migration EXCEPT !.ops = Tail(@), !.undo = m1]
    BY <1>5 DEF Step
  <2>2. migration # Idle
    BY <1>5 DEF Step
  <2> QED
    BY <2>1, <2>2 DEF JobTypes
<1>6. CASE StepFails
  BY <1>6 DEF StepFails, JobTypes
<1>7. CASE Manifest
  <2>1. PICK m1, m2 : migration' = [migration EXCEPT !.step = "end", !.at = TheManifest,
                                                     !.modify = m1, !.ops = m2]
    BY <1>7 DEF Manifest
  <2>2. migration # Idle
    BY <1>7 DEF Manifest
  <2> QED
    BY <2>1, <2>2 DEF JobTypes
<1> QED
  BY <1>1, <1>2, <1>3, <1>4, <1>5, <1>6, <1>7 DEF MigrationNext, migrationVars, Finish, Die
(* What v2 and v4 plan for a directory d: files of O are saved and moved   *)
(* or deleted, files of N are made and are not there yet.                  *)
Ops == {"backup", "rename", "delete", "create", "sweep", "write", "tiles"}
Names == Files \cup {"", "manifest"}
Steps == [op : Ops, file : Names, to : Names]
Makes(o, f) == (o.op = "rename" /\ o.to = f) \/ (o.op = "create" /\ o.file = f)
Saves(o, f) == o.op = "backup" /\ o.file = f
Drops(o, f) == o.op \in {"delete", "sweep"} /\ o.file = f

Belongs(o, O, N) ==
    \/ o.op \in {"backup", "delete"} /\ o.file \in O
    \/ o.op = "rename" /\ o.file \in O /\ o.to \in N
    \/ o.op = "create" /\ o.file \in N

Part(s, d, O, N) ==
    /\ s \in Seq(Steps)
    /\ \A i \in 1..Len(s) : Belongs(s[i], O, N)
    /\ \A i \in 1..Len(s), f \in N : Makes(s[i], f) => ~Is(d, f)
    /\ \A i, j \in 1..Len(s), f \in N : Makes(s[i], f) /\ Makes(s[j], f) => i = j
    /\ \A i, j \in 1..Len(s), f \in O : Saves(s[i], f) /\ Saves(s[j], f) => i = j
    /\ \A i \in 1..Len(s), f \in O : Drops(s[i], f) => \E j \in 1..(i - 1) : Saves(s[j], f)

LEMMA PartsJoin ==
    ASSUME NEW d, NEW a, NEW b, NEW O, NEW P, NEW N, NEW M, Part(a, d, O, N), Part(b, d, P, M),
           O \cap P = {}, N \cap M = {}
    PROVE  Part(a \o b, d, O \cup P, N \cup M)
<1>1. a \in Seq(Steps) /\ b \in Seq(Steps)
  BY DEF Part
<1> DEFINE s == a \o b
           l == Len(a)
<1>2. /\ s \in Seq(Steps) /\ l \in Nat /\ Len(b) \in Nat /\ Len(s) = l + Len(b)
      /\ \A i \in 1..l : s[i] = a[i]
      /\ \A i \in (l + 1)..Len(s) : s[i] = b[i - l] /\ i - l \in 1..Len(b)
  BY <1>1
<1> HIDE DEF s, l
<1>3. \A i \in 1..Len(s) : i \in 1..l \/ i \in (l + 1)..Len(s)
  BY <1>2
<1>4. l = Len(a)
  BY DEF l
<1>5. /\ \A i \in 1..l : Belongs(s[i], O, N)
      /\ \A i \in (l + 1)..Len(s) : Belongs(s[i], P, M)
  BY <1>2, <1>4 DEF Part
<1>6. \A i \in 1..Len(s) : Belongs(s[i], O \cup P, N \cup M)
  BY <1>3, <1>5 DEF Belongs
<1>7. /\ \A i \in 1..l, f \in M : ~Makes(s[i], f)
      /\ \A i \in 1..l, f \in P : ~Saves(s[i], f) /\ ~Drops(s[i], f)
      /\ \A i \in (l + 1)..Len(s), f \in N : ~Makes(s[i], f)
      /\ \A i \in (l + 1)..Len(s), f \in O : ~Saves(s[i], f) /\ ~Drops(s[i], f)
  <2>1. ASSUME NEW o, Belongs(o, O, N)
        PROVE  /\ \A f \in M : ~Makes(o, f)
               /\ \A f \in P : ~Saves(o, f) /\ (o.op # "sweep" => ~Drops(o, f))
               /\ o.op # "sweep"
    BY <2>1 DEF Belongs, Makes, Saves, Drops
  <2>2. ASSUME NEW o, Belongs(o, P, M)
        PROVE  /\ \A f \in N : ~Makes(o, f)
               /\ \A f \in O : ~Saves(o, f) /\ (o.op # "sweep" => ~Drops(o, f))
               /\ o.op # "sweep"
    BY <2>2 DEF Belongs, Makes, Saves, Drops
  <2> QED
    BY <1>5, <2>1, <2>2
<1>8. \A i \in 1..Len(s), f \in N \cup M : Makes(s[i], f) => ~Is(d, f)
  BY <1>2, <1>3, <1>4, <1>7 DEF Part
<1>9. ASSUME NEW i \in 1..Len(s), NEW j \in 1..Len(s), NEW f \in N \cup M,
             Makes(s[i], f), Makes(s[j], f)
      PROVE  i = j
  <2>1. CASE f \in N
    <3>1. i \in 1..l /\ j \in 1..l
      BY <1>3, <1>7, <1>9, <2>1
    <3> QED
      BY <1>2, <1>4, <1>9, <2>1, <3>1 DEF Part
  <2>2. CASE f \in M
    <3>1. i \in (l + 1)..Len(s) /\ j \in (l + 1)..Len(s)
      BY <1>3, <1>7, <1>9, <2>2
    <3>2. i - l = j - l
      BY <1>2, <1>9, <2>2, <3>1 DEF Part
    <3> QED
      BY <1>2, <3>2
  <2> QED
    BY <2>1, <2>2
<1>10. ASSUME NEW i \in 1..Len(s), NEW j \in 1..Len(s), NEW f \in O \cup P,
              Saves(s[i], f), Saves(s[j], f)
       PROVE  i = j
  <2>1. CASE f \in O
    <3>1. i \in 1..l /\ j \in 1..l
      BY <1>3, <1>7, <1>10, <2>1
    <3> QED
      BY <1>2, <1>4, <1>10, <2>1, <3>1 DEF Part
  <2>2. CASE f \in P
    <3>1. i \in (l + 1)..Len(s) /\ j \in (l + 1)..Len(s)
      BY <1>3, <1>7, <1>10, <2>2
    <3>2. i - l = j - l
      BY <1>2, <1>10, <2>2, <3>1 DEF Part
    <3> QED
      BY <1>2, <3>2
  <2> QED
    BY <2>1, <2>2
<1>11. ASSUME NEW i \in 1..Len(s), NEW f \in O \cup P, Drops(s[i], f)
       PROVE  \E j \in 1..(i - 1) : Saves(s[j], f)
  <2>1. CASE f \in O
    <3>1. i \in 1..l
      BY <1>3, <1>7, <1>11, <2>1
    <3>2. PICK j \in 1..(i - 1) : Saves(a[j], f)
      BY <1>2, <1>4, <1>11, <2>1, <3>1 DEF Part
    <3> QED
      BY <1>2, <3>1, <3>2
  <2>2. CASE f \in P
    <3>1. i \in (l + 1)..Len(s)
      BY <1>3, <1>7, <1>11, <2>2
    <3>2. PICK j \in 1..((i - l) - 1) : Saves(b[j], f)
      BY <1>2, <1>11, <2>2, <3>1 DEF Part
    <3>3. j + l \in 1..(i - 1) /\ j + l \in (l + 1)..Len(s) /\ (j + l) - l = j
      BY <1>2, <3>1, <3>2
    <3>4. s[j + l] = b[j]
      BY <1>2, <3>3
    <3> QED
      BY <3>2, <3>3, <3>4
  <2> QED
    BY <2>1, <2>2
<1>12. Part(s, d, O \cup P, N \cup M)
  BY <1>2, <1>6, <1>8, <1>9, <1>10, <1>11 DEF Part
<1> QED
  BY <1>12 DEF s

LEMMA OpTyped ==
    ASSUME NEW o \in Ops, NEW f \in Names, NEW t \in Names
    PROVE  Op(o, f, t) \in Steps
BY DEF Op, Steps

LEMMA Words ==
    /\ "backup" \in Ops /\ "rename" \in Ops /\ "delete" \in Ops /\ "create" \in Ops
    /\ "sweep" \in Ops /\ "" \in Names /\ "gore" \in Names /\ Files \subseteq Names
BY DEF Ops, Names, Files

LEMMA TwoSteps ==
    ASSUME NEW x \in Steps, NEW y \in Steps
    PROVE  /\ <<x, y>> \o <<>> = <<x, y>> /\ <<>> \o <<x, y>> = <<x, y>>
           /\ <<x, y>> \in Seq(Steps) /\ Len(<<x, y>>) = 2
           /\ <<x, y>>[1] = x /\ <<x, y>>[2] = y
OBVIOUS

LEMMA OneStep ==
    ASSUME NEW x \in Steps
    PROVE  <<x>> \in Seq(Steps) /\ Len(<<x>>) = 1 /\ <<x>>[1] = x
OBVIOUS

LEMMA MovesPart ==
    ASSUME NEW d, NEW old \in Files, NEW new \in Files
    PROVE  /\ Part(Moves(d, old, new), d, {old}, IF Renames(d, old, new) THEN {new} ELSE {})
           /\ Is(d, old) => Moves(d, old, new) # <<>> /\ Saves(Moves(d, old, new)[1], old)
           /\ ~Is(d, old) => Moves(d, old, new) = <<>>
<1> DEFINE s == Moves(d, old, new)
           N == IF Renames(d, old, new) THEN {new} ELSE {}
<1>1. CASE Renames(d, old, new)
  <2>1. ~Deletes(d, old, new) /\ Is(d, old) /\ ~Is(d, new)
    BY <1>1 DEF Renames, Deletes
  <2> DEFINE x == Op("backup", old, "")
  <2>2. x \in Steps /\ x.op = "backup" /\ x.file = old /\ x.to = ""
    <3>1. x \in Steps
      BY OpTyped, Words
    <3> QED
      BY <3>1 DEF Op
  <2> DEFINE y == Op("rename", old, new)
  <2>3. y \in Steps /\ y.op = "rename" /\ y.file = old /\ y.to = new
    <3>1. y \in Steps
      BY OpTyped, Words
    <3> QED
      BY <3>1 DEF Op
  <2>4. s = <<x, y>>
    <3>1. s = <<x, y>> \o <<>>
      BY <1>1, <2>1 DEF Moves, When
    <3> HIDE DEF x, y
    <3> QED
      BY <2>2, <2>3, <3>1, TwoSteps
  <2> HIDE DEF s, x, y
  <2>5. s \in Seq(Steps) /\ Len(s) = 2 /\ s[1] = x /\ s[2] = y
    BY <2>2, <2>3, <2>4, TwoSteps
  <2>6. x.op = "backup" /\ x.file = old /\ y.op = "rename" /\ y.file = old /\ y.to = new
    BY <2>2, <2>3
  <2>7. \A i \in 1..2 : i = 1 \/ i = 2
    OBVIOUS
  <2>8. Part(s, d, {old}, {new})
    BY <2>1, <2>5, <2>6, <2>7 DEF Part, Belongs, Makes, Saves, Drops
  <2> QED
    BY <1>1, <2>1, <2>4, <2>5, <2>6, <2>8 DEF Saves, s
<1>2. CASE Deletes(d, old, new)
  <2>1. ~Renames(d, old, new) /\ Is(d, old)
    BY <1>2 DEF Renames, Deletes
  <2> DEFINE x == Op("backup", old, "")
  <2>2. x \in Steps /\ x.op = "backup" /\ x.file = old /\ x.to = ""
    <3>1. x \in Steps
      BY OpTyped, Words
    <3> QED
      BY <3>1 DEF Op
  <2> DEFINE y == Op("delete", old, "")
  <2>3. y \in Steps /\ y.op = "delete" /\ y.file = old /\ y.to = ""
    <3>1. y \in Steps
      BY OpTyped, Words
    <3> QED
      BY <3>1 DEF Op
  <2>4. s = <<x, y>>
    <3>1. s = <<>> \o <<x, y>>
      BY <1>2, <2>1 DEF Moves, When
    <3> HIDE DEF x, y
    <3> QED
      BY <2>2, <2>3, <3>1, TwoSteps
  <2> HIDE DEF s, x, y
  <2>5. s \in Seq(Steps) /\ Len(s) = 2 /\ s[1] = x /\ s[2] = y
    BY <2>2, <2>3, <2>4, TwoSteps
  <2>6. x.op = "backup" /\ x.file = old /\ y.op = "delete" /\ y.file = old
    BY <2>2, <2>3
  <2>7. \A i \in 1..2 : i = 1 \/ i = 2
    OBVIOUS
  <2>8. Part(s, d, {old}, {})
    BY <2>1, <2>5, <2>6, <2>7 DEF Part, Belongs, Makes, Saves, Drops
  <2> QED
    BY <2>1, <2>4, <2>5, <2>6, <2>8 DEF Saves, s
<1>3. CASE ~Is(d, old)
  <2>1. ~Renames(d, old, new) /\ ~Deletes(d, old, new)
    BY <1>3 DEF Renames, Deletes
  <2>2. s = <<>>
    BY <2>1 DEF Moves, When
  <2>3. Part(<<>>, d, {old}, {})
    BY DEF Part
  <2> QED
    BY <1>3, <2>1, <2>2, <2>3
<1> QED
  BY <1>1, <1>2, <1>3 DEF Renames, Deletes

LEMMA CreatePart ==
    ASSUME NEW d, NEW file \in Files, NEW p, p => ~Is(d, file)
    PROVE  Part(When(p, Create(file)), d, {}, IF p THEN {file} ELSE {})
<1>1. CASE ~p
  <2>1. When(p, Create(file)) = <<>>
    BY <1>1 DEF When
  <2>2. Part(<<>>, d, {}, {})
    BY DEF Part
  <2> QED
    BY <1>1, <2>1, <2>2
<1>2. CASE p
  <2> DEFINE x == Op("create", file, "")
  <2>1. x \in Steps /\ x.op = "create" /\ x.file = file /\ x.to = ""
    <3>1. x \in Steps
      BY OpTyped, Words
    <3> QED
      BY <3>1 DEF Op
  <2>2. When(p, Create(file)) = <<x>>
    BY <1>2, <2>1 DEF When, Create
  <2> HIDE DEF x
  <2>3. <<x>> \in Seq(Steps) /\ Len(<<x>>) = 1 /\ <<x>>[1] = x /\ x.op = "create" /\ x.file = file
    BY <2>1, OneStep
  <2>4. Part(<<x>>, d, {}, {file})
    BY <1>2, <2>3 DEF Part, Belongs, Makes, Saves, Drops
  <2> QED
    BY <1>2, <2>2, <2>4
<1> QED
  BY <1>1, <1>2
-----------------------------------------------------------------------------
(* What v2 and v4 still have to do at d loses nothing: a file is deleted   *)
(* only once it is in a backup, nothing is written over what is there, and *)
(* no backup of this run is written over another one.                      *)
Old == {"gore", "Node", "Road"}
Made == {"DivStripZone", "RCSDNode", "RCSDRoad", "intersection_l"}

Unwritten(f, d) == \A s \in saved : s.place # Place(f, d)
Covered(f, d) == disk[d].files[f] = NoFile \/ \E s \in saved : s.data = disk[d].files[f]

Allowed(o, d) ==
    \/ o.op = "backup" /\ (o.file \in Old \/ d = TheManifest)
    \/ o.op \in {"delete", "sweep"} /\ o.file \in Old /\ d \in Dirs
    \/ o.op = "rename" /\ o.file \in Old /\ o.to \in Made /\ d \in Dirs
    \/ o.op = "create" /\ o.file \in Made /\ d \in Dirs
    \/ o.op = "write" /\ d = TheManifest

Guarded(s, d) ==
    /\ s \in Seq(Steps)
    /\ \A i \in 1..Len(s) : Allowed(s[i], d)
    /\ \A i \in 1..Len(s), f \in Made : Makes(s[i], f) => ~Is(d, f)
    /\ \A i, j \in 1..Len(s), f \in Made : Makes(s[i], f) /\ Makes(s[j], f) => i = j
    /\ \A i, j \in 1..Len(s), f \in Names : Saves(s[i], f) /\ Saves(s[j], f) => i = j
    /\ \A i \in 1..Len(s), f \in Names : Saves(s[i], f) => Unwritten(f, d)
    /\ \A i \in 1..Len(s), f \in Old :
           Drops(s[i], f) => Covered(f, d) \/ \E j \in 1..(i - 1) : Saves(s[j], f)

LEMMA OldAndMade ==
    /\ Old \cap Made = {} /\ Old \subseteq Files /\ Made \subseteq Files
    /\ Files \subseteq Names /\ "manifest" \notin Files
BY DEF Old, Made, Files, Names

LEMMA PartIsGuarded ==
    ASSUME NEW d \in Dirs, NEW s, NEW O, NEW N, Part(s, d, O, N), O \subseteq Old, N \subseteq Made,
           \A f \in Files : Unwritten(f, d)
    PROVE  Guarded(s, d)
<1>1. s \in Seq(Steps) /\ \A i \in 1..Len(s) : Belongs(s[i], O, N)
  BY DEF Part
<1>2. \A i \in 1..Len(s) : Allowed(s[i], d)
  BY <1>1 DEF Belongs, Allowed
<1>3. ASSUME NEW i \in 1..Len(s), NEW f
      PROVE  /\ Makes(s[i], f) => f \in N
             /\ Saves(s[i], f) => f \in O
             /\ Drops(s[i], f) => f \in O
  BY <1>1 DEF Belongs, Makes, Saves, Drops
<1>4. \A i \in 1..Len(s), f \in Made : Makes(s[i], f) => ~Is(d, f)
  BY <1>3 DEF Part
<1>5. \A i, j \in 1..Len(s), f \in Made : Makes(s[i], f) /\ Makes(s[j], f) => i = j
  BY <1>3 DEF Part
<1>6. \A i, j \in 1..Len(s), f \in Names : Saves(s[i], f) /\ Saves(s[j], f) => i = j
  BY <1>3 DEF Part
<1>7. \A i \in 1..Len(s), f \in Names : Saves(s[i], f) => Unwritten(f, d)
  BY <1>3, OldAndMade
<1>8. \A i \in 1..Len(s), f \in Old :
          Drops(s[i], f) => Covered(f, d) \/ \E j \in 1..(i - 1) : Saves(s[j], f)
  BY <1>3 DEF Part
<1> QED
  BY <1>1, <1>2, <1>4, <1>5, <1>6, <1>7, <1>8 DEF Guarded

LEMMA SweepIsGuarded ==
    ASSUME NEW d \in Dirs, NEW s, Guarded(s, d),
           Is(d, "gore") => s # <<>> /\ Saves(s[1], "gore")
    PROVE  Guarded(s \o <<Op("sweep", "gore", "")>>, d)
<1> DEFINE x == Op("sweep", "gore", "")
           t == s \o <<x>>
           l == Len(s)
<1>1. x \in Steps /\ x.op = "sweep" /\ x.file = "gore"
  <2>1. x \in Steps
    BY OpTyped, Words
  <2> QED
    BY <2>1 DEF Op
<1> HIDE DEF x
<1>2. s \in Seq(Steps)
  BY DEF Guarded
<1>3. /\ t \in Seq(Steps) /\ l \in Nat /\ Len(t) = l + 1
      /\ \A i \in 1..l : t[i] = s[i]
      /\ t[l + 1] = x
  BY <1>1, <1>2
<1>4. l = Len(s)
  OBVIOUS
<1> HIDE DEF t, l
<1>5. \A i \in 1..Len(t) : i \in 1..l \/ i = l + 1
  BY <1>3
<1>6. Allowed(x, d) /\ \A f : ~Makes(x, f) /\ ~Saves(x, f) /\ (Drops(x, f) => f = "gore")
  BY <1>1 DEF Allowed, Makes, Saves, Drops, Old
<1>7. \A i \in 1..Len(t) : Allowed(t[i], d)
  BY <1>3, <1>4, <1>5, <1>6 DEF Guarded
<1>8. \A i \in 1..Len(t), f \in Made : Makes(t[i], f) => ~Is(d, f)
  BY <1>3, <1>4, <1>5, <1>6 DEF Guarded
<1>9. \A i, j \in 1..Len(t), f \in Made : Makes(t[i], f) /\ Makes(t[j], f) => i = j
  BY <1>3, <1>4, <1>5, <1>6 DEF Guarded
<1>10. \A i, j \in 1..Len(t), f \in Names : Saves(t[i], f) /\ Saves(t[j], f) => i = j
  BY <1>3, <1>4, <1>5, <1>6 DEF Guarded
<1>11. \A i \in 1..Len(t), f \in Names : Saves(t[i], f) => Unwritten(f, d)
  BY <1>3, <1>4, <1>5, <1>6 DEF Guarded
<1>12. ASSUME NEW i \in 1..Len(t), NEW f \in Old, Drops(t[i], f)
       PROVE  Covered(f, d) \/ \E j \in 1..(i - 1) : Saves(t[j], f)
  <2>1. CASE i \in 1..l
    <3>1. Covered(f, d) \/ \E j \in 1..(i - 1) : Saves(s[j], f)
      BY <1>3, <1>4, <1>12, <2>1 DEF Guarded
    <3> QED
      BY <1>3, <2>1, <3>1
  <2>2. CASE i = l + 1
    <3>1. f = "gore"
      BY <1>3, <1>6, <1>12, <2>2
    <3>2. CASE Is(d, "gore")
      <4>1. 1 \in 1..l /\ 1 \in 1..(i - 1)
        BY <1>2, <1>3, <1>4, <2>2, <3>2
      <4> QED
        BY <1>3, <3>1, <3>2, <4>1
    <3>3. CASE ~Is(d, "gore")
      BY <3>1, <3>3 DEF Covered, Is
    <3> QED
      BY <3>2, <3>3
  <2> QED
    BY <1>5, <2>1, <2>2
<1>13. Guarded(t, d)
  BY <1>3, <1>7, <1>8, <1>9, <1>10, <1>11, <1>12 DEF Guarded
<1> QED
  BY <1>13 DEF t, x

LEMMA PlanV4IsGuarded ==
    ASSUME NEW d \in Dirs, \A f \in Files : Unwritten(f, d)
    PROVE  Guarded(PlanV4(d), d)
<1> DEFINE a == Moves(d, "Node", "RCSDNode")
           b == Moves(d, "Road", "RCSDRoad")
           u == When(Creates(d, "Node", "RCSDNode"), Create("RCSDNode"))
           v == When(Creates(d, "Road", "RCSDRoad"), Create("RCSDRoad"))
           A == IF Renames(d, "Node", "RCSDNode") THEN {"RCSDNode"} ELSE {}
           B == IF Renames(d, "Road", "RCSDRoad") THEN {"RCSDRoad"} ELSE {}
           U == IF Creates(d, "Node", "RCSDNode") THEN {"RCSDNode"} ELSE {}
           V == IF Creates(d, "Road", "RCSDRoad") THEN {"RCSDRoad"} ELSE {}
<1>1. "Node" \in Files /\ "Road" \in Files /\ "RCSDNode" \in Files /\ "RCSDRoad" \in Files
  BY DEF Files
<1>2. Part(a, d, {"Node"}, A) /\ Part(b, d, {"Road"}, B)
  BY <1>1, MovesPart
<1>3. Part(u, d, {}, U) /\ Part(v, d, {}, V)
  <2>1. /\ Creates(d, "Node", "RCSDNode") => ~Is(d, "RCSDNode")
        /\ Creates(d, "Road", "RCSDRoad") => ~Is(d, "RCSDRoad")
    BY DEF Creates
  <2> QED
    BY <1>1, <2>1, CreatePart
<1>4. /\ A \cap B = {} /\ (A \cup B) \cap U = {} /\ ((A \cup B) \cup U) \cap V = {}
      /\ ((A \cup B) \cup U) \cup V \subseteq Made
  BY DEF Renames, Creates, Made
<1>5. PlanV4(d) = ((a \o b) \o u) \o v
  BY DEF PlanV4
<1> HIDE DEF a, b, u, v, A, B, U, V
<1>6. Part(a \o b, d, {"Node"} \cup {"Road"}, A \cup B)
  BY <1>2, <1>4, PartsJoin
<1>7. Part((a \o b) \o u, d, ({"Node"} \cup {"Road"}) \cup {}, (A \cup B) \cup U)
  BY <1>3, <1>4, <1>6, PartsJoin
<1>8. Part(((a \o b) \o u) \o v, d, (({"Node"} \cup {"Road"}) \cup {}) \cup {}, ((A \cup B) \cup U) \cup V)
  BY <1>3, <1>4, <1>7, PartsJoin
<1>9. (({"Node"} \cup {"Road"}) \cup {}) \cup {} \subseteq Old
  BY DEF Old
<1> QED
  BY <1>4, <1>5, <1>8, <1>9, PartIsGuarded

LEMMA PlanV2IsGuarded ==
    ASSUME NEW d \in Dirs, \A f \in Files : Unwritten(f, d)
    PROVE  Guarded(PlanV2(d), d)
<1> DEFINE a == Moves(d, "gore", "DivStripZone")
           b == When(Creates(d, "gore", "DivStripZone"), Create("DivStripZone"))
           u == When(~Is(d, "RCSDNode"), Create("RCSDNode"))
           v == When(~Is(d, "intersection_l"), Create("intersection_l"))
           A == IF Renames(d, "gore", "DivStripZone") THEN {"DivStripZone"} ELSE {}
           B == IF Creates(d, "gore", "DivStripZone") THEN {"DivStripZone"} ELSE {}
           U == IF ~Is(d, "RCSDNode") THEN {"RCSDNode"} ELSE {}
           V == IF ~Is(d, "intersection_l") THEN {"intersection_l"} ELSE {}
           s == ((a \o b) \o u) \o v
<1>1. /\ "gore" \in Files /\ "DivStripZone" \in Files /\ "RCSDNode" \in Files
      /\ "intersection_l" \in Files
  BY DEF Files
<1>2. /\ Part(a, d, {"gore"}, A)
      /\ Is(d, "gore") => a # <<>> /\ Saves(a[1], "gore")
  BY <1>1, MovesPart
<1>3. Part(b, d, {}, B) /\ Part(u, d, {}, U) /\ Part(v, d, {}, V)
  <2>1. Creates(d, "gore", "DivStripZone") => ~Is(d, "DivStripZone")
    BY DEF Creates
  <2> QED
    BY <1>1, <2>1, CreatePart
<1>4. /\ A \cap B = {} /\ (A \cup B) \cap U = {} /\ ((A \cup B) \cup U) \cap V = {}
      /\ ((A \cup B) \cup U) \cup V \subseteq Made
  BY DEF Renames, Creates, Made
<1>5. PlanV2(d) = IF s # <<>> THEN s \o <<Op("sweep", "gore", "")>> ELSE <<>>
  BY DEF PlanV2, When
<1> HIDE DEF a, b, u, v, A, B, U, V
<1>6. Part(a \o b, d, {"gore"} \cup {}, A \cup B)
  BY <1>2, <1>3, <1>4, PartsJoin
<1>7. Part((a \o b) \o u, d, ({"gore"} \cup {}) \cup {}, (A \cup B) \cup U)
  BY <1>3, <1>4, <1>6, PartsJoin
<1>8. Part(s, d, (({"gore"} \cup {}) \cup {}) \cup {}, ((A \cup B) \cup U) \cup V)
  BY <1>3, <1>4, <1>7, PartsJoin
<1>9. (({"gore"} \cup {}) \cup {}) \cup {} \subseteq Old
  BY DEF Old
<1>10. Guarded(s, d)
  BY <1>4, <1>8, <1>9, PartIsGuarded
<1>11. Is(d, "gore") => s # <<>> /\ Saves(s[1], "gore")
  <2>1. a \in Seq(Steps) /\ b \in Seq(Steps) /\ u \in Seq(Steps) /\ v \in Seq(Steps)
    BY <1>2, <1>3 DEF Part
  <2>2. a # <<>> => /\ a \o b \in Seq(Steps) /\ a \o b # <<>> /\ (a \o b)[1] = a[1]
    BY <2>1
  <2>3. a # <<>> => /\ (a \o b) \o u \in Seq(Steps) /\ (a \o b) \o u # <<>>
                    /\ ((a \o b) \o u)[1] = a[1]
    BY <2>1, <2>2
  <2>4. a # <<>> => s # <<>> /\ s[1] = a[1]
    BY <2>1, <2>3
  <2> QED
    BY <1>2, <2>4
<1>12. Guarded(<<>>, d)
  BY DEF Guarded
<1> HIDE DEF s
<1> QED
  BY <1>5, <1>10, <1>11, <1>12, SweepIsGuarded
(* What a step that succeeds makes of the files at hand.                   *)
Takes(o, f) == o.op \in {"rename", "delete", "sweep"} /\ o.file = f
Puts(o, f) == (o.op = "rename" /\ o.to = f) \/ (o.op \in {"create", "tiles"} /\ o.file = f)

LEMMA FilesDone ==
    ASSUME DiskTypes, migration.at \in Dirs, NEW o, Done(o),
           o.op \in {"rename", "delete", "sweep", "create", "tiles"} => o.file \in Files,
           o.op = "rename" => o.to \in Files /\ o.to # o.file
    PROVE  LET d == migration.at IN
           /\ \A f \in Files : /\ Takes(o, f) => disk'[d].files[f] = NoFile
                               /\ ~(Takes(o, f) \/ Puts(o, f)) =>
                                      disk'[d].files[f] = disk[d].files[f]
           /\ o.op = "rename" => disk'[d].files[o.to] = disk[d].files[o.file]
           /\ o.op = "create" => disk'[d].files[o.file] = Empty
           /\ o.op = "tiles" => disk'[d].files[o.file] = o.to
           /\ \A e \in Dirs : e # d => disk'[e] = disk[e]
<1> DEFINE d == migration.at
<1>1. CASE o.op = "rename"
  <2>1. disk' = [disk EXCEPT ![d].files[o.to] = disk[d].files[o.file],
                             ![d].files[o.file] = NoFile]
    BY <1>1 DEF Done
  <2>2. PICK half : half = [disk EXCEPT ![d].files[o.to] = disk[d].files[o.file]]
    OBVIOUS
  <2>3. disk' = [half EXCEPT ![d].files[o.file] = NoFile]
    BY <2>1, <2>2
  <2>4. /\ DOMAIN half = Dirs /\ "files" \in DOMAIN half[d] /\ DOMAIN half[d].files = Files
        /\ half[d].files[o.to] = disk[d].files[o.file]
        /\ \A f \in Files : f # o.to => half[d].files[f] = disk[d].files[f]
        /\ \A e \in Dirs : e # d => half[e] = disk[e]
    BY <1>1, <2>2 DEF DiskTypes
  <2>5. /\ disk'[d].files[o.file] = NoFile
        /\ \A f \in Files : f # o.file => disk'[d].files[f] = half[d].files[f]
        /\ \A e \in Dirs : e # d => disk'[e] = half[e]
    BY <1>1, <2>3, <2>4
  <2> QED
    BY <1>1, <2>4, <2>5 DEF Takes, Puts
<1>2. ASSUME NEW x, disk' = [disk EXCEPT ![d].files[o.file] = x], o.file \in Files
      PROVE  /\ disk'[d].files[o.file] = x
             /\ \A f \in Files : f # o.file => disk'[d].files[f] = disk[d].files[f]
             /\ \A e \in Dirs : e # d => disk'[e] = disk[e]
  BY <1>2 DEF DiskTypes
<1>3. CASE o.op \in {"delete", "sweep"}
  <2>1. disk' = [disk EXCEPT ![d].files[o.file] = NoFile]
    BY <1>3 DEF Done, Put
  <2> QED
    BY <1>2, <1>3, <2>1 DEF Takes, Puts
<1>4. CASE o.op = "create"
  <2>1. disk' = [disk EXCEPT ![d].files[o.file] = Empty]
    BY <1>4 DEF Done, Put
  <2> QED
    BY <1>2, <1>4, <2>1 DEF Takes, Puts
<1>5. CASE o.op = "tiles"
  <2>1. disk' = [disk EXCEPT ![d].files[o.file] = o.to]
    BY <1>5 DEF Done, Put
  <2> QED
    BY <1>2, <1>5, <2>1 DEF Takes, Puts
<1>6. CASE o.op \in {"backup", "write"}
  <2>1. UNCHANGED disk
    BY <1>6 DEF Done
  <2> QED
    BY <1>6, <2>1 DEF Takes, Puts
<1> QED
  BY <1>1, <1>3, <1>4, <1>5, <1>6 DEF Done

Moved(o, f) == o.op = "rename" /\ o.file = f

LEMMA DoneFacts ==
    ASSUME DiskTypes, migration.at \in Dirs, NEW o, Allowed(o, migration.at), Done(o)
    PROVE  LET d == migration.at IN
           /\ \A f \in Files :
                 /\ Drops(o, f) \/ Moved(o, f) => disk'[d].files[f] = NoFile
                 /\ ~(Drops(o, f) \/ Moved(o, f) \/ Makes(o, f)) =>
                        disk'[d].files[f] = disk[d].files[f]
           /\ o.op = "rename" => disk'[d].files[o.to] = disk[d].files[o.file]
           /\ o.op = "create" => disk'[d].files[o.file] = Empty
           /\ \A e \in Dirs : e # d => disk'[e] = disk[e]
<1>1. migration.at # TheManifest
  BY DirsAssumption
<1>2. /\ o.op \in {"rename", "delete", "sweep", "create", "tiles"} => o.file \in Files
      /\ o.op = "rename" => o.to \in Files /\ o.to # o.file
      /\ o.op # "tiles"
  BY <1>1, OldAndMade DEF Allowed
<1>3. \A f : /\ Takes(o, f) <=> Drops(o, f) \/ Moved(o, f)
             /\ Puts(o, f) <=> Makes(o, f)
  BY <1>2 DEF Takes, Puts, Drops, Moved, Makes
<1> QED
  BY <1>2, <1>3, FilesDone

(* A backup adds to what is saved.                                         *)
LEMMA BackUpAdds ==
    ASSUME DiskTypes, NEW f, NEW d, Unwritten(f, d), saved' = BackUp(f, d)
    PROVE  /\ saved' = saved \cup {[place |-> Place(f, d), file |-> f, data |-> Contents(f, d)]}
           /\ saved \subseteq saved'
           /\ d \in Dirs => \E s \in saved' : s.data = disk[d].files[f]
<1>1. saved' = saved \cup {[place |-> Place(f, d), file |-> f, data |-> Contents(f, d)]}
  BY DEF BackUp, Unwritten
<1>2. ASSUME d \in Dirs
      PROVE  \E s \in saved' : s.data = disk[d].files[f]
  <2>1. Contents(f, d) = disk[d].files[f]
    BY <1>2, DirsAssumption DEF Contents
  <2>2. [place |-> Place(f, d), file |-> f, data |-> Contents(f, d)] \in saved'
    BY <1>1
  <2> QED
    BY <2>1, <2>2
<1> QED
  BY <1>1, <1>2

SavedBy(o, d) == saved' = IF o.op = "backup" THEN BackUp(o.file, d) ELSE saved

(* What is kept is a file of a directory or the contents of a backup.      *)
LEMMA InKept ==
    DiskTypes =>
        \A x : x \in Kept <=> \/ \E d \in Dirs, f \in Files : x = disk[d].files[f]
                             \/ \E y \in saved : x = y.data
<1> HAVE DiskTypes
<1> DEFINE A == UNION {Range(disk[d].files) : d \in Dirs}
           B == {y.data : y \in saved}
<1>1. Kept = A \cup B
  BY DEF Kept
<1>2. \A x, d : d \in Dirs => (x \in Range(disk[d].files) <=> \E f \in Files : x = disk[d].files[f])
  BY DEF Range, DiskTypes
<1>3. \A x : x \in B <=> \E y \in saved : x = y.data
  OBVIOUS
<1>4. \A x : x \in A <=> \E d \in Dirs : x \in Range(disk[d].files)
  OBVIOUS
<1> HIDE DEF A, B
<1> QED
  BY <1>1, <1>2, <1>3, <1>4

LEMMA InKeptNext ==
    ASSUME DiskTypes'
    PROVE  /\ \A e \in Dirs, f \in Files : disk'[e].files[f] \in Kept'
           /\ \A y \in saved' : y.data \in Kept'
<1>1. (DiskTypes =>
           \A x : x \in Kept <=> \/ \E d \in Dirs, f \in Files : x = disk[d].files[f]
                                \/ \E y \in saved : x = y.data)'
  BY InKept, PTL
<1> QED
  BY <1>1

(* Nothing is lost in a step that is guarded.                              *)
LEMMA GuardedKeeps ==
    ASSUME DiskTypes, DiskTypes', NEW s, s # <<>>, Guarded(s, migration.at), Done(s[1]),
           SavedBy(s[1], migration.at)
    PROVE  Kept \ {HalfFile, Empty, NoFile} \subseteq Kept'
<1> DEFINE d == migration.at
           o == s[1]
<1>1. 1 \in 1..Len(s) /\ s \in Seq(Steps) /\ o \in Steps
  BY DEF Guarded
<1>2. Allowed(o, d)
  BY <1>1 DEF Guarded
<1>3. saved \subseteq saved'
  <2>1. CASE o.op = "backup"
    <3>1. o.file \in Names
      BY <1>1 DEF Steps
    <3>2. Unwritten(o.file, d)
      BY <1>1, <2>1, <3>1 DEF Guarded, Saves
    <3> QED
      BY <2>1, <3>2, BackUpAdds DEF SavedBy
  <2>2. CASE o.op # "backup"
    BY <2>2 DEF SavedBy
  <2> QED
    BY <2>1, <2>2
<1>4. SUFFICES ASSUME NEW e \in Dirs, NEW f \in Files, disk[e].files[f] # NoFile
               PROVE  disk[e].files[f] \in Kept'
  <2>1. ASSUME NEW x \in Kept, x # NoFile
        PROVE  x \in Kept'
    <3>1. CASE \E y \in saved : x = y.data
      BY <1>3, <3>1, InKeptNext
    <3>2. CASE \E e \in Dirs, f \in Files : x = disk[e].files[f]
      BY <1>4, <2>1, <3>2
    <3> QED
      BY <2>1, <3>1, <3>2, InKept
  <2> QED
    BY <2>1
<1>5. CASE o.op \in {"backup", "write"}
  <2>1. UNCHANGED disk
    BY <1>5 DEF Done
  <2> QED
    BY <2>1, InKeptNext
<1>6. CASE o.op \notin {"backup", "write"}
  <2>1. d \in Dirs
    BY <1>2, <1>6 DEF Allowed
  <2>4. CASE e # d
    <3>1. disk'[e] = disk[e]
      BY <1>2, <2>1, <2>4, DoneFacts
    <3> QED
      BY <3>1, InKeptNext
  <2>5. CASE e = d /\ Drops(o, f)
    <3>1. f \in Old
      BY <1>2, <2>1, <2>5, DirsAssumption DEF Allowed, Drops
    <3>2. Covered(f, d)
      BY <1>1, <2>5, <3>1 DEF Guarded
    <3>3. \E x \in saved : x.data = disk[e].files[f]
      BY <1>4, <2>5, <3>2 DEF Covered
    <3> QED
      BY <1>3, <3>3, InKeptNext
  <2>6. CASE e = d /\ Moved(o, f)
    <3>1. disk'[d].files[o.to] = disk[d].files[f]
      BY <1>2, <2>1, <2>6, DoneFacts DEF Moved
    <3>2. o.to \in Files
      BY <1>2, <2>1, <2>6, OldAndMade, DirsAssumption DEF Allowed, Moved
    <3> QED
      BY <2>1, <2>6, <3>1, <3>2, InKeptNext
  <2>7. CASE e = d /\ Makes(o, f)
    <3>1. f \in Made
      BY <1>2, <2>1, <2>7, DirsAssumption DEF Allowed, Makes
    <3>2. ~Is(d, f)
      BY <1>1, <2>7, <3>1 DEF Guarded
    <3> QED
      BY <1>4, <2>7, <3>2 DEF Is
  <2>8. CASE e = d /\ ~(Drops(o, f) \/ Moved(o, f) \/ Makes(o, f))
    <3>1. disk'[d].files[f] = disk[d].files[f]
      BY <1>2, <2>1, <2>8, DoneFacts
    <3> QED
      BY <2>8, <3>1, InKeptNext
  <2> QED
    BY <2>4, <2>5, <2>6, <2>7, <2>8
<1> QED
  BY <1>5, <1>6

(* What is left of guarded steps is guarded after the first of them.       *)
LEMMA GuardedNext ==
    ASSUME DiskTypes, inside, NEW s, s # <<>>, NEW d, d = migration.at, Guarded(s, d),
           Done(s[1]), SavedBy(s[1], d), UNCHANGED <<inside, runs>>
    PROVE  Guarded(Tail(s), d)'
<1> DEFINE o == s[1]
           t == Tail(s)
<1>1. /\ 1 \in 1..Len(s) /\ s \in Seq(Steps) /\ o \in Steps /\ t \in Seq(Steps)
      /\ Len(t) = Len(s) - 1
      /\ \A i \in 1..Len(t) : t[i] = s[i + 1] /\ i + 1 \in 1..Len(s)
  BY DEF Guarded
<1>2. Allowed(o, d) /\ \A i \in 1..Len(t) : Allowed(t[i], d)
  BY <1>1 DEF Guarded
<1> HIDE DEF t
<1>3. \A f : Place(f, d)' = Place(f, d)
  BY DEF Place
<1>4. /\ saved \subseteq saved'
      /\ \A f \in Names : ~Saves(o, f) /\ Unwritten(f, d) => Unwritten(f, d)'
      /\ \A f \in Names : Saves(o, f) /\ d \in Dirs =>
             \E x \in saved' : x.data = disk[d].files[f]
  <2>1. CASE o.op = "backup"
    <3>1. o.file \in Names
      BY <1>1 DEF Steps
    <3>2. Unwritten(o.file, d)
      BY <1>1, <2>1, <3>1 DEF Guarded, Saves
    <3>3. /\ saved \subseteq saved'
          /\ saved' = saved \cup {[place |-> Place(o.file, d), file |-> o.file,
                                   data |-> Contents(o.file, d)]}
          /\ d \in Dirs => \E x \in saved' : x.data = disk[d].files[o.file]
      BY <2>1, <3>2, BackUpAdds DEF SavedBy
    <3>4. ASSUME NEW f \in Names, ~Saves(o, f), Unwritten(f, d)
          PROVE  Unwritten(f, d)'
      <4>1. f # o.file
        BY <2>1, <3>4 DEF Saves
      <4>2. Place(o.file, d) # Place(f, d)
        BY <4>1 DEF Place
      <4> QED
        BY <1>3, <3>3, <3>4, <4>2 DEF Unwritten
    <3> QED
      BY <2>1, <3>3, <3>4 DEF Saves
  <2>2. CASE o.op # "backup"
    BY <1>3, <2>2 DEF SavedBy, Saves, Unwritten
  <2> QED
    BY <2>1, <2>2
<1>5. d \notin Dirs => UNCHANGED disk
  BY <1>2 DEF Allowed, Done
<1>6. \A i \in 1..Len(t), f \in Made : Makes(t[i], f) => ~Is(d, f)'
  <2>1. SUFFICES ASSUME NEW i \in 1..Len(t), NEW f \in Made, Makes(t[i], f) PROVE ~Is(d, f)'
    OBVIOUS
  <2>2. ~Is(d, f) /\ ~Makes(o, f)
    <3>1. i + 1 \in 1..Len(s) /\ Makes(s[i + 1], f) /\ i + 1 # 1
      BY <1>1, <2>1
    <3> QED
      BY <1>1, <3>1 DEF Guarded
  <2>3. CASE d \in Dirs
    <3>1. f \in Files
      BY OldAndMade
    <3>2. disk'[d].files[f] = NoFile \/ disk'[d].files[f] = disk[d].files[f]
      BY <1>2, <2>2, <2>3, <3>1, DoneFacts
    <3> QED
      BY <2>2, <3>2 DEF Is
  <2>4. CASE d \notin Dirs
    BY <1>5, <2>2, <2>4 DEF Is
  <2> QED
    BY <2>3, <2>4
<1>7. \A i, j \in 1..Len(t), f \in Made : Makes(t[i], f) /\ Makes(t[j], f) => i = j
  <2>1. ASSUME NEW i \in 1..Len(t), NEW j \in 1..Len(t), NEW f \in Made,
               Makes(t[i], f), Makes(t[j], f)
        PROVE  i = j
    <3>1. i + 1 = j + 1
      BY <1>1, <2>1 DEF Guarded
    <3> QED
      BY <3>1
  <2> QED
    BY <2>1
<1>8. \A i, j \in 1..Len(t), f \in Names : Saves(t[i], f) /\ Saves(t[j], f) => i = j
  <2>1. ASSUME NEW i \in 1..Len(t), NEW j \in 1..Len(t), NEW f \in Names,
               Saves(t[i], f), Saves(t[j], f)
        PROVE  i = j
    <3>1. i + 1 = j + 1
      BY <1>1, <2>1 DEF Guarded
    <3> QED
      BY <3>1
  <2> QED
    BY <2>1
<1>9. \A i \in 1..Len(t), f \in Names : Saves(t[i], f) => Unwritten(f, d)'
  <2>1. ASSUME NEW i \in 1..Len(t), NEW f \in Names, Saves(t[i], f)
        PROVE  Unwritten(f, d)'
    <3>1. i + 1 \in 1..Len(s) /\ Saves(s[i + 1], f) /\ i + 1 # 1
      BY <1>1, <2>1
    <3>2. ~Saves(o, f) /\ Unwritten(f, d)
      BY <1>1, <3>1 DEF Guarded
    <3> QED
      BY <1>4, <3>2
  <2> QED
    BY <2>1
<1>10. ASSUME NEW i \in 1..Len(t), NEW f \in Old, Drops(t[i], f)
       PROVE  Covered(f, d)' \/ \E j \in 1..(i - 1) : Saves(t[j], f)
  <2>1. d \in Dirs /\ f \in Files /\ f \in Names /\ f \notin Made
    BY <1>2, <1>10, OldAndMade DEF Drops, Allowed
  <2>2. i + 1 \in 1..Len(s) /\ Drops(s[i + 1], f)
    BY <1>1, <1>10
  <2>3. Covered(f, d) \/ \E j \in 1..i : Saves(s[j], f)
    BY <2>2 DEF Guarded
  <2>4. disk'[d].files[f] = NoFile \/ disk'[d].files[f] = disk[d].files[f]
    <3>1. ~Makes(o, f)
      BY <1>2, <2>1, DirsAssumption DEF Allowed, Makes
    <3> QED
      BY <1>2, <2>1, <3>1, DoneFacts
  <2>5. CASE Covered(f, d)
    BY <1>4, <2>4, <2>5 DEF Covered
  <2>6. CASE \E j \in 1..i : Saves(s[j], f)
    <3>1. PICK j \in 1..i : Saves(s[j], f)
      BY <2>6
    <3>2. CASE j = 1
      <4>1. \E x \in saved' : x.data = disk[d].files[f]
        BY <1>4, <2>1, <3>1, <3>2
      <4> QED
        BY <2>4, <4>1 DEF Covered
    <3>3. CASE j # 1
      <4>1. j - 1 \in 1..(i - 1) /\ j - 1 \in 1..Len(t) /\ t[j - 1] = s[j]
        BY <1>1, <3>1, <3>3
      <4> QED
        BY <3>1, <4>1
    <3> QED
      BY <3>2, <3>3
  <2> QED
    BY <2>3, <2>5, <2>6
<1>11. Guarded(t, d)'
  BY <1>1, <1>2, <1>6, <1>7, <1>8, <1>9, <1>10 DEF Guarded
<1> QED
  BY <1>11 DEF t
-----------------------------------------------------------------------------
(* The places of later runs are free, and while a run of v2 or v4 in the   *)
(* repository has had no error, what it still has to do is guarded, where  *)
(* it has not been yet nothing of this run is saved.                       *)
Numbered ==
    /\ runs \in Nat
    /\ inside => \A s \in saved, n \in Nat : n > runs => \A f, d : s.place # <<n, f, d>>

Losing == inside /\ migration # Idle /\ migration.script # "v3" /\ ~migration.errors

Ahead ==
    migration.step = "patches" =>
        /\ \A d \in migration.todo, f \in Files : Unwritten(f, d)
        /\ Unwritten("manifest", TheManifest)
        /\ migration.ops # <<>> => migration.at \in Dirs \ migration.todo

Careful == Losing => Guarded(migration.ops, migration.at) /\ Ahead

NoLossInv == DiskTypes /\ JobTypes /\ Numbered /\ Careful

LEMMA NumberedStep ==
    ASSUME Numbered, [MigrationNext]_migrationVars
    PROVE  Numbered'
<1>1. UNCHANGED inside
  BY DEF MigrationNext, migrationVars, Start, NextPatch, Step, StepFails, Manifest, Finish, Die
<1>2. runs' \in Nat /\ runs <= runs'
  <2>1. UNCHANGED runs \/ runs' = runs + 1
    BY DEF MigrationNext, migrationVars, Start, NextPatch, Step, StepFails, Manifest, Finish, Die
  <2> QED
    BY <2>1 DEF Numbered
<1>3. CASE UNCHANGED saved
  BY <1>1, <1>2, <1>3 DEF Numbered
<1>4. ASSUME NEW f, NEW d, saved' = BackUp(f, d), inside
      PROVE  \A s \in saved', n \in Nat : n > runs => \A g, e : s.place # <<n, g, e>>
  <2>1. SUFFICES ASSUME NEW s \in saved', NEW n \in Nat, n > runs, NEW g, NEW e
                 PROVE  s.place # <<n, g, e>>
    OBVIOUS
  <2>2. CASE s \in saved
    BY <1>4, <2>1, <2>2 DEF Numbered
  <2>3. CASE s.place = Place(f, d)
    <3>1. s.place = <<runs, f, d>> /\ n # runs
      BY <1>4, <2>1, <2>3 DEF Place, Numbered
    <3> QED
      BY <3>1
  <2> QED
    BY <1>4, <2>2, <2>3 DEF BackUp
<1>5. CASE Step
  <2>1. UNCHANGED runs
    BY <1>5 DEF Step
  <2>2. UNCHANGED saved \/ \E f, d : saved' = BackUp(f, d)
    BY <1>5 DEF Step
  <2> QED
    BY <1>1, <1>2, <1>3, <1>4, <2>1, <2>2 DEF Numbered
<1> QED
  BY <1>3, <1>5 DEF MigrationNext, migrationVars, Start, NextPatch, StepFails, Manifest, Finish, Die

(* The guard only looks at the disk and the backups.                       *)
LEMMA GuardStays ==
    ASSUME UNCHANGED <<disk, saved, inside, runs>>, NEW s, NEW d, Guarded(s, d)
    PROVE  Guarded(s, d)'
BY DEF Guarded, Is, Unwritten, Covered, Place

LEMMA NothingIsGuarded ==
    ASSUME NEW d
    PROVE  Guarded(<<>>, d)
BY DEF Guarded

LEMMA ManifestIsGuarded ==
    ASSUME Unwritten("manifest", TheManifest)
    PROVE  Guarded(<<Op("backup", "manifest", ""), Op("write", "manifest", "")>>, TheManifest)
<1> DEFINE x == Op("backup", "manifest", "")
           y == Op("write", "manifest", "")
           s == <<x, y>>
<1>1. x \in Steps /\ y \in Steps
  <2>1. "backup" \in Ops /\ "write" \in Ops /\ "manifest" \in Names /\ "" \in Names
    BY DEF Ops, Names
  <2> QED
    BY <2>1, OpTyped
<1>2. /\ x.op = "backup" /\ x.file = "manifest" /\ y.op = "write"
  BY DEF Op
<1> HIDE DEF x, y
<1>3. s \in Seq(Steps) /\ Len(s) = 2 /\ s[1] = x /\ s[2] = y
  BY <1>1, TwoSteps
<1> HIDE DEF s
<1>4. \A i \in 1..Len(s) : i = 1 \/ i = 2
  BY <1>3
<1>5. /\ \A f : ~Makes(x, f) /\ ~Drops(x, f) /\ (Saves(x, f) => f = "manifest")
      /\ \A f : ~Makes(y, f) /\ ~Drops(y, f) /\ ~Saves(y, f)
      /\ Allowed(x, TheManifest) /\ Allowed(y, TheManifest)
  BY <1>2 DEF Makes, Drops, Saves, Allowed
<1>6. Guarded(s, TheManifest)
  BY <1>3, <1>4, <1>5 DEF Guarded
<1> QED
  BY <1>6 DEF s, x, y

LEMMA CarefulStart ==
    ASSUME DiskTypes, Numbered, NEW script \in Scripts, NEW apply, NEW tiles,
           Start(script, apply, tiles)
    PROVE  Careful'
<1>1. /\ migration'.ops = <<>> /\ migration'.at = <<>> /\ migration'.todo = Found(script)
      /\ runs' = runs + 1 /\ UNCHANGED <<saved, inside>>
  BY DEF Start
<1>2. Guarded(migration.ops, migration.at)'
  BY <1>1 DEF Guarded
<1>3. ASSUME Losing'
      PROVE  (\A f, d : Unwritten(f, d))'
  <2>1. SUFFICES ASSUME NEW f, NEW d, NEW s \in saved PROVE s.place # <<runs + 1, f, d>>
    BY <1>1, <1>3 DEF Unwritten, Place, Losing
  <2> QED
    BY <1>1, <1>3, <2>1 DEF Numbered, Losing
<1> QED
  BY <1>1, <1>2, <1>3 DEF Careful, Ahead

LEMMA CarefulNextPatch ==
    ASSUME DiskTypes, JobTypes, Careful, NextPatch
    PROVE  Careful'
<1> DEFINE d == Earliest(migration.todo)
           plan == IF disk[d].vector THEN Plan(migration.script, d, migration.copy) ELSE <<>>
<1>1. /\ migration # Idle /\ migration.step = "patches" /\ migration.ops = <<>>
      /\ migration.todo # {} /\ migration.script \in Scripts /\ migration.todo \subseteq Dirs
      /\ UNCHANGED <<disk, saved, inside, runs>>
  BY DEF NextPatch, JobTypes
<1>2. d \in migration.todo /\ d \in Dirs
  BY <1>1, EarliestIsOne
<1>3. /\ migration'.todo = migration.todo \ {d} /\ migration'.at = d
      /\ migration'.ops = (IF migration.apply THEN plan ELSE <<>>)
      /\ migration'.script = migration.script /\ migration'.step = migration.step
  BY <1>1 DEF NextPatch, JobTypes
<1>4. Losing' => Losing
  <2>1. migration'.errors = (migration.errors \/ ~disk[d].vector)
    BY <1>1 DEF NextPatch, JobTypes
  <2>2. ~migration'.errors => ~migration.errors
    BY <2>1, Zenon
  <2> QED
    BY <1>1, <1>3, <2>2 DEF Losing
<1> HIDE DEF d
<1>5. ASSUME Losing
      PROVE  Guarded(migration'.ops, d)
  <2>1. \A f \in Files : Unwritten(f, d)
    BY <1>1, <1>2, <1>5 DEF Careful, Ahead
  <2>2. Guarded(plan, d)
    <3>1. migration.script # "v3"
      BY <1>5 DEF Losing
    <3> QED
      BY <1>1, <1>2, <2>1, <3>1, PlanV2IsGuarded, PlanV4IsGuarded, NothingIsGuarded
         DEF Plan, Scripts
  <2> QED
    BY <1>3, <2>2, NothingIsGuarded
<1>6. ASSUME Losing
      PROVE  Guarded(migration.ops, migration.at)'
  <2>1. PICK s, e : s = migration'.ops /\ e = migration'.at
    OBVIOUS
  <2>2. Guarded(s, e)
    BY <1>3, <1>5, <1>6, <2>1
  <2>3. Guarded(s, e)'
    BY <1>1, <2>2, GuardStays
  <2> QED
    BY <2>1, <2>3 DEF Guarded
<1>7. ASSUME Losing
      PROVE  Ahead'
  BY <1>1, <1>2, <1>3, <1>7 DEF Careful, Ahead, Unwritten, Place
<1> QED
  BY <1>4, <1>6, <1>7 DEF Careful

(* The step that goes through: the first of the operations is done.        *)
LEMMA StepFacts ==
    ASSUME JobTypes, Step, migration.ops \in Seq(Steps)
    PROVE  /\ migration # Idle /\ migration.ops # <<>>
           /\ migration'.ops = Tail(migration.ops) /\ migration'.at = migration.at
           /\ migration'.step = migration.step /\ migration'.todo = migration.todo
           /\ migration'.script = migration.script /\ migration'.errors = migration.errors
           /\ Done(migration.ops[1]) /\ SavedBy(migration.ops[1], migration.at)
           /\ UNCHANGED <<inside, runs>>
<1>1. migration # Idle /\ migration.ops # <<>>
  BY DEF Step
<1>2. PICK m : migration' = [migration EXCEPT !.ops = Tail(@), !.undo = m]
  BY DEF Step
<1>3. Head(migration.ops) = migration.ops[1]
  BY <1>1
<1>4. /\ Done(migration.ops[1]) /\ SavedBy(migration.ops[1], migration.at)
      /\ UNCHANGED <<inside, runs>>
  BY <1>3 DEF Step, SavedBy
<1> QED
  BY <1>1, <1>2, <1>4 DEF JobTypes

LEMMA CarefulStep ==
    ASSUME DiskTypes, JobTypes, Careful, Step
    PROVE  Careful'
<1>1. migration # Idle /\ Losing' => Losing
  <2>1. PICK o, m : migration' = [migration EXCEPT !.ops = o, !.undo = m]
    BY DEF Step
  <2> QED
    BY <2>1 DEF Step, JobTypes, Losing
<1> SUFFICES ASSUME Losing PROVE Guarded(migration.ops, migration.at)' /\ Ahead'
  BY <1>1 DEF Careful, Step
<1>2. Guarded(migration.ops, migration.at) /\ Ahead
  BY DEF Careful
<1>3. /\ migration # Idle /\ migration.ops # <<>>
      /\ migration'.ops = Tail(migration.ops) /\ migration'.at = migration.at
      /\ migration'.step = migration.step /\ migration'.todo = migration.todo
      /\ migration'.script = migration.script /\ migration'.errors = migration.errors
      /\ Done(migration.ops[1]) /\ SavedBy(migration.ops[1], migration.at)
      /\ UNCHANGED <<inside, runs>>
  BY <1>2, StepFacts DEF Guarded
<1>4. Guarded(migration.ops, migration.at)'
  <2>1. PICK s, d : s = migration.ops /\ d = migration.at
    OBVIOUS
  <2>2. Guarded(Tail(s), d)'
    BY <1>3, <1>2, <2>1, GuardedNext DEF Losing
  <2> QED
    BY <1>3, <2>1, <2>2 DEF Guarded
<1>5. ASSUME migration.step = "patches"
      PROVE  /\ \A d \in migration.todo, f \in Files : Unwritten(f, d)'
             /\ Unwritten("manifest", TheManifest)'
  <2>1. /\ migration.at \in Dirs /\ migration.at \notin migration.todo
        /\ migration.at # TheManifest
    BY <1>3, <1>2, <1>5, DirsAssumption DEF Ahead
  <2>2. ASSUME NEW f, NEW d, d # migration.at, Unwritten(f, d)
        PROVE  Unwritten(f, d)'
    <3>1. \A g : Place(g, migration.at) # Place(f, d)
      BY <2>2 DEF Place, Losing
    <3>2. Place(f, d)' = Place(f, d)
      BY <1>3 DEF Place
    <3>3. \A y \in saved' : y \in saved \/ \E g : y.place = Place(g, migration.at)
      BY <1>3 DEF SavedBy, BackUp
    <3> QED
      BY <2>2, <3>1, <3>2, <3>3 DEF Unwritten
  <2> QED
    BY <1>2, <1>5, <2>1, <2>2 DEF Ahead
<1>6. Ahead'
  BY <1>3, <1>2, <1>5 DEF Ahead
<1> QED
  BY <1>4, <1>6

LEMMA CarefulNext ==
    ASSUME NoLossInv, [MigrationNext]_migrationVars
    PROVE  Careful'
<1> USE DEF NoLossInv
<1>1. CASE UNCHANGED migrationVars
  <2>1. UNCHANGED <<disk, saved, inside, runs, migration>>
    BY <1>1 DEF migrationVars
  <2>2. PICK s, d : s = migration.ops /\ d = migration.at
    OBVIOUS
  <2>3. Losing => Guarded(s, d)'
    BY <2>1, <2>2, GuardStays DEF Careful
  <2>4. Losing => Guarded(migration.ops, migration.at)'
    BY <2>1, <2>2, <2>3 DEF Guarded
  <2>5. (Losing' => Losing) /\ (Losing /\ Ahead => Ahead')
    BY <2>1 DEF Losing, Ahead, Unwritten, Place
  <2> QED
    BY <2>4, <2>5 DEF Careful
<1>2. ASSUME NEW script \in Scripts, NEW apply \in BOOLEAN, NEW tiles \in BOOLEAN,
             Start(script, apply, tiles)
      PROVE  Careful'
  BY <1>2, CarefulStart
<1>3. CASE NextPatch
  BY <1>3, CarefulNextPatch
<1>4. CASE Step
  BY <1>4, CarefulStep
<1>5. CASE StepFails
  <2>1. migration'.errors = TRUE
    BY <1>5 DEF StepFails, JobTypes
  <2> QED
    BY <2>1 DEF Careful, Losing
<1>6. CASE Manifest
  <2>1. /\ migration # Idle /\ migration.step = "patches"
        /\ UNCHANGED <<disk, saved, inside, runs>>
    BY <1>6 DEF Manifest
  <2>2. PICK changed, m :
            migration' = [migration EXCEPT !.step = "end", !.at = TheManifest, !.modify = m,
                !.ops = When(changed /\ migration.apply,
                             <<Op("backup", "manifest", ""), Op("write", "manifest", "")>>)]
    BY <1>6 DEF Manifest
  <2>3. /\ migration'.step = "end" /\ migration'.at = TheManifest
        /\ migration'.script = migration.script /\ migration'.errors = migration.errors
        /\ migration'.ops \in {<<>>, <<Op("backup", "manifest", ""), Op("write", "manifest", "")>>}
    BY <2>1, <2>2 DEF JobTypes, When
  <2>4. Losing' => Losing
    BY <2>1, <2>3 DEF Losing
  <2>5. Losing => Guarded(migration'.ops, TheManifest)
    BY <2>1, <2>3, ManifestIsGuarded, NothingIsGuarded DEF Careful, Ahead
  <2>6. PICK s : s = migration'.ops
    OBVIOUS
  <2>7. Losing => Guarded(s, TheManifest)'
    BY <2>1, <2>5, <2>6, GuardStays
  <2>8. Losing => Guarded(migration.ops, migration.at)'
    BY <2>3, <2>6, <2>7 DEF Guarded
  <2> QED
    BY <2>3, <2>4, <2>8 DEF Careful, Ahead
<1>7. CASE Finish \/ Die
  BY <1>7 DEF Finish, Die, Careful, Losing
<1> QED
  BY <1>1, <1>2, <1>3, <1>4, <1>5, <1>6, <1>7 DEF MigrationNext

LEMMA NoLossInit == MigrationInit => NoLossInv
<1> SUFFICES ASSUME MigrationInit PROVE NoLossInv
  OBVIOUS
<1>1. DiskTypes
  BY DirsAssumption DEF MigrationInit, DiskTypes
<1>2. migration = Idle /\ saved = {} /\ runs = 0
  BY DEF MigrationInit
<1> QED
  BY <1>1, <1>2 DEF NoLossInv, JobTypes, Numbered, Careful, Losing

LEMMA NoLossNext == NoLossInv /\ [MigrationNext]_migrationVars => NoLossInv'
BY DiskStep, JobStep, NumberedStep, CarefulNext DEF NoLossInv

(* Neither does a step lose anything that fails or during which a run      *)
(* dies: it writes only where nothing is.                                  *)
LEMMA BrokenKeeps ==
    ASSUME DiskTypes, DiskTypes', UNCHANGED saved,
           NEW s, s # <<>>, Guarded(s, migration.at), Broken(s[1])
    PROVE  Kept \ {HalfFile, Empty, NoFile} \subseteq Kept'
<1> DEFINE d == migration.at
           o == s[1]
<1>1. 1 \in 1..Len(s) /\ o \in Steps
  BY DEF Guarded
<1>2. Allowed(o, d)
  BY <1>1 DEF Guarded
<1>3. SUFFICES ASSUME NEW e \in Dirs, NEW f \in Files, disk[e].files[f] # NoFile
               PROVE  disk[e].files[f] \in Kept'
  <2>1. ASSUME NEW x \in Kept, x # NoFile
        PROVE  x \in Kept'
    <3>1. CASE \E y \in saved : x = y.data
      BY <3>1, InKeptNext
    <3>2. CASE \E e \in Dirs, f \in Files : x = disk[e].files[f]
      BY <1>3, <2>1, <3>2
    <3> QED
      BY <2>1, <3>1, <3>2, InKept
  <2> QED
    BY <2>1
<1>4. CASE UNCHANGED disk
  BY <1>4, InKeptNext
<1>5. CASE o.op = "create" /\ disk' = [disk EXCEPT ![d].files[o.file] = HalfFile]
  <2>1. d \in Dirs /\ o.file \in Made
    BY <1>2, <1>5 DEF Allowed
  <2>2. ~Is(d, o.file)
    BY <1>1, <1>5, <2>1 DEF Guarded, Makes
  <2>3. ~(e = d /\ f = o.file)
    BY <1>3, <2>2 DEF Is
  <2>4. disk'[e].files[f] = disk[e].files[f]
    BY <1>5, <2>1, <2>3 DEF DiskTypes
  <2> QED
    BY <2>4, InKeptNext
<1> QED
  BY <1>2, <1>4, <1>5 DEF Allowed, Broken, Put

(* No migration of a data set in the repository loses contents without an  *)
(* error to report, v3's deletion of the old road aside: whatever step     *)
(* fails, and whenever a run dies (tools/, process_patch_dir).             *)
THEOREM LossIsAlwaysReported == MigrationSpec => LossIsReported
<1> DEFINE Safe == inside /\ migration # Idle /\ migration.script # "v3" /\ ~migration.errors
                       => Kept \ {HalfFile, Empty, NoFile} \subseteq Kept'
<1>1. ASSUME NoLossInv, [MigrationNext]_migrationVars
      PROVE  [Safe]_migrationVars
  <2> SUFFICES ASSUME Losing PROVE Kept \ {HalfFile, Empty, NoFile} \subseteq Kept'
    BY DEF Losing
  <2>1. DiskTypes /\ DiskTypes' /\ Guarded(migration.ops, migration.at)
    BY <1>1, DiskStep DEF NoLossInv, Careful
  <2>2. CASE UNCHANGED <<disk, saved>>
    BY <2>2 DEF Kept
  <2>3. CASE Step
    <3>1. /\ migration.ops # <<>> /\ Done(migration.ops[1])
          /\ SavedBy(migration.ops[1], migration.at)
      BY <1>1, <2>1, <2>3, StepFacts DEF NoLossInv, Guarded
    <3> QED
      BY <2>1, <3>1, GuardedKeeps
  <2>4. CASE StepFails \/ Die
    <3>1. UNCHANGED saved
      BY <2>4 DEF StepFails, Die
    <3>2. migration.ops # <<>> => Head(migration.ops) = migration.ops[1]
      BY <2>1 DEF Guarded
    <3>3. UNCHANGED disk \/ (migration.ops # <<>> /\ Broken(migration.ops[1]))
      BY <2>4, <3>2 DEF StepFails, Die
    <3> QED
      BY <2>1, <2>2, <3>1, <3>3, BrokenKeeps
  <2> QED
    BY <1>1, <2>2, <2>3, <2>4 DEF MigrationNext, migrationVars, Start, NextPatch, Manifest, Finish
<1> QED
  BY <1>1, NoLossInit, NoLossNext, PTL DEF MigrationSpec, LossIsReported
-----------------------------------------------------------------------------
(* What is left after a successful run of v2 or v3: no old file, no new    *)
(* file missing, and nothing in the manifest to rename.                    *)
Gone(script) == IF script = "v2" THEN {"gore"} ELSE {"Road"}
Needed(script) ==
    IF script = "v2" THEN {"DivStripZone", "RCSDNode", "intersection_l"} ELSE {"RCSDRoad", "Tiles"}

Migrated(script, d) ==
    /\ \A f \in Gone(script) : ~Is(d, f)
    /\ \A f \in Needed(script) : Is(d, f)

Unnamed(script) == Mentions(script) \subseteq {FALSE}

Settled(script) ==
    /\ ~Missed(script) /\ Unnamed(script)
    /\ \A d \in Found(script) : disk[d].vector /\ Migrated(script, d)

(* Steps lead on if they take away what is of G and make what is of N, and *)
(* a file is only renamed while it is there.                               *)
Handles(o, G, N) ==
    \/ o.op = "backup"
    \/ o.op \in {"delete", "sweep"} /\ o.file \in G
    \/ o.op = "rename" /\ o.file \in G /\ o.to \in N
    \/ o.op = "create" /\ o.file \in N
    \/ o.op = "tiles" /\ o.file \in N /\ o.to # NoFile

Leads(s, d, G, N) ==
    /\ \E S : s \in Seq(S)
    /\ \A i \in 1..Len(s) : Handles(s[i], G, N)
    /\ \A f \in G : Is(d, f) => \E i \in 1..Len(s) : Takes(s[i], f)
    /\ \A f \in N : Is(d, f) \/ \E i \in 1..Len(s) : Puts(s[i], f)
    /\ \A i \in 1..Len(s) : s[i].op = "rename" =>
           Is(d, s[i].file) /\ \A j \in 1..(i - 1) : ~Takes(s[j], s[i].file)

LEMMA HandledFiles ==
    ASSUME NEW o, NEW G, NEW N, Handles(o, G, N)
    PROVE  \A f : (Takes(o, f) => f \in G) /\ (Puts(o, f) => f \in N)
BY DEF Handles, Takes, Puts

LEMMA LeadsJoin ==
    ASSUME NEW d, NEW a, NEW b, NEW G, NEW H, NEW N, NEW M,
           Leads(a, d, G, N), Leads(b, d, H, M), G \cap H = {}
    PROVE  Leads(a \o b, d, G \cup H, N \cup M)
<1>1. PICK A : a \in Seq(A)
  BY DEF Leads
<1>2. PICK B : b \in Seq(B)
  BY DEF Leads
<1> DEFINE s == a \o b
           l == Len(a)
<1>3. a \in Seq(A \cup B) /\ b \in Seq(A \cup B)
  BY <1>1, <1>2
<1>4. /\ s \in Seq(A \cup B) /\ l \in Nat /\ Len(b) \in Nat /\ Len(s) = l + Len(b)
      /\ \A i \in 1..l : s[i] = a[i] /\ i \in 1..Len(s)
      /\ \A i \in (l + 1)..Len(s) : s[i] = b[i - l] /\ i - l \in 1..Len(b)
      /\ \A j \in 1..Len(b) : s[j + l] = b[j] /\ j + l \in (l + 1)..Len(s) /\ j + l \in 1..Len(s)
  BY <1>3
<1>5. l = Len(a)
  OBVIOUS
<1> HIDE DEF s, l
<1>6. \A i \in 1..Len(s) : i \in 1..l \/ i \in (l + 1)..Len(s)
  BY <1>4
<1>7. /\ \A i \in 1..l : Handles(s[i], G, N)
      /\ \A i \in (l + 1)..Len(s) : Handles(s[i], H, M)
  BY <1>4, <1>5 DEF Leads
<1>8. \A i \in 1..Len(s) : Handles(s[i], G \cup H, N \cup M)
  BY <1>6, <1>7 DEF Handles
<1>9. \A f \in G \cup H : Is(d, f) => \E i \in 1..Len(s) : Takes(s[i], f)
  <2>1. ASSUME NEW f \in G, Is(d, f)
        PROVE  \E i \in 1..Len(s) : Takes(s[i], f)
    BY <1>4, <1>5, <2>1 DEF Leads
  <2>2. ASSUME NEW f \in H, Is(d, f)
        PROVE  \E i \in 1..Len(s) : Takes(s[i], f)
    <3>1. PICK j \in 1..Len(b) : Takes(b[j], f)
      BY <2>2 DEF Leads
    <3> QED
      BY <1>4, <3>1
  <2> QED
    BY <2>1, <2>2
<1>10. \A f \in N \cup M : Is(d, f) \/ \E i \in 1..Len(s) : Puts(s[i], f)
  <2>1. ASSUME NEW f \in N, ~Is(d, f)
        PROVE  \E i \in 1..Len(s) : Puts(s[i], f)
    BY <1>4, <1>5, <2>1 DEF Leads
  <2>2. ASSUME NEW f \in M, ~Is(d, f)
        PROVE  \E i \in 1..Len(s) : Puts(s[i], f)
    <3>1. PICK j \in 1..Len(b) : Puts(b[j], f)
      BY <2>2 DEF Leads
    <3> QED
      BY <1>4, <3>1
  <2> QED
    BY <2>1, <2>2
<1>11. ASSUME NEW i \in 1..Len(s), s[i].op = "rename"
       PROVE  Is(d, s[i].file) /\ \A j \in 1..(i - 1) : ~Takes(s[j], s[i].file)
  <2>1. CASE i \in 1..l
    <3>1. \A j \in 1..(i - 1) : s[j] = a[j] /\ s[i] = a[i]
      BY <1>4, <2>1
    <3> QED
      BY <1>4, <1>5, <1>11, <2>1, <3>1 DEF Leads
  <2>2. CASE i \in (l + 1)..Len(s)
    <3>1. s[i] = b[i - l] /\ i - l \in 1..Len(b)
      BY <1>4, <2>2
    <3>2. Is(d, s[i].file) /\ \A k \in 1..((i - l) - 1) : ~Takes(b[k], s[i].file)
      BY <1>11, <3>1 DEF Leads
    <3>3. s[i].file \notin G
      BY <1>7, <1>11, <2>2 DEF Handles
    <3>4. ASSUME NEW j \in 1..(i - 1)
          PROVE  ~Takes(s[j], s[i].file)
      <4>1. CASE j \in 1..l
        BY <1>7, <3>3, <4>1, HandledFiles
      <4>2. CASE j \in (l + 1)..Len(s)
        <5>1. j - l \in 1..((i - l) - 1) /\ s[j] = b[j - l]
          BY <1>4, <3>4, <4>2
        <5> QED
          BY <3>2, <5>1
      <4>3. j \in 1..Len(s)
        BY <1>4
      <4> QED
        BY <1>6, <4>1, <4>2, <4>3
    <3> QED
      BY <3>2, <3>4
  <2> QED
    BY <1>6, <2>1, <2>2
<1>12. Leads(s, d, G \cup H, N \cup M)
  BY <1>4, <1>8, <1>9, <1>10, <1>11 DEF Leads
<1> QED
  BY <1>12 DEF s

LEMMA NothingLeads ==
    ASSUME NEW d, NEW G, NEW N
    PROVE  Leads(<<>>, d, G, N) <=> (\A f \in G : ~Is(d, f)) /\ \A f \in N : Is(d, f)
<1>1. <<>> \in Seq({})
  OBVIOUS
<1> QED
  BY <1>1 DEF Leads

LEMMA OneLeads ==
    ASSUME NEW d, NEW x, NEW f, x.op = "create" \/ (x.op = "tiles" /\ x.to # NoFile), x.file = f
    PROVE  Leads(<<x>>, d, {}, {f})
<1> DEFINE s == <<x>>
<1>1. s \in Seq({x}) /\ Len(s) = 1 /\ s[1] = x
  OBVIOUS
<1> HIDE DEF s
<1>2. 1 \in 1..Len(s) /\ \A i \in 1..Len(s) : i = 1
  BY <1>1
<1>3. Handles(x, {}, {f}) /\ Puts(x, f) /\ x.op # "rename"
  BY DEF Handles, Puts
<1>4. Leads(s, d, {}, {f})
  BY <1>1, <1>2, <1>3 DEF Leads
<1> QED
  BY <1>4 DEF s

(* Renaming or deleting old, with or without a backup before.              *)
LEMMA TakingLeads ==
    ASSUME NEW d, NEW s, NEW x, NEW old, NEW new, old # new, Is(d, old), x.file = old,
           s = <<x>> \/ \E y : y.op = "backup" /\ s = <<y, x>>,
           \/ x.op = "rename" /\ x.to = new
           \/ x.op = "delete" /\ Is(d, new)
    PROVE  Leads(s, d, {old}, {new})
<1>1. PICK l \in 1..2 : /\ \E S : s \in Seq(S)
                        /\ Len(s) = l /\ s[l] = x /\ (l = 2 => s[1].op = "backup")
  <2>1. CASE s = <<x>>
    <3>1. <<x>> \in Seq({x}) /\ Len(<<x>>) = 1 /\ <<x>>[1] = x
      OBVIOUS
    <3>2. s \in Seq({x}) /\ Len(s) = 1 /\ s[1] = x
      BY <2>1, <3>1
    <3> QED
      BY <3>2
  <2>2. ASSUME NEW y, y.op = "backup", s = <<y, x>>
        PROVE  \E l \in 1..2 : /\ \E S : s \in Seq(S)
                               /\ Len(s) = l /\ s[l] = x /\ (l = 2 => s[1].op = "backup")
    <3>1. /\ <<y, x>> \in Seq({y, x}) /\ Len(<<y, x>>) = 2
          /\ <<y, x>>[1] = y /\ <<y, x>>[2] = x
      OBVIOUS
    <3>2. s \in Seq({y, x}) /\ Len(s) = 2 /\ s[1] = y /\ s[2] = x
      BY <2>2, <3>1
    <3>3. (\E S : s \in Seq(S)) /\ s[1].op = "backup"
      BY <2>2, <3>2
    <3> QED
      BY <3>2, <3>3
  <2> QED
    BY <2>1, <2>2
<1>2. l \in 1..Len(s) /\ \A i \in 1..Len(s) : i = l \/ s[i].op = "backup"
  BY <1>1
<1>3. Handles(x, {old}, {new}) /\ Takes(x, old) /\ (Is(d, new) \/ Puts(x, new))
  BY DEF Handles, Takes, Puts
<1>4. \A o : o.op = "backup" =>
          Handles(o, {old}, {new}) /\ o.op # "rename" /\ \A f : ~Takes(o, f)
  BY DEF Handles, Takes
<1>5. \A i \in 1..Len(s) : Handles(s[i], {old}, {new})
  BY <1>1, <1>2, <1>3, <1>4
<1>6. \E i \in 1..Len(s) : Takes(s[i], old) /\ (Is(d, new) \/ Puts(s[i], new))
  BY <1>1, <1>2, <1>3
<1>7. ASSUME NEW i \in 1..Len(s), s[i].op = "rename"
      PROVE  Is(d, s[i].file) /\ \A j \in 1..(i - 1) : ~Takes(s[j], s[i].file)
  <2>1. i = l
    BY <1>2, <1>4, <1>7
  <2>2. \A j \in 1..(i - 1) : s[j].op = "backup"
    BY <1>1, <2>1
  <2> QED
    BY <1>1, <1>4, <2>1, <2>2
<1> QED
  BY <1>1, <1>5, <1>6, <1>7 DEF Leads

LEMMA MovesLead ==
    ASSUME NEW d, NEW old, NEW new, old # new
    PROVE  Leads(Moves(d, old, new), d, {old},
                 IF Is(d, old) \/ Is(d, new) THEN {new} ELSE {})
<1> DEFINE b == Op("backup", old, "")
           r == Op("rename", old, new)
           x == Op("delete", old, "")
<1>1. /\ b.op = "backup" /\ r.op = "rename" /\ r.file = old /\ r.to = new
      /\ x.op = "delete" /\ x.file = old
  BY DEF Op
<1>2. Moves(d, old, new) = IF Renames(d, old, new) THEN <<b, r>>
                           ELSE IF Deletes(d, old, new) THEN <<b, x>> ELSE <<>>
  <2>1. /\ <<b, r>> \o <<>> = <<b, r>> /\ <<>> \o <<b, x>> = <<b, x>> /\ <<>> \o <<>> = <<>>
    <3> HIDE DEF b, r, x
    <3>1. <<b, r>> \in Seq({b, r}) /\ <<b, x>> \in Seq({b, x}) /\ <<>> \in Seq({b})
      OBVIOUS
    <3> QED
      BY <3>1
  <2>2. Moves(d, old, new) =
            (IF Renames(d, old, new) THEN <<b, r>> ELSE <<>>)
                \o (IF Deletes(d, old, new) THEN <<b, x>> ELSE <<>>)
    BY DEF Moves, When
  <2>3. ~(Renames(d, old, new) /\ Deletes(d, old, new))
    BY DEF Renames, Deletes
  <2> HIDE DEF b, r, x
  <2> QED
    BY <2>1, <2>2, <2>3
<1> HIDE DEF b, r, x
<1>3. CASE Renames(d, old, new)
  <2>1. Is(d, old)
    BY <1>3 DEF Renames
  <2>2. Leads(<<b, r>>, d, {old}, {new})
    BY <1>1, <2>1, TakingLeads
  <2> QED
    BY <1>2, <1>3, <2>1, <2>2
<1>4. CASE Deletes(d, old, new)
  <2>1. Is(d, old) /\ Is(d, new) /\ ~Renames(d, old, new)
    BY <1>4 DEF Deletes, Renames
  <2>2. Leads(<<b, x>>, d, {old}, {new})
    BY <1>1, <2>1, TakingLeads
  <2> QED
    BY <1>2, <1>4, <2>1, <2>2
<1>5. CASE ~Renames(d, old, new) /\ ~Deletes(d, old, new)
  <2>1. ~Is(d, old)
    BY <1>5 DEF Renames, Deletes
  <2> QED
    BY <1>2, <1>5, <2>1, NothingLeads
<1> QED
  BY <1>3, <1>4, <1>5

(* The two steps of v3 that correspond to Moves.                           *)
LEMMA BareMovesLead ==
    ASSUME NEW d, NEW old, NEW new, old # new
    PROVE  Leads(When(Renames(d, old, new), <<Op("rename", old, new)>>)
                     \o When(Deletes(d, old, new), <<Op("delete", old, "")>>),
                 d, {old}, IF Is(d, old) \/ Is(d, new) THEN {new} ELSE {})
<1> DEFINE r == Op("rename", old, new)
           x == Op("delete", old, "")
           m == When(Renames(d, old, new), <<r>>) \o When(Deletes(d, old, new), <<x>>)
           N == IF Is(d, old) \/ Is(d, new) THEN {new} ELSE {}
<1> SUFFICES Leads(m, d, {old}, N)
  OBVIOUS
<1>1. r.op = "rename" /\ r.file = old /\ r.to = new /\ x.op = "delete" /\ x.file = old
  BY DEF Op
<1>2. m = IF Renames(d, old, new) THEN <<r>> ELSE IF Deletes(d, old, new) THEN <<x>> ELSE <<>>
  <2>1. /\ <<r>> \o <<>> = <<r>> /\ <<>> \o <<x>> = <<x>> /\ <<>> \o <<>> = <<>>
    <3> HIDE DEF r, x
    <3>1. <<r>> \in Seq({r}) /\ <<x>> \in Seq({x}) /\ <<>> \in Seq({r})
      OBVIOUS
    <3> QED
      BY <3>1
  <2>2. m = (IF Renames(d, old, new) THEN <<r>> ELSE <<>>)
                \o (IF Deletes(d, old, new) THEN <<x>> ELSE <<>>)
    BY DEF When
  <2>3. ~(Renames(d, old, new) /\ Deletes(d, old, new))
    BY DEF Renames, Deletes
  <2> HIDE DEF r, x, m
  <2> QED
    BY <2>1, <2>2, <2>3
<1> HIDE DEF r, x, m
<1>3. CASE Renames(d, old, new)
  <2>1. Is(d, old)
    BY <1>3 DEF Renames
  <2>2. Leads(<<r>>, d, {old}, {new})
    BY <1>1, <2>1, TakingLeads
  <2> QED
    BY <1>2, <1>3, <2>1, <2>2
<1>4. CASE Deletes(d, old, new)
  <2>1. Is(d, old) /\ Is(d, new) /\ ~Renames(d, old, new)
    BY <1>4 DEF Deletes, Renames
  <2>2. Leads(<<x>>, d, {old}, {new})
    BY <1>1, <2>1, TakingLeads
  <2> QED
    BY <1>2, <1>4, <2>1, <2>2
<1>5. CASE ~Renames(d, old, new) /\ ~Deletes(d, old, new)
  <2>1. ~Is(d, old)
    BY <1>5 DEF Renames, Deletes
  <2> QED
    BY <1>2, <1>5, <2>1, NothingLeads
<1> QED
  BY <1>3, <1>4, <1>5

LEMMA CreateLeads ==
    ASSUME NEW d, NEW f, NEW p
    PROVE  /\ (p => ~Is(d, f)) => Leads(When(p, Create(f)), d, {}, IF p THEN {f} ELSE {})
           /\ Leads(When(~Is(d, f), Create(f)), d, {}, {f})
<1> DEFINE x == Op("create", f, "")
<1>1. x.op = "create" /\ x.file = f
  BY DEF Op
<1>2. Create(f) = <<x>>
  BY DEF Create
<1> HIDE DEF x
<1>3. Leads(<<x>>, d, {}, {f})
  BY <1>1, OneLeads
<1>4. Leads(<<>>, d, {}, {}) /\ (Is(d, f) => Leads(<<>>, d, {}, {f}))
  BY NothingLeads
<1> QED
  BY <1>2, <1>3, <1>4 DEF When

LEMMA TilesAreThere ==
    ASSUME NEW d
    PROVE  TilesBeside(d) # NoFile /\ Empty # NoFile
<1> DEFINE with == {e \in Siblings(d[1]) \ {d} : Is(e, "Tiles")}
<1>1. Empty # NoFile
  BY DEF Empty, NoFile
<1>2. with \subseteq Dirs
  BY DEF Siblings
<1>3. with # {} => Earliest(with) \in with
  <2> HIDE DEF with
  <2> QED
    BY <1>2, EarliestIsOne
<1>4. with # {} => disk[Earliest(with)].files["Tiles"] # NoFile
  BY <1>3 DEF Is
<1> QED
  BY <1>1, <1>4 DEF TilesBeside

LEMMA TilesLead ==
    ASSUME NEW d, NEW copied
    PROVE  Leads(When(~Is(d, "Tiles"),
                      <<Op("tiles", "Tiles", IF copied THEN TilesBeside(d) ELSE Empty)>>),
                 d, {}, {"Tiles"})
<1> DEFINE x == Op("tiles", "Tiles", IF copied THEN TilesBeside(d) ELSE Empty)
<1>1. x.op = "tiles" /\ x.file = "Tiles" /\ x.to # NoFile
  BY TilesAreThere DEF Op
<1> HIDE DEF x
<1>2. Leads(<<x>>, d, {}, {"Tiles"})
  BY <1>1, OneLeads
<1>3. Is(d, "Tiles") => Leads(<<>>, d, {}, {"Tiles"})
  BY NothingLeads
<1>4. Leads(When(~Is(d, "Tiles"), <<x>>), d, {}, {"Tiles"})
  BY <1>2, <1>3 DEF When
<1> QED
  BY <1>4 DEF x

(* A sweep at the end disturbs nothing.                                    *)
LEMMA SweepLeads ==
    ASSUME NEW s, NEW d, NEW G, NEW N, Leads(s, d, G, N), NEW x, x.op = "sweep", x.file \in G
    PROVE  Leads(s \o <<x>>, d, G, N)
<1>1. PICK S : s \in Seq(S)
  BY DEF Leads
<1> DEFINE t == s \o <<x>>
           l == Len(s)
<1>2. s \in Seq(S \cup {x}) /\ <<x>> \in Seq(S \cup {x})
  BY <1>1
<1>3. /\ t \in Seq(S \cup {x}) /\ l \in Nat /\ Len(t) = l + 1 /\ t[l + 1] = x
      /\ \A i \in 1..l : t[i] = s[i] /\ i \in 1..Len(t)
  BY <1>2
<1>4. l = Len(s)
  OBVIOUS
<1> HIDE DEF t, l
<1>5. \A i \in 1..Len(t) : i \in 1..l \/ i = l + 1
  BY <1>3
<1>6. \A i \in 1..Len(t) : Handles(t[i], G, N)
  BY <1>3, <1>4, <1>5 DEF Leads, Handles
<1>7. /\ \A f \in G : Is(d, f) => \E i \in 1..Len(t) : Takes(t[i], f)
      /\ \A f \in N : Is(d, f) \/ \E i \in 1..Len(t) : Puts(t[i], f)
  BY <1>3, <1>4 DEF Leads
<1>8. ASSUME NEW i \in 1..Len(t), t[i].op = "rename"
      PROVE  Is(d, t[i].file) /\ \A j \in 1..(i - 1) : ~Takes(t[j], t[i].file)
  <2>1. i \in 1..l
    BY <1>3, <1>5, <1>8
  <2>2. \A j \in 1..(i - 1) : j \in 1..l
    BY <1>3, <2>1
  <2> QED
    BY <1>3, <1>4, <1>8, <2>1, <2>2 DEF Leads
<1>9. Leads(t, d, G, N)
  BY <1>3, <1>6, <1>7, <1>8 DEF Leads
<1> QED
  BY <1>9 DEF t

LEMMA PlanV2Leads ==
    ASSUME NEW d
    PROVE  Leads(PlanV2(d), d, Gone("v2"), Needed("v2"))
<1> DEFINE a == Moves(d, "gore", "DivStripZone")
           b == When(Creates(d, "gore", "DivStripZone"), Create("DivStripZone"))
           u == When(~Is(d, "RCSDNode"), Create("RCSDNode"))
           v == When(~Is(d, "intersection_l"), Create("intersection_l"))
           A == IF Is(d, "gore") \/ Is(d, "DivStripZone") THEN {"DivStripZone"} ELSE {}
           B == IF Creates(d, "gore", "DivStripZone") THEN {"DivStripZone"} ELSE {}
           s == ((a \o b) \o u) \o v
           x == Op("sweep", "gore", "")
<1>1. Leads(a, d, {"gore"}, A)
  BY MovesLead
<1>2. /\ Leads(b, d, {}, B) /\ Leads(u, d, {}, {"RCSDNode"})
      /\ Leads(v, d, {}, {"intersection_l"})
  <2>1. Creates(d, "gore", "DivStripZone") => ~Is(d, "DivStripZone")
    BY DEF Creates
  <2> QED
    BY <2>1, CreateLeads
<1>3. A \cup B = {"DivStripZone"}
  BY DEF Creates
<1>4. PlanV2(d) = IF s # <<>> THEN s \o <<x>> ELSE <<>>
  BY DEF PlanV2, When
<1>5. x.op = "sweep" /\ x.file = "gore"
  BY DEF Op
<1> HIDE DEF a, b, u, v, A, B, x
<1>6. Leads(a \o b, d, {"gore"} \cup {}, A \cup B)
  BY <1>1, <1>2, LeadsJoin
<1>7. Leads(a \o b, d, {"gore"}, {"DivStripZone"})
  BY <1>3, <1>6
<1>8. Leads((a \o b) \o u, d, {"gore"} \cup {}, {"DivStripZone"} \cup {"RCSDNode"})
  BY <1>2, <1>7, LeadsJoin
<1>9. Leads(s, d, ({"gore"} \cup {}) \cup {},
            ({"DivStripZone"} \cup {"RCSDNode"}) \cup {"intersection_l"})
  BY <1>2, <1>8, LeadsJoin
<1> HIDE DEF s
<1>10. /\ Gone("v2") = ({"gore"} \cup {}) \cup {}
       /\ Needed("v2") = ({"DivStripZone"} \cup {"RCSDNode"}) \cup {"intersection_l"}
  BY DEF Gone, Needed
<1>11. Leads(s, d, Gone("v2"), Needed("v2")) /\ "gore" \in Gone("v2")
  BY <1>9, <1>10
<1>12. Leads(s \o <<x>>, d, Gone("v2"), Needed("v2"))
  BY <1>5, <1>11, SweepLeads
<1> QED
  BY <1>4, <1>11, <1>12

LEMMA PlanV3Leads ==
    ASSUME NEW d, NEW copied
    PROVE  Leads(PlanV3(d, copied), d, Gone("v3"), Needed("v3"))
<1> DEFINE a == When(Renames(d, "Road", "RCSDRoad"), <<Op("rename", "Road", "RCSDRoad")>>)
                    \o When(Deletes(d, "Road", "RCSDRoad"), <<Op("delete", "Road", "")>>)
           b == When(Creates(d, "Road", "RCSDRoad"), Create("RCSDRoad"))
           v == When(~Is(d, "Tiles"),
                     <<Op("tiles", "Tiles", IF copied THEN TilesBeside(d) ELSE Empty)>>)
           A == IF Is(d, "Road") \/ Is(d, "RCSDRoad") THEN {"RCSDRoad"} ELSE {}
           B == IF Creates(d, "Road", "RCSDRoad") THEN {"RCSDRoad"} ELSE {}
<1>1. Leads(a, d, {"Road"}, A)
  BY BareMovesLead
<1>2. Leads(b, d, {}, B) /\ Leads(v, d, {}, {"Tiles"})
  <2>1. Creates(d, "Road", "RCSDRoad") => ~Is(d, "RCSDRoad")
    BY DEF Creates
  <2> QED
    BY <2>1, CreateLeads, TilesLead
<1>3. A \cup B = {"RCSDRoad"}
  BY DEF Creates
<1>4. PlanV3(d, copied) = (a \o b) \o v
  BY DEF PlanV3
<1> HIDE DEF a, b, v, A, B
<1>5. Leads(a \o b, d, {"Road"} \cup {}, A \cup B)
  BY <1>1, <1>2, LeadsJoin
<1>6. Leads(a \o b, d, {"Road"}, {"RCSDRoad"})
  BY <1>3, <1>5
<1>7. Leads((a \o b) \o v, d, {"Road"} \cup {}, {"RCSDRoad"} \cup {"Tiles"})
  BY <1>2, <1>6, LeadsJoin
<1>8. Gone("v3") = {"Road"} \cup {} /\ Needed("v3") = {"RCSDRoad"} \cup {"Tiles"}
  BY DEF Gone, Needed
<1> QED
  BY <1>4, <1>7, <1>8

(* A patch that has been migrated gives nothing to do.                     *)
LEMMA MigratedIsDone ==
    ASSUME NEW d, NEW copied, NEW script \in {"v2", "v3"}, Migrated(script, d)
    PROVE  Plan(script, d, copied) = <<>>
<1>1. <<>> \o <<>> = <<>>
  OBVIOUS
<1>2. CASE script = "v2"
  <2>1. /\ ~Is(d, "gore") /\ Is(d, "DivStripZone") /\ Is(d, "RCSDNode")
        /\ Is(d, "intersection_l")
    BY <1>2 DEF Migrated, Gone, Needed
  <2>2. Moves(d, "gore", "DivStripZone") = <<>>
    BY <1>1, <2>1 DEF Moves, When, Renames, Deletes
  <2>3. PlanV2(d) = <<>>
    BY <1>1, <2>1, <2>2 DEF PlanV2, When, Creates
  <2> QED
    BY <1>2, <2>3 DEF Plan
<1>3. CASE script = "v3"
  <2>1. ~Is(d, "Road") /\ Is(d, "RCSDRoad") /\ Is(d, "Tiles")
    BY <1>3 DEF Migrated, Gone, Needed
  <2>2. PlanV3(d, copied) = <<>>
    BY <1>1, <2>1 DEF PlanV3, When, Renames, Deletes, Creates
  <2> QED
    BY <1>3, <2>2 DEF Plan
<1> QED
  BY <1>2, <1>3

LEMMA GoneAndNeeded ==
    ASSUME NEW script \in {"v2", "v3"}
    PROVE  /\ Gone(script) \subseteq Files /\ Needed(script) \subseteq Files
           /\ Gone(script) \cap Needed(script) = {}
BY DEF Gone, Needed, Files

(* What is left of steps that lead on leads on after the first of them.    *)
LEMMA LeadsNext ==
    ASSUME DiskTypes, NEW d \in Dirs, d = migration.at, NEW s, s # <<>>,
           NEW G, NEW N, G \subseteq Files, N \subseteq Files, G \cap N = {},
           Leads(s, d, G, N), Done(s[1])
    PROVE  Leads(Tail(s), d, G, N)'
<1> DEFINE o == s[1]
           t == Tail(s)
<1>1. PICK S : s \in Seq(S)
  BY DEF Leads
<1>2. /\ 1 \in 1..Len(s) /\ t \in Seq(S) /\ Len(t) = Len(s) - 1
      /\ \A i \in 1..Len(t) : t[i] = s[i + 1] /\ i + 1 \in 1..Len(s) /\ i + 1 # 1
      /\ \A i \in 1..Len(s) : i # 1 => i - 1 \in 1..Len(t) /\ t[i - 1] = s[i]
  BY <1>1
<1> HIDE DEF t
<1>3. Handles(o, G, N) /\ (o.op = "rename" => Is(d, o.file))
  BY <1>2 DEF Leads
<1>4. /\ o.op \in {"rename", "delete", "sweep", "create", "tiles"} => o.file \in Files
      /\ o.op = "rename" => o.to \in Files /\ o.to # o.file
  BY <1>3 DEF Handles
<1>5. /\ \A f \in Files : /\ Takes(o, f) => disk'[d].files[f] = NoFile
                          /\ ~(Takes(o, f) \/ Puts(o, f)) =>
                                 disk'[d].files[f] = disk[d].files[f]
      /\ o.op = "rename" => disk'[d].files[o.to] = disk[d].files[o.file]
      /\ o.op = "create" => disk'[d].files[o.file] = Empty
      /\ o.op = "tiles" => disk'[d].files[o.file] = o.to
  BY <1>4, FilesDone
<1>6. \A f : (Takes(o, f) => f \in G) /\ (Puts(o, f) => f \in N)
  BY <1>3, HandledFiles
<1>7. \A f \in Files : Puts(o, f) => disk'[d].files[f] # NoFile
  BY <1>3, <1>5, TilesAreThere DEF Puts, Handles, Is
<1>8. \A i \in 1..Len(t) : Handles(t[i], G, N)
  BY <1>2 DEF Leads
<1>9. ASSUME NEW f \in G, disk'[d].files[f] # NoFile
      PROVE  \E i \in 1..Len(t) : Takes(t[i], f)
  <2>1. ~Takes(o, f) /\ Is(d, f)
    BY <1>5, <1>6, <1>9 DEF Is
  <2>2. PICK i \in 1..Len(s) : Takes(s[i], f)
    BY <2>1 DEF Leads
  <2> QED
    BY <1>2, <2>1, <2>2
<1>10. ASSUME NEW f \in N
       PROVE  disk'[d].files[f] # NoFile \/ \E i \in 1..Len(t) : Puts(t[i], f)
  <2>1. CASE Puts(o, f)
    BY <1>7, <2>1
  <2>2. CASE ~Puts(o, f) /\ Is(d, f)
    BY <1>5, <1>6, <2>2 DEF Is
  <2>3. CASE ~Puts(o, f) /\ ~Is(d, f)
    <3>1. PICK i \in 1..Len(s) : Puts(s[i], f)
      BY <2>3 DEF Leads
    <3> QED
      BY <1>2, <2>3, <3>1
  <2> QED
    BY <2>1, <2>2, <2>3
<1>11. ASSUME NEW i \in 1..Len(t), t[i].op = "rename"
       PROVE  /\ disk'[d].files[t[i].file] # NoFile
              /\ \A j \in 1..(i - 1) : ~Takes(t[j], t[i].file)
  <2>1. t[i] = s[i + 1] /\ i + 1 \in 1..Len(s)
    BY <1>2
  <2>2. Is(d, t[i].file) /\ \A j \in 1..i : ~Takes(s[j], t[i].file)
    BY <1>11, <2>1 DEF Leads
  <2>3. t[i].file \in G
    BY <1>8, <1>11 DEF Handles
  <2>4. ~Takes(o, t[i].file) /\ ~Puts(o, t[i].file)
    BY <1>6, <2>2, <2>3
  <2>5. ASSUME NEW j \in 1..(i - 1)
        PROVE  ~Takes(t[j], t[i].file)
    <3>1. j \in 1..Len(t) /\ j + 1 \in 1..i
      BY <1>2
    <3> QED
      BY <1>2, <2>2, <3>1
  <2> QED
    BY <1>5, <2>2, <2>3, <2>4, <2>5 DEF Is
<1>12. Leads(t, d, G, N)'
  BY <1>2, <1>8, <1>9, <1>10, <1>11 DEF Leads, Is
<1> QED
  BY <1>12 DEF t
-----------------------------------------------------------------------------
(* A run with --apply and without an error so far: the patches behind it   *)
(* are migrated, and the steps at hand lead there for the one it is at.    *)
ToWrite ==
    {<<Op("backup", "manifest", ""), Op("write", "manifest", "")>>,
     <<Op("write", "manifest", "")>>}

OnTheWay ==
    (/\ migration # Idle /\ migration.script \in {"v2", "v3"}
     /\ migration.apply /\ ~migration.errors) =>
        LET s == migration.script IN
        /\ ~Missed(s) /\ migration.todo \subseteq Found(s)
        /\ \A d \in Found(s) \ migration.todo :
              /\ disk[d].vector
              /\ d # migration.at \/ migration.ops = <<>> => Migrated(s, d)
        /\ migration.step = "patches" /\ migration.ops # <<>> =>
              migration.at \in Dirs /\ Leads(migration.ops, migration.at, Gone(s), Needed(s))
        /\ migration.step # "patches" =>
              /\ migration.todo = {} /\ migration.at = TheManifest
              /\ IF migration.ops = <<>> THEN Unnamed(s)
                 ELSE Readable /\ migration.ops \in ToWrite

(* After such a run has ended the data set is settled, and the next run of *)
(* the same script has found nothing so far.                               *)
Quiet ==
    (/\ report # Idle /\ report.script \in {"v2", "v3"} /\ report.apply /\ ~report.errors
     /\ migration = Idle \/ migration.script = report.script) =>
        /\ Settled(report.script)
        /\ migration # Idle =>
              /\ migration.modify = {} /\ ~migration.errors /\ migration.ops = <<>>
              /\ migration.todo \subseteq Found(report.script)

ListTypes ==
    /\ DOMAIN patchManifest = {"state", "ids", "names"}
    /\ \A n \in patchManifest.names : DOMAIN n = {"rcsd", "base"}

QuietInv == DiskTypes /\ JobTypes /\ ListTypes /\ OnTheWay /\ Quiet

(* What the list of patches says stays while a run has no error.           *)
SameList == patchManifest'.state = patchManifest.state /\ patchManifest'.ids = patchManifest.ids

LEMMA RewrittenTypes ==
    ASSUME NEW script, NEW n, DOMAIN n = {"rcsd", "base"}
    PROVE  DOMAIN Rewritten(script, n) = {"rcsd", "base"}
BY DEF Rewritten

LEMMA ListStep ==
    ASSUME ListTypes, [MigrationNext]_migrationVars
    PROVE  /\ ListTypes'
           /\ ~(StepFails \/ Die) => SameList
<1>1. CASE UNCHANGED patchManifest
  BY <1>1 DEF ListTypes, SameList
<1>2. ASSUME NEW script, patchManifest' = [patchManifest EXCEPT !.names = NewNames(script)]
      PROVE  ListTypes' /\ SameList
  <2>1. \A n \in NewNames(script) : DOMAIN n = {"rcsd", "base"}
    BY RewrittenTypes DEF ListTypes, NewNames
  <2> QED
    BY <1>2, <2>1 DEF ListTypes, SameList
<1>3. ASSUME patchManifest' = [patchManifest EXCEPT !.state = "torn"]
      PROVE  ListTypes'
  BY <1>3 DEF ListTypes
<1>4. CASE Step
  BY <1>1, <1>2, <1>4 DEF Step
<1>5. ASSUME NEW o, Broken(o)
      PROVE  ListTypes'
  BY <1>1, <1>3, <1>5 DEF Broken
<1>6. CASE StepFails
  BY <1>5, <1>6 DEF StepFails
<1>7. CASE Die
  BY <1>1, <1>5, <1>7 DEF Die
<1> QED
  BY <1>1, <1>4, <1>6, <1>7 DEF MigrationNext, migrationVars, Start, NextPatch, Manifest, Finish

LEMMA SameFound ==
    ASSUME SameDirs, SameList, NEW script
    PROVE  Found(script)' = Found(script) /\ Missed(script)' = Missed(script)
<1>1. \A id : Siblings(id)' = Siblings(id)
  BY DEF SameDirs, Siblings, There
<1>2. Ids' = Ids
  BY DEF SameList, Ids, Readable
<1>3. Scanned' = Scanned
  BY DEF SameDirs, Scanned, There
<1>4. Listed(Ids)' = Listed(Ids)
  BY <1>1, <1>2 DEF Listed
<1>5. Found(script)' = Found(script)
  BY <1>2, <1>3, <1>4 DEF Found
<1> QED
  BY <1>1, <1>2, <1>5 DEF Missed, SameList

LEMMA SettledStays ==
    ASSUME UNCHANGED <<disk, patchManifest>>, NEW script
    PROVE  /\ Found(script)' = Found(script) /\ Missed(script)' = Missed(script)
           /\ Settled(script) => Settled(script)'
           /\ Unnamed(script) => Unnamed(script)'
           /\ \A d : Migrated(script, d) => Migrated(script, d)'
<1>1. Found(script)' = Found(script) /\ Missed(script)' = Missed(script)
  <2>1. SameDirs /\ SameList
    BY DEF SameDirs, SameList
  <2> QED
    BY <2>1, SameFound
<1>2. Unnamed(script) => Unnamed(script)'
  BY DEF Unnamed, Mentions, NewNames
<1>3. \A d : Migrated(script, d) => Migrated(script, d)'
  BY DEF Migrated, Is
<1> QED
  BY <1>1, <1>2, <1>3 DEF Settled

LEMMA LeadsStays ==
    ASSUME UNCHANGED disk, NEW s, NEW d, NEW G, NEW N, Leads(s, d, G, N)
    PROVE  Leads(s, d, G, N)'
BY DEF Leads, Is

(* Renaming a second time changes nothing.                                 *)
LEMMA NothingToRename ==
    ASSUME ListTypes, NEW script \in {"v2", "v3"},
           patchManifest' = [patchManifest EXCEPT !.names = NewNames(script)]
    PROVE  Unnamed(script)'
<1>1. \A n \in patchManifest.names :
          Rewritten(script, Rewritten(script, n)) = Rewritten(script, n)
  <2>1. ASSUME NEW n \in patchManifest.names, script = "v2"
        PROVE  Rewritten(script, Rewritten(script, n)) = Rewritten(script, n)
    <3>1. "base" \in DOMAIN n
      BY DEF ListTypes
    <3>2. Rewritten(script, n).base # "gore"
      BY <2>1, <3>1 DEF Rewritten
    <3> QED
      BY <2>1, <3>2 DEF Rewritten
  <2>2. ASSUME NEW n \in patchManifest.names, script = "v3"
        PROVE  Rewritten(script, Rewritten(script, n)) = Rewritten(script, n)
    BY <2>2 DEF Rewritten
  <2> QED
    BY <2>1, <2>2
<1>2. patchManifest'.names = NewNames(script) /\ patchManifest'.state = patchManifest.state
  BY DEF ListTypes
<1>3. NewNames(script)' = patchManifest'.names
  BY <1>1, <1>2 DEF NewNames
<1> QED
  BY <1>3 DEF Unnamed, Mentions

LEMMA OnTheWayStart ==
    ASSUME NEW script \in Scripts, NEW apply \in BOOLEAN, NEW tiles \in BOOLEAN,
           Start(script, apply, tiles)
    PROVE  OnTheWay'
<1>1. /\ migration'.script = script /\ migration'.apply = apply /\ migration'.todo = Found(script)
      /\ migration'.ops = <<>> /\ migration'.step = "patches"
      /\ UNCHANGED <<disk, patchManifest>>
  BY DEF Start
<1>2. migration'.errors = Missed(script)
  BY DEF Start
<1>3. Found(script)' = Found(script) /\ Missed(script)' = Missed(script)
  BY <1>1, SettledStays
<1> QED
  BY <1>1, <1>2, <1>3 DEF OnTheWay

(* What NextPatch changes of the job.                                      *)
LEMMA NextPatchFacts ==
    ASSUME JobTypes, NextPatch
    PROVE  LET d == Earliest(migration.todo)
               plan == IF disk[d].vector THEN Plan(migration.script, d, migration.copy) ELSE <<>>
           IN  /\ migration # Idle /\ migration.ops = <<>> /\ migration.step = "patches"
               /\ d \in migration.todo /\ d \in Dirs
               /\ migration'.todo = migration.todo \ {d} /\ migration'.at = d
               /\ migration'.ops = (IF migration.apply THEN plan ELSE <<>>)
               /\ migration'.modify = (IF plan = <<>> THEN migration.modify
                                       ELSE migration.modify \cup {d})
               /\ migration'.script = migration.script /\ migration'.step = migration.step
               /\ migration'.apply = migration.apply
               /\ ~migration'.errors <=> ~migration.errors /\ disk[d].vector
               /\ UNCHANGED <<disk, patchManifest, report>>
<1> DEFINE d == Earliest(migration.todo)
<1>1. /\ migration # Idle /\ migration.ops = <<>> /\ migration.step = "patches"
      /\ migration.todo # {} /\ migration.todo \subseteq Dirs
      /\ UNCHANGED <<disk, patchManifest, report>>
  BY DEF NextPatch, JobTypes
<1>2. d \in migration.todo /\ d \in Dirs
  BY <1>1, EarliestIsOne
<1>3. migration'.errors = (migration.errors \/ ~disk[d].vector)
  BY <1>1 DEF NextPatch, JobTypes
<1>4. ~migration'.errors <=> ~migration.errors /\ disk[d].vector
  BY <1>3, Zenon
<1> QED
  BY <1>1, <1>2, <1>4 DEF NextPatch, JobTypes

LEMMA OnTheWayNextPatch ==
    ASSUME DiskTypes, JobTypes, OnTheWay, NextPatch
    PROVE  OnTheWay'
<1> DEFINE d == Earliest(migration.todo)
           script == migration.script
           plan == IF disk[d].vector THEN Plan(script, d, migration.copy) ELSE <<>>
<1>1. /\ migration # Idle /\ migration.ops = <<>> /\ migration.step = "patches"
      /\ d \in migration.todo /\ d \in Dirs
      /\ migration'.todo = migration.todo \ {d} /\ migration'.at = d
      /\ migration'.ops = (IF migration.apply THEN plan ELSE <<>>)
      /\ migration'.script = script /\ migration'.step = migration.step
      /\ migration'.apply = migration.apply
      /\ ~migration'.errors <=> ~migration.errors /\ disk[d].vector
      /\ UNCHANGED <<disk, patchManifest>>
  BY NextPatchFacts
<1> HIDE DEF d
<1> SUFFICES ASSUME script \in {"v2", "v3"}, migration.apply, ~migration.errors, disk[d].vector
             PROVE  OnTheWay'
  BY <1>1 DEF OnTheWay
<1>2. /\ ~Missed(script) /\ migration.todo \subseteq Found(script)
      /\ \A e \in Found(script) \ migration.todo : disk[e].vector /\ Migrated(script, e)
  BY <1>1 DEF OnTheWay
<1>3. PICK k : k = script
  OBVIOUS
<1>4. /\ Found(k)' = Found(k) /\ Missed(k)' = Missed(k)
      /\ \A e : Migrated(k, e) => Migrated(k, e)'
  BY <1>1, SettledStays
<1>5. Leads(plan, d, Gone(k), Needed(k))
  BY <1>3, PlanV2Leads, PlanV3Leads DEF Plan
<1>6. PICK s, e : s = migration'.ops /\ e = d
  OBVIOUS
<1>7. Leads(s, e, Gone(k), Needed(k))' /\ Leads(s, e, Gone(k), Needed(k))
  <2>1. Leads(s, e, Gone(k), Needed(k))
    BY <1>1, <1>5, <1>6
  <2> QED
    BY <1>1, <2>1, LeadsStays
<1>8. migration'.ops = <<>> => Migrated(k, e)'
  <2>1. s = <<>> => Migrated(k, e)
    BY <1>7, NothingLeads DEF Migrated
  <2> QED
    BY <1>4, <1>6, <2>1
<1>9. \A x \in Found(k) \ migration'.todo :
          /\ disk'[x].vector
          /\ x # e \/ migration'.ops = <<>> => Migrated(k, x)'
  BY <1>1, <1>2, <1>3, <1>4, <1>6, <1>8
<1>10. Leads(migration.ops, migration.at, Gone(k), Needed(k))'
  BY <1>1, <1>6, <1>7 DEF Leads
<1> QED
  BY <1>1, <1>2, <1>3, <1>4, <1>6, <1>9, <1>10 DEF OnTheWay

LEMMA NothingLeft ==
    ASSUME NEW d, NEW script, Leads(<<>>, d, Gone(script), Needed(script))'
    PROVE  Migrated(script, d)'
BY DEF Leads, Migrated, Is

LEMMA PairOfSteps ==
    ASSUME NEW x, NEW y
    PROVE  /\ Tail(<<x, y>>) = <<y>> /\ Head(<<x, y>>) = x
           /\ Tail(<<y>>) = <<>> /\ Head(<<y>>) = y /\ <<y>> # <<>>
<1>1. <<x, y>> \in Seq({x, y}) /\ <<y>> \in Seq({x, y})
  OBVIOUS
<1> QED
  BY <1>1

LEMMA OnTheWayStep ==
    ASSUME DiskTypes, DiskTypes', JobTypes, ListTypes, SameDirs, SameList, OnTheWay, Step
    PROVE  OnTheWay'
<1> DEFINE script == migration.script
           o == Head(migration.ops)
<1>1. /\ migration # Idle /\ migration.ops # <<>> /\ Done(o)
      /\ migration'.ops = Tail(migration.ops) /\ migration'.at = migration.at
      /\ migration'.step = migration.step /\ migration'.todo = migration.todo
      /\ migration'.script = migration.script /\ migration'.errors = migration.errors
      /\ migration'.apply = migration.apply
      /\ patchManifest' = IF o.op = "write" THEN [patchManifest EXCEPT !.names = NewNames(script)]
                          ELSE patchManifest
  <2>1. migration # Idle
    BY DEF Step
  <2>2. PICK m : migration' = [migration EXCEPT !.ops = Tail(@), !.undo = m]
    BY DEF Step
  <2> QED
    BY <2>1, <2>2 DEF Step, JobTypes
<1> SUFFICES ASSUME script \in {"v2", "v3"}, migration.apply, ~migration.errors
             PROVE  OnTheWay'
  BY <1>1 DEF OnTheWay
<1>2. PICK k : k = script
  OBVIOUS
<1>3. Found(k)' = Found(k) /\ Missed(k)' = Missed(k)
  BY SameFound
<1>4. /\ ~Missed(k) /\ migration.todo \subseteq Found(k)
      /\ \A e \in Found(k) \ migration.todo :
            disk[e].vector /\ (e # migration.at => Migrated(k, e))
  BY <1>1, <1>2 DEF OnTheWay
<1>5. /\ Found(k) \subseteq Dirs /\ Gone(k) \subseteq Files /\ Needed(k) \subseteq Files
      /\ Gone(k) \cap Needed(k) = {}
  BY <1>2, FoundAreDirs, GoneAndNeeded
<1>6. \A e \in Found(k) \ migration.todo :
          disk'[e].vector /\ (e # migration.at => Migrated(k, e)')
  BY <1>4, <1>5 DEF SameDirs, Migrated, Is
<1>7. CASE migration.step = "patches"
  <2>1. PICK s, d : s = migration.ops /\ d = migration.at
    OBVIOUS
  <2>2. d \in Dirs /\ Leads(s, d, Gone(k), Needed(k))
    BY <1>1, <1>2, <1>7, <2>1 DEF OnTheWay
  <2>3. Head(s) = s[1]
    BY <1>1, <2>1, <2>2 DEF Leads
  <2>4. Leads(Tail(s), d, Gone(k), Needed(k))'
    BY <1>1, <1>5, <2>1, <2>2, <2>3, LeadsNext
  <2>5. Leads(migration.ops, migration.at, Gone(k), Needed(k))'
    BY <1>1, <2>1, <2>4 DEF Leads
  <2>6. migration'.ops = <<>> => Migrated(k, d)'
    <3>1. Tail(s) = <<>> => Leads(<<>>, d, Gone(k), Needed(k))'
      BY <2>4 DEF Leads
    <3> QED
      BY <1>1, <2>1, <3>1, NothingLeft
  <2> QED
    BY <1>1, <1>2, <1>3, <1>4, <1>6, <1>7, <2>1, <2>2, <2>5, <2>6 DEF OnTheWay
<1>8. CASE migration.step # "patches"
  <2>1. /\ migration.todo = {} /\ migration.at = TheManifest
        /\ Readable /\ migration.ops \in ToWrite
    BY <1>1, <1>8 DEF OnTheWay
  <2>2. Readable'
    BY <2>1 DEF SameList, Readable
  <2>3. CASE migration.ops = <<Op("backup", "manifest", ""), Op("write", "manifest", "")>>
    <3>1. migration'.ops = <<Op("write", "manifest", "")>> /\ migration'.ops # <<>>
      <4>1. PICK x, y : x = Op("backup", "manifest", "") /\ y = Op("write", "manifest", "")
        OBVIOUS
      <4>2. migration.ops = <<x, y>>
        BY <2>3, <4>1
      <4>3. Tail(migration.ops) = <<y>> /\ <<y>> # <<>>
        BY <4>2, PairOfSteps
      <4> QED
        BY <1>1, <4>1, <4>3
    <3> QED
      BY <1>1, <1>2, <1>3, <1>4, <1>6, <1>8, <2>1, <2>2, <3>1 DEF OnTheWay, ToWrite
  <2>4. CASE migration.ops = <<Op("write", "manifest", "")>>
    <3>1. migration'.ops = <<>> /\ o = Op("write", "manifest", "")
      BY <1>1, <2>4, PairOfSteps
    <3>2. o.op = "write"
      <4>1. Op("write", "manifest", "").op = "write"
        BY DEF Op
      <4> QED
        BY <3>1, <4>1
    <3>3. Unnamed(k)'
      BY <1>1, <1>2, <3>2, NothingToRename
    <3>4. \A e \in Found(k) \ migration.todo : e # migration.at
      BY <1>5, <2>1, DirsAssumption
    <3> QED
      BY <1>1, <1>2, <1>3, <1>4, <1>6, <1>8, <2>1, <3>1, <3>3, <3>4 DEF OnTheWay
  <2> QED
    BY <2>1, <2>3, <2>4 DEF ToWrite
<1> QED
  BY <1>7, <1>8

(* What Manifest changes of the job.                                       *)
LEMMA ManifestFacts ==
    ASSUME JobTypes, Manifest
    PROVE  \E changed \in Mentions(migration.script) :
               /\ migration # Idle /\ migration.step = "patches"
               /\ migration.ops = <<>> /\ migration.todo = {}
               /\ migration'.todo = {} /\ migration'.at = TheManifest /\ migration'.step = "end"
               /\ migration'.script = migration.script /\ migration'.apply = migration.apply
               /\ migration'.errors = migration.errors
               /\ migration'.modify = (IF changed THEN migration.modify \cup {TheManifest}
                                       ELSE migration.modify)
               /\ migration'.ops =
                      (IF changed /\ migration.apply
                       THEN <<Op("backup", "manifest", ""), Op("write", "manifest", "")>>
                       ELSE <<>>)
               /\ UNCHANGED <<disk, patchManifest, report>>
<1>1. /\ migration # Idle /\ migration.step = "patches"
      /\ migration.ops = <<>> /\ migration.todo = {}
      /\ UNCHANGED <<disk, patchManifest, report>>
  BY DEF Manifest
<1>2. PICK changed \in Mentions(migration.script) :
          migration' = [migration EXCEPT !.step = "end", !.at = TheManifest,
                           !.modify = IF changed THEN @ \cup {TheManifest} ELSE @,
                           !.ops = When(changed /\ migration.apply,
                                        <<Op("backup", "manifest", ""), Op("write", "manifest", "")>>)]
  BY DEF Manifest
<1> QED
  BY <1>1, <1>2 DEF JobTypes, When

LEMMA OnTheWayManifest ==
    ASSUME DiskTypes, JobTypes, OnTheWay, Manifest
    PROVE  OnTheWay'
<1> DEFINE script == migration.script
<1>1. PICK changed \in Mentions(script) :
               /\ migration # Idle /\ migration.step = "patches"
               /\ migration.ops = <<>> /\ migration.todo = {}
               /\ migration'.todo = {} /\ migration'.at = TheManifest /\ migration'.step = "end"
               /\ migration'.script = script /\ migration'.apply = migration.apply
               /\ migration'.errors = migration.errors
               /\ migration'.ops =
                      (IF changed /\ migration.apply
                       THEN <<Op("backup", "manifest", ""), Op("write", "manifest", "")>>
                       ELSE <<>>)
               /\ UNCHANGED <<disk, patchManifest>>
  BY ManifestFacts
<1> SUFFICES ASSUME script \in {"v2", "v3"}, migration.apply, ~migration.errors
             PROVE  OnTheWay'
  BY <1>1 DEF OnTheWay
<1>2. PICK k : k = script
  OBVIOUS
<1>3. /\ Found(k)' = Found(k) /\ Missed(k)' = Missed(k)
      /\ Unnamed(k) => Unnamed(k)'
      /\ \A e : Migrated(k, e) => Migrated(k, e)'
  BY <1>1, SettledStays
<1>4. /\ ~Missed(k)
      /\ \A e \in Found(k) : disk[e].vector /\ Migrated(k, e)
  BY <1>1, <1>2 DEF OnTheWay
<1>5. CASE changed
  <2>1. Readable
    BY <1>1, <1>5 DEF Mentions, Readable
  <2>2. Readable' /\ migration'.ops \in ToWrite
    BY <1>1, <1>5, <2>1 DEF Readable, ToWrite
  <2>3. PICK x, y : migration'.ops = <<x, y>>
    BY <1>1, <1>5
  <2>4. <<x, y>> # <<>>
    OBVIOUS
  <2>5. migration'.ops # <<>>
    BY <2>3, <2>4
  <2> QED
    BY <1>1, <1>2, <1>3, <1>4, <2>2, <2>5 DEF OnTheWay
<1>6. CASE ~changed
  <2>1. Unnamed(k)
    BY <1>1, <1>2, <1>6 DEF Mentions, Unnamed
  <2> QED
    BY <1>1, <1>2, <1>3, <1>4, <1>6, <2>1 DEF OnTheWay
<1> QED
  BY <1>5, <1>6

LEMMA OnTheWayNext ==
    ASSUME QuietInv, [MigrationNext]_migrationVars
    PROVE  OnTheWay'
<1> USE DEF QuietInv
<1>1. SameDirs /\ DiskTypes'
  BY DiskStep
<1>2. CASE UNCHANGED migrationVars
  <2>1. UNCHANGED <<disk, patchManifest, migration>>
    BY <1>2 DEF migrationVars
  <2>2. PICK k, s, d : k = migration.script /\ s = migration.ops /\ d = migration.at
    OBVIOUS
  <2>3. /\ Found(k)' = Found(k) /\ Missed(k)' = Missed(k)
        /\ Unnamed(k) => Unnamed(k)'
        /\ \A e : Migrated(k, e) => Migrated(k, e)'
    BY <2>1, SettledStays
  <2>4. Leads(s, d, Gone(k), Needed(k)) => Leads(s, d, Gone(k), Needed(k))'
    BY <2>1, LeadsStays
  <2>5. Leads(s, d, Gone(k), Needed(k))' =>
            Leads(migration.ops, migration.at, Gone(k), Needed(k))'
    BY <2>1, <2>2 DEF Leads
  <2>6. Readable' = Readable
    BY <2>1 DEF Readable
  <2> QED
    BY <2>1, <2>2, <2>3, <2>4, <2>5, <2>6 DEF OnTheWay
<1>3. ASSUME NEW script \in Scripts, NEW apply \in BOOLEAN, NEW tiles \in BOOLEAN,
             Start(script, apply, tiles)
      PROVE  OnTheWay'
  BY <1>3, OnTheWayStart
<1>4. CASE NextPatch
  BY <1>4, OnTheWayNextPatch
<1>5. CASE Step
  <2>1. ~(StepFails \/ Die) \/ migration' = Idle \/ migration'.errors
    BY DEF StepFails, Die, JobTypes
  <2>2. CASE ~(StepFails \/ Die)
    BY <1>1, <1>5, <2>2, ListStep, OnTheWayStep
  <2>3. CASE migration' = Idle \/ migration'.errors
    BY <2>3 DEF OnTheWay
  <2> QED
    BY <2>1, <2>2, <2>3
<1>6. CASE StepFails
  <2>1. migration'.errors = TRUE
    BY <1>6 DEF StepFails, JobTypes
  <2> QED
    BY <2>1 DEF OnTheWay
<1>7. CASE Manifest
  BY <1>7, OnTheWayManifest
<1>8. CASE Finish \/ Die
  BY <1>8 DEF Finish, Die, OnTheWay
<1> QED
  BY <1>2, <1>3, <1>4, <1>5, <1>6, <1>7, <1>8 DEF MigrationNext

LEMMA QuietNext ==
    ASSUME QuietInv, [MigrationNext]_migrationVars
    PROVE  Quiet'
<1> USE DEF QuietInv
<1> DEFINE Boasts == /\ report # Idle /\ report.script \in {"v2", "v3"}
                     /\ report.apply /\ ~report.errors
<1>1. PICK k : k = report.script
  OBVIOUS
<1>2. ASSUME UNCHANGED <<disk, patchManifest, report>>
      PROVE  /\ Found(k)' = Found(k) /\ Missed(k)' = Missed(k)
             /\ Settled(k) => Settled(report.script)'
             /\ Boasts' = Boasts
  <2>1. Found(k)' = Found(k) /\ Missed(k)' = Missed(k) /\ (Settled(k) => Settled(k)')
    BY <1>2, SettledStays
  <2>2. Settled(k)' => Settled(report.script)'
    BY <1>1, <1>2 DEF Settled, Unnamed, Mentions, NewNames, Found, Missed, Migrated
  <2> QED
    BY <1>2, <2>1, <2>2
<1>3. CASE UNCHANGED migrationVars
  <2>1. UNCHANGED <<disk, patchManifest, report, migration>>
    BY <1>3 DEF migrationVars
  <2> QED
    BY <1>1, <1>2, <2>1 DEF Quiet
<1>4. ASSUME NEW script \in Scripts, NEW apply \in BOOLEAN, NEW tiles \in BOOLEAN,
             Start(script, apply, tiles)
      PROVE  Quiet'
  <2>1. /\ migration = Idle
        /\ migration'.script = script /\ migration'.todo = Found(script)
        /\ migration'.ops = <<>> /\ migration'.modify = {}
        /\ UNCHANGED <<disk, patchManifest, report>>
    BY <1>4 DEF Start
  <2>2. migration'.errors = Missed(script)
    BY <1>4 DEF Start
  <2> SUFFICES ASSUME Boasts, script = k, Boasts', migration' # Idle
               PROVE  Quiet'
    BY <1>1, <1>2, <1>4, <2>1, RunningIsNotIdle DEF Quiet
  <2>3. Settled(k)
    BY <1>1, <2>1 DEF Quiet
  <2>4. ~migration'.errors
    BY <2>2, <2>3 DEF Settled
  <2> QED
    BY <1>1, <1>2, <2>1, <2>3, <2>4 DEF Quiet
<1>5. CASE NextPatch
  <2> DEFINE d == Earliest(migration.todo)
             plan == IF disk[d].vector THEN Plan(migration.script, d, migration.copy) ELSE <<>>
  <2>1. /\ migration # Idle /\ migration.ops = <<>>
        /\ d \in migration.todo
        /\ migration'.todo = migration.todo \ {d}
        /\ migration'.ops = (IF migration.apply THEN plan ELSE <<>>)
        /\ migration'.modify = (IF plan = <<>> THEN migration.modify ELSE migration.modify \cup {d})
        /\ migration'.script = migration.script
        /\ ~migration'.errors <=> ~migration.errors /\ disk[d].vector
        /\ UNCHANGED <<disk, patchManifest, report>>
    BY <1>5, NextPatchFacts
  <2> HIDE DEF d
  <2> SUFFICES ASSUME Boasts, migration.script = k
               PROVE  /\ Settled(report.script)'
                      /\ migration'.modify = {} /\ ~migration'.errors /\ migration'.ops = <<>>
                      /\ migration'.todo \subseteq Found(k)'
    BY <1>1, <1>2, <2>1 DEF Quiet, JobTypes, Idle, Scripts, Found
  <2>2. /\ Settled(k) /\ migration.modify = {} /\ ~migration.errors
        /\ migration.todo \subseteq Found(k)
    BY <1>1, <2>1 DEF Quiet
  <2>3. disk[d].vector /\ Migrated(k, d)
    BY <2>1, <2>2 DEF Settled
  <2>4. plan = <<>>
    BY <1>1, <2>3, MigratedIsDone
  <2> QED
    BY <1>2, <2>1, <2>2, <2>3, <2>4
<1>6. CASE Step \/ StepFails
  <2>1. migration # Idle /\ migration.ops # <<>> /\ UNCHANGED report
    BY <1>6 DEF Step, StepFails
  <2>2. migration' # Idle /\ migration'.script = migration.script
    <3>1. \/ \E o, m : migration' = [migration EXCEPT !.ops = o, !.undo = m]
          \/ \E o : migration' = [migration EXCEPT !.ops = o, !.errors = TRUE]
      BY <1>6 DEF Step, StepFails
    <3>2. migration'.script = migration.script /\ migration.script \in Scripts
      BY <2>1, <3>1 DEF JobTypes
    <3> QED
      BY <3>2, RunningIsNotIdle
  <2>3. ~(Boasts /\ migration.script = report.script)
    BY <2>1 DEF Quiet
  <2> QED
    BY <2>1, <2>2, <2>3 DEF Quiet
<1>7. CASE Manifest
  <2>1. PICK changed \in Mentions(migration.script) :
               /\ migration # Idle /\ migration.todo = {} /\ migration'.todo = {}
               /\ migration'.script = migration.script
               /\ migration'.errors = migration.errors
               /\ migration'.modify = (IF changed THEN migration.modify \cup {TheManifest}
                                       ELSE migration.modify)
               /\ migration'.ops =
                      (IF changed /\ migration.apply
                       THEN <<Op("backup", "manifest", ""), Op("write", "manifest", "")>>
                       ELSE <<>>)
               /\ UNCHANGED <<disk, patchManifest, report>>
    BY <1>7, ManifestFacts
  <2>2. migration' # Idle
    BY <2>1, RunningIsNotIdle DEF JobTypes
  <2>3. ASSUME Boasts, migration.script = report.script
        PROVE  /\ Settled(report.script)'
               /\ migration'.modify = {} /\ ~migration'.errors /\ migration'.ops = <<>>
    <3>1. Settled(k) /\ migration.modify = {} /\ ~migration.errors
      BY <1>1, <2>1, <2>3 DEF Quiet
    <3>2. ~changed
      BY <1>1, <2>1, <2>3, <3>1 DEF Settled, Unnamed
    <3> QED
      BY <1>2, <2>1, <3>1, <3>2
  <2> QED
    BY <2>1, <2>2, <2>3 DEF Quiet
<1>8. CASE Finish
  <2>1. /\ migration # Idle /\ migration.step = "end" /\ migration.ops = <<>>
        /\ migration' = Idle /\ UNCHANGED <<disk, patchManifest>>
        /\ report'.script = migration.script /\ report'.apply = migration.apply
        /\ report'.errors = migration.errors
    BY <1>8 DEF Finish
  <2>2. ASSUME migration.script \in {"v2", "v3"}, migration.apply, ~migration.errors
        PROVE  Settled(report.script)'
    <3>1. PICK r : r = migration.script
      OBVIOUS
    <3>2. Settled(r)
      BY <2>1, <2>2, <3>1 DEF OnTheWay, Settled
    <3>3. Settled(r)'
      BY <2>1, <3>2, SettledStays
    <3> QED
      BY <2>1, <3>1, <3>3 DEF Settled, Unnamed, Mentions, NewNames, Found, Missed, Migrated
  <2> QED
    BY <2>1, <2>2 DEF Quiet
<1>9. CASE Die
  BY <1>9 DEF Die, Quiet
<1> QED
  BY <1>3, <1>4, <1>5, <1>6, <1>7, <1>8, <1>9 DEF MigrationNext

LEMMA QuietInit == MigrationInit => QuietInv
<1> SUFFICES ASSUME MigrationInit PROVE QuietInv
  OBVIOUS
<1>1. DiskTypes /\ ListTypes
  BY DirsAssumption DEF MigrationInit, DiskTypes, ListTypes
<1>2. migration = Idle /\ report = Idle
  BY DEF MigrationInit
<1> QED
  BY <1>1, <1>2 DEF QuietInv, JobTypes, OnTheWay, Quiet

LEMMA QuietInvNext == QuietInv /\ [MigrationNext]_migrationVars => QuietInv'
BY DiskStep, JobStep, ListStep, OnTheWayNext, QuietNext DEF QuietInv

(* After a successful run with --apply, v2 and v3 find nothing to modify   *)
(* and no error ("The script is idempotent"), whatever had failed or died  *)
(* before: for any directories, any data set and any number of runs.       *)
THEOREM SecondRunsAreQuiet == MigrationSpec => SecondRunIsQuiet
<1> DEFINE Still ==
        /\ migration # Idle /\ migration.script \in {"v2", "v3"}
        /\ report # Idle /\ report.script = migration.script /\ report.apply /\ ~report.errors
        => migration'.script = "none" \/ (migration'.modify = {} /\ ~migration'.errors)
<1>1. ASSUME QuietInv, QuietInv', [MigrationNext]_migrationVars
      PROVE  [Still]_migrationVars
  <2> SUFFICES ASSUME migration # Idle, migration.script \in {"v2", "v3"}, report # Idle,
                      report.script = migration.script, report.apply, ~report.errors,
                      migration' # Idle
               PROVE  migration'.modify = {} /\ ~migration'.errors
    BY DEF Idle
  <2>1. migration.ops = <<>>
    BY <1>1 DEF QuietInv, Quiet
  <2>2. CASE UNCHANGED migrationVars
    BY <1>1, <2>2 DEF QuietInv, Quiet, migrationVars
  <2>3. CASE NextPatch
    <3>1. migration'.script = migration.script /\ UNCHANGED report
      BY <1>1, <2>3, NextPatchFacts DEF QuietInv
    <3> QED
      BY <1>1, <3>1 DEF QuietInv, Quiet
  <2>4. CASE Manifest
    <3>1. migration'.script = migration.script /\ UNCHANGED report
      BY <1>1, <2>4, ManifestFacts DEF QuietInv
    <3> QED
      BY <1>1, <3>1 DEF QuietInv, Quiet
  <2> QED
    BY <1>1, <2>1, <2>2, <2>3, <2>4
       DEF MigrationNext, Start, Step, StepFails, Finish, Die
<1> QED
  BY <1>1, QuietInit, QuietInvNext, PTL DEF MigrationSpec, SecondRunIsQuiet
=============================================================================
