----------------------------- MODULE RoadRunProofs ---------------------------
(***************************************************************************)
(* Theorems about a run of the legacy t05, for every set of runs, every    *)
(* finite pass result, every support of a corridor and all the facts a     *)
(* candidate may be built from.                                            *)
(***************************************************************************)
EXTENDS RoadRun, FiniteSetTheorems, SequenceTheorems, TLAPS

(* What the checks leave of a candidate, step by step.                     *)
Shape == {"line", "gate", "fallback", "swapped", "override", "hard"}

LinesChecked(c) ==
    /\ DOMAIN c = Shape
    /\ c.line.there => c.swapped \/ /\ c.line.gore => "divstrip" \in c.hard
                                    /\ c.line.bridge => "bridge" \in c.hard
CorridorChecked(c) ==
    c.line.there => Within(c.line, c.gate) = "in" \/ "corridor" \in c.hard
ZoneChecked(c) ==
    c.line.there => c.line.zone = "in" \/ c.override \/ "zone" \in c.hard
SurfaceChecked(f, c) ==
    c.line.there /\ f.enforced => c.line.surf = "in" \/ "surface" \in c.hard

LEMMA ShapedFits == ASSUME NEW f PROVE DOMAIN Refit(f, Shaped(f)) = Shape
<1> DEFINE a == Start(f)
           b == DirectRescue(f, a)
           c == Downgrade(f, b)
           d == Widen(f, c)
           e == GoreFree(f, d)
<1>1. DOMAIN a = Shape
  BY DEF Start, Shape
<1>2. DOMAIN b = Shape
  BY <1>1 DEF DirectRescue
<1>3. DOMAIN c = Shape
  BY <1>2 DEF Downgrade
<1>4. DOMAIN d = Shape
  BY <1>3 DEF Widen
<1>5. DOMAIN e = Shape
  BY <1>4 DEF GoreFree
<1>6. e = Shaped(f)
  BY DEF Shaped
<1> QED
  BY <1>5, <1>6 DEF Refit

LEMMA GeometryFits ==
    ASSUME NEW c, DOMAIN c = Shape
    PROVE  LinesChecked(GeometryCheck(c))
BY DEF LinesChecked, GeometryCheck, Shape

LEMMA CorridorFits ==
    ASSUME NEW f, NEW c, LinesChecked(c)
    PROVE  LinesChecked(CorridorCheck(f, c)) /\ CorridorChecked(CorridorCheck(f, c))
BY DEF LinesChecked, CorridorChecked, CorridorCheck, Shape

LEMMA ZoneFits ==
    ASSUME NEW f, NEW c, LinesChecked(c), CorridorChecked(c)
    PROVE  LET z == ZoneCheck(f, c) IN LinesChecked(z) /\ CorridorChecked(z) /\ ZoneChecked(z)
BY DEF LinesChecked, CorridorChecked, ZoneChecked, ZoneCheck, Shape

LEMMA SurfaceFits ==
    ASSUME NEW f, NEW c, LinesChecked(c), CorridorChecked(c), ZoneChecked(c)
    PROVE  LET z == SurfaceCheck(f, c) IN
              LinesChecked(z) /\ CorridorChecked(z) /\ ZoneChecked(z) /\ SurfaceChecked(f, z)
BY DEF LinesChecked, CorridorChecked, ZoneChecked, SurfaceChecked, SurfaceCheck, Shape

(* What CleanRoadsAreChecked says of a road.                               *)
Checked(v) ==
    v.hard = {} =>
        /\ v.swapped \/ ~(v.line.gore \/ v.line.bridge)
        /\ Within(v.line, v.gate) # "out"
        /\ v.line.zone # "out" \/ v.override
        /\ v.held => v.line.surf # "out"

LEMMA RescueFits ==
    ASSUME NEW f, NEW c, LinesChecked(c), CorridorChecked(c), ZoneChecked(c), SurfaceChecked(f, c),
           c.line.there, NearRescue(f, c).hard = {}
    PROVE  LET z == NearRescue(f, c) IN
             /\ z.line = c.line /\ z.gate = c.gate
             /\ z.swapped = c.swapped /\ z.override = c.override
             /\ c.swapped \/ ~(c.line.gore \/ c.line.bridge)
             /\ Within(c.line, c.gate) # "out"
             /\ c.line.zone # "out" \/ c.override
             /\ f.enforced => c.line.surf # "out"
<1> DEFINE near == {r \in {"corridor", "zone"} :
                       \/ r = "corridor" /\ Within(c.line, c.gate) = "near"
                       \/ r = "zone" /\ c.line.zone = "near" /\ EndsNoted(f, c)}
           rest == c.hard \ near
           z == NearRescue(f, c)
<1>1. z = [c EXCEPT !.hard = IF c.line.surf = "near" /\ rest \subseteq {"surface", "zone", "corridor"}
                             THEN rest \ {"surface"} ELSE rest]
  BY DEF NearRescue
<1>2. z.line = c.line /\ z.gate = c.gate /\ z.swapped = c.swapped /\ z.override = c.override
  BY <1>1 DEF LinesChecked, Shape
<1>3. z.hard = IF c.line.surf = "near" /\ rest \subseteq {"surface", "zone", "corridor"}
               THEN rest \ {"surface"} ELSE rest
  BY <1>1 DEF LinesChecked, Shape
<1>4. "divstrip" \notin c.hard /\ "bridge" \notin c.hard
  BY <1>3
<1>5. "corridor" \in c.hard => Within(c.line, c.gate) = "near"
  BY <1>3
<1>6. "zone" \in c.hard => c.line.zone = "near"
  BY <1>3
<1>7. "surface" \in c.hard => c.line.surf = "near"
  BY <1>3
<1> HIDE DEF z
<1>8. c.swapped \/ ~(c.line.gore \/ c.line.bridge)
  BY <1>4 DEF LinesChecked
<1>9. Within(c.line, c.gate) # "out"
  BY <1>5 DEF CorridorChecked
<1>10. c.line.zone # "out" \/ c.override
  BY <1>6 DEF ZoneChecked
<1>11. f.enforced => c.line.surf # "out"
  BY <1>7 DEF SurfaceChecked
<1> QED
  BY <1>2, <1>8, <1>9, <1>10, <1>11 DEF z

LEMMA VerdictsAreChecked ==
    ASSUME NEW f, NEW b
    PROVE  LET v == [Verdict(f) EXCEPT !.branch = b] IN
              /\ v.geometry => Checked(v)
              /\ v.feasible => Selectable(v)
<1> DEFINE d == Refit(f, Shaped(f))
           g == GeometryCheck(d)
           k == CorridorCheck(f, g)
           n == ZoneCheck(f, k)
           s == SurfaceCheck(f, n)
           c == NearRescue(f, s)
           v == [Verdict(f) EXCEPT !.branch = b]
<1>1. LinesChecked(g)
  BY ShapedFits, GeometryFits
<1>2. LinesChecked(k) /\ CorridorChecked(k)
  BY <1>1, CorridorFits
<1>3. LinesChecked(n) /\ CorridorChecked(n) /\ ZoneChecked(n)
  BY <1>2, ZoneFits
<1>4. LinesChecked(s) /\ CorridorChecked(s) /\ ZoneChecked(s) /\ SurfaceChecked(f, s)
  BY <1>3, SurfaceFits
<1> HIDE DEF s
<1>5. c = Judged(f)
  BY DEF Judged, s
<1>6. c.line = s.line
  BY <1>4 DEF NearRescue, LinesChecked, Shape
<1>7. s.line.there /\ c.hard = {} =>
         /\ c.gate = s.gate /\ c.swapped = s.swapped /\ c.override = s.override
         /\ s.swapped \/ ~(s.line.gore \/ s.line.bridge)
         /\ Within(s.line, s.gate) # "out"
         /\ s.line.zone # "out" \/ s.override
         /\ f.enforced => s.line.surf # "out"
  BY <1>4, RescueFits
<1> HIDE DEF c
<1>8. /\ v.geometry = c.line.there /\ v.line = c.line /\ v.gate = c.gate /\ v.hard = c.hard
      /\ v.swapped = c.swapped /\ v.override = c.override /\ v.held = f.enforced
      /\ v.feasible = (/\ c.line.there /\ c.hard \cap Blocking = {}
                       /\ "surface" \notin c.hard \/ f.kind = "branch")
  BY <1>5 DEF Verdict
<1> HIDE DEF v
<1>9. v.geometry => Checked(v)
  BY <1>6, <1>7, <1>8 DEF Checked
<1>10. v.feasible => Selectable(v)
  BY <1>8 DEF Selectable
<1> QED
  BY <1>9, <1>10 DEF v
-----------------------------------------------------------------------------
(* Least and greatest elements.                                            *)
LEMMA LeastOfSome ==
    ASSUME NEW S, S \subseteq Nat, S # {}
    PROVE  \E p \in S : \A q \in S : p <= q
<1> DEFINE Less == OpToRel(<, Nat)
<1>1. PICK p \in S : \A q \in S : <<q, p>> \notin Less
  BY NatLessThanWellFounded, WFMin
<1>2. Less = {s \in Nat \X Nat : s[1] < s[2]}
  BY DEF OpToRel
<1>3. \A q \in Nat : q < p => <<q, p>> \in Less
  BY <1>2
<1> HIDE DEF Less
<1>4. \A q \in S : ~(q < p)
  BY <1>1, <1>3
<1> QED
  BY <1>4

(* A finite set that is bad in some way has a bad subset all whose proper  *)
(* subsets are good: what the next two inductions rest on.                 *)
LEMMA LeastBadSubset ==
    ASSUME NEW S, IsFiniteSet(S), NEW Bad, \A T \in Bad : T \subseteq S, Bad # {}
    PROVE  \E T \in Bad : \A U \in Bad : U \subseteq T => U = T
<1>1. IsWellFoundedOn(StrictSubsetOrdering(S), SUBSET S)
  BY FS_StrictSubsetOrderingWellFounded, FS_FiniteSubsetsOfFinite
<1>2. PICK T \in Bad : \A U \in Bad : <<U, T>> \notin StrictSubsetOrdering(S)
  <2>1. Bad \subseteq SUBSET S
    OBVIOUS
  <2> QED
    BY <1>1, <2>1, WFMin
<1>3. \A U \in Bad : U \subseteq T /\ U # T => <<U, T>> \in StrictSubsetOrdering(S)
  BY DEF StrictSubsetOrdering
<1>4. \A U \in Bad : U \subseteq T => U = T
  BY <1>2, <1>3
<1> QED
  BY <1>4

LEMMA GreatestOfSome ==
    ASSUME NEW S, IsFiniteSet(S), S \subseteq Nat, S # {}
    PROVE  \E p \in S : \A q \in S : q <= p
<1> DEFINE Bad == {T \in SUBSET S : T # {} /\ ~\E p \in T : \A q \in T : q <= p}
<1>1. SUFFICES ASSUME Bad # {} PROVE FALSE
  BY <1>1
<1>2. PICK T \in Bad : \A U \in Bad : U \subseteq T => U = T
  <2> HIDE DEF Bad
  <2>1. \A T \in Bad : T \subseteq S
    BY DEF Bad
  <2> QED
    BY <1>1, <2>1, LeastBadSubset
<1>3. PICK x \in T : TRUE
  BY <1>2
<1>4. T \ {x} \notin Bad
  BY <1>2, <1>3
<1>5. CASE T \ {x} = {}
  BY <1>2, <1>3, <1>5
<1>6. CASE T \ {x} # {}
  <2>1. PICK p \in T \ {x} : \A q \in T \ {x} : q <= p
    BY <1>2, <1>4, <1>6
  <2>2. p \in Nat /\ x \in Nat
    BY <1>2, <1>3, <2>1
  <2>3. CASE p <= x
    <3>1. \A q \in T : q <= x
      BY <1>2, <2>1, <2>2, <2>3
    <3> QED
      BY <1>2, <1>3, <3>1
  <2>4. CASE x <= p
    BY <1>2, <2>1, <2>2, <2>4
  <2> QED
    BY <2>2, <2>3, <2>4
<1> QED
  BY <1>5, <1>6

-----------------------------------------------------------------------------
(* What comes of a pair.                                                   *)
CandsFit ==
    /\ IsFiniteSet(cands)
    /\ \A v \in cands :
          /\ v.geometry => Checked(v)
          /\ v.feasible => Selectable(v)

LEMMA BestIsOne ==
    ASSUME CandsFit, NEW rank \in Rankings, NEW S, S \subseteq cands, S # {}
    PROVE  Best(rank, S) \in S
<1>1. Cardinality(cands) \in Nat
  BY FS_CardinalityType DEF CandsFit
<1>2. \A v \in cands : rank[v] \in Nat
  BY <1>1 DEF Rankings, Injection
<1> DEFINE places == {rank[v] : v \in S}
<1>3. places \subseteq Nat /\ places # {}
  BY <1>2
<1>4. PICK n \in places : \A m \in places : n <= m
  BY <1>3, LeastOfSome
<1>5. \E v \in S : \A w \in S : rank[v] <= rank[w]
  BY <1>4
<1> QED
  BY <1>5 DEF Best

LEMMA ShownFits ==
    ASSUME CandsFit, NEW rank \in Rankings
    PROVE  /\ Shown(rank) \subseteq cands
           /\ \A v \in cands : \E w \in Shown(rank) :
                 w.branch = v.branch /\ (v.feasible => Selectable(w))
<1> DEFINE good(v) == {w \in Own(v) : Selectable(w)}
           primary(v) == {w \in good(v) : w.kind # "branch"}
           pick(v) == IF primary(v) # {} THEN Best(rank, primary(v))
                      ELSE IF good(v) # {} THEN Best(rank, good(v)) ELSE Best(rank, Own(v))
<1>1. Shown(rank) = {pick(v) : v \in cands}
  BY DEF Shown
<1>2. ASSUME NEW v \in cands
      PROVE  pick(v) \in Own(v) /\ (v.feasible => Selectable(pick(v)))
  <2>1. v \in Own(v) /\ Own(v) \subseteq cands
    BY DEF Own
  <2>2. v.feasible => v \in good(v)
    BY <2>1 DEF CandsFit
  <2>3. primary(v) # {} => Best(rank, primary(v)) \in primary(v)
    BY <2>1, BestIsOne
  <2>4. good(v) # {} => Best(rank, good(v)) \in good(v)
    BY <2>1, BestIsOne
  <2>5. Best(rank, Own(v)) \in Own(v)
    BY <2>1, BestIsOne
  <2> QED
    BY <2>2, <2>3, <2>4, <2>5
<1> HIDE DEF pick
<1>3. \A v \in cands : pick(v) \in cands /\ pick(v).branch = v.branch
  BY <1>2 DEF Own
<1> QED
  BY <1>1, <1>2, <1>3

LEMMA ToldOfOne ==
    ASSUME NEW v, NEW picked, v \in picked => ~v.geometry
    PROVE  Told(v, picked) # {}
BY DEF Told

LEMMA RecordTells ==
    ASSUME CandsFit, NEW shown, NEW picked, Record(shown, picked),
           shown # {}, picked \subseteq shown, shown \subseteq cands
    PROVE  /\ roads' \subseteq {v \in cands : v.geometry}
           /\ roads' # {} \/ reasons' # {}
           /\ output \subseteq output' /\ hard \subseteq hard'
           /\ pair \subseteq output' \cup hard'
           /\ \A w \in shown : Selectable(w) => w \in roads' \/ reasons' # {}
<1> DEFINE told == UNION {Told(v, picked) : v \in shown}
           lines == {v \in picked : v.geometry}
<1>1. /\ roads' = lines /\ reasons' = told
      /\ output' = IF lines = {} THEN output ELSE output \cup pair
      /\ hard' = IF told = {} THEN hard ELSE hard \cup pair
  BY DEF Record
<1>2. \A v \in shown : Told(v, picked) # {} => told # {}
  OBVIOUS
<1>3. \A v \in shown : v \in lines \/ told # {}
  <2> SUFFICES ASSUME NEW v \in shown, v \notin lines PROVE told # {}
    OBVIOUS
  <2>1. v \in picked => ~v.geometry
    OBVIOUS
  <2> QED
    BY <1>2, <2>1, ToldOfOne
<1> HIDE DEF told
<1>4. lines # {} \/ told # {}
  BY <1>3
<1>5. lines \subseteq {v \in cands : v.geometry}
  OBVIOUS
<1> HIDE DEF lines
<1> QED
  BY <1>1, <1>3, <1>4, <1>5

(* The pass that counts.                                                   *)
LEMMA FirstFits == ASSUME NEW r \in Results PROVE ResultFits(r)
BY RunAssumption

LEMMA MergedFits ==
    ASSUME NEW p \in Results, NEW q \in Results, NEW S
    PROVE  ResultFits(Merged(p, q, S))
<1>0. ResultFits(p) /\ ResultFits(q) /\ DOMAIN p.open = DOMAIN q.open
  BY RunAssumption
<1> DEFINE pairs == {d \in Pairs(p) : d[1] \notin S} \cup {d \in Pairs(q) : d[1] \in S}
           m == Merged(p, q, S)
<1>1. /\ m.events = [d \in pairs |-> IF d[1] \in S THEN q.events[d] ELSE p.events[d]]
      /\ m.hits = [n \in DOMAIN p.hits |-> IF n \in S THEN q.hits[n] ELSE p.hits[n]]
      /\ m.open = [n \in DOMAIN p.open |-> IF n \in S THEN q.open[n] ELSE p.open[n]]
      /\ m.stitch = IF p.stitch > q.stitch THEN p.stitch ELSE q.stitch
  BY DEF Merged
<1> HIDE DEF m
<1>2. Pairs(m) = pairs
  BY <1>1 DEF Pairs
<1>3. pairs \subseteq Pairs(p) \cup Pairs(q)
  OBVIOUS
<1>4. IsFiniteSet(pairs)
  BY <1>0, <1>3, FS_Union, FS_Subset DEF ResultFits
<1>5. pairs \subseteq Nat \X Nat
  BY <1>0, <1>3 DEF ResultFits
<1>6. DOMAIN m.open = DOMAIN p.open /\ DOMAIN p.hits = DOMAIN p.open
  BY <1>0, <1>1 DEF ResultFits
<1>7. \A d \in pairs : d[1] \in DOMAIN p.open
  BY <1>0, <1>3 DEF ResultFits
<1>8. m.events \in [pairs -> Nat]
  <2>1. \A d \in pairs : IF d[1] \in S THEN d \in Pairs(q) ELSE d \in Pairs(p)
    OBVIOUS
  <2>2. \A d \in pairs : (IF d[1] \in S THEN q.events[d] ELSE p.events[d]) \in Nat
    BY <1>0, <2>1 DEF ResultFits
  <2> HIDE DEF pairs
  <2> QED
    BY <1>1, <2>2
<1>9. m.hits \in [DOMAIN m.open -> Nat] /\ m.open \in [DOMAIN m.open -> Nat] /\ m.stitch \in Nat
  <2>1. \A n \in DOMAIN p.open : /\ (IF n \in S THEN q.hits[n] ELSE p.hits[n]) \in Nat
                                 /\ (IF n \in S THEN q.open[n] ELSE p.open[n]) \in Nat
    BY <1>0 DEF ResultFits
  <2> QED
    BY <1>0, <1>1, <1>6, <2>1 DEF ResultFits
<1> HIDE DEF pairs
<1>10. {d[1] : d \in Pairs(m)} \subseteq DOMAIN m.open
  BY <1>2, <1>6, <1>7
<1> QED
  BY <1>2, <1>4, <1>5, <1>8, <1>9, <1>10 DEF ResultFits, m

LEMMA OutcomeFits ==
    ASSUME NEW p \in Results, NEW q \in Results, NEW focus
    PROVE  ResultFits(Outcome(p, q, focus))
BY MergedFits, FirstFits DEF Outcome

(* A source that votes decide has a pair to go on with.                    *)
LEMMA VotesDecide ==
    ASSUME NEW r, ResultFits(r), NEW d \in Pairs(r), d[1] \notin Ambiguous(r)
    PROVE  \E p \in VotedPairs(r) : p[1] = d[1]
<1> DEFINE s == d[1]
           votes == Votes(r, s)
           most == {p[2] : p \in {q \in Of(r, s) : r.events[q] = Max(votes)}}
<1>1. d \in Of(r, s) /\ Of(r, s) \subseteq Pairs(r) /\ \A p \in Of(r, s) : p[1] = s
  BY DEF Of
<1>2. IsFiniteSet(Of(r, s))
  BY <1>1, FS_Subset DEF ResultFits
<1>3. votes \subseteq Nat /\ votes # {}
  BY <1>1 DEF Votes, ResultFits
<1>4. IsFiniteSet(votes)
  <2> DEFINE f == [p \in Of(r, s) |-> r.events[p]]
  <2>1. f \in Surjection(Of(r, s), votes)
    BY DEF Votes, Surjection
  <2> QED
    BY <1>2, <2>1, FS_Surjection
<1>5. Max(votes) \in votes
  <2>1. \E n \in votes : \A m \in votes : n >= m
    BY <1>3, <1>4, GreatestOfSome
  <2> QED
    BY <2>1 DEF Max
<1>6. PICK q \in Of(r, s) : r.events[q] = Max(votes)
  BY <1>5 DEF Votes
<1>7. most \subseteq Nat /\ most # {}
  BY <1>1, <1>6 DEF ResultFits
<1>8. Min(most) \in most
  <2>1. \E n \in most : \A m \in most : n <= m
    BY <1>7, LeastOfSome
  <2> HIDE DEF most
  <2> QED
    BY <2>1 DEF Min
<1>9. PICK p \in Of(r, s) : p[2] = Min(most)
  BY <1>8
<1>10. p[2] = Main(r, p[1])
  BY <1>1, <1>9 DEF Main
<1> QED
  BY <1>1, <1>9, <1>10 DEF VotedPairs

-----------------------------------------------------------------------------
(* The invariant of a run.                                                 *)
Early == {"first", "second", "choose"}
Busy == {"corridor", "judge"}
Steps == Early \cup Busy \cup {"pairs", "done"}

Kinds == [kind : {"cluster", "variant", "branch", "topology"}, noTraj : BOOLEAN]

PassesFit ==
    /\ pc = "second" => first \in Results
    /\ pc = "choose" => ResultFits(result)

(* Nothing has come of the run while its pairs are not chosen.             *)
Unchosen ==
    pc \in Early => /\ found = {} /\ supports = <<>> /\ hard = {} /\ output = {}
                   /\ cands = {} /\ roads = {} /\ ~overall

WorkFits ==
    /\ CandsFit /\ roads \subseteq {v \in cands : v.geometry}
    /\ \A j \in jobs : [kind |-> j.kind, noTraj |-> j.noTraj] \in Kinds
    /\ pc = "corridor" => cands = {}
    /\ pc = "judge" => jobs \cup cands # {}

PairTold ==
    pc = "pairs" /\ cands # {} =>
        /\ roads # {} \/ reasons # {}
        /\ \A v \in cands : v.feasible =>
               \/ \E w \in roads : w.branch = v.branch
               \/ ~Chained \/ reasons # {}

(* Every pair and every source is accounted for, but the one at hand.      *)
Accounted ==
    /\ pc \notin Early =>
        \A s \in found : <<s>> \in hard \/ \E p \in DOMAIN supports : p[1] = s
    /\ pc \notin Early =>
        \A p \in DOMAIN supports \ (inner \cup todo) :
            p \in output \cup hard \/ (pc \in Busy /\ p \in pair)
    /\ overall => pc = "done" /\ hard = {} /\ (todo = {} \/ DOMAIN supports = {})

InRun ==
    /\ given \in Runs /\ pc \in Steps
    /\ PassesFit /\ Unchosen /\ WorkFits /\ PairTold /\ Accounted

LEMMA InRunInit == Init => InRun
<1> SUFFICES ASSUME Init PROVE InRun
  OBVIOUS
<1> USE DEF Init
<1>1. given \in Runs /\ pc \in Steps
  BY DEF Steps, Early
<1>2. PassesFit /\ Unchosen
  BY DEF PassesFit, Unchosen
<1>3. WorkFits
  BY FS_EmptySet DEF WorkFits, CandsFit
<1>4. PairTold /\ Accounted
  BY DEF PairTold, Accounted, Early
<1> QED
  BY <1>1, <1>2, <1>3, <1>4 DEF InRun

LEMMA InRunPasses == InRun /\ (FirstPass \/ SecondPass) => InRun'
<1> SUFFICES ASSUME InRun, FirstPass \/ SecondPass PROVE InRun'
  OBVIOUS
<1>1. /\ pc \in {"first", "second"} /\ pc' \in {"second", "choose"}
      /\ UNCHANGED <<given, chosen, todo, work, answer>>
  BY DEF FirstPass, SecondPass
<1>2. PassesFit'
  <2>1. CASE FirstPass
    <3>1. PICK r \in Results : first' = r /\ result' = r
      BY <2>1 DEF FirstPass
    <3> QED
      BY <3>1, FirstFits DEF PassesFit
  <2>2. CASE SecondPass
    <3>1. PICK r \in Results : result' = Outcome(first, r, Focus(first, given.requested))
      BY <2>2 DEF SecondPass
    <3>2. first \in Results /\ pc' = "choose"
      BY <2>2 DEF SecondPass, InRun, PassesFit
    <3>3. ResultFits(Outcome(first, r, Focus(first, given.requested)))
      BY <3>2, OutcomeFits
    <3> QED
      BY <3>1, <3>2, <3>3 DEF PassesFit
  <2> QED
    BY <2>1, <2>2
<1>3. /\ UNCHANGED <<found, supports, inner, todo, pair, jobs, cands, roads, reasons>>
      /\ UNCHANGED <<output, hard, overall, given>>
  BY <1>1 DEF chosen, work, answer
<1>4. pc \in Early /\ pc' \in Early /\ pc' \in Steps /\ pc' \notin Busy /\ pc' # "pairs"
  BY <1>1 DEF Early, Steps, Busy
<1>5. Unchosen'
  BY <1>3, <1>4 DEF InRun, Unchosen
<1>6. WorkFits'
  BY <1>1, <1>3 DEF InRun, WorkFits, CandsFit
<1>7. PairTold' /\ Accounted'
  BY <1>3, <1>4 DEF InRun, PairTold, Accounted, Unchosen
<1> QED
  BY <1>2, <1>3, <1>4, <1>5, <1>6, <1>7 DEF InRun

LEMMA InRunChoose == InRun /\ (ChooseByTopology \/ ChooseByVotes) => InRun'
<1> SUFFICES ASSUME InRun, ChooseByTopology \/ ChooseByVotes PROVE InRun'
  OBVIOUS
<1>1. PICK S : Settle(S)
  BY DEF ChooseByTopology, ChooseByVotes
<1>2. /\ pc = "choose" /\ pc' = "pairs" /\ supports' = S /\ todo' = DOMAIN S
      /\ UNCHANGED <<given, pair, jobs, cands, roads, reasons, output, overall>>
  BY <1>1 DEF ChooseByTopology, ChooseByVotes, Settle, work, answer
<1>3. pc \in Early /\ pc' \notin Early /\ pc' \in Steps
  BY <1>2 DEF Early, Steps
<1>4. cands = {} /\ roads = {} /\ found = {} /\ ~overall
  BY <1>3 DEF InRun, Unchosen
<1>5. PassesFit' /\ Unchosen' /\ WorkFits' /\ PairTold'
  BY <1>2, <1>3, <1>4 DEF InRun, PassesFit, Unchosen, WorkFits, CandsFit, PairTold
<1>6. Accounted'
  <2>1. \A s \in found' : <<s>> \in hard' \/ \E p \in DOMAIN supports' : p[1] = s
    <3>1. CASE ChooseByTopology
      BY <1>4, <3>1 DEF ChooseByTopology
    <3>2. CASE ChooseByVotes
      <4>1. /\ supports' = [p \in VotedPairs(result) |-> "traj"]
            /\ found' = {p[1] : p \in Pairs(result)}
            /\ hard' = {<<s>> : s \in Ambiguous(result)}
        BY <3>2 DEF ChooseByVotes, Settle
      <4>2. ResultFits(result)
        BY <1>2 DEF InRun, PassesFit
      <4>3. DOMAIN supports' = VotedPairs(result)
        BY <4>1
      <4>4. \A d \in Pairs(result) :
               d[1] \in Ambiguous(result) \/ \E p \in VotedPairs(result) : p[1] = d[1]
        BY <4>2, VotesDecide
      <4> QED
        BY <4>1, <4>3, <4>4
    <3> QED
      BY <3>1, <3>2
  <2>2. DOMAIN supports' \ (inner' \cup todo') = {}
    BY <1>2
  <2> QED
    BY <1>2, <1>4, <2>1, <2>2 DEF Accounted
<1> QED
  BY <1>2, <1>3, <1>5, <1>6 DEF InRun

LEMMA InRunSkips == InRun /\ (SkipInternal \/ LackCrossSection \/ TakePair) => InRun'
<1> SUFFICES ASSUME InRun, SkipInternal \/ LackCrossSection \/ TakePair PROVE InRun'
  OBVIOUS
<1>1. /\ pc = "pairs" /\ todo # {} /\ todo' = todo \ {Next1}
      /\ jobs' = {} /\ cands' = {} /\ roads' = {}
      /\ UNCHANGED <<given, found, supports, inner, output, overall>>
      /\ \/ pc' = "pairs" /\ hard' = hard /\ Next1 \in inner
         \/ pc' = "pairs" /\ hard' = hard \cup {Next1}
         \/ pc' = "corridor" /\ hard' = hard /\ pair' = {Next1}
  BY DEF SkipInternal, LackCrossSection, TakePair, Fresh, chosen, answer
<1>2. pc \notin Early /\ pc' \notin Early /\ pc' \in Steps /\ pc \notin Busy
      /\ (pc' = "corridor" => pc' \in Busy) /\ pc' \notin {"second", "choose", "judge"}
  BY <1>1 DEF Early, Steps, Busy
<1>3. PassesFit' /\ Unchosen' /\ PairTold'
  BY <1>1, <1>2 DEF PassesFit, Unchosen, PairTold
<1>4. WorkFits'
  BY <1>1, <1>2, FS_EmptySet DEF WorkFits, CandsFit
<1>5. ~overall
  BY <1>1 DEF InRun, Accounted
<1>6. Accounted'
  <2>1. \A s \in found' : <<s>> \in hard' \/ \E p \in DOMAIN supports' : p[1] = s
    BY <1>1, <1>2 DEF InRun, Accounted
  <2>2. \A p \in DOMAIN supports \ (inner \cup todo') :
           p \in output \cup hard' \/ (pc' \in Busy /\ p \in pair')
    <3> SUFFICES ASSUME NEW p \in DOMAIN supports \ (inner \cup todo')
                 PROVE  p \in output \cup hard' \/ (pc' \in Busy /\ p \in pair')
      OBVIOUS
    <3>1. CASE p = Next1
      BY <1>1, <1>2, <3>1
    <3>2. CASE p # Next1
      BY <1>1, <1>2, <3>2 DEF InRun, Accounted
    <3> QED
      BY <3>1, <3>2
  <2> QED
    BY <1>1, <1>5, <2>1, <2>2 DEF Accounted
<1> QED
  BY <1>1, <1>2, <1>3, <1>4, <1>6 DEF InRun

LEMMA InRunNothing == InRun /\ NothingToBuild => InRun'
<1> SUFFICES ASSUME InRun, NothingToBuild PROVE InRun'
  OBVIOUS
<1>1. /\ pc = "pairs" /\ DOMAIN supports = {} /\ pc' = "done" /\ hard \subseteq hard'
      /\ UNCHANGED <<given, found, supports, inner, todo, pair, jobs, cands, roads, reasons>>
      /\ UNCHANGED <<output, overall>>
  BY DEF NothingToBuild, chosen, work
<1>2. pc' \notin Early \cup Busy /\ pc \notin Early /\ pc' \in Steps
      /\ pc' \notin {"second", "choose", "corridor", "judge", "pairs"}
  BY <1>1 DEF Early, Steps, Busy
<1>3. PassesFit' /\ Unchosen' /\ PairTold'
  BY <1>2 DEF PassesFit, Unchosen, PairTold
<1>4. WorkFits'
  BY <1>1, <1>2 DEF InRun, WorkFits, CandsFit
<1>5. Accounted'
  BY <1>1, <1>2 DEF InRun, Accounted
<1> QED
  BY <1>1, <1>2, <1>3, <1>4, <1>5 DEF InRun

LEMMA JobsFit ==
    ASSUME InRun, pc = "corridor"
    PROVE  /\ \A fate : \A j \in Variants(fate) : [kind |-> j.kind, noTraj |-> j.noTraj] \in Kinds
           /\ \A n \in 1..given.most : \A c :
                 \A j \in Clusters(n, c) : [kind |-> j.kind, noTraj |-> j.noTraj] \in Kinds
<1>1. ASSUME NEW fate, NEW j \in Variants(fate)
      PROVE  [kind |-> j.kind, noTraj |-> j.noTraj] \in Kinds
  <2>1. \/ \E b : j = Job(b, "variant", FALSE)
        \/ \E b : j = Job(b, "branch", TRUE)
    BY DEF Variants
  <2>2. j.kind \in {"variant", "branch"} /\ j.noTraj \in BOOLEAN
    <3>1. CASE \E b : j = Job(b, "variant", FALSE)
      <4>1. PICK b : j = Job(b, "variant", FALSE)
        BY <3>1
      <4> QED
        BY <4>1 DEF Job
    <3>2. CASE \E b : j = Job(b, "branch", TRUE)
      <4>1. PICK b : j = Job(b, "branch", TRUE)
        BY <3>2
      <4> QED
        BY <4>1 DEF Job
    <3> QED
      BY <2>1, <3>1, <3>2
  <2> QED
    BY <2>2 DEF Kinds
<1>2. ASSUME NEW n \in 1..given.most, NEW c
      PROVE  \A j \in Clusters(n, c) : [kind |-> j.kind, noTraj |-> j.noTraj] \in Kinds
  <2>2. CASE supports[It] = "prior"
    <3>1. Clusters(n, c) \subseteq {Job(0, "topology", TRUE)}
      BY <2>2 DEF Clusters
    <3>2. \A j \in Clusters(n, c) : j.kind = "topology" /\ j.noTraj = TRUE
      BY <3>1 DEF Job
    <3> QED
      BY <3>2 DEF Kinds
  <2>3. CASE supports[It] # "prior"
    <3>1. Clusters(n, c) = {Job(k, "cluster", c.mode = "no_traj") : k \in 1..n}
      BY <2>3 DEF Clusters
    <3>2. (c.mode = "no_traj") \in BOOLEAN
      OBVIOUS
    <3> DEFINE b == (c.mode = "no_traj")
    <3> HIDE DEF b
    <3>3. Clusters(n, c) = {Job(k, "cluster", b) : k \in 1..n} /\ b \in BOOLEAN
      BY <3>1, <3>2 DEF b
    <3>4. \A j \in Clusters(n, c) : j.kind = "cluster" /\ j.noTraj = b
      BY <3>3 DEF Job
    <3> QED
      BY <3>3, <3>4 DEF Kinds
  <2> QED
    BY <2>2, <2>3
<1> QED
  BY <1>1, <1>2

LEMMA InRunCorridor == InRun /\ FindCorridor => InRun'
<1> SUFFICES ASSUME InRun, FindCorridor PROVE InRun'
  OBVIOUS
<1>1. /\ pc = "corridor"
      /\ UNCHANGED <<given, found, supports, inner, todo, pair, cands, roads, output, overall>>
  BY DEF FindCorridor, chosen
<1>2. \/ pc' = "pairs" /\ jobs' = {} /\ hard' = hard \cup pair
      \/ /\ pc' = "judge" /\ hard' = hard /\ jobs' # {}
         /\ \A j \in jobs' : [kind |-> j.kind, noTraj |-> j.noTraj] \in Kinds
  <2>1. PICK S, fate, n, long :
          LET corridor == Corridor(S, It \in given.priors /\ long)
              variants == Variants(fate)
          IN n \in 1..given.most /\ IF variants # {}
             THEN \E own \in [{v \in variants : v.kind = "variant"} -> Support] :
                   TryOut({v \in variants : v \in DOMAIN own => ~Corridor(own[v], TRUE).hard})
             ELSE IF corridor.hard THEN Reject("multi_corridor")
             ELSE TryOut(Clusters(n, corridor))
    BY DEF FindCorridor
  <2> DEFINE corridor == Corridor(S, It \in given.priors /\ long)
  <2> HIDE DEF corridor
  <2>2. \/ Reject("center_empty") \/ Reject("multi_corridor")
        \/ jobs' # {} /\ jobs' \subseteq Variants(fate) /\ pc' = "judge" /\ hard' = hard
        \/ jobs' # {} /\ jobs' = Clusters(n, corridor) /\ pc' = "judge" /\ hard' = hard
    BY <2>1 DEF corridor, TryOut
  <2> QED
    BY <1>1, <2>1, <2>2, JobsFit DEF Reject
<1>3. pc \in Busy /\ pc \notin Early /\ pc' \notin Early /\ pc' \in Steps
      /\ (pc' = "judge" => pc' \in Busy) /\ pc' \notin {"second", "choose", "corridor"}
  BY <1>1, <1>2 DEF Busy, Early, Steps
<1>4. cands = {} /\ ~overall
  BY <1>1 DEF InRun, WorkFits, Accounted
<1>5. PassesFit' /\ Unchosen' /\ PairTold'
  BY <1>1, <1>3, <1>4 DEF PassesFit, Unchosen, PairTold
<1>6. WorkFits'
  BY <1>1, <1>2, <1>3 DEF InRun, WorkFits, CandsFit
<1>7. Accounted'
  <2>1. \A p \in DOMAIN supports \ (inner \cup todo) :
           p \in output \cup hard' \/ (pc' \in Busy /\ p \in pair)
    BY <1>2, <1>3 DEF InRun, Accounted
  <2>2. hard \subseteq hard'
    BY <1>2
  <2> QED
    BY <1>1, <1>3, <1>4, <2>1, <2>2 DEF InRun, Accounted
<1> QED
  BY <1>1, <1>3, <1>5, <1>6, <1>7 DEF InRun

LEMMA InRunJudge == InRun /\ Judge => InRun'
<1> SUFFICES ASSUME InRun, Judge PROVE InRun'
  OBVIOUS
<1> DEFINE job == CHOOSE j \in jobs : TRUE
           key == [kind |-> job.kind, noTraj |-> job.noTraj]
<1>1. /\ pc = "judge" /\ pc' = "judge" /\ jobs # {} /\ jobs' = jobs \ {job}
      /\ UNCHANGED <<given, found, supports, inner, todo, pair, roads, reasons>>
      /\ UNCHANGED <<output, hard, overall>>
  BY DEF Judge, chosen, answer
<1>2. PICK v \in Verdicts[given.facts][key] : cands' = cands \cup {[v EXCEPT !.branch = job.branch]}
  BY DEF Judge
<1>3. job \in jobs /\ key \in Kinds
  <2>1. job \in jobs
    BY <1>1
  <2> HIDE DEF job
  <2> QED
    BY <2>1 DEF InRun, WorkFits
<1> HIDE DEF job, key
<1>4. PICK f : v = Verdict(f)
  <2>1. given.facts \in DOMAIN Facts
    BY RunAssumption DEF InRun
  <2>2. Verdicts[given.facts] =
          [j \in Kinds |-> {Verdict(f) : f \in {g \in Facts[given.facts] : g.kind = j.kind /\ g.noTraj = j.noTraj}}]
    BY <2>1 DEF Verdicts, Kinds
  <2>3. Verdicts[given.facts][key] =
          {Verdict(f) : f \in {g \in Facts[given.facts] : g.kind = key.kind /\ g.noTraj = key.noTraj}}
    BY <1>3, <2>2
  <2> QED
    BY <1>2, <2>3
<1> DEFINE new == [v EXCEPT !.branch = job.branch]
<1>5. (new.geometry => Checked(new)) /\ (new.feasible => Selectable(new))
  BY <1>4, VerdictsAreChecked
<1> HIDE DEF new
<1>6. CandsFit'
  <2>1. cands' = cands \cup {new}
    BY <1>2 DEF new
  <2>2. IsFiniteSet(cands')
    BY <2>1, FS_AddElement DEF InRun, WorkFits, CandsFit
  <2> QED
    BY <1>5, <2>1, <2>2 DEF InRun, WorkFits, CandsFit
<1>7. cands \subseteq cands' /\ cands' # {}
  BY <1>2
<1>8. WorkFits'
  BY <1>1, <1>6, <1>7 DEF InRun, WorkFits
<1>9. PassesFit' /\ Unchosen' /\ PairTold' /\ Accounted'
  BY <1>1 DEF InRun, PassesFit, Unchosen, PairTold, Accounted, Early, Busy
<1> QED
  BY <1>1, <1>8, <1>9 DEF InRun

LEMMA InRunSelect == InRun /\ Select => InRun'
<1> SUFFICES ASSUME InRun, Select PROVE InRun'
  OBVIOUS
<1>1. /\ pc = "judge" /\ pc' = "pairs" /\ jobs = {} /\ jobs' = {}
      /\ UNCHANGED <<given, found, supports, inner, todo, pair, cands, overall>>
  BY DEF Select, chosen
<1>2. PICK rank \in Rankings :
        LET shown == IF Chained THEN Shown(rank) ELSE cands
            fit == {v \in shown : IF Chained THEN Selectable(v) ELSE v.feasible}
        IN \E kept \in Greedy(rank, fit) :
            LET picked == IF Chained \/ Cardinality(kept) >= 2 THEN kept
                          ELSE {Best(rank, cands)}
            IN Record(IF Chained THEN shown ELSE picked, picked)
  BY DEF Select
<1>3. CandsFit /\ cands # {}
  BY <1>1 DEF InRun, WorkFits
<1>4. PICK shown, picked :
        /\ Record(shown, picked) /\ shown # {} /\ picked \subseteq shown /\ shown \subseteq cands
        /\ Chained => shown = Shown(rank)
  <2> DEFINE all == IF Chained THEN Shown(rank) ELSE cands
             fit == {v \in all : IF Chained THEN Selectable(v) ELSE v.feasible}
  <2>1. PICK kept \in Greedy(rank, fit) :
          LET picked == IF Chained \/ Cardinality(kept) >= 2 THEN kept
                        ELSE {Best(rank, cands)}
          IN Record(IF Chained THEN all ELSE picked, picked)
    BY <1>2
  <2>2. all \subseteq cands /\ all # {}
    BY <1>3, ShownFits
  <2>3. kept \subseteq all
    BY DEF Greedy
  <2>4. Best(rank, cands) \in cands
    BY <1>3, BestIsOne
  <2>5. CASE Chained
    <3>1. Record(all, kept)
      BY <2>1, <2>5
    <3> QED
      BY <2>2, <2>3, <2>5, <3>1
  <2>6. CASE ~Chained /\ Cardinality(kept) >= 2
    <3>1. Record(kept, kept)
      BY <2>1, <2>6
    <3>2. kept # {}
      BY <2>6, FS_EmptySet
    <3> QED
      BY <2>2, <2>3, <2>6, <3>1, <3>2
  <2>7. CASE ~Chained /\ ~(Cardinality(kept) >= 2)
    <3>1. Record({Best(rank, cands)}, {Best(rank, cands)})
      BY <2>1, <2>7
    <3> QED
      BY <2>4, <2>7, <3>1
  <2> QED
    BY <2>5, <2>6, <2>7
<1>5. /\ roads' \subseteq {v \in cands : v.geometry}
      /\ roads' # {} \/ reasons' # {}
      /\ output \subseteq output' /\ hard \subseteq hard'
      /\ pair \subseteq output' \cup hard'
      /\ \A w \in shown : Selectable(w) => w \in roads' \/ reasons' # {}
  BY <1>3, <1>4, RecordTells
<1>6. pc \in Busy /\ pc \notin Early /\ pc' \notin Early /\ pc' \in Steps
      /\ pc' \notin {"second", "choose", "corridor", "judge"}
  BY <1>1 DEF Busy, Early, Steps
<1>7. Chained' = Chained
  BY <1>1 DEF Chained, It
<1>8. PairTold'
  <2>1. Chained => \A v \in cands : v.feasible =>
                      (\E w \in roads' : w.branch = v.branch) \/ reasons' # {}
    <3> SUFFICES ASSUME Chained, NEW v \in cands, v.feasible
                 PROVE  (\E w \in roads' : w.branch = v.branch) \/ reasons' # {}
      OBVIOUS
    <3>1. PICK w \in Shown(rank) : w.branch = v.branch /\ (v.feasible => Selectable(w))
      BY <1>3, ShownFits
    <3> QED
      BY <1>4, <1>5, <3>1
  <2> QED
    BY <1>1, <1>5, <1>7, <2>1 DEF PairTold
<1>9. PassesFit' /\ Unchosen'
  BY <1>6 DEF PassesFit, Unchosen
<1>10. WorkFits'
  BY <1>1, <1>5, <1>6 DEF InRun, WorkFits, CandsFit
<1>11. Accounted'
  <2>1. ~overall
    BY <1>1 DEF InRun, Accounted
  <2>2. \A p \in DOMAIN supports \ (inner \cup todo) : p \in output' \cup hard'
    BY <1>5, <1>6 DEF InRun, Accounted
  <2> QED
    BY <1>1, <1>5, <1>6, <2>1, <2>2 DEF InRun, Accounted
<1> QED
  BY <1>1, <1>6, <1>8, <1>9, <1>10, <1>11 DEF InRun

LEMMA InRunFinish == InRun /\ Finish => InRun'
<1> SUFFICES ASSUME InRun, Finish PROVE InRun'
  OBVIOUS
<1>1. PICK far \in SUBSET output : hard' = hard \cup far /\ overall' = (hard = {} /\ far = {})
  BY DEF Finish
<1>2. /\ pc = "pairs" /\ pc' = "done" /\ todo = {}
      /\ pair' = {} /\ jobs' = {} /\ cands' = {} /\ roads' = {}
      /\ UNCHANGED <<given, found, supports, inner, todo, output>>
  BY DEF Finish, Fresh, chosen
<1>3. pc \notin Early /\ pc' \notin Early \cup Busy /\ pc \notin Busy /\ pc' \in Steps
      /\ pc' \notin {"second", "choose", "corridor", "judge", "pairs"}
  BY <1>2 DEF Busy, Early, Steps
<1>4. PassesFit' /\ Unchosen' /\ PairTold'
  BY <1>3 DEF PassesFit, Unchosen, PairTold
<1>5. WorkFits'
  BY <1>2, <1>3, FS_EmptySet DEF WorkFits, CandsFit
<1>6. Accounted'
  <2>1. overall' => hard' = {}
    BY <1>1
  <2> QED
    BY <1>1, <1>2, <1>3, <2>1 DEF InRun, Accounted
<1> QED
  BY <1>2, <1>3, <1>4, <1>5, <1>6 DEF InRun

LEMMA InRunStays == Spec => []InRun
<1>1. InRun /\ [Next]_vars => InRun'
  <2> SUFFICES ASSUME InRun, [Next]_vars PROVE InRun'
    OBVIOUS
  <2>1. CASE Next
    BY <2>1, InRunPasses, InRunChoose, InRunNothing, InRunSkips, InRunCorridor, InRunJudge,
       InRunSelect, InRunFinish DEF Next
  <2>2. CASE UNCHANGED vars
    BY <2>2 DEF vars, passes, chosen, work, answer, InRun, PassesFit, Unchosen, WorkFits,
       CandsFit, PairTold, Accounted, Chained, It
  <2> QED
    BY <2>1, <2>2
<1> QED
  BY <1>1, InRunInit, PTL DEF Spec

(* A run that passes has a road for every pair it went on with and every   *)
(* source that found one, and a pair without a road, or a branch that      *)
(* could have been one, is reported.                                       *)
THEOREM RunsAreAccounted == Spec => []PairsAreAccounted
<1>1. InRun => PairsAreAccounted
  <2> SUFFICES ASSUME InRun PROVE PairsAreAccounted
    OBVIOUS
  <2>1. pc \in {"done", "pairs"} => DOMAIN supports \ (inner \cup todo) \subseteq output \cup hard
    BY DEF InRun, Accounted, Early, Busy
  <2>2. overall => /\ hard = {} /\ DOMAIN supports \ inner \subseteq output
                   /\ found \subseteq {p[1] : p \in output \cup inner}
    <3> SUFFICES ASSUME overall
                 PROVE  /\ hard = {} /\ DOMAIN supports \ inner \subseteq output
                        /\ found \subseteq {p[1] : p \in output \cup inner}
      OBVIOUS
    <3>1. pc = "done" /\ hard = {} /\ (todo = {} \/ DOMAIN supports = {})
      BY DEF InRun, Accounted
    <3>2. DOMAIN supports \ inner \subseteq output
      BY <2>1, <3>1
    <3>3. \A s \in found : \E p \in DOMAIN supports : p[1] = s
      BY <3>1 DEF InRun, Accounted, Early
    <3> QED
      BY <3>1, <3>2, <3>3
  <2>3. pc = "pairs" /\ cands # {} =>
          /\ roads # {} \/ reasons # {}
          /\ Chained => \A v \in cands : v.feasible =>
                 \/ \E w \in roads : w.branch = v.branch
                 \/ reasons # {}
    BY DEF InRun, PairTold
  <2> QED
    BY <2>1, <2>2, <2>3 DEF PairsAreAccounted
<1> QED
  BY <1>1, InRunStays, PTL

(* A road without a reason against it passed every check of its line.      *)
THEOREM RoadsAreChecked == Spec => []CleanRoadsAreChecked
<1>1. InRun => CleanRoadsAreChecked
  BY DEF InRun, WorkFits, CandsFit, Checked, CleanRoadsAreChecked
<1> QED
  BY <1>1, InRunStays, PTL
-----------------------------------------------------------------------------
(* Sums.  Total picks the summands in some order; these lemmas say that    *)
(* the order does not matter.                                              *)
Any(s) == CHOOSE x \in s : TRUE
Summed(f, F, s) == IF s = {} THEN 0 ELSE f[Any(s)] + F[s \ {Any(s)}]
Sums(f, F, D) == F = [s \in D |-> Summed(f, F, s)]

LEMMA AnyIsOne == ASSUME NEW s, s # {} PROVE Any(s) \in s
BY DEF Any

(* The recursion of a fold has a solution: a largest family of subsets on  *)
(* which there is one has them all.                                        *)
LEMMA SumsExist ==
    ASSUME NEW f, NEW S, IsFiniteSet(S)
    PROVE  \E F : Sums(f, F, SUBSET S)
<1> DEFINE Closed(D) == \A s \in D : s # {} => s \ {Any(s)} \in D
           Solved == {D \in SUBSET SUBSET S : Closed(D) /\ \E F : Sums(f, F, D)}
           Left == {(SUBSET S) \ D : D \in Solved}
<1>1. {} \in Solved
  <2>1. Closed({})
    OBVIOUS
  <2>2. Sums(f, [s \in {} |-> 0], {})
    BY DEF Sums
  <2> QED
    BY <2>1, <2>2
<1>2. Left # {} /\ \A R \in Left : R \subseteq SUBSET S
  <2>1. (SUBSET S) \ {} \in Left
    BY <1>1, Zenon
  <2>2. \A R \in Left : R \subseteq SUBSET S
    BY Zenon
  <2> HIDE DEF Left
  <2> QED
    BY <2>1, <2>2
<1>3. IsFiniteSet(SUBSET S)
  BY FS_SUBSET
<1>4. PICK R \in Left : \A U \in Left : U \subseteq R => U = R
  <2> HIDE DEF Left
  <2> QED
    BY <1>2, <1>3, LeastBadSubset
<1>5. PICK D \in Solved : R = (SUBSET S) \ D
  BY <1>4
<1>6. PICK F : Sums(f, F, D)
  BY <1>5
<1>7. CASE R = {}
  <2>1. D = SUBSET S
    BY <1>5, <1>7
  <2> QED
    BY <1>6, <2>1
<1>8. CASE R # {}
  <2>1. PICK t \in R : \A u \in R : u \subseteq t => u = t
    <3>1. \A u \in R : u \subseteq S
      BY <1>5
    <3> QED
      BY <1>8, <3>1, LeastBadSubset
  <2>2. t \subseteq S /\ t \notin D
    BY <1>5, <2>1
  <2>3. t # {} => t \ {Any(t)} \in D
    <3>1. SUFFICES ASSUME t # {} PROVE t \ {Any(t)} \notin R
      BY <1>5, <2>2, <3>1
    <3>2. Any(t) \in t
      BY <3>1, AnyIsOne
    <3> QED
      BY <2>1, <3>2
  <2> DEFINE E == D \cup {t}
             G == [s \in E |-> IF s = t THEN Summed(f, F, t) ELSE F[s]]
  <2>4. E \in SUBSET SUBSET S /\ Closed(E)
    BY <1>5, <2>2, <2>3
  <2>5. Sums(f, G, E)
    <3>1. \A s \in D : F[s] = Summed(f, F, s)
      BY <1>6 DEF Sums
    <3>2. \A s \in D : G[s] = F[s]
      BY <2>2
    <3>3. G[t] = Summed(f, F, t)
      OBVIOUS
    <3>4. \A s \in E : s # {} => s \ {Any(s)} \in D
      BY <1>5, <2>3
    <3> HIDE DEF G
    <3>5. \A s \in E : Summed(f, G, s) = Summed(f, F, s)
      BY <3>2, <3>4 DEF Summed
    <3>6. \A s \in E : G[s] = Summed(f, G, s)
      BY <3>1, <3>2, <3>3, <3>5
    <3>7. G = [s \in E |-> G[s]]
      BY DEF G
    <3> HIDE DEF E
    <3>8. [s \in E |-> G[s]] = [s \in E |-> Summed(f, G, s)]
      BY <3>6
    <3> QED
      BY <3>7, <3>8 DEF Sums
  <2>6. (SUBSET S) \ E \in Left
    BY <2>4, <2>5
  <2>7. (SUBSET S) \ E \subseteq R /\ t \notin (SUBSET S) \ E
    BY <1>5
  <2> QED
    BY <1>4, <2>1, <2>6, <2>7
<1> QED
  BY <1>7, <1>8

LEMMA TotalSums ==
    ASSUME NEW f, NEW S, IsFiniteSet(S)
    PROVE  \E F : Sums(f, F, SUBSET S) /\ Total(f, S) = F[S]
<1> DEFINE iter == CHOOSE F : F = [s \in SUBSET S |->
                      IF s = {} THEN 0 ELSE f[CHOOSE x \in s : TRUE] + F[s \ {CHOOSE x \in s : TRUE}]]
<1>1. Total(f, S) = iter[S]
  BY Zenon DEF Total, FoldFunctionOnSet, MapThenFoldSet
<1>2. iter = CHOOSE F : Sums(f, F, SUBSET S)
  BY Zenon DEF Sums, Summed, Any
<1>3. Sums(f, iter, SUBSET S)
  BY <1>2, SumsExist
<1> QED
  BY <1>1, <1>3

(* One solution for all subsets.                                           *)
LEMMA TotalsAre ==
    ASSUME NEW f, NEW S, IsFiniteSet(S)
    PROVE  \E F : /\ \A T \in SUBSET S : F[T] = Summed(f, F, T)
                  /\ \A T \in SUBSET S : Total(f, T) = F[T]
<1>1. PICK F : Sums(f, F, SUBSET S)
  BY SumsExist
<1>2. \A T \in SUBSET S : F[T] = Summed(f, F, T)
  BY <1>1 DEF Sums
<1>3. ASSUME NEW T \in SUBSET S PROVE Total(f, T) = F[T]
  <2>1. PICK G : Sums(f, G, SUBSET T) /\ Total(f, T) = G[T]
    BY TotalSums, FS_Subset
  <2>2. \A U \in SUBSET T : G[U] = Summed(f, G, U)
    BY <2>1 DEF Sums
  <2> DEFINE Bad == {U \in SUBSET T : G[U] # F[U]}
  <2>3. Bad = {}
    <3>1. SUFFICES ASSUME Bad # {} PROVE FALSE
      OBVIOUS
    <3>2. \A U \in Bad : U \subseteq S
      OBVIOUS
    <3>3. PICK U \in Bad : \A V \in Bad : V \subseteq U => V = U
      <4> HIDE DEF Bad
      <4> QED
        BY <3>1, <3>2, LeastBadSubset
    <3>4. U # {} => Any(U) \in U
      BY AnyIsOne
    <3>5. U # {} => G[U \ {Any(U)}] = F[U \ {Any(U)}]
      BY <3>3, <3>4
    <3>6. Summed(f, G, U) = Summed(f, F, U)
      BY <3>5 DEF Summed
    <3> QED
      BY <1>2, <2>2, <3>3, <3>6
  <2> QED
    BY <2>1, <2>3
<1> QED
  BY <1>2, <1>3

LEMMA TotalStep ==
    ASSUME NEW f, NEW S, IsFiniteSet(S), \A x \in S : f[x] \in Nat
    PROVE  /\ Total(f, S) \in Nat
           /\ Total(f, {}) = 0
           /\ \A x \in S : Total(f, S) = f[x] + Total(f, S \ {x})
<1>1. PICK F : /\ \A T \in SUBSET S : F[T] = Summed(f, F, T)
               /\ \A T \in SUBSET S : Total(f, T) = F[T]
  BY TotalsAre
<1> DEFINE Odd == {T \in SUBSET S : F[T] \notin Nat}
           Bad == {T \in SUBSET S : \E x \in T : F[T] # f[x] + F[T \ {x}]}
<1>2. F[{}] = 0
  BY <1>1 DEF Summed
<1>3. Odd = {}
  <2>1. SUFFICES ASSUME Odd # {} PROVE FALSE
    OBVIOUS
  <2>2. \A T \in Odd : T \subseteq S
    OBVIOUS
  <2>3. PICK T \in Odd : \A U \in Odd : U \subseteq T => U = T
    <3> HIDE DEF Odd
    <3> QED
      BY <2>1, <2>2, LeastBadSubset
  <2>4. T # {} /\ Any(T) \in T
    <3>1. F[T] \notin Nat
      BY <2>3
    <3>2. T # {}
      BY <1>2, <3>1
    <3> QED
      BY <3>2, AnyIsOne
  <2>5. F[T \ {Any(T)}] \in Nat
    BY <2>3, <2>4
  <2>6. F[T] = f[Any(T)] + F[T \ {Any(T)}]
    BY <1>1, <2>3, <2>4 DEF Summed
  <2> QED
    BY <2>3, <2>4, <2>5, <2>6
<1>4. Bad = {}
  <2>1. SUFFICES ASSUME Bad # {} PROVE FALSE
    OBVIOUS
  <2>2. \A T \in Bad : T \subseteq S
    OBVIOUS
  <2>3. PICK T \in Bad : \A U \in Bad : U \subseteq T => U = T
    <3> HIDE DEF Bad
    <3> QED
      BY <2>1, <2>2, LeastBadSubset
  <2>4. PICK x \in T : F[T] # f[x] + F[T \ {x}]
    BY <2>3
  <2> DEFINE y == Any(T)
  <2>5. y \in T /\ F[T] = f[y] + F[T \ {y}]
    BY <1>1, <2>3, <2>4, AnyIsOne DEF Summed
  <2> HIDE DEF y
  <2>6. x # y
    BY <2>4, <2>5
  <2>7. T \ {y} \notin Bad /\ T \ {x} \notin Bad
    BY <2>3, <2>4, <2>5
  <2>8. F[T \ {y}] = f[x] + F[(T \ {y}) \ {x}]
    BY <2>3, <2>4, <2>5, <2>6, <2>7
  <2>9. F[T \ {x}] = f[y] + F[(T \ {x}) \ {y}]
    BY <2>3, <2>4, <2>5, <2>6, <2>7
  <2>10. (T \ {x}) \ {y} = (T \ {y}) \ {x}
    OBVIOUS
  <2>11. f[x] \in Nat /\ f[y] \in Nat /\ F[(T \ {y}) \ {x}] \in Nat
    BY <1>3, <2>3, <2>4, <2>5
  <2> DEFINE rest == F[(T \ {y}) \ {x}]
  <2>12. F[T \ {y}] = f[x] + rest /\ F[T \ {x}] = f[y] + rest /\ rest \in Nat
    BY <2>8, <2>9, <2>10, <2>11
  <2> HIDE DEF rest
  <2>13. f[y] + (f[x] + rest) = f[x] + (f[y] + rest)
    BY <2>11, <2>12
  <2> QED
    BY <2>4, <2>5, <2>12, <2>13
<1>5. S \in SUBSET S /\ {} \in SUBSET S /\ \A x \in S : S \ {x} \in SUBSET S
  OBVIOUS
<1>6. \A x \in S : F[S] = f[x] + F[S \ {x}]
  BY <1>4, <1>5
<1> QED
  BY <1>1, <1>2, <1>3, <1>5, <1>6

LEMMA TotalSame ==
    ASSUME NEW f, NEW g, NEW S, IsFiniteSet(S), \A x \in S : f[x] \in Nat /\ g[x] = f[x]
    PROVE  Total(f, S) = Total(g, S)
<1> DEFINE Bad == {T \in SUBSET S : Total(f, T) # Total(g, T)}
<1>1. SUFFICES ASSUME Bad # {} PROVE FALSE
  OBVIOUS
<1>2. \A T \in Bad : T \subseteq S
  OBVIOUS
<1>3. PICK T \in Bad : \A U \in Bad : U \subseteq T => U = T
  <2> HIDE DEF Bad
  <2> QED
    BY <1>1, <1>2, LeastBadSubset
<1>4. IsFiniteSet(T) /\ T \subseteq S
  BY <1>3, FS_Subset
<1>5. /\ Total(f, {}) = 0 /\ \A x \in T : Total(f, T) = f[x] + Total(f, T \ {x})
      /\ Total(g, {}) = 0 /\ \A x \in T : Total(g, T) = g[x] + Total(g, T \ {x})
  BY <1>4, TotalStep
<1>6. PICK x \in T : TRUE
  BY <1>3, <1>5
<1>7. Total(f, T \ {x}) = Total(g, T \ {x})
  BY <1>3, <1>6
<1> QED
  BY <1>3, <1>4, <1>5, <1>6, <1>7

LEMMA TotalUnion ==
    ASSUME NEW f, NEW A, NEW B, IsFiniteSet(A), IsFiniteSet(B), A \cap B = {},
           \A x \in A \cup B : f[x] \in Nat
    PROVE  Total(f, A \cup B) = Total(f, A) + Total(f, B)
<1> DEFINE Bad == {T \in SUBSET B : Total(f, A \cup T) # Total(f, A) + Total(f, T)}
<1>1. SUFFICES ASSUME Bad # {} PROVE FALSE
  OBVIOUS
<1>2. \A T \in Bad : T \subseteq B
  OBVIOUS
<1>3. PICK T \in Bad : \A U \in Bad : U \subseteq T => U = T
  <2> HIDE DEF Bad
  <2> QED
    BY <1>1, <1>2, LeastBadSubset
<1>4. IsFiniteSet(T) /\ IsFiniteSet(A \cup T) /\ T \subseteq B
  BY <1>3, FS_Subset, FS_Union
<1>5. /\ Total(f, {}) = 0 /\ \A x \in T : Total(f, T) = f[x] + Total(f, T \ {x})
      /\ \A x \in T : Total(f, A \cup T) = f[x] + Total(f, (A \cup T) \ {x})
      /\ Total(f, A) \in Nat
  BY <1>4, TotalStep
<1>6. PICK x \in T : TRUE
  <2>1. T # {}
    <3> SUFFICES ASSUME T = {} PROVE FALSE
      OBVIOUS
    <3>1. A \cup T = A
      OBVIOUS
    <3> QED
      BY <1>3, <1>5, <3>1
  <2> QED
    BY <2>1
<1>7. (A \cup T) \ {x} = A \cup (T \ {x})
  BY <1>4, <1>6
<1>8. Total(f, A \cup (T \ {x})) = Total(f, A) + Total(f, T \ {x})
  BY <1>3, <1>6
<1>9. f[x] \in Nat /\ Total(f, T \ {x}) \in Nat
  <2>1. IsFiniteSet(T \ {x}) /\ \A z \in T \ {x} : f[z] \in Nat
    BY <1>4, FS_Subset
  <2> QED
    BY <1>4, <1>6, <2>1, TotalStep
<1>10. /\ Total(f, A \cup T) = f[x] + (Total(f, A) + Total(f, T \ {x}))
       /\ Total(f, T) = f[x] + Total(f, T \ {x})
  BY <1>5, <1>6, <1>7, <1>8
<1>11. f[x] + (Total(f, A) + Total(f, T \ {x})) = Total(f, A) + (f[x] + Total(f, T \ {x}))
  BY <1>5, <1>9
<1>12. Total(f, A \cup T) = Total(f, A) + Total(f, T)
  BY <1>10, <1>11, Zenon
<1> QED
  BY <1>3, <1>12

-----------------------------------------------------------------------------
(* What counts of two passes.                                              *)
LEMMA BeatsIs ==
    /\ \A a1, a2, a3, a4, b1, b2, b3, b4 :
          Beats(<<a1, a2, a3, a4>>, <<b1, b2, b3, b4>>) <=>
              \/ a1 > b1
              \/ a1 = b1 /\ a2 > b2
              \/ a1 = b1 /\ a2 = b2 /\ a3 > b3
              \/ a1 = b1 /\ a2 = b2 /\ a3 = b3 /\ a4 > b4
    /\ \A a, b : DOMAIN a = 1..2 =>
          (Beats(a, b) <=> a[1] > b[1] \/ (a[1] = b[1] /\ a[2] > b[2]))
<1>1. ASSUME NEW a1, NEW a2, NEW a3, NEW a4, NEW b1, NEW b2, NEW b3, NEW b4
      PROVE  Beats(<<a1, a2, a3, a4>>, <<b1, b2, b3, b4>>) <=>
                 \/ a1 > b1
                 \/ a1 = b1 /\ a2 > b2
                 \/ a1 = b1 /\ a2 = b2 /\ a3 > b3
                 \/ a1 = b1 /\ a2 = b2 /\ a3 = b3 /\ a4 > b4
  <2> DEFINE a == <<a1, a2, a3, a4>>
             b == <<b1, b2, b3, b4>>
  <2>1. DOMAIN a = 1..4 /\ a[1] = a1 /\ a[2] = a2 /\ a[3] = a3 /\ a[4] = a4
        /\ b[1] = b1 /\ b[2] = b2 /\ b[3] = b3 /\ b[4] = b4
    OBVIOUS
  <2> HIDE DEF a, b
  <2>2. Beats(a, b) <=> \E i \in 1..4 : a[i] > b[i] /\ \A j \in 1..(i - 1) : a[j] = b[j]
    BY <2>1 DEF Beats
  <2>3. \A i \in 1..4 : i = 1 \/ i = 2 \/ i = 3 \/ i = 4
    OBVIOUS
  <2>4. 1..(1 - 1) = {} /\ 1..(2 - 1) = {1} /\ 1..(3 - 1) = {1, 2} /\ 1..(4 - 1) = {1, 2, 3}
    OBVIOUS
  <2>5. Beats(a, b) <=>
          \/ a[1] > b[1]
          \/ a[2] > b[2] /\ a[1] = b[1]
          \/ a[3] > b[3] /\ a[1] = b[1] /\ a[2] = b[2]
          \/ a[4] > b[4] /\ a[1] = b[1] /\ a[2] = b[2] /\ a[3] = b[3]
    BY <2>2, <2>3, <2>4
  <2>6. Beats(a, b) <=>
          \/ a1 > b1
          \/ a1 = b1 /\ a2 > b2
          \/ a1 = b1 /\ a2 = b2 /\ a3 > b3
          \/ a1 = b1 /\ a2 = b2 /\ a3 = b3 /\ a4 > b4
    BY <2>1, <2>5
  <2> QED
    BY <2>6 DEF a, b
<1>2. ASSUME NEW a, NEW b, DOMAIN a = 1..2
      PROVE  Beats(a, b) <=> a[1] > b[1] \/ (a[1] = b[1] /\ a[2] > b[2])
  <2>2. Beats(a, b) <=> \E i \in 1..2 : a[i] > b[i] /\ \A j \in 1..(i - 1) : a[j] = b[j]
    BY <1>2 DEF Beats
  <2>3. \A i \in 1..2 : i = 1 \/ i = 2
    OBVIOUS
  <2>4. 1..(1 - 1) = {} /\ 1..(2 - 1) = {1}
    OBVIOUS
  <2>5. Beats(a, b) <=> a[1] > b[1] \/ (a[2] > b[2] /\ a[1] = b[1])
    BY <2>2, <2>3, <2>4
  <2> QED
    BY <2>5
<1> QED
  BY <1>1, <1>2

Events(r) == Total(r.events, Pairs(r))
EventsOf(r, s) == Total(r.events, Of(r, s))
FoundOf(r, s) == Cardinality(Of(r, s))

(* The counts are numbers.                                                 *)
LEMMA CountsFit ==
    ASSUME NEW r, ResultFits(r), IsFiniteSet(DOMAIN r.open)
    PROVE  /\ Found(r) \in Nat /\ Events(r) \in Nat /\ r.stitch \in Nat /\ Open(r) \in Nat
           /\ \A s : /\ FoundOf(r, s) \in Nat /\ EventsOf(r, s) \in Nat
                     /\ IsFiniteSet(Of(r, s)) /\ Of(r, s) \subseteq Pairs(r)
           /\ \A s \in DOMAIN r.open : r.hits[s] \in Nat /\ r.open[s] \in Nat
<1>1. \A s : Of(r, s) \subseteq Pairs(r)
  BY DEF Of
<1>2. \A s : IsFiniteSet(Of(r, s))
  BY <1>1, FS_Subset DEF ResultFits
<1>3. \A d \in Pairs(r) : r.events[d] \in Nat
  BY DEF ResultFits
<1>4. Found(r) \in Nat /\ \A s : FoundOf(r, s) \in Nat
  BY <1>2, FS_CardinalityType DEF Found, FoundOf, ResultFits
<1>5. Events(r) \in Nat
  BY <1>3, TotalStep DEF Events, ResultFits
<1>6. ASSUME NEW s PROVE EventsOf(r, s) \in Nat
  <2>1. \A d \in Of(r, s) : r.events[d] \in Nat
    BY <1>1, <1>3
  <2> QED
    BY <1>2, <2>1, TotalStep DEF EventsOf
<1>7. Open(r) \in Nat
  <2>1. \A s \in DOMAIN r.open : r.open[s] \in Nat
    BY DEF ResultFits
  <2> QED
    BY <2>1, TotalStep DEF Open
<1> QED
  BY <1>1, <1>2, <1>4, <1>5, <1>6, <1>7 DEF ResultFits

LEMMA FirstTwo ==
    ASSUME NEW w, NEW x, NEW y, NEW z
    PROVE  LET b == SubSeq(<<w, x, y, z>>, 1, 2)
           IN  DOMAIN b = 1..2 /\ b[1] = w /\ b[2] = x
<1> DEFINE a == <<w, x, y, z>>
           S == {w, x, y, z}
<1>1. a \in Seq(S) /\ Len(a) = 4 /\ a[1] = w /\ a[2] = x
  OBVIOUS
<1> HIDE DEF a, S
<1>2. /\ SubSeq(a, 1, 2) \in Seq(S) /\ Len(SubSeq(a, 1, 2)) = 2
      /\ \A i \in 1..2 : SubSeq(a, 1, 2)[i] = a[1 + i - 1]
  BY <1>1, SubSeqProperties
<1>3. DOMAIN SubSeq(a, 1, 2) = 1..2
  BY <1>2
<1>4. SubSeq(a, 1, 2)[1] = a[1] /\ SubSeq(a, 1, 2)[2] = a[2]
  BY <1>2
<1> QED
  BY <1>1, <1>3, <1>4 DEF a

(* Which of two passes has more, as a whole and at a source.               *)
LEMMA WholesCompare ==
    ASSUME NEW p, NEW q
    PROVE  /\ Beats(SubSeq(Quality(p), 1, 2), SubSeq(Quality(q), 1, 2)) <=>
                  Found(p) > Found(q) \/ (Found(p) = Found(q) /\ Events(p) > Events(q))
           /\ Beats(Quality(p), Quality(q)) =>
                  \/ Found(p) > Found(q)
                  \/ Found(p) = Found(q) /\ (Events(p) > Events(q) \/ Events(p) = Events(q))
           /\ \A s : Beats(QualityOf(p, s), QualityOf(q, s)) =>
                  \/ FoundOf(p, s) > FoundOf(q, s)
                  \/ /\ FoundOf(p, s) = FoundOf(q, s)
                     /\ EventsOf(p, s) > EventsOf(q, s) \/ EventsOf(p, s) = EventsOf(q, s)
<1>2. \A r : Quality(r) = <<Found(r), Events(r), r.stitch, -Open(r)>>
  BY DEF Quality, Events
<1>1. \A r : LET b == SubSeq(Quality(r), 1, 2)
            IN  DOMAIN b = 1..2 /\ b[1] = Found(r) /\ b[2] = Events(r)
  BY <1>2, FirstTwo
<1>3. \A r, s : QualityOf(r, s) = <<FoundOf(r, s), EventsOf(r, s), r.hits[s], -r.open[s]>>
  BY DEF QualityOf, EventsOf, FoundOf
<1>4. Beats(SubSeq(Quality(p), 1, 2), SubSeq(Quality(q), 1, 2)) <=>
         Found(p) > Found(q) \/ (Found(p) = Found(q) /\ Events(p) > Events(q))
  <2> DEFINE a == SubSeq(Quality(p), 1, 2)
             b == SubSeq(Quality(q), 1, 2)
  <2>1. /\ DOMAIN a = 1..2 /\ a[1] = Found(p) /\ a[2] = Events(p)
        /\ b[1] = Found(q) /\ b[2] = Events(q)
    BY <1>1
  <2> HIDE DEF a, b
  <2>2. Beats(a, b) <=> a[1] > b[1] \/ (a[1] = b[1] /\ a[2] > b[2])
    BY <2>1, BeatsIs
  <2> QED
    BY <2>1, <2>2 DEF a, b
<1>5. Beats(Quality(p), Quality(q)) =>
          \/ Found(p) > Found(q)
          \/ Found(p) = Found(q) /\ (Events(p) > Events(q) \/ Events(p) = Events(q))
  BY <1>2, BeatsIs
<1>6. ASSUME NEW s, Beats(QualityOf(p, s), QualityOf(q, s))
      PROVE  \/ FoundOf(p, s) > FoundOf(q, s)
             \/ /\ FoundOf(p, s) = FoundOf(q, s)
                /\ EventsOf(p, s) > EventsOf(q, s) \/ EventsOf(p, s) = EventsOf(q, s)
  BY <1>3, <1>6, BeatsIs
<1> QED
  BY <1>4, <1>5, <1>6

(* The pairs of a merged result.                                           *)
LEMMA MergedIs ==
    ASSUME NEW p \in Results, NEW q \in Results, NEW S
    PROVE  LET m == Merged(p, q, S) IN
             /\ Pairs(m) = {d \in Pairs(p) : d[1] \notin S} \cup {d \in Pairs(q) : d[1] \in S}
             /\ \A d \in Pairs(m) : m.events[d] = IF d[1] \in S THEN q.events[d] ELSE p.events[d]
             /\ DOMAIN m.open = DOMAIN p.open
             /\ \A s \in DOMAIN p.open :
                   /\ m.hits[s] = IF s \in S THEN q.hits[s] ELSE p.hits[s]
                   /\ m.open[s] = IF s \in S THEN q.open[s] ELSE p.open[s]
             /\ ResultFits(m) /\ IsFiniteSet(DOMAIN m.open)
<1> DEFINE pairs == {d \in Pairs(p) : d[1] \notin S} \cup {d \in Pairs(q) : d[1] \in S}
           m == Merged(p, q, S)
<1>1. /\ m.events = [d \in pairs |-> IF d[1] \in S THEN q.events[d] ELSE p.events[d]]
      /\ m.hits = [n \in DOMAIN p.hits |-> IF n \in S THEN q.hits[n] ELSE p.hits[n]]
      /\ m.open = [n \in DOMAIN p.open |-> IF n \in S THEN q.open[n] ELSE p.open[n]]
  BY DEF Merged
<1>2. ResultFits(m)
  BY MergedFits
<1>3. DOMAIN p.hits = DOMAIN p.open /\ IsFiniteSet(DOMAIN p.open)
  BY RunAssumption DEF ResultFits
<1> HIDE DEF m
<1>4. Pairs(m) = pairs
  BY <1>1 DEF Pairs
<1>5. \A d \in pairs : m.events[d] = IF d[1] \in S THEN q.events[d] ELSE p.events[d]
  BY <1>1
<1>6. DOMAIN m.open = DOMAIN p.open
  BY <1>1
<1>7. \A s \in DOMAIN p.open : /\ m.hits[s] = IF s \in S THEN q.hits[s] ELSE p.hits[s]
                               /\ m.open[s] = IF s \in S THEN q.open[s] ELSE p.open[s]
  BY <1>1, <1>3
<1> HIDE DEF pairs
<1>8. LET n == m IN
        /\ Pairs(n) = pairs
        /\ \A d \in Pairs(n) : n.events[d] = IF d[1] \in S THEN q.events[d] ELSE p.events[d]
        /\ DOMAIN n.open = DOMAIN p.open
        /\ \A s \in DOMAIN p.open :
              /\ n.hits[s] = IF s \in S THEN q.hits[s] ELSE p.hits[s]
              /\ n.open[s] = IF s \in S THEN q.open[s] ELSE p.open[s]
        /\ ResultFits(n) /\ IsFiniteSet(DOMAIN n.open)
  BY <1>2, <1>3, <1>4, <1>5, <1>6, <1>7, Zenon
<1> QED
  BY <1>8 DEF m, pairs

(* A source has in a merged result what it has in one of the two.          *)
LEMMA MergedOf ==
    ASSUME NEW p \in Results, NEW q \in Results, NEW S, NEW s \in DOMAIN p.open
    PROVE  QualityOf(Merged(p, q, S), s) = QualityOf(IF s \in S THEN q ELSE p, s)
<1> DEFINE m == Merged(p, q, S)
           r == IF s \in S THEN q ELSE p
<1>1. /\ Pairs(m) = {d \in Pairs(p) : d[1] \notin S} \cup {d \in Pairs(q) : d[1] \in S}
      /\ \A d \in Pairs(m) : m.events[d] = IF d[1] \in S THEN q.events[d] ELSE p.events[d]
      /\ m.hits[s] = IF s \in S THEN q.hits[s] ELSE p.hits[s]
      /\ m.open[s] = IF s \in S THEN q.open[s] ELSE p.open[s]
  BY MergedIs
<1>2. ResultFits(r) /\ IsFiniteSet(DOMAIN r.open)
  BY RunAssumption
<1> HIDE DEF m
<1>3. Of(m, s) = Of(r, s)
  BY <1>1 DEF Of
<1>4. m.hits[s] = r.hits[s] /\ m.open[s] = r.open[s]
  BY <1>1
<1>5. \A d \in Of(r, s) : m.events[d] = r.events[d]
  <2>1. \A d \in Of(r, s) : d \in Pairs(m) /\ d[1] = s
    BY <1>3 DEF Of
  <2> QED
    BY <1>1, <2>1
<1> HIDE DEF r
<1>6. IsFiniteSet(Of(r, s)) /\ \A d \in Of(r, s) : r.events[d] \in Nat
  BY <1>2, CountsFit DEF ResultFits
<1>7. Total(m.events, Of(r, s)) = Total(r.events, Of(r, s))
  BY <1>5, <1>6, TotalSame
<1>8. QualityOf(m, s) = QualityOf(r, s)
  BY <1>3, <1>4, <1>7 DEF QualityOf
<1> QED
  BY <1>8 DEF m, r

(* Pairs that are the same, and pairs of one source, count apart.          *)
LEMMA CountApart ==
    ASSUME NEW r, ResultFits(r), IsFiniteSet(DOMAIN r.open), NEW s
    PROVE  LET rest == Pairs(r) \ Of(r, s) IN
             /\ IsFiniteSet(rest) /\ Cardinality(rest) \in Nat /\ Total(r.events, rest) \in Nat
             /\ Found(r) = Cardinality(rest) + FoundOf(r, s)
             /\ Events(r) = Total(r.events, rest) + EventsOf(r, s)
<1> DEFINE rest == Pairs(r) \ Of(r, s)
<1>1. IsFiniteSet(Of(r, s)) /\ Of(r, s) \subseteq Pairs(r) /\ IsFiniteSet(Pairs(r))
  BY CountsFit DEF ResultFits
<1>2. IsFiniteSet(rest) /\ rest \cap Of(r, s) = {} /\ Pairs(r) = rest \cup Of(r, s)
  BY <1>1, FS_Subset
<1>3. \A d \in rest \cup Of(r, s) : r.events[d] \in Nat
  BY <1>2 DEF ResultFits
<1> HIDE DEF rest
<1>4. Total(r.events, rest) \in Nat
  BY <1>2, <1>3, TotalStep
<1>5. Events(r) = Total(r.events, rest) + EventsOf(r, s)
  BY <1>1, <1>2, <1>3, TotalUnion DEF Events, EventsOf
<1>6. Cardinality(rest) \in Nat /\ Cardinality(rest \cap Of(r, s)) = 0
  BY <1>2, FS_CardinalityType, FS_EmptySet
<1>7. Found(r) = Cardinality(rest) + FoundOf(r, s)
  <2>1. Cardinality(rest \cup Of(r, s)) = Cardinality(rest) + Cardinality(Of(r, s)) - Cardinality(rest \cap Of(r, s))
    BY <1>1, <1>2, FS_Union
  <2>2. Cardinality(Of(r, s)) \in Nat
    BY <1>1, FS_CardinalityType
  <2> QED
    BY <1>2, <1>6, <2>1, <2>2 DEF Found, FoundOf
<1> QED
  BY <1>2, <1>4, <1>5, <1>6, <1>7 DEF rest

NoLess(r, p) == \/ Found(r) > Found(p)
                \/ Found(r) = Found(p) /\ Events(r) >= Events(p)

(* Sources that improved, taken over one after the other.                  *)
LEMMA MergedWholes ==
    ASSUME NEW p \in Results, NEW q \in Results, NEW S, IsFiniteSet(S), S \subseteq DOMAIN p.open,
           \A s \in S : Beats(QualityOf(q, s), QualityOf(p, s))
    PROVE  NoLess(Merged(p, q, S), p)
<1> DEFINE Bad == {T \in SUBSET S : ~NoLess(Merged(p, q, T), p)}
<1>1. SUFFICES ASSUME Bad # {} PROVE FALSE
  OBVIOUS
<1>2. \A T \in Bad : T \subseteq S
  OBVIOUS
<1>3. PICK T \in Bad : \A U \in Bad : U \subseteq T => U = T
  <2> HIDE DEF Bad
  <2> QED
    BY <1>1, <1>2, LeastBadSubset
<1>4. ResultFits(p) /\ ResultFits(q) /\ IsFiniteSet(DOMAIN p.open) /\ IsFiniteSet(DOMAIN q.open)
  BY RunAssumption
<1>5. CASE T = {}
  <2> DEFINE m == Merged(p, q, T)
  <2>0. /\ Pairs(m) = {d \in Pairs(p) : d[1] \notin T} \cup {d \in Pairs(q) : d[1] \in T}
        /\ \A d \in Pairs(m) : m.events[d] = IF d[1] \in T THEN q.events[d] ELSE p.events[d]
    BY MergedIs
  <2> HIDE DEF m
  <2>1. Pairs(m) = Pairs(p) /\ \A d \in Pairs(p) : m.events[d] = p.events[d]
    BY <1>5, <2>0
  <2>2. Events(m) = Events(p) /\ Found(m) = Found(p)
    <3>1. \A d \in Pairs(p) : p.events[d] \in Nat
      BY <1>4 DEF ResultFits
    <3>2. Total(p.events, Pairs(p)) = Total(m.events, Pairs(p))
      BY <1>4, <2>1, <3>1, TotalSame DEF ResultFits
    <3> QED
      BY <2>1, <3>2 DEF Events, Found
  <2>3. Events(p) \in Nat
    BY <1>4, CountsFit
  <2>4. NoLess(m, p)
    BY <2>2, <2>3 DEF NoLess
  <2> QED
    BY <1>3, <2>4 DEF m
<1>6. CASE T # {}
  <2>1. PICK s \in T : TRUE
    BY <1>6
  <2> DEFINE U == T \ {s}
             m == Merged(p, q, T)
             n == Merged(p, q, U)
             rest == Pairs(m) \ Of(m, s)
  <2>2. NoLess(n, p)
    BY <1>3, <2>1
  <2>3. s \in DOMAIN p.open /\ Beats(QualityOf(q, s), QualityOf(p, s)) /\ s \in T /\ s \notin U
    BY <1>3, <2>1
  <2>4. QualityOf(m, s) = QualityOf(q, s) /\ QualityOf(n, s) = QualityOf(p, s)
    BY <2>3, MergedOf
  <2>5. /\ Pairs(m) = {d \in Pairs(p) : d[1] \notin T} \cup {d \in Pairs(q) : d[1] \in T}
        /\ Pairs(n) = {d \in Pairs(p) : d[1] \notin U} \cup {d \in Pairs(q) : d[1] \in U}
        /\ \A d \in Pairs(m) : m.events[d] = IF d[1] \in T THEN q.events[d] ELSE p.events[d]
        /\ \A d \in Pairs(n) : n.events[d] = IF d[1] \in U THEN q.events[d] ELSE p.events[d]
        /\ ResultFits(m) /\ ResultFits(n) /\ IsFiniteSet(DOMAIN m.open) /\ IsFiniteSet(DOMAIN n.open)
    BY MergedIs
  <2> HIDE DEF m, n
  <2>6. Pairs(n) \ Of(n, s) = rest
    BY <2>5 DEF Of
  <2>7. \A d \in rest : d \in Pairs(n) /\ d[1] # s /\ m.events[d] = n.events[d]
    BY <2>5, <2>6 DEF Of
  <2>8. Total(m.events, rest) = Total(n.events, rest)
    <3>1. \A d \in rest : m.events[d] \in Nat
      BY <2>5 DEF ResultFits
    <3>2. IsFiniteSet(rest)
      BY <2>5, FS_Subset DEF ResultFits
    <3> HIDE DEF rest
    <3> QED
      BY <2>7, <3>1, <3>2, TotalSame
  <2>9. /\ Cardinality(rest) \in Nat /\ Total(m.events, rest) \in Nat
        /\ Found(m) = Cardinality(rest) + FoundOf(m, s)
        /\ Events(m) = Total(m.events, rest) + EventsOf(m, s)
    BY <2>5, CountApart
  <2>10. /\ Found(n) = Cardinality(rest) + FoundOf(n, s)
         /\ Events(n) = Total(m.events, rest) + EventsOf(n, s)
    <3> DEFINE others == Pairs(n) \ Of(n, s)
    <3>1. /\ Found(n) = Cardinality(others) + FoundOf(n, s)
          /\ Events(n) = Total(n.events, others) + EventsOf(n, s)
      BY <2>5, CountApart
    <3>2. others = rest
      BY <2>6
    <3> HIDE DEF others, rest
    <3> QED
      BY <2>8, <3>1, <3>2
  <2> HIDE DEF rest
  <2>11. \/ FoundOf(m, s) > FoundOf(n, s)
         \/ /\ FoundOf(m, s) = FoundOf(n, s)
            /\ EventsOf(m, s) > EventsOf(n, s) \/ EventsOf(m, s) = EventsOf(n, s)
    BY <2>3, <2>4, WholesCompare
  <2>12. /\ FoundOf(m, s) \in Nat /\ FoundOf(n, s) \in Nat
         /\ EventsOf(m, s) \in Nat /\ EventsOf(n, s) \in Nat
         /\ Found(p) \in Nat /\ Events(p) \in Nat
    BY <1>4, <2>5, CountsFit
  <2>13. NoLess(m, p)
    BY <2>2, <2>9, <2>10, <2>11, <2>12 DEF NoLess
  <2> QED
    BY <1>3, <2>13 DEF m
<1> QED
  BY <1>5, <1>6

-----------------------------------------------------------------------------
NoLosses(p, r, h) ==
    /\ h # "second" => \A s \in DOMAIN p.open : ~Beats(QualityOf(p, s), QualityOf(r, s))
    /\ ~Beats(SubSeq(Quality(p), 1, 2), SubSeq(Quality(r), 1, 2))

LEMMA OrderIsStrict ==
    ASSUME NEW p \in Results, NEW q \in Results, NEW s \in DOMAIN p.open
    PROVE  /\ ~Beats(QualityOf(p, s), QualityOf(p, s))
           /\ Beats(QualityOf(q, s), QualityOf(p, s)) => ~Beats(QualityOf(p, s), QualityOf(q, s))
<1>1. /\ ResultFits(p) /\ ResultFits(q) /\ DOMAIN p.open = DOMAIN q.open
      /\ IsFiniteSet(DOMAIN p.open) /\ IsFiniteSet(DOMAIN q.open)
  BY RunAssumption
<1>2. \A r : QualityOf(r, s) = <<FoundOf(r, s), EventsOf(r, s), r.hits[s], -r.open[s]>>
  BY DEF QualityOf, EventsOf, FoundOf
<1>3. /\ FoundOf(p, s) \in Nat /\ EventsOf(p, s) \in Nat /\ p.hits[s] \in Nat /\ p.open[s] \in Nat
      /\ FoundOf(q, s) \in Nat /\ EventsOf(q, s) \in Nat /\ q.hits[s] \in Nat /\ q.open[s] \in Nat
  BY <1>1, CountsFit
<1>4. \A a1, a2, a3, a4, b1, b2, b3, b4 \in Int :
         /\ ~Beats(<<a1, a2, a3, a4>>, <<a1, a2, a3, a4>>)
         /\ Beats(<<a1, a2, a3, a4>>, <<b1, b2, b3, b4>>) =>
               ~Beats(<<b1, b2, b3, b4>>, <<a1, a2, a3, a4>>)
  <2> SUFFICES ASSUME NEW a1 \in Int, NEW a2 \in Int, NEW a3 \in Int, NEW a4 \in Int,
                      NEW b1 \in Int, NEW b2 \in Int, NEW b3 \in Int, NEW b4 \in Int
               PROVE  /\ ~Beats(<<a1, a2, a3, a4>>, <<a1, a2, a3, a4>>)
                      /\ Beats(<<a1, a2, a3, a4>>, <<b1, b2, b3, b4>>) =>
                            ~Beats(<<b1, b2, b3, b4>>, <<a1, a2, a3, a4>>)
    OBVIOUS
  <2>1. Beats(<<a1, a2, a3, a4>>, <<a1, a2, a3, a4>>) <=>
          (a1 > a1 \/ (a1 = a1 /\ a2 > a2) \/ (a1 = a1 /\ a2 = a2 /\ a3 > a3)
             \/ (a1 = a1 /\ a2 = a2 /\ a3 = a3 /\ a4 > a4))
    BY BeatsIs
  <2>2. Beats(<<a1, a2, a3, a4>>, <<b1, b2, b3, b4>>) <=>
          (a1 > b1 \/ (a1 = b1 /\ a2 > b2) \/ (a1 = b1 /\ a2 = b2 /\ a3 > b3)
             \/ (a1 = b1 /\ a2 = b2 /\ a3 = b3 /\ a4 > b4))
    BY BeatsIs
  <2>3. Beats(<<b1, b2, b3, b4>>, <<a1, a2, a3, a4>>) <=>
          (b1 > a1 \/ (b1 = a1 /\ b2 > a2) \/ (b1 = a1 /\ b2 = a2 /\ b3 > a3)
             \/ (b1 = a1 /\ b2 = a2 /\ b3 = a3 /\ b4 > a4))
    BY BeatsIs
  <2> DEFINE one == Beats(<<a1, a2, a3, a4>>, <<a1, a2, a3, a4>>)
             two == Beats(<<a1, a2, a3, a4>>, <<b1, b2, b3, b4>>)
             three == Beats(<<b1, b2, b3, b4>>, <<a1, a2, a3, a4>>)
  <2> HIDE DEF one, two, three
  <2>4. ~one
    BY <2>1 DEF one
  <2>5. two => ~three
    BY <2>2, <2>3 DEF two, three
  <2> QED
    BY <2>4, <2>5 DEF one, two, three
<1>5. -p.open[s] \in Int /\ -q.open[s] \in Int
  BY <1>3
<1>6. /\ ~Beats(QualityOf(p, s), QualityOf(p, s))
      /\ Beats(QualityOf(q, s), QualityOf(p, s)) => ~Beats(QualityOf(p, s), QualityOf(q, s))
  <2> DEFINE a == <<FoundOf(p, s), EventsOf(p, s), p.hits[s], -p.open[s]>>
             b == <<FoundOf(q, s), EventsOf(q, s), q.hits[s], -q.open[s]>>
  <2>1. ~Beats(a, a) /\ (Beats(b, a) => ~Beats(a, b))
    <3> DEFINE x1 == FoundOf(p, s)  x2 == EventsOf(p, s)  x3 == p.hits[s]  x4 == -p.open[s]
               y1 == FoundOf(q, s)  y2 == EventsOf(q, s)  y3 == q.hits[s]  y4 == -q.open[s]
    <3>1. /\ x1 \in Int /\ x2 \in Int /\ x3 \in Int /\ x4 \in Int
          /\ y1 \in Int /\ y2 \in Int /\ y3 \in Int /\ y4 \in Int
      BY <1>3, <1>5
    <3> HIDE DEF x1, x2, x3, x4, y1, y2, y3, y4
    <3>2. /\ ~Beats(<<x1, x2, x3, x4>>, <<x1, x2, x3, x4>>)
          /\ Beats(<<y1, y2, y3, y4>>, <<x1, x2, x3, x4>>) =>
                ~Beats(<<x1, x2, x3, x4>>, <<y1, y2, y3, y4>>)
      BY <1>4, <3>1
    <3> QED
      BY <3>2 DEF x1, x2, x3, x4, y1, y2, y3, y4
  <2>2. QualityOf(p, s) = a /\ QualityOf(q, s) = b
    BY <1>2
  <2> HIDE DEF a, b
  <2> QED
    BY <2>1, <2>2
<1> QED
  BY <1>6

LEMMA WholesKept ==
    ASSUME NEW p \in Results, NEW r, ResultFits(r), IsFiniteSet(DOMAIN r.open), NoLess(r, p)
    PROVE  ~Beats(SubSeq(Quality(p), 1, 2), SubSeq(Quality(r), 1, 2))
<1>1. /\ Found(p) \in Nat /\ Events(p) \in Nat /\ Found(r) \in Nat /\ Events(r) \in Nat
  BY RunAssumption, CountsFit
<1> QED
  BY <1>1, WholesCompare DEF NoLess

LEMMA FirstLosesNothing ==
    ASSUME NEW p \in Results, NEW h
    PROVE  NoLosses(p, p, h)
<1>1. ResultFits(p) /\ IsFiniteSet(DOMAIN p.open) /\ Events(p) \in Nat
  BY RunAssumption, CountsFit
<1>2. NoLess(p, p)
  BY <1>1 DEF NoLess
<1> QED
  BY <1>1, <1>2, OrderIsStrict, WholesKept DEF NoLosses

LEMMA OutcomeLosesNothing ==
    ASSUME NEW p \in Results, NEW q \in Results, NEW focus
    PROVE  NoLosses(p, Outcome(p, q, focus), Decision(p, q, focus))
<1>1. /\ ResultFits(p) /\ ResultFits(q) /\ DOMAIN p.open = DOMAIN q.open
      /\ IsFiniteSet(DOMAIN p.open) /\ IsFiniteSet(DOMAIN q.open)
  BY RunAssumption
<1>2. CASE Decision(p, q, focus) = "second"
  <2>1. Outcome(p, q, focus) = q
    BY <1>2 DEF Outcome
  <2>2. Found(p) \in Nat /\ Found(q) \in Nat /\ Events(q) \in Nat /\ Events(p) \in Nat
    BY <1>1, CountsFit
  <2>3. CASE Found(p) = 0
    <3>1. Pairs(p) = {}
      BY <1>1, <2>3, FS_EmptySet DEF ResultFits, Found
    <3>2. Events(p) = 0
      BY <3>1, TotalStep, FS_EmptySet DEF Events
    <3>3. NoLess(q, p)
      BY <2>2, <2>3, <3>2 DEF NoLess
    <3> QED
      BY <1>1, <1>2, <2>1, <3>3, WholesKept DEF NoLosses
  <2>4. CASE Beats(Quality(q), Quality(p))
    <3>1. NoLess(q, p)
      BY <2>2, <2>4, WholesCompare DEF NoLess
    <3> QED
      BY <1>1, <1>2, <2>1, <3>1, WholesKept DEF NoLosses
  <2> QED
    BY <1>2, <2>3, <2>4 DEF Decision
<1>3. CASE Decision(p, q, focus) = "merged"
  <2> DEFINE S == Improved(p, q, focus)
             known == S \cap DOMAIN p.open
             m == Merged(p, q, S)
             n == Merged(p, q, known)
  <2>1. Outcome(p, q, focus) = m
    BY <1>3 DEF Outcome
  <2>2. \A s \in S : Beats(QualityOf(q, s), QualityOf(p, s))
    BY DEF Improved
  <2>3. IsFiniteSet(known) /\ known \subseteq DOMAIN p.open /\ \A s \in known : s \in S
    BY <1>1, FS_Subset
  <2> HIDE DEF S
  <2>4. ASSUME NEW s \in DOMAIN p.open
        PROVE  ~Beats(QualityOf(p, s), QualityOf(m, s))
    <3>1. QualityOf(m, s) = QualityOf(IF s \in S THEN q ELSE p, s)
      BY MergedOf
    <3> QED
      BY <2>2, <3>1, OrderIsStrict
  <2>5. NoLess(n, p)
    <3> HIDE DEF known
    <3> QED
      BY <2>2, <2>3, MergedWholes
  <2>6. /\ Pairs(m) = {d \in Pairs(p) : d[1] \notin S} \cup {d \in Pairs(q) : d[1] \in S}
        /\ \A d \in Pairs(m) : m.events[d] = IF d[1] \in S THEN q.events[d] ELSE p.events[d]
        /\ ResultFits(m) /\ IsFiniteSet(DOMAIN m.open)
    BY MergedIs
  <2>7. /\ Pairs(n) = {d \in Pairs(p) : d[1] \notin known} \cup {d \in Pairs(q) : d[1] \in known}
        /\ \A d \in Pairs(n) : n.events[d] = IF d[1] \in known THEN q.events[d] ELSE p.events[d]
        /\ ResultFits(n) /\ IsFiniteSet(DOMAIN n.open)
    BY MergedIs
  <2> HIDE DEF m, n
  <2>8. \A d \in Pairs(p) \cup Pairs(q) : d[1] \in S <=> d[1] \in known
    BY <1>1 DEF ResultFits
  <2> HIDE DEF known
  <2>9. Pairs(m) = Pairs(n) /\ \A d \in Pairs(m) : m.events[d] = n.events[d]
    BY <2>6, <2>7, <2>8
  <2>10. Found(m) = Found(n) /\ Events(m) = Events(n)
    <3>1. IsFiniteSet(Pairs(m)) /\ \A d \in Pairs(m) : m.events[d] \in Nat
      BY <2>6 DEF ResultFits
    <3>2. Total(m.events, Pairs(m)) = Total(n.events, Pairs(m))
      BY <2>9, <3>1, TotalSame
    <3> QED
      BY <2>9, <3>2 DEF Found, Events
  <2>11. NoLess(m, p)
    BY <2>5, <2>10 DEF NoLess
  <2>12. ~Beats(SubSeq(Quality(p), 1, 2), SubSeq(Quality(m), 1, 2))
    BY <2>6, <2>11, WholesKept
  <2> QED
    BY <2>1, <2>4, <2>12 DEF NoLosses
<1>4. CASE Decision(p, q, focus) = "first"
  <2>1. Outcome(p, q, focus) = p
    BY <1>4 DEF Outcome
  <2> QED
    BY <2>1, FirstLosesNothing
<1> QED
  BY <1>2, <1>3, <1>4 DEF Decision

(* A second pass never costs a source what the first one had, unless all   *)
(* of its result is taken, and it never costs the whole anything.          *)
THEOREM SourcesKeepTheirs == Spec => []NoSourceLoses
<1>1. Init => NoSourceLoses
  BY DEF Init, NoSourceLoses
<1>2. InRun /\ NoSourceLoses /\ [Next]_vars => NoSourceLoses'
  <2> SUFFICES ASSUME InRun, NoSourceLoses, [Next]_vars, pc' = "choose" PROVE NoSourceLoses'
    BY DEF NoSourceLoses
  <2>2. CASE FirstPass
    <3>1. PICK r \in Results : first' = r /\ result' = r
      BY <2>2 DEF FirstPass
    <3> QED
      BY <3>1, FirstLosesNothing DEF NoSourceLoses, NoLosses
  <2>3. CASE SecondPass
    <3>1. first \in Results /\ first' = first
      BY <2>3 DEF SecondPass, InRun, PassesFit
    <3>2. PICK r \in Results : /\ result' = Outcome(first, r, Focus(first, given.requested))
                              /\ how' = Decision(first, r, Focus(first, given.requested))
      BY <2>3 DEF SecondPass
    <3>3. NoLosses(first, result', how')
      BY <3>1, <3>2, OutcomeLosesNothing
    <3> QED
      BY <3>1, <3>3 DEF NoSourceLoses, NoLosses
  <2>4. CASE UNCHANGED vars
    BY <2>4 DEF vars, passes, NoSourceLoses
  <2>5. CASE Next /\ ~FirstPass /\ ~SecondPass
    <3>1. CASE FindCorridor
      <4>1. Reject("center_empty") \/ Reject("multi_corridor") \/ pc' = "judge"
        BY <3>1 DEF FindCorridor, TryOut
      <4> QED
        BY <4>1 DEF Reject, NoSourceLoses
    <3>2. CASE ~FindCorridor
      <4>1. pc' # "choose"
        BY <2>5, <3>2 DEF Next, ChooseByTopology, ChooseByVotes, Settle, NothingToBuild,
           SkipInternal, LackCrossSection, TakePair, Judge, Select, Finish
      <4> QED
        BY <4>1 DEF NoSourceLoses
    <3> QED
      BY <3>1, <3>2
  <2> QED
    BY <2>2, <2>3, <2>4, <2>5
<1> QED
  BY <1>1, <1>2, InRunStays, PTL DEF Spec
=============================================================================
