------------------------------- MODULE RoadRun -------------------------------
(***************************************************************************)
(* A run of the legacy t05 (t05_topology_between_rc/pipeline.py): one or   *)
(* two neighbor passes, the pairs to go on with, and for each pair the     *)
(* corridor, the candidates, the roads that are selected, and what is      *)
(* reported.  A run is given a record:                                     *)
(*   topology, accepted   whether topology decides, and the pairs it took  *)
(*   chained    the pairs with several chains between them                 *)
(*   requested  the sources that are asked for; none: all                  *)
(*   priors     the pairs whose prior road reaches both cross sections     *)
(*   crossed    the nodes with a cross section and its gate                *)
(*   kinds      the kind of a node, where it is known                      *)
(*   group      the shared intersection of a node                          *)
(*   facts      what its candidates may be like, a key of Facts            *)
(*   most       the clusters of a support, at most                         *)
(* Breakpoints are kept as what they are about: `reasons` for the pair at  *)
(* hand, `hard` the pairs, sources (<<s>>) and, as <<>>, the run that have  *)
(* any.  Soft ones, the identity of channels and the layers for debugging  *)
(* are left out.                                                           *)
(***************************************************************************)
EXTENDS NeighborPasses, RoadCandidate

CONSTANTS Runs, Results, Support, Facts

(* A pass looks for every source at all its events; what it supports are   *)
(* pairs of these sources, by numbers of nodes.                            *)
ResultFits(r) ==
    /\ Pairs(r) \subseteq Nat \X Nat /\ IsFiniteSet(Pairs(r))
    /\ {p[1] : p \in Pairs(r)} \subseteq DOMAIN r.open
    /\ r.events \in [Pairs(r) -> Nat] /\ r.stitch \in Nat
    /\ r.hits \in [DOMAIN r.open -> Nat] /\ r.open \in [DOMAIN r.open -> Nat]

ASSUME RunAssumption ==
    /\ \A r \in Results : ResultFits(r) /\ IsFiniteSet(DOMAIN r.open)
    /\ \A r, q \in Results : DOMAIN r.open = DOMAIN q.open
    /\ \A g \in Runs : g.facts \in DOMAIN Facts /\ g.most \in Nat \ {0}

VARIABLES
    given, pc,
    first, result, how,  \* the first pass, what counts, and why
    found,               \* the sources of the pairs that were found
    supports,            \* the pairs to go on with: "traj" or "prior"
    inner, todo,         \* pairs inside an intersection; pairs to do
    pair, jobs,          \* the pair at hand, as a set; candidates to judge
    cands,               \* candidates judged
    roads, reasons,      \* what came of the pair
    output, hard,        \* pairs with a road; what has a breakpoint
    overall

passes == <<first, result, how>>
chosen == <<found, supports, inner>>
work == <<pair, jobs, cands, roads, reasons>>
answer == <<output, hard, overall>>
vars == <<given, pc, passes, chosen, todo, work, answer>>

NoResult == [events |-> <<>>]

Init ==
    /\ given \in Runs /\ pc = "first"
    /\ first = NoResult /\ result = NoResult /\ how = "first"
    /\ found = {} /\ supports = <<>> /\ inner = {} /\ todo = {}
    /\ pair = {} /\ jobs = {} /\ cands = {} /\ roads = {} /\ reasons = {}
    /\ output = {} /\ hard = {} /\ overall = FALSE

(* A pass that is told its sources looks at no other ones.                 *)
LooksAt(r, focus) ==
    focus # {} => \A s \in DOMAIN r.open \ focus :
                      Of(r, s) = {} /\ r.hits[s] = 0 /\ r.open[s] = 0

FirstPass ==
    /\ pc = "first"
    /\ \E r \in Results :
        /\ LooksAt(r, given.requested)
        /\ first' = r /\ result' = r
        /\ pc' = IF TryAgain(r) THEN "second" ELSE "choose"
    /\ UNCHANGED <<given, how, chosen, todo, work, answer>>

SecondPass ==
    /\ pc = "second" /\ pc' = "choose"
    /\ LET focus == Focus(first, given.requested)
       IN \E r \in Results :
           /\ LooksAt(r, focus)
           /\ result' = Outcome(first, r, focus)
           /\ how' = Decision(first, r, focus)
    /\ UNCHANGED <<given, first, chosen, todo, work, answer>>
-----------------------------------------------------------------------------
Internal(p) ==
    /\ NodeType(result, p[1], given.kinds) = "diverge"
    /\ NodeType(result, p[2], given.kinds) = "merge"
    /\ given.group[p[1]] # 0 /\ given.group[p[1]] = given.group[p[2]]

Settle(S) ==
    /\ supports' = S /\ todo' = DOMAIN S
    /\ inner' = {p \in DOMAIN S : Internal(p)}
    /\ pc' = "pairs" /\ first' = NoResult /\ result' = NoResult

(* A pair that topology accepted and nothing supports is dropped; only the *)
(* record for debugging knows it.                                          *)
ChooseByTopology ==
    /\ pc = "choose" /\ given.topology
    /\ LET reached == {p \in given.priors : {p[1], p[2]} \subseteq given.crossed}
       IN Settle([p \in given.accepted \cap (Pairs(result) \cup reached) |->
                      IF p \in Pairs(result) THEN "traj" ELSE "prior"])
    /\ UNCHANGED <<given, how, found, work, answer>>

ChooseByVotes ==
    /\ pc = "choose" /\ ~given.topology
    /\ Settle([p \in VotedPairs(result) |-> "traj"])
    /\ found' = {p[1] : p \in Pairs(result)} /\ hard' = {<<s>> : s \in Ambiguous(result)}
    /\ UNCHANGED <<given, how, work, output, overall>>

NothingToBuild ==
    /\ pc = "pairs" /\ DOMAIN supports = {} /\ pc' = "done"
    /\ hard' = IF hard = {} THEN {<<>>} ELSE hard
    /\ UNCHANGED <<given, passes, chosen, todo, work, output, overall>>
-----------------------------------------------------------------------------
Smaller(p, q) == p[1] < q[1] \/ (p[1] = q[1] /\ p[2] <= q[2])
Next1 == CHOOSE p \in todo : \A q \in todo : Smaller(p, q)

Fresh == /\ jobs' = {} /\ cands' = {} /\ roads' = {}

SkipInternal ==
    /\ pc = "pairs" /\ todo # {} /\ Next1 \in inner
    /\ todo' = todo \ {Next1} /\ pair' = {} /\ reasons' = {} /\ Fresh
    /\ UNCHANGED <<given, pc, passes, chosen, answer>>

LackCrossSection ==
    /\ pc = "pairs" /\ todo # {} /\ Next1 \notin inner
    /\ ~({Next1[1], Next1[2]} \subseteq given.crossed)
    /\ todo' = todo \ {Next1} /\ pair' = {Next1} /\ reasons' = {"center_empty"}
    /\ hard' = hard \cup {Next1} /\ Fresh
    /\ UNCHANGED <<given, pc, passes, chosen, output, overall>>

TakePair ==
    /\ pc = "pairs" /\ todo # {} /\ Next1 \notin inner
    /\ {Next1[1], Next1[2]} \subseteq given.crossed
    /\ pc' = "corridor" /\ todo' = todo \ {Next1} /\ pair' = {Next1}
    /\ reasons' = {} /\ Fresh
    /\ UNCHANGED <<given, passes, chosen, answer>>
-----------------------------------------------------------------------------
It == CHOOSE p \in pair : TRUE
Chained == It \in given.chained

Job(branch, kind, noTraj) == [branch |-> branch, kind |-> kind, noTraj |-> noTraj]

(* What a branch of a chained pair comes to: trajectories of its own, with *)
(* the prior road beside them when they are few ("weak"); the prior road   *)
(* alone; or nothing, when that does not reach: the branch is forgotten.   *)
Fates == IF supports[It] = "traj" THEN {"traj", "weak", "prior", "lost"}
         ELSE {"prior", "lost"}

Variants(fate) ==
    LET all == {Job(b, "variant", FALSE) : b \in {c \in DOMAIN fate : fate[c] \in {"traj", "weak"}}}
               \cup {Job(b, "branch", TRUE) : b \in {c \in DOMAIN fate : fate[c] \in {"weak", "prior"}}}
    IN  IF Cardinality(all) <= 1 THEN {} ELSE all

(* A support by the prior road alone has no clusters.                      *)
Clusters(n, corridor) ==
    IF supports[It] = "prior"
    THEN IF corridor.mode = "no_traj" THEN {Job(0, "topology", TRUE)} ELSE {}
    ELSE {Job(c, "cluster", corridor.mode = "no_traj") : c \in 1..n}

Reject(reason) ==
    /\ reasons' = {reason} /\ hard' = hard \cup pair /\ pc' = "pairs" /\ jobs' = {}

TryOut(S) ==
    IF S = {} THEN Reject("center_empty")
    ELSE jobs' = S /\ pc' = "judge" /\ UNCHANGED <<reasons, hard>>

(* A branch whose own corridor is hard is passed over without a word.  A   *)
(* prior road of at most a metre is none for the corridor, although it may *)
(* have been enough to support the pair.                                   *)
FindCorridor ==
    /\ pc = "corridor"
    /\ \E S \in IF supports[It] = "traj" THEN Support ELSE {{}},
          fate \in IF Chained THEN [1..2 -> Fates] \cup {<<>>} ELSE {<<>>},
          n \in 1..given.most, long \in BOOLEAN :
        LET corridor == Corridor(S, It \in given.priors /\ long)
            variants == Variants(fate)
        IN IF variants # {}
           THEN \E own \in [{v \in variants : v.kind = "variant"} -> Support] :
                 TryOut({v \in variants : v \in DOMAIN own => ~Corridor(own[v], TRUE).hard})
           ELSE IF corridor.hard THEN Reject("multi_corridor")
           ELSE TryOut(Clusters(n, corridor))
    /\ UNCHANGED <<given, passes, chosen, todo, pair, cands, roads, output, overall>>

Verdicts ==
    [name \in DOMAIN Facts |->
        [job \in [kind : {"cluster", "variant", "branch", "topology"}, noTraj : BOOLEAN] |->
            {Verdict(f) : f \in {g \in Facts[name] : g.kind = job.kind /\ g.noTraj = job.noTraj}}]]

Judge ==
    /\ pc = "judge" /\ jobs # {}
    /\ LET job == CHOOSE j \in jobs : TRUE
       IN \E v \in Verdicts[given.facts][[kind |-> job.kind, noTraj |-> job.noTraj]] :
           /\ cands' = cands \cup {[v EXCEPT !.branch = job.branch]}
           /\ jobs' = jobs \ {job}
    /\ UNCHANGED <<given, pc, passes, chosen, todo, pair, roads, reasons, answer>>
-----------------------------------------------------------------------------
(* Candidates with a line come first, then those that are feasible; scores *)
(* decide among the others, in any way here.  A ranking gives each its     *)
(* place.                                                                  *)
Better(a, b) ==
    \/ a.geometry /\ ~b.geometry
    \/ a.geometry = b.geometry /\ a.feasible /\ ~b.feasible

Rankings ==
    {rank \in Injection(cands, 1..Cardinality(cands)) :
        \A v, w \in cands : Better(v, w) => rank[v] < rank[w]}

Best(rank, S) == CHOOSE v \in S : \A w \in S : rank[v] <= rank[w]

Own(v) == {w \in cands : w.branch = v.branch}

(* A branch shows its best selectable candidate, one with trajectories     *)
(* rather than the prior road, or else its best.                           *)
Shown(rank) ==
    LET good(v) == {w \in Own(v) : Selectable(w)}
        primary(v) == {w \in good(v) : w.kind # "branch"}
        pick(v) == IF primary(v) # {} THEN Best(rank, primary(v))
                   ELSE IF good(v) # {} THEN Best(rank, good(v)) ELSE Best(rank, Own(v))
    IN {pick(v) : v \in cands}

(* Branches come in the order of their best candidates.                    *)
Place(rank, v) == rank[Best(rank, Own(v))]

(* One is dropped for a conflict with one that is kept before it; which of *)
(* them conflict is for the lines to say.                                  *)
Greedy(rank, fit) ==
    {kept \in SUBSET fit :
        \A v \in fit \ kept : \E w \in kept : Place(rank, w) < Place(rank, v)}

ToldSelectedOnly(v, picked) == \* mutant: what is not selected is not told
    IF v \in picked THEN v.hard ELSE {}

(* A branch that could have been a road and is not selected is hard, and   *)
(* so is one without a line.                                               *)
Told(v, picked) ==
    IF v \notin picked /\ v.feasible THEN {"multi_road"} \cup (v.hard \cap {"surface"})
    ELSE IF v.hard = {} /\ (v \notin picked \/ ~v.geometry) THEN {"center_empty"}
    ELSE v.hard

Record(shown, picked) ==
    LET told == UNION {Told(v, picked) : v \in shown}
        lines == {v \in picked : v.geometry}
    IN /\ roads' = lines /\ reasons' = told
       /\ output' = IF lines = {} THEN output ELSE output \cup pair
       /\ hard' = IF told = {} THEN hard ELSE hard \cup pair

Select ==
    /\ pc = "judge" /\ jobs = {} /\ pc' = "pairs"
    /\ \E rank \in Rankings :
        LET shown == IF Chained THEN Shown(rank) ELSE cands
            fit == {v \in shown : IF Chained THEN Selectable(v) ELSE v.feasible}
        IN \E kept \in Greedy(rank, fit) :
            LET picked == IF Chained \/ Cardinality(kept) >= 2 THEN kept
                          ELSE {Best(rank, cands)}
            IN Record(IF Chained THEN shown ELSE picked, picked)
    /\ UNCHANGED <<given, passes, chosen, todo, pair, jobs, cands, overall>>

(* In the end the roads that start or end far away are reported.           *)
Finish ==
    /\ pc = "pairs" /\ todo = {} /\ DOMAIN supports # {} /\ pc' = "done"
    /\ \E far \in SUBSET output :
        /\ hard' = hard \cup far
        /\ overall' = (hard = {} /\ far = {})
    /\ pair' = {} /\ reasons' = {} /\ Fresh
    /\ UNCHANGED <<given, passes, chosen, todo, output>>

Next ==
    \/ FirstPass \/ SecondPass \/ ChooseByTopology \/ ChooseByVotes \/ NothingToBuild
    \/ SkipInternal \/ LackCrossSection \/ TakePair \/ FindCorridor \/ Judge
    \/ Select \/ Finish

Spec == Init /\ [][Next]_vars
-----------------------------------------------------------------------------
(* A second pass never costs a source what the first one had: unless all   *)
(* of its result is taken for a better whole, no source has fewer pairs,   *)
(* or as many with fewer events, than in the first pass (pipeline.py,      *)
(* "neighbor_pass2_start" and after).                                      *)
NoSourceLoses ==
    pc = "choose" =>
        /\ how # "second" => \A s \in DOMAIN first.open :
               ~Beats(QualityOf(first, s), QualityOf(result, s))
        /\ ~Beats(SubSeq(Quality(first), 1, 2), SubSeq(Quality(result), 1, 2))

(* A run that passes has a road for every pair it went on with and for     *)
(* every source that found one, but for what lies inside an intersection;  *)
(* a pair without a road is reported, and so is a branch that could have   *)
(* been one and is not (pipeline.py, from "road_eval_start" on).           *)
PairsAreAccounted ==
    /\ pc \in {"done", "pairs"} =>
        DOMAIN supports \ (inner \cup todo) \subseteq output \cup hard
    /\ overall =>
        /\ hard = {} /\ DOMAIN supports \ inner \subseteq output
        /\ found \subseteq {p[1] : p \in output \cup inner}
    /\ pc = "pairs" /\ cands # {} =>
        /\ roads # {} \/ reasons # {}
        /\ Chained => \A v \in cands : v.feasible =>
               \/ \E w \in roads : w.branch = v.branch
               \/ reasons # {}

(* A road without a reason against it crosses no divider and bridges no    *)
(* gap, unless it was swapped for the reference line after that was looked *)
(* at; it keeps to its corridor, to the zone unless the prior road is let  *)
(* pass, and to the surface if that is held to (_evaluate_candidate_road). *)
CleanRoadsAreChecked ==
    \A v \in roads : v.hard = {} =>
        /\ v.swapped \/ ~(v.line.gore \/ v.line.bridge)
        /\ Within(v.line, v.gate) # "out"
        /\ v.line.zone # "out" \/ v.override
        /\ v.held => v.line.surf # "out"
=============================================================================
