------------------------------- MODULE MCLegacy -------------------------------
(***************************************************************************)
(* The models of the legacy t05 in one run: its steps 0 and 1              *)
(* (TopologyPairs), a run over pairs (RoadRun), or one of its neighbor     *)
(* passes over the forward graph (CrossingSearch).  While one of them goes *)
(* on the others rest.  The drives are of three trajectories past four     *)
(* crossings: any of eight hits, one of them always there, and of four     *)
(* stitches, one of them always there, with topology pairs, with prior     *)
(* roads, with neither, and with a shared intersection of two cross        *)
(* sections.  The maps have up to nine prior roads over four cross         *)
(* sections and three other nodes, or few roads and cross sections of many *)
(* kinds.                                                                  *)
(***************************************************************************)
EXTENDS RoadRun, TLC

(* Runs over three pairs of two sources and two destinations.  Candidates  *)
(* are of many kinds where a pair has one of them, and of few where it has *)
(* several.                                                                *)
Some == {<<1, 3>>, <<1, 4>>, <<2, 4>>}

Pass(ev, op, st) ==
    LET met == {p \in Some : ev[p] > 0}
        through(n, i) == MapThenSumSet(LAMBDA p : IF p[i] = n THEN ev[p] ELSE 0, met)
    IN [events |-> [p \in met |-> ev[p]], open |-> op, stitch |-> st,
        hits |-> [s \in 1..2 |-> through(s, 1)],
        ins |-> [n \in 1..4 |-> through(n, 2)], outs |-> [n \in 1..4 |-> through(n, 1)]]

SomeResults ==
    {Pass(ev, op, st) : ev \in {e \in [Some -> 0..2] : e[<<2, 4>>] < 2 /\ e[<<1, 4>>] # 2},
                        op \in [1..2 -> {0, 3}], st \in 0..1}

Nodes == 1..4
Alone == [n \in Nodes |-> 0]
Plain == [topology |-> FALSE, accepted |-> {}, chained |-> {}, requested |-> {},
          priors |-> {}, crossed |-> Nodes, kinds |-> <<>>, group |-> Alone,
          facts |-> "many", most |-> 1]
ByTopology ==
    [Plain EXCEPT !.topology = TRUE, !.accepted = Some, !.priors = {<<1, 3>>, <<2, 4>>},
                  !.facts = "few"]

SomeRuns ==
    {Plain,
     [Plain EXCEPT !.facts = "few", !.most = 2],
     [Plain EXCEPT !.facts = "few", !.requested = {1}, !.crossed = {1, 2, 4}, !.priors = {<<1, 3>>}],
     [Plain EXCEPT !.facts = "few", !.kinds = 3 :> "merge", !.group = <<1, 0, 1, 0>>],
     ByTopology,
     [ByTopology EXCEPT !.accepted = {<<1, 3>>}, !.chained = {<<1, 3>>}],
     [ByTopology EXCEPT !.accepted = {<<2, 4>>}, !.facts = "many", !.crossed = {1, 2, 4}]}

Seg(id, side, marks) ==
    [id |-> id, inside |-> IF "outside" \in marks THEN 0 ELSE IF "edge" \in marks THEN 1 ELSE 2,
     bad |-> "bad" \in marks, gore |-> "gore" \in marks, reach |-> "short" \notin marks,
     prior |-> 5 - id, dist |-> id, side |-> side, long |-> id]
SomeSegs == {Seg(1, 1, {}), Seg(2, 1, {"edge"}), Seg(3, 2, {}), Seg(4, 2, {"gore"}),
             Seg(5, 2, {"short", "bad"}), Seg(6, 1, {"outside"})}
SomeSupport == {S \in SUBSET SomeSegs : Cardinality(S) \in {0, 2, 4}}

Line(gore, bridge, zone, ends, corr, own, surf) ==
    [there |-> TRUE, gore |-> gore, bridge |-> bridge, zone |-> zone, ends |-> ends,
     corr |-> corr, own |-> own, surf |-> surf]
Clean == Line(FALSE, FALSE, "in", TRUE, "in", "in", "in")
Across == Line(TRUE, FALSE, "near", TRUE, "in", "in", "in")
Gap == [Clean EXCEPT !.bridge = TRUE]
Astray == [Clean EXCEPT !.corr = "some", !.own = "some"]
Beside == [Clean EXCEPT !.corr = "near", !.own = "near", !.zone = "near", !.surf = "near"]
Away == [Clean EXCEPT !.zone = "out", !.ends = FALSE, !.corr = "out", !.own = "out", !.surf = "out"]

Fact(kind, noTraj, enforced, prior, center, sub, part, refit, marks) ==
    [kind |-> kind, noTraj |-> noTraj, enforced |-> enforced, prior |-> prior,
     center |-> center, sub |-> sub, part |-> part, refit |-> refit,
     widen |-> "widen" \in marks, close |-> "close" \in marks, far |-> "far" \in marks,
     multi |-> "multi" \in marks]

ManyFacts ==
    {Fact(k[1], k[2], enforced, prior, center, sub, part, refit, marks) :
        k \in {<<"cluster", FALSE>>, <<"cluster", TRUE>>, <<"topology", TRUE>>},
        enforced \in BOOLEAN, prior \in {NoLine, Clean, Away},
        center \in {NoLine, Clean, Across, Gap, Astray, Beside, Away},
        sub \in {NoLine, Clean, Across}, part \in {NoLine, Clean},
        refit \in {NoLine, Gap, Away}, marks \in {{}, {"widen"}, {"close", "far"}, {"multi"}}}
FewFacts ==
    {Fact(k[1], k[2], enforced, Clean, center, NoLine, NoLine, NoLine, {}) :
        k \in {<<"cluster", FALSE>>, <<"cluster", TRUE>>, <<"variant", FALSE>>},
        enforced \in BOOLEAN, center \in {Clean, Across, Beside, Away}} \cup
    {Fact(k, TRUE, FALSE, prior, center, NoLine, NoLine, NoLine, {}) :
        k \in {"branch", "topology"}, prior \in {Clean, Across, Away}, center \in {NoLine, Clean}}
SomeFacts == [many |-> {f \in ManyFacts : (f.kind = "topology" => f.prior.there /\ ~f.enforced)},
              few |-> FewFacts]
-----------------------------------------------------------------------------
Hit(t, at, node, gap, off) == [t |-> t, at |-> at, node |-> node, gap |-> gap, off |-> off]
Sampled(t, s) == [t |-> t, at |-> s, node |-> 0]
Close(t, s, u, r, dist, dot, turn) ==
    [from |-> Sampled(t, s), to |-> Sampled(u, r), dist |-> dist, dot |-> dot, turn |-> turn]

SomeHits == {Hit(1, 1, 1, 0, 1), Hit(1, 3, 2, 0, 0), Hit(1, 4, 3, 1, 0), Hit(2, 1, 2, 0, 1),
             Hit(2, 3, 2, 0, 0), Hit(2, 3, 3, 0, 1), Hit(3, 2, 3, 0, 0), Hit(3, 4, 4, 0, 0)}
SomeNear == {Close(1, 4, 2, 0, 1, 1, 0), Close(1, 2, 3, 0, 1, 1, 1), Close(2, 4, 3, 0, 1, 0, 0)}
AllNear == {Close(1, 2, 2, 0, 2, 1, 0)}

SameAt == [n \in 1..4 |-> n]
MergedAt == [n \in 1..4 |-> IF n = 2 THEN 3 ELSE n]
SplitAt == [n \in 1..4 |-> IF n = 2 THEN 4 ELSE n]

SettingOf(topology, pairs, hasPrior, prior, src, dst) ==
    [topology |-> topology, pairs |-> pairs, hasPrior |-> hasPrior, prior |-> prior,
     srcAlias |-> src, dstAlias |-> dst]

SomeSettings ==
    {SettingOf(FALSE, {}, FALSE, <<>>, SameAt, SameAt),
     SettingOf(FALSE, {}, TRUE, 1 :> {3, 4} @@ 2 :> {4} @@ 3 :> {}, SameAt, SameAt),
     SettingOf(TRUE, {<<1, 3>>, <<1, 4>>, <<2, 4>>}, TRUE, 1 :> {3, 4} @@ 2 :> {4}, SameAt, SameAt),
     SettingOf(TRUE, {<<1, 3>>, <<4, 4>>}, FALSE, <<>>, SplitAt, MergedAt),
     SettingOf(FALSE, {}, FALSE, <<>>, SplitAt, MergedAt)}

SomeDrives ==
    {[len |-> <<4, 4, 4>>, samples |-> <<{0, 2, 4}, {0, 4}, {0, 3, 4}>>,
      hits |-> some, near |-> near, nonRc |-> {2},
      topology |-> s.topology, pairs |-> s.pairs, hasPrior |-> s.hasPrior, prior |-> s.prior,
      srcAlias |-> s.srcAlias, dstAlias |-> s.dstAlias] :
        some \in {h \in SUBSET SomeHits : Hit(1, 1, 1, 0, 1) \in h},
        near \in {m \cup AllNear : m \in SUBSET SomeNear}, s \in SomeSettings}

TwoPasses ==
    {[buffer |-> 0, levels |-> {1, 2}, dotMin |-> 0, maxDist |-> 9, focus |-> {}],
     [buffer |-> 1, levels |-> {2}, dotMin |-> -1, maxDist |-> 12, focus |-> {1}]}

Feature(id, a, b, dir) == [id |-> id, a |-> a, b |-> b, dir |-> dir]
SomeFeatures ==
    {Feature(1, 1, 5, 2), Feature(2, 5, 2, 2), Feature(3, 5, 6, 2), Feature(4, 6, 3, 2),
     Feature(5, 4, 6, 3), Feature(6, 2, 3, 0), Feature(7, 5, 6, 3), Feature(8, 3, 7, 2),
     Feature(9, 7, 1, 2)}
FewFeatures == {Feature(1, 1, 2, 2), Feature(2, 2, 5, 2), Feature(3, 5, 3, 2), Feature(4, 2, 4, 2), Feature(5, 7, 7, 2)}

Section(lo, hi, zoned, zone, goreKnown, gore, tracks) ==
    [lo |-> lo, hi |-> hi, zoned |-> zoned, zone |-> zone, goreKnown |-> goreKnown,
     gore |-> gore, tracks |-> tracks]
Wide == Section(0, 5, TRUE, 0..5, TRUE, {}, {})
Kinds ==
    {Section(0, 5, z, IF z THEN zone ELSE {}, g # {}, g, t) :
        z \in BOOLEAN, zone \in {0..5, 2..9, {0, 1, 4}, {0, 4, 5}, {8}},
        g \in {{}, {3}, {4, 5}, {0, 1, 2, 3, 4}, 0..5}, t \in {{}, {0}, {5}, {1, 2, 3}, {3, 4, 6, 7, 8}}}
    \cup {Section(2, 3, TRUE, 0..5, FALSE, {}, {}), Section(0, 5, TRUE, {8}, FALSE, {}, {0})}

Drawn(n, members, group, section) ==
    [node |-> n, members |-> members, group |-> group, section |-> section]
Separate == {Drawn(n, {n}, n, Wide) : n \in 1..4}
Shared == {Drawn(1, {1}, 1, Wide), Drawn(2, {2, 3}, 2, Wide), Drawn(4, {4}, 4, Wide)}
OneGroup == {Drawn(1, {1, 4}, 9, Wide), Drawn(2, {2, 3}, 9, Wide)}
OneIs(x) == (Separate \ {Drawn(2, {2}, 2, Wide)}) \cup {Drawn(2, {2}, 2, x)}

World(features, directed, unique, lines, mode) ==
    [features |-> features, directed |-> directed, unique |-> unique, lines |-> lines,
     mode |-> mode, goreNeeded |-> FALSE, pairs |-> {}, sources |-> {}]

SomeMaps ==
    {World(fs, d, u, lines, "bypass") : fs \in SUBSET SomeFeatures, d \in BOOLEAN, u \in BOOLEAN,
                                        lines \in {Separate, Shared, OneGroup}}
    \cup {[World(FewFeatures, TRUE, TRUE, OneIs(x), mode) EXCEPT !.goreNeeded = need] :
            x \in Kinds, mode \in {"audit", "lite", "full"}, need \in BOOLEAN}
    \cup {[World(SomeFeatures, TRUE, FALSE, lines, "lite") EXCEPT !.pairs = ps, !.sources = ss \cup {p[1] : p \in ps}] :
            lines \in {Separate, Shared}, ps \in {{}, {<<1, 2>>}}, ss \in {{}, {4}}}
-----------------------------------------------------------------------------
CONSTANTS Maps, Sections, Budget, March, Slack, MidMargin, MinEvidence, MinSection

CONSTANTS Drives, Passes, NearEnd, MinAdvance, MaxTurn, Penalty, Limit, Margin, Early, Single, Skip

VARIABLES program, drive, par, edges, at, events, event, targets, filter, best,
          prev, heap, hits, found2, open, unclear

passVars == <<drive, par, edges, at, events, event, targets, filter, best,
              prev, heap, hits, found2, open, unclear>>

VARIABLES map, step, answers, crossed, graph, anchors, anchor, stack, spent, cut, met,
          rows, accepted, chained

mapVars == <<map, step, answers, crossed, graph, anchors, anchor, stack, spent, cut, met,
             rows, accepted, chained>>

C == INSTANCE CrossingSearch WITH
    pc <- at, todo <- events, supports <- found2

T == INSTANCE TopologyPairs WITH edges <- graph

RestDrive == CHOOSE d \in Drives : TRUE
RestPass == CHOOSE p \in Passes : TRUE
RestMap == CHOOSE m \in Maps : TRUE
DriveRests == drive = RestDrive /\ par = RestPass /\ C!Idle
MapRests == map = RestMap /\ T!Idle

BothInit ==
    \/ program = "pass" /\ given = Plain /\ Init /\ C!Init /\ MapRests
    \/ program = "run" /\ Init /\ DriveRests /\ MapRests
    \/ program = "map" /\ given = Plain /\ Init /\ DriveRests /\ T!Init

BothNext ==
    /\ UNCHANGED program
    /\ \/ program = "run" /\ Next /\ UNCHANGED <<passVars, mapVars>>
       \/ program = "pass" /\ C!Next /\ UNCHANGED <<vars, mapVars>>
       \/ program = "map" /\ T!Next /\ UNCHANGED <<vars, passVars>>

BothSpec == BothInit /\ [][BothNext]_<<program, vars, passVars, mapVars>>

(* What a pass hands on: every support is traffic to its target, as long   *)
(* as it says, and nothing that must be found is missing.  See             *)
(* CrossingSearch.                                                         *)
PassIsHonest == C!SupportsAreReal /\ C!AnswersAreExact

(* What steps 0 and 1 hand on: a section that passes may be driven on, and *)
(* an accepted pair follows the prior roads.  See TopologyPairs.           *)
TopologyIsHonest == T!PairsFollowRoads /\ T!SectionsAreHonest
=============================================================================
