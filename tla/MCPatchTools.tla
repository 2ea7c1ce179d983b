------------------------------ MODULE MCPatchTools ------------------------------
(***************************************************************************)
(* The tools that work over one patch after the other in one run: t04 with *)
(* the contract of AnchorNode, the evaluation of one of its nodes, which   *)
(* must keep it (AnchorEvaluation), the repair of a patch                  *)
(* (PatchPreprocess) and the batches that clean clouds of layers           *)
(* (MultilayerBatch).  While one of them goes on the others rest.          *)
(***************************************************************************)
EXTENDS AnchorRun, AnchorEvaluation, PatchPreprocess, MultilayerBatch

(* The patches of t04 have three crossings 1, 2, 3.  Every crossing has    *)
(* side roads to nodes of their own, so that it has at least three roads;  *)
(* a corridor between two crossings is one road of either direction value, *)
(* or two through a node that passes traffic on.                           *)
Arc(i, s, e, d, l) == [id |-> i, s |-> s, e |-> e, dir |-> d, len |-> l]
Sides == {Arc(100 + 10 * n + k, n, 1000 + 10 * n + k, 2, 1) : n \in 1..3, k \in 1..3}

\* corridors, each a set of roads with ids of its own
Fwd(m, n, l) == {Arc(10 * m + n, m, n, 2, l)}
Bwd(m, n, l) == {Arc(10 * m + n, n, m, 3, l)}
Via(m, n, l1, l2) == {Arc(200 + 10 * m + n, m, 500 + 10 * m + n, 2, l1),
                      Arc(300 + 10 * m + n, n, 500 + 10 * m + n, 3, l2)}
Closed(m, n) == {Arc(10 * m + n, m, n, 1, 1)}

M == {"merge"}
D == {"diverge"}
PlainRows == <<<<1>>, <<2>>, <<3>>>>
World(cs, k1, k2, k3) ==
    [roads |-> Sides \cup cs, rows |-> PlainRows, kind |-> <<k1, k2, k3>>,
     focus |-> {}, mode |-> "patch"]
Focused(w, rs, f) == [w EXCEPT !.rows = rs, !.focus = f, !.mode = "global_focus"]

Line == Fwd(1, 2, 1) \cup Bwd(2, 3, 2)
Late == Fwd(1, 2, 3) \cup Fwd(2, 3, 1) \cup Via(1, 3, 1, 1)
Fan == Fwd(1, 3, 2) \cup Fwd(2, 3, 1)
Cycle == Fwd(1, 2, 1) \cup Fwd(2, 1, 1) \cup Fwd(2, 3, 1)
Limits == Fwd(1, 2, 3) \cup Via(2, 3, 2, 2)
Parallel == Via(1, 2, 1, 2) \cup Fwd(1, 2, 1) \cup Closed(2, 3)
Loop == Fwd(1, 1, 1) \cup Fwd(1, 2, 1)

SomeWorlds ==
    {World(Line, D, M, M), World(Line, D, D, M), World(Late, D, D, M), World(Late, D, M, M),
     World(Fan, D, D, M), World(Fan, M, D, D), World(Cycle, D, M, M),
     World(Limits, D, M, M), World(Limits, D, D, M), World(Parallel, D, M, D),
     World(Loop, D, M, M), World(Line, {"k16"}, M, D \cup M),
     Focused(World(Line, D, M, M), <<<<1, 7>>, <<7, 2>>, <<8, 1>>, <<3>>>>, {2, 7, 1}),
     Focused(World(Fan, D, D, M), <<<<1>>, <<8, 2>>, <<3>>>>, {8, 3, 9})}
-----------------------------------------------------------------------------
(* The nodes evaluated are merges and diverges outside a chain, in one,    *)
(* and after a placed predecessor, with two or three branches, and nodes   *)
(* that must fail.                                                         *)

Crossing(k, n, off, req) ==
    [kind |-> {k}, known |-> TRUE, offset |-> off, required |-> req,
     branches |-> n, zone |-> TRUE, conn |-> {}]
Tollgate(joins, within) ==
    [kind |-> {"k16"}, known |-> TRUE, offset |-> {}, required |-> {},
     branches |-> 0, zone |-> within, conn |-> joins]
RoadAt(dir, end) == [dir |-> dir, at |-> end]

MCNodes ==
    {Crossing(k, n, {3}, req) : k \in {"merge", "diverge"}, n \in {2, 3}, req \in {{}, {2}, {3}, {4}}}
    \cup {Crossing(k, 2, {}, {}) : k \in {"merge", "diverge"}}
    \cup {[Crossing("merge", n, {}, {}) EXCEPT !.zone = z, !.known = k] :
            n \in 1..2, z \in BOOLEAN, k \in BOOLEAN}
    \cup {[Crossing("merge", 2, {}, {}) EXCEPT !.kind = k] : k \in {{}, {"merge", "diverge"}}}
    \cup {Tollgate(c, z) : z \in BOOLEAN, c \in
            {{}, {RoadAt(2, "start")}, {RoadAt(3, "start")}, {RoadAt(2, "end")}, {RoadAt(3, "end")}, {RoadAt(1, "end")},
             {RoadAt(2, "start"), RoadAt(2, "end")}}}

-----------------------------------------------------------------------------
(* The patches to repair have two roads, the second of which lacks its     *)
(* source; some of their nodes have no id or the same one.  Some runs      *)
(* follow another into the same directory.                                 *)

PatchOf(nodes, net, drive) ==
    [vector |-> {"RCSDNode", "Road"}, globals |-> 0, override |-> "none", named |-> TRUE,
     compat |-> {}, crs |-> <<"m", "m", "">>, fields |-> TRUE,
     nodes |-> nodes, roads |-> net, zone |-> drive]

NodesAt(a, b) == <<[id |-> <<1>>, at |-> a], [id |-> <<>>, at |-> 3], [id |-> <<1>>, at |-> 5],
                   [id |-> <<2>>, at |-> b]>>
RoadOf(k, s, e, parts) == [key |-> k, s |-> <<s>>, e |-> <<e>>, parts |-> parts]

SomeParts == {<< <<0, 8>> >>, << <<8, 0>> >>, << <<0, 3>>, <<5, 8>> >>, << <<1, 7>> >>,
              << <<8, 4>>, <<2, 0>> >>, << <<4, 6>> >>}
SomeZones == {{}, {0, 1}, {1, 5}, {2, 7}, {4}, {0, 6}}

Repaired(key, s, e, p, q, drive) ==
    PatchOf(NodesAt(0, 8), <<RoadOf(1, s, e, p), RoadOf(key, 3, 1, q)>>, drive)

Usual == Repaired(2, 3, 2, << <<8, 0>> >>, << <<0, 8>> >>, {0, 6})
Repairs ==
    {Repaired(k, s, e, p, q, z) : k \in 1..2, s \in 1..3, e \in 2..3, p \in SomeParts,
                                  q \in {<< <<0, 8>> >>, << <<8, 4>>, <<2, 0>> >>}, z \in SomeZones}
Refused ==
    {[Usual EXCEPT !.vector = {"Node"}], [Usual EXCEPT !.vector = {}, !.globals = 2],
     [Usual EXCEPT !.override = "missing"], [Usual EXCEPT !.named = FALSE, !.compat = {"geojson", "gpkg"}],
     [Usual EXCEPT !.crs = <<"m", "", "m">>], [Usual EXCEPT !.crs = <<"m", "d", "">>],
     [Usual EXCEPT !.fields = FALSE], [Usual EXCEPT !.nodes = <<>>], [Usual EXCEPT !.zone = {}]}
Others ==
    {[Usual EXCEPT !.vector = {}, !.globals = 1], [Usual EXCEPT !.named = FALSE, !.compat = {"geojson"}],
     Repaired(1, 1, 3, << <<0, 8>> >>, << <<0, 8>> >>, {1, 5})}

SomePlans == {<<w>> : w \in Repairs} \cup {<<v, w>> : v \in Others \cup {Usual}, w \in Others \cup Refused}
-----------------------------------------------------------------------------
(* The clouds to clean have a road at 1 m over six cells, bridges at 7 m   *)
(* over some of them, layers below, and a trajectory along the road; or    *)
(* few points, and trajectories that are missing, astray or at two levels. *)

Spot(c, z, n) == [cell |-> c, z |-> z, n |-> n]
Along(cells, z) == [i \in DOMAIN cells |-> [cell |-> cells[i], z |-> z]]
Cloud(points, trips, mixed) == [cloud |-> points, there |-> TRUE, trips |-> trips, mixed |-> mixed]
Deck(cells, n) == [i \in 1..cells |-> Spot(i, 20, n)]
Bridge(cells, n) == SetToSeq({Spot(c, 140, n) : c \in cells})

Layered ==
    {Cloud(Deck(6, k) \o Bridge(s, n) \o low, <<Along(<<1, 2, 3, 4, 5, 6>>, 0)>>, FALSE) :
        s \in {{2, 3, 4}, {4, 5, 6}, 1..6, {3}, {2, 3, 5, 6}, {}}, k \in {10, 30}, n \in {20, 60, 200},
        low \in {<<>>, <<Spot(5, -100, 24), Spot(6, -100, 24)>>, <<Spot(6, 0, 1)>>}}
Odd == {Cloud(Deck(3, 20), trips, mixed) : mixed \in BOOLEAN,
            trips \in {<<>>, <<Along(<<20, 21>>, 8)>>, <<Along(<<1, 2, 3>>, 20), Along(<<1, 2>>, 140)>>}}
Small == Cloud(<<Spot(1, 20, 10)>>, <<Along(<<1>>, 20)>>, FALSE)

SomeData ==
    {[patches |-> <<p>>, batches |-> 1] : p \in Layered \cup Odd}
    \cup {[patches |-> <<Small>>, batches |-> 3],
          [patches |-> <<Small, [Small EXCEPT !.there = FALSE]>>, batches |-> 1]}

SomeRequests ==
    {[format |-> f, tagged |-> t, resume |-> r, mode |-> "auto"] :
        f \in {"laz", "las"}, t \in BOOLEAN, r \in BOOLEAN}
    \cup {[format |-> "las", tagged |-> FALSE, resume |-> FALSE, mode |-> "force_degraded"]}
-----------------------------------------------------------------------------
VARIABLES
    program     \* "run", "evaluation", "repair" or "cleaning"

NoEvaluation == EvaluationInit /\ node = CHOOSE n \in MCNodes : TRUE
NoRun == Init /\ world = CHOOSE w \in Worlds : TRUE
NoRepair == FreshRepair(<<>>)
NoCleaning == FreshBatch([patches |-> <<>>, batches |-> 0])

AnyInit ==
    \/ program = "run" /\ Init /\ NoEvaluation /\ NoRepair /\ NoCleaning
    \/ program = "evaluation" /\ EvaluationInit /\ NoRun /\ NoRepair /\ NoCleaning
    \/ program = "repair" /\ RepairInit /\ NoRun /\ NoEvaluation /\ NoCleaning
    \/ program = "cleaning" /\ CleaningInit /\ NoRun /\ NoEvaluation /\ NoRepair

AnyNext ==
    /\ UNCHANGED program
    /\ \/ program = "run" /\ Next /\ UNCHANGED <<nodeVars, repairVars, cleaningVars>>
       \/ program = "evaluation" /\ EvaluationNext /\ UNCHANGED <<vars, repairVars, cleaningVars>>
       \/ program = "repair" /\ RepairNext /\ UNCHANGED <<vars, nodeVars, cleaningVars>>
       \/ program = "cleaning" /\ CleaningNext /\ UNCHANGED <<vars, nodeVars, repairVars>>

AnySpec == AnyInit /\ [][AnyNext]_<<program, vars, nodeVars, repairVars, cleaningVars>>
=============================================================================
