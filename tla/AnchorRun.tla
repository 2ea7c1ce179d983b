------------------------------ MODULE AnchorRun -----------------------------
(***************************************************************************)
(* One run of t04_rc_sw_anchor over a patch (runner.py run_from_runtime):  *)
(* inputs, seed nodes, chains of close crossings, one evaluation per node, *)
(* then the two passes that look back over the chains - the relative order *)
(* of the lines, and the merging of a diverge and a merge that share one   *)
(* line - and the gates of the outputs.                                    *)
(*                                                                         *)
(* Evaluating a node is the contract of AnchorNode; whether two lines lie  *)
(* close enough to be one, and which of them is the longer, is geometry    *)
(* and is chosen.                                                          *)
(***************************************************************************)
EXTENDS AnchorChains, AnchorNode

CONSTANT Worlds  \* records [roads, rows, kind, focus, mode], see the MC module

ASSUME WorldsAssumption ==
    \A w \in Worlds :
        /\ IsFiniteSet(w.roads)
        /\ \A r \in w.roads : r.len \in Nat
        /\ \A r, q \in w.roads : r.id = q.id => r = q
        /\ DOMAIN w.rows = 1..Len(w.rows)

VARIABLES
    world,    \* the inputs
    roads,    \* the roads as loaded
    rows,     \* the nodes as loaded
    zone,     \* is the drivezone usable
    pc,
    seeds,    \* the seed nodes
    edges,    \* the chain edges
    todo,     \* the chained nodes still to evaluate, then the edges to look at
    chosen,   \* the positions of the component that is being evaluated
    required, \* what a node was asked to exceed
    results,  \* the verdicts, by node
    used,     \* the nodes that were merged
    merged,   \* the merges [src, dst, keeper]
    hard,     \* the hard breakpoints, as pairs of what and about whom
    pass      \* overall_pass, once it is known

inputs == <<world, roads, rows, zone>>
chain == <<seeds, edges>>
verdicts == <<chosen, required, results>>
merges == <<used, merged>>
vars == <<inputs, pc, chain, todo, verdicts, merges, hard, pass>>

Kind(n) ==
    LET row == {i \in KeptRows(rows, roads) : Canonical(rows[i], roads) = n}
    IN  IF row = {} THEN {} ELSE world.kind[Min(row)]

Kinds == [n \in Endpoints(roads) \cup CanonicalIds(rows, roads) |-> Kind(n)]

Evaluated == DOMAIN results
Up(n) == n \in Evaluated /\ results[n].fate = "placed"
Abs(n) == IF n \in Evaluated THEN results[n].abs ELSE {}
Offset(n) == IF n \in ChainNodes(edges) THEN {Offsets(edges)[n]} ELSE {}

Init ==
    /\ world \in Worlds
    /\ roads = {} /\ rows = <<>> /\ zone = FALSE
    /\ pc = "load"
    /\ seeds = {} /\ edges = {} /\ todo = {}
    /\ chosen = << >> /\ required = << >> /\ results = << >>
    /\ used = {} /\ merged = {} /\ hard = {} /\ pass = {}

-----------------------------------------------------------------------------
(* The nodes or the roads may lack their coordinate system: the run goes   *)
(* on without them.                                                        *)
Load ==
    /\ pc = "load"
    /\ \E lost \in SUBSET {"node", "road"} :
        /\ roads' = IF "road" \in lost THEN {} ELSE world.roads
        /\ rows' = IF "node" \in lost THEN <<>> ELSE world.rows
        /\ hard' = {<<"input", l>> : l \in lost}
    /\ pc' = "seeds"
    /\ UNCHANGED <<world, zone, chain, todo, verdicts, merges, pass>>

(* Only the mode global_focus complains of a focus id that stands for no   *)
(* node.                                                                   *)
PickSeeds ==
    /\ pc = "seeds"
    /\ seeds' = IF world.mode = "global_focus" /\ world.focus = {} THEN {}
                ELSE SeedsOf(world.focus, rows, roads)
    /\ hard' = hard \cup
         {<<"focus", id>> : id \in
             {f \in world.focus :
                 world.mode = "global_focus" /\ Resolved(f, rows, roads) = {}}}
    /\ pc' = "zones"
    /\ UNCHANGED <<inputs, edges, todo, verdicts, merges, pass>>

(* The divstrips may be missing altogether; without a drivezone every node *)
(* fails.                                                                  *)
LoadZones ==
    /\ pc = "zones"
    /\ \E lost \in SUBSET {"divstrip", "drivezone"} :
        /\ zone' = ("drivezone" \notin lost)
        /\ hard' = hard \cup {<<"input", l>> : l \in lost}
    /\ pc' = "chains"
    /\ UNCHANGED <<world, roads, rows, chain, todo, verdicts, merges, pass>>

BuildChains ==
    /\ pc = "chains"
    /\ edges' = ChainEdges(roads, seeds, Kinds)
    /\ todo' = ChainNodes(edges')
    /\ pc' = "chained"
    /\ UNCHANGED <<inputs, seeds, verdicts, merges, hard, pass>>

-----------------------------------------------------------------------------
(* The largest position of the predecessors that were placed already.  A   *)
(* predecessor that failed, or that comes later in the order of the        *)
(* offsets, asks for nothing.                                              *)
\* mutant: the smallest position
RequiredLeast(n) ==
    LET preds == UNION {chosen[p] : p \in
                    {e.src : e \in Into(edges, n)} \cap DOMAIN chosen}
    IN  IF preds = {} THEN {} ELSE {Min(preds)}

Required(n) ==
    LET preds == UNION {chosen[p] : p \in
                    {e.src : e \in Into(edges, n)} \cap DOMAIN chosen}
    IN  IF preds = {} THEN {} ELSE {Max(preds)}

Judge(n, req) ==
    \E v \in Verdicts(Kind(n), Offset(n), req) :
        /\ ~zone => v = Failed
        /\ results' = [m \in Evaluated \cup {n} |-> IF m = n THEN v ELSE results[m]]
        /\ hard' = IF v = Failed THEN hard \cup {<<"node", n>>} ELSE hard
        /\ chosen' = IF v = Failed \/ v.abs = {} THEN chosen
                     ELSE [m \in DOMAIN chosen \cup {n} |-> IF m = n THEN v.abs ELSE chosen[m]]

EvaluateChained ==
    /\ pc = "chained"
    /\ \E n \in todo :
        /\ \A m \in todo : ~NodeBefore(edges, m, n)
        /\ Judge(n, Required(n))
        /\ required' = [m \in DOMAIN required \cup {n} |->
                          IF m = n THEN Required(n) ELSE required[m]]
        /\ todo' = todo \ {n}
    /\ UNCHANGED <<inputs, pc, chain, merges, pass>>

ChainedDone ==
    /\ pc = "chained" /\ todo = {}
    /\ pc' = "rest"
    /\ UNCHANGED <<inputs, chain, todo, verdicts, merges, hard, pass>>

(* The other seeds, outside every chain and so in any order.               *)
EvaluateRest ==
    /\ pc = "rest"
    /\ \E n \in seeds \ Evaluated : Judge(n, {})
    /\ UNCHANGED <<inputs, pc, chain, todo, required, merges, pass>>

RestDone ==
    /\ pc = "rest" /\ seeds \subseteq Evaluated
    /\ pc' = "order"
    /\ todo' = edges
    /\ UNCHANGED <<inputs, chain, verdicts, merges, hard, pass>>

-----------------------------------------------------------------------------
Foremost(e) == \A d \in todo : ~EdgeBefore(edges, d, e)

(* The relative order of two lines of a chain edge.  A diverge and the     *)
(* merge after it may share one line.                                      *)
MayShare(e) == IsDiverge(Kind(e.src)) /\ IsMerge(Kind(e.dst))

\* mutant: equal positions pass for any kinds
OutOfOrderStrictly(e) ==
    /\ Up(e.src) /\ Up(e.dst)
    /\ \E a \in Abs(e.src), b \in Abs(e.dst) : b < a

OutOfOrder(e) ==
    /\ Up(e.src) /\ Up(e.dst)
    /\ \E a \in Abs(e.src), b \in Abs(e.dst) : b < a \/ (b = a /\ ~MayShare(e))

CheckOrder ==
    /\ pc = "order"
    /\ \E e \in todo :
        /\ Foremost(e)
        /\ IF OutOfOrder(e)
           THEN /\ results' = [results EXCEPT ![e.dst].fate = "fail"]
                /\ hard' = hard \cup {<<"order", e.dst>>}
           ELSE UNCHANGED <<results, hard>>
        /\ todo' = todo \ {e}
    /\ UNCHANGED <<inputs, pc, chain, chosen, required, merges, pass>>

OrderDone ==
    /\ pc = "order" /\ todo = {}
    /\ pc' = "merge"
    /\ todo' = edges
    /\ UNCHANGED <<inputs, chain, verdicts, merges, hard, pass>>

(* The nearest predecessor of a node, failed or not.                       *)
Primary(n) ==
    LET preds == Into(edges, n)
        nearest == {e \in preds : \A f \in preds : e.dist <= f.dist}
    IN  Min({e.src : e \in nearest})

Mergeable(e) ==
    /\ e.src \notin used /\ e.dst \notin used
    /\ Up(e.src) /\ Up(e.dst)
    /\ IsDiverge(Kind(e.src)) /\ IsMerge(Kind(e.dst))
    /\ Offsets(edges)[e.src] < Offsets(edges)[e.dst]
    /\ Primary(e.dst) = e.src

MergeEdge ==
    /\ pc = "merge"
    /\ \E e \in todo :
        /\ Foremost(e)
        /\ \/ UNCHANGED merges
           \/ /\ Mergeable(e)
              /\ \E keeper \in {e.src, e.dst} :
                    merged' = merged \cup {[src |-> e.src, dst |-> e.dst, keeper |-> keeper]}
              /\ used' = used \cup {e.src, e.dst}
        /\ todo' = todo \ {e}
    /\ UNCHANGED <<inputs, pc, chain, verdicts, hard, pass>>

-----------------------------------------------------------------------------
(* The gates: nothing hard was reported, there is a node, and enough of    *)
(* them were placed - all in the mode global_focus, nine of ten in a patch *)
(* run.  The other soft gates count what failed nodes report.              *)
Enough ==
    10 * Cardinality({n \in seeds : Up(n)})
        >= (IF world.mode = "global_focus" THEN 10 ELSE 9) * Cardinality(seeds)

Gates == hard = {} /\ seeds # {} /\ Enough

Finish ==
    /\ pc = "merge" /\ todo = {}
    /\ pass' = {Gates}
    /\ pc' = "done"
    /\ UNCHANGED <<inputs, chain, todo, verdicts, merges, hard>>

Next ==
    \/ Load \/ PickSeeds \/ LoadZones \/ BuildChains
    \/ EvaluateChained \/ ChainedDone \/ EvaluateRest \/ RestDone
    \/ CheckOrder \/ OrderDone \/ MergeEdge \/ Finish

Spec == Init /\ [][Next]_vars

-----------------------------------------------------------------------------
TypeOK ==
    /\ pc \in {"load", "seeds", "zones", "chains", "chained", "rest", "order", "merge", "done"}
    /\ world \in Worlds /\ zone \in BOOLEAN
    /\ \A n \in Evaluated :
          results[n].fate \in {"placed", "fail"} /\ IsFiniteSet(results[n].abs)
    /\ used \subseteq Evaluated
    /\ pass \subseteq BOOLEAN

Ordered(e) ==
    Up(e.src) /\ Up(e.dst) =>
        \A a \in Abs(e.src), b \in Abs(e.dst) :
            /\ ~(b < a)
            /\ a = b => "diverge" \in Kind(e.src) /\ "merge" \in Kind(e.dst)

(* After the order pass no two placed nodes of a chain edge are in the     *)
(* wrong order, also where the pass failed nodes between them, where a     *)
(* predecessor was evaluated after its successor, and on cycles            *)
(* (_apply_continuous_relative_order_constraints).                         *)
OrderHolds ==
    pc \in {"merge", "done"} => \A e \in edges : Ordered(e)

(* The order pass is needed only where the visiting order is not an order  *)
(* of the chain: two nodes can come out in the wrong order only when the   *)
(* successor was evaluated before its predecessor (the least of the        *)
(* offsets decides, not all of the predecessors, and cycles have none).    *)
Before(m, n) ==
    LET off == Offsets(edges)
    IN  off[m] < off[n] \/ (off[m] = off[n] /\ m < n)

OnlyLateCausesDisorder ==
    pc \in {"rest", "order"} =>
        \A e \in edges : ~Ordered(e) => ~Before(e.src, e.dst)

(* A node that is not placed in the end has a hard breakpoint of its own   *)
(* or of its predecessor's order (_add_bp of _evaluate_node, the order     *)
(* pass): nothing fails without a trace.                                   *)
FailureIsLoud ==
    \A n \in Evaluated : ~Up(n) =>
        <<"node", n>> \in hard \/ <<"order", n>> \in hard

(* A run that passes has placed every node it was asked for, in the mode   *)
(* global_focus every focus id, with all layers loaded, and every chain    *)
(* edge is in order (build_metrics: overall_pass).                         *)
PassIsClean ==
    pass = {TRUE} =>
        /\ \A n \in seeds : Up(n)
        /\ \A e \in edges : Ordered(e)
        /\ zone
        /\ world.mode = "global_focus" =>
              \A id \in world.focus : Resolved(id, rows, roads) \subseteq Evaluated
                                             /\ Resolved(id, rows, roads) # {}

(* Every node gives its line away at most once: two merges have no node in *)
(* common, both nodes of a merge were placed, and exactly one of the two   *)
(* lines is kept (_apply_continuous_merges).                               *)
OneLinePerGroup ==
    /\ \A m \in merged :
          /\ Up(m.src) /\ Up(m.dst) /\ m.src # m.dst /\ m.keeper \in {m.src, m.dst}
    /\ \A m1, m2 \in merged :
          m1 # m2 => {m1.src, m1.dst} \cap {m2.src, m2.dst} = {}

(* A chain edge is a corridor between two seeds that the limit of their    *)
(* kinds allows, whatever the direction field of its roads says and        *)
(* through any nodes that only pass traffic on; there is one edge for a    *)
(* pair of nodes (build_continuous_graph).                                 *)
Drives(r, m, n) ==
    \/ r.dir = 2 /\ r.s = m /\ r.e = n
    \/ r.dir = 3 /\ r.e = m /\ r.s = n

Driven(n) == Cardinality({r \in roads : r.dir \in {2, 3} /\ n \in {r.s, r.e}})

\* Where one can get from the trails ts over one more driven road, when only
\* nodes with two driven roads are passed and no road is driven back.
Further(ts) ==
    {[at |-> q[3], prev |-> q[1].at, len |-> q[1].len + q[2].len] :
        q \in {p \in ts \X roads \X Endpoints(roads) :
                 /\ Driven(p[1].at) = 2
                 /\ p[3] # p[1].prev
                 /\ Drives(p[2], p[1].at, p[3])}}

Trails(m) ==
    LET trail[k \in 1..Hops] ==
            IF k = 1
            THEN {[at |-> q[2], prev |-> m, len |-> q[1].len] :
                    q \in {p \in roads \X Endpoints(roads) : Drives(p[1], m, p[2])}}
            ELSE Further(trail[k - 1])
    IN  UNION {trail[k] : k \in 1..Hops}

ChainsAreCorridors ==
    pc = "chained" /\ results = << >> =>
        \A m, n \in seeds :
            LET limit == IF "diverge" \in Kind(m) /\ "merge" \in Kind(n) THEN Far ELSE Near
                short == {t.len : t \in {q \in Trails(m) :
                              /\ q.at = n /\ Driven(n) >= 3 /\ q.len < limit
                              /\ Kind(n) \cap {"merge", "diverge"} # {}}}
            IN  {e.dist : e \in {f \in edges : f.src = m /\ f.dst = n}}
                  = (IF short = {} THEN {} ELSE {Min(short)})
=============================================================================
