--------------------------- MODULE TopologySearch ---------------------------
(***************************************************************************)
(* _build_directed_topology: direct arcs, then one bounded depth-first     *)
(* search per way out of a cross section, for traces to the next cross     *)
(* section ("trace") and to a terminal ("terminal"), and one per way into  *)
(* a terminal, backwards, for its owner ("reverse").  The gates that read  *)
(* the result are operators over the final state.                          *)
(*                                                                         *)
(* A search visits one entry of its stack per step.  The searches share    *)
(* nothing but the graph; the one that runs next is chosen.                *)
(***************************************************************************)
EXTENDS RoadGraph

CONSTANTS
    RoadSets,       \* the sets of prior roads a patch may have
    MaxExpansions   \* 2048 in the code

ASSUME SearchAssumption ==
    /\ MaxExpansions \in Nat \ {0}
    /\ \A roads \in RoadSets :
          /\ IsFiniteSet(roads)
          /\ \A r \in roads : r.id \in Nat /\ r.from \in Nat /\ r.to \in Nat /\ r.from # r.to
          /\ \A r, q \in roads : r.id = q.id => r = q

VARIABLES
    roads,      \* the prior roads
    phase,      \* "arcs", "trace", "reverse" or "done"
    edges,      \* compressed_adj
    arcs,       \* the direct topology arcs
    todo,       \* the searches that have not begun: kind and first edge
    cur,        \* the search that runs, or Idle
    traces,     \* trace_only_pair_paths and terminal_trace_paths
    anchors,    \* the anchor rows of terminal_reverse_ownership
    cut         \* history: a trace ran out of budget, which no artifact tells

vars == <<roads, phase, edges, arcs, todo, cur, traces, anchors, cut>>

Idle == [kind |-> "idle"]
Graph(kind) == IF kind = "reverse" THEN Reversed(edges) ELSE edges
Goals(kind) == IF kind = "terminal" THEN Terminals(arcs) ELSE Cross

Init ==
    /\ roads \in RoadSets
    /\ phase = "arcs" /\ edges = {} /\ arcs = {} /\ todo = {}
    /\ cur = Idle /\ traces = {} /\ anchors = {} /\ cut = FALSE

BuildArcs ==
    /\ phase = "arcs" /\ phase' = "trace"
    /\ edges' = Compressed(roads)
    /\ arcs' = Arcs(edges')
    /\ todo' = {[kind |-> "trace", edge |-> e] :
                    e \in {d \in edges' : d.from \in Cross /\ d.to \notin Cross}}
               \cup {[kind |-> "terminal", edge |-> e] :
                    e \in {d \in edges' : d.from \in Cross}}
    /\ UNCHANGED <<roads, cur, traces, anchors, cut>>

TurnBack ==
    /\ phase = "trace" /\ todo = {} /\ cur = Idle
    /\ phase' = "reverse"
    /\ todo' = {[kind |-> "reverse", edge |-> e] :
                    e \in {d \in Reversed(edges) : d.from \in Terminals(arcs)}}
    /\ UNCHANGED <<roads, edges, arcs, cur, traces, anchors, cut>>

Begin ==
    /\ cur = Idle /\ todo # {}
    /\ LET next == CHOOSE t \in todo : TRUE
           e == next.edge
       IN  /\ todo' = todo \ {next}
           /\ cur' = [kind |-> next.kind, edge |-> e,
                      stack |-> <<[node |-> e.to, nodes |-> e.nodes, path |-> e.path]>>,
                      expansions |-> 1, overflow |-> FALSE, found |-> {}]
    /\ UNCHANGED <<roads, phase, edges, arcs, traces, anchors, cut>>

(* The edges out of a node in the order of the sort key of the graph.      *)
Ahead(d, e) ==
    \/ d.to < e.to
    \/ d.to = e.to /\ Len(d.path) < Len(e.path)
    \/ /\ d.to = e.to /\ Len(d.path) = Len(e.path)
       /\ \E i \in DOMAIN d.path :
             /\ d.path[i] < e.path[i]
             /\ \A j \in 1..(i - 1) : d.path[j] = e.path[j]

InOrder(es) == Sorted(es, Ahead)

WaysOut(n) == {e \in Graph(cur.kind) : e.from = n}

(* What is searched after a node: one entry per edge to a new node.        *)
Grown(top, out) ==
    [i \in DOMAIN out |->
        [node |-> out[i].to, nodes |-> Append(top.nodes, out[i].to),
         path |-> top.path \o out[i].path]]

VisitAndGoOn(top, rest) == \* mutant: a goal is recorded and searched on from
    LET fresh == InOrder({e \in WaysOut(top.node) : e.to \notin Range(top.nodes)})
    IN  [cur EXCEPT !.stack = rest \o Grown(top, fresh),
                    !.found = IF top.node \in Goals(cur.kind) \ {cur.edge.from}
                              THEN @ \cup {top} ELSE @]

(* A goal is recorded and never searched on from.  The budget is tested    *)
(* before every edge, also before one that leads to a node of the path;    *)
(* once it is spent the rest of the stack is dropped.                      *)
Visited(top, rest) ==
    LET out == InOrder(WaysOut(top.node))
        new == {e \in WaysOut(top.node) : e.to \notin Range(top.nodes)}
        pushed(n) == Cardinality({i \in 1..n : out[i] \in new})
    IN  IF top.node \in Goals(cur.kind) \ {cur.edge.from}
        THEN [cur EXCEPT !.stack = rest, !.found = @ \cup {top}]
        ELSE IF \E i \in DOMAIN out : cur.expansions + pushed(i - 1) >= MaxExpansions
        THEN [cur EXCEPT !.stack = <<>>, !.overflow = TRUE, !.expansions = MaxExpansions]
        ELSE [cur EXCEPT !.stack = rest \o Grown(top, InOrder(new)), !.expansions = @ + Cardinality(new)]

Visit ==
    /\ cur # Idle /\ cur.stack # <<>>
    /\ cur' = Visited(Last(cur.stack), Front(cur.stack))
    /\ UNCHANGED <<roads, phase, edges, arcs, todo, traces, anchors, cut>>

(* The status of one way into a terminal.                                  *)
AnchorStatus(found) ==
    LET owners == {f.node : f \in found}
    IN  CASE Cardinality(owners) >= 2 -> "multi_src"
          [] Cardinality(owners) = 1 /\ Cardinality(found) >= 2 -> "multi_chain"
          [] Cardinality(owners) = 1 /\ Cardinality(found) < 2 -> "accepted"
          [] OTHER -> "no_owner"

Conclude ==
    /\ cur # Idle /\ cur.stack = <<>>
    /\ cur' = Idle
    /\ LET src == cur.edge.from IN
       IF cur.kind = "reverse"
       THEN /\ anchors' = anchors \cup
                   {[terminal |-> src, edge |-> cur.edge,
                     owners |-> {f.node : f \in cur.found},
                     status |-> AnchorStatus(cur.found), overflow |-> cur.overflow]}
            /\ UNCHANGED <<traces, cut>>
       ELSE /\ traces' = traces \cup
                   {[kind |-> cur.kind, src |-> src, dst |-> f.node, path |-> f.path] :
                       f \in {g \in cur.found :
                                cur.kind = "terminal" =>
                                   /\ <<src, g.node>> \notin ArcPairs(arcs)
                                   /\ Len(g.nodes) >= 3}}
            /\ cut' = (cut \/ cur.overflow)
            /\ UNCHANGED anchors
    /\ UNCHANGED <<roads, phase, edges, arcs, todo>>

Finish ==
    /\ phase = "reverse" /\ todo = {} /\ cur = Idle
    /\ phase' = "done"
    /\ UNCHANGED <<roads, edges, arcs, todo, cur, traces, anchors, cut>>

-----------------------------------------------------------------------------
(* What step 2 reads from the finished topology.                           *)

RowsOf(n) == {r \in anchors : r.terminal = n}
Accepted(n) == UNION {r.owners : r \in {q \in RowsOf(n) : q.status = "accepted"}}

(* _build_terminal_reverse_ownership: a terminal has one owner when every  *)
(* way into it was accepted and for the same cross section.                *)
ReverseStatus(n) ==
    LET has(s) == \E r \in RowsOf(n) : r.status = s
    IN  IF /\ Cardinality(Accepted(n)) = 1
           /\ \A r \in RowsOf(n) : r.status = "accepted"
        THEN "unique_owner"
        ELSE IF has("multi_src") \/ Cardinality(Accepted(n)) >= 2 THEN "multi_owner"
        ELSE IF has("multi_chain") \/ \E r \in RowsOf(n) : r.overflow
        THEN "ambiguous_owner" ELSE "no_owner"

DirectStatusCountingArcs(n) == \* mutant: two arcs of one pair count as two owners
    IF Cardinality({e \in arcs : e.to = n}) = 1 THEN "unique_owner" ELSE "ambiguous_owner"

(* _build_direct_terminal_ownership, which every terminal has, so that the *)
(* reverse one is never asked by the gate.                                 *)
DirectStatus(n) ==
    IF Cardinality(Sources(arcs, n)) = 1 THEN "unique_owner" ELSE "ambiguous_owner"

(* _topology_gate_reason; "" lets the pair through.                        *)
TopologyGate(a, b) ==
    LET terminal == b \in Terminals(arcs)
    IN  IF arcs = {} THEN ""
        ELSE IF <<a, b>> \in ArcPairs(arcs)
        THEN IF terminal /\ DirectStatus(b) = "ambiguous_owner"
             THEN "ambiguous_terminal_owner" ELSE ""
        ELSE IF \E t \in traces : t.src = a /\ t.dst = b THEN "trace_only_reachability"
        ELSE IF <<b, a>> \in ArcPairs(arcs) \/ ~terminal THEN "directed_path_not_supported"
        ELSE IF DirectStatus(b) = "ambiguous_owner" THEN "ambiguous_terminal_owner"
        ELSE "terminal_owner_mismatch"

(* _production_arc_gate_reason.  Of several arcs of a pair the candidate   *)
(* is assigned the nearest one afterwards.                                 *)
ProductionGate(a, b) ==
    LET reason == TopologyGate(a, b)
    IN  IF arcs = {} \/ <<a, b>> \in ArcPairs(arcs) \/ reason = "trace_only_reachability"
        THEN reason
        ELSE IF WithinHops(ArcPairs(arcs), a, b, BridgeHops) THEN "synthetic_arc_not_allowed"
        ELSE IF reason \in {"terminal_owner_mismatch", "ambiguous_terminal_owner"}
        THEN reason ELSE "pair_not_direct_legal_arc"

-----------------------------------------------------------------------------
Next == BuildArcs \/ TurnBack \/ Begin \/ Visit \/ Conclude \/ Finish

Spec == Init /\ [][Next]_vars

-----------------------------------------------------------------------------
(* Properties.                                                             *)

(* Every field keeps to the values the code writes.                        *)
TypeOK ==
    /\ phase \in {"arcs", "trace", "reverse", "done"}
    /\ \A e \in edges : e.from \in Nodes(roads) /\ e.to \in Nodes(roads)
    /\ arcs \subseteq edges
    /\ cur # Idle => /\ cur.expansions \in 1..MaxExpansions
                     /\ cur.overflow \in BOOLEAN
                     /\ \A f \in cur.found : f.node \in Goals(cur.kind)
    /\ \A t \in traces : t.src # t.dst
    /\ \A r \in anchors : r.status \in {"accepted", "multi_src", "multi_chain", "no_owner"}

(* The ways of the roads: sequences of ids, no node twice.                 *)
Ways ==
    LET step(w) == {Append(w, r) : r \in
                       {q \in roads : /\ q.from = Last(w).to
                                      /\ q.to \notin {w[i].from : i \in DOMAIN w}}}
        grown[k \in 0..Cardinality(roads)] ==
            IF k = 0 THEN {<<r>> : r \in roads}
            ELSE grown[k - 1] \cup UNION {step(w) : w \in grown[k - 1]}
    IN  grown[Cardinality(roads)]

Inner(w) == {w[i].to : i \in 1..(Len(w) - 1)}
Ids(w) == [i \in DOMAIN w |-> w[i].id]

(* The direct arcs are exactly the ways between two cross sections that    *)
(* pass only nodes off any cross section with one neighbour behind and one *)
(* road ahead.                                                             *)
ArcsAreCorridors ==
    phase # "arcs" =>
        {e.path : e \in arcs} =
        {Ids(w) : w \in {v \in Ways :
            /\ v[1].from \in Cross /\ Last(v).to \in Cross
            /\ \A n \in Inner(v) : /\ n \notin Cross
                                   /\ Cardinality(Preds(roads, n)) = 1
                                   /\ Cardinality(Outs(roads, n)) = 1}}

(* A search that kept to its budget found every way that goes on from its  *)
(* first edge to the first goal it meets, and each once.                   *)
SearchIsExact ==
    (cur # Idle /\ cur.stack = <<>> /\ ~cur.overflow) =>
        LET g == Graph(cur.kind)
            grown[k \in 0..Cardinality(g)] ==
                IF k = 0 THEN {[node |-> cur.edge.to, nodes |-> cur.edge.nodes,
                                path |-> cur.edge.path]}
                ELSE grown[k - 1] \cup
                     UNION {{[node |-> e.to, nodes |-> Append(w.nodes, e.to),
                              path |-> w.path \o e.path] :
                                e \in {d \in g : /\ d.from = w.node
                                                 /\ d.to \notin Range(w.nodes)}} :
                            w \in {v \in grown[k - 1] :
                                     v.node = cur.edge.from \/ v.node \notin Goals(cur.kind)}}
        IN  cur.found = {w \in grown[Cardinality(g)] :
                            w.node # cur.edge.from /\ w.node \in Goals(cur.kind)}

(* Where the roads do not run in parallel and no search was cut short, the *)
(* gate gives trace_only_reachability as its reason exactly when the roads *)
(* do lead from a to b, over no other cross section or to a terminal.      *)
TraceReasonIsTrue ==
    LET leads(a, b, stops) ==
            \E w \in Ways : w[1].from = a /\ Last(w).to = b /\ Inner(w) \cap stops = {}
        parallel == \E r, q \in roads : r # q /\ r.from = q.from /\ r.to = q.to
    IN  (phase = "done" /\ ~cut /\ ~parallel /\ arcs # {}) =>
            \A a, b \in Cross : (a # b /\ <<a, b>> \notin ArcPairs(arcs)) =>
                (TopologyGate(a, b) = "trace_only_reachability"
                 <=> \/ leads(a, b, Cross)
                     \/ b \in Terminals(arcs) /\ leads(a, b, Terminals(arcs)))

(* What the searches of roads find, each and taken together: see above.    *)
TracesAreTrue == SearchIsExact /\ TraceReasonIsTrue

(* At most one cross section may send candidates into a terminal, even     *)
(* when a search ran out of its budget.                                    *)
OneOwnerPerTerminal ==
    phase = "done" =>
        \A n \in Terminals(arcs) : \A a, b \in Cross \ {n} :
            ProductionGate(a, n) = "" /\ ProductionGate(b, n) = "" => a = b

(* The owner the reverse search is sure of is the owner of the direct      *)
(* arcs, even when it ran out of its budget.                               *)
OwnersAgree ==
    phase = "done" =>
        \A n \in Terminals(arcs) :
            ReverseStatus(n) = "unique_owner" =>
                DirectStatus(n) = "unique_owner" /\ Accepted(n) = Sources(arcs, n)
=============================================================================
