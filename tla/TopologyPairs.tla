----------------------------- MODULE TopologyPairs -----------------------------
(***************************************************************************)
(* Steps 0 and 1 of the legacy t05 (_run_patch_core): the cross sections   *)
(* that pass the gate, the graph of the prior roads with these as its      *)
(* nodes, and the pairs that topology accepts.  Along every first edge out *)
(* of a cross section ("anchor") a depth-first search collects the cross   *)
(* sections met next.  A world w is a record                               *)
(*   features   the prior roads [id, a, b, dir]                            *)
(*   directed   whether their direction is respected                       *)
(*   lines      the intersection lines [node, members, group, section]:    *)
(*              the nodes that share a line have its group                 *)
(*   mode, goreNeeded       how sections are gated                         *)
(*   unique     whether a second chain to a destination is one too many    *)
(*   pairs, sources         what the run is limited to; none: all          *)
(* Lines drawn for debugging, votes and soft breakpoints are left out.     *)
(***************************************************************************)
EXTENDS SectionGate, TLC

CONSTANTS
    Maps,
    Sections,   \* all nodes that may have a cross section
    Budget      \* STEP1_TOPO_MAX_EXPANSIONS, at least 100 in the code

VARIABLES
    map, step,
    answers,    \* of the gate, for each intersection line
    crossed,    \* the nodes with a cross section
    edges,      \* the compressed graph
    anchors,    \* still to search from
    anchor, stack, spent, cut, met,    \* the search at hand
    rows,       \* what came of the anchors
    accepted, chained

search == <<anchor, stack, spent, cut, met>>
vars == <<map, step, answers, crossed, edges, anchors, search, rows, accepted, chained>>

NoAnchor == [src |-> 0]

G(cross) == INSTANCE RoadGraph WITH Cross <- cross

Idle ==
    /\ step = "gate" /\ answers = <<>> /\ crossed = {} /\ edges = {}
    /\ anchors = {} /\ anchor = NoAnchor /\ stack = <<>> /\ spent = 0 /\ cut = FALSE
    /\ met = <<>> /\ rows = {} /\ accepted = {} /\ chained = {}

Init == map \in Maps /\ Idle
-----------------------------------------------------------------------------
(* A node gets the section of the line it shares.                          *)
GateSections ==
    /\ step = "gate" /\ step' = "graph"
    /\ answers' = [l \in map.lines |-> Answer(l.section, map.mode, map.goreNeeded)]
    /\ crossed' = UNION {l.members : l \in {k \in map.lines : answers'[k].went}}
    /\ UNCHANGED <<map, edges, anchors, search, rows, accepted, chained>>

(* With 2 a road runs from a to b, with 3 from b to a; where direction     *)
(* counts, a road that has none is dropped.                                *)
PriorRoads ==
    LET real == {f \in map.features : f.a # f.b}
    IN {[id |-> 2 * f.id, from |-> f.a, to |-> f.b] :
            f \in {g \in real : ~map.directed \/ g.dir = 2}} \cup
       {[id |-> 2 * f.id + 1, from |-> f.b, to |-> f.a] :
            f \in {g \in real : ~map.directed \/ g.dir = 3}}

(* A node that shares its line counts the others of the group as kin, and  *)
(* the node the line is named for.                                         *)
Kin(n) ==
    LET own == {l \in map.lines : n \in l.members}
    IN IF \A l \in own : Cardinality(l.members) = 1 THEN {n}
       ELSE UNION {l.members \cup {l.node} :
                       l \in {k \in map.lines : /\ Cardinality(k.members) > 1
                                                /\ \E l \in own : k.group = l.group}}

OutOf(graph, n) == {e \in graph : e.from = n}

(* A cross section nothing leaves takes the edges of its first kin that    *)
(* has any.                                                                *)
EdgesFrom(graph, n) ==
    LET lenders == {k \in Kin(n) \ {n} : OutOf(graph, k) # {}}
    IN IF OutOf(graph, n) # {} \/ lenders = {} THEN OutOf(graph, n)
       ELSE OutOf(graph, Min(lenders))

Seeds(graph, nodes, role) ==
    UNION {IF EdgesFrom(graph, n) = {} THEN {[src |-> n, role |-> role, first |-> {}]}
           ELSE {[src |-> n, role |-> role, first |-> {e}] : e \in EdgesFrom(graph, n)} :
               n \in nodes}

Backwards == G({})!Reversed(edges)
Graph == IF anchor.role = "out" THEN edges ELSE Backwards

(* Nodes that only arcs reach are also searched from backwards.            *)
BuildGraph ==
    /\ step = "graph" /\ step' = "anchors"
    /\ \E c \in SUBSET Sections :
        /\ c = crossed
        /\ edges' = G(c)!Compressed(PriorRoads)
        /\ LET back == G({})!Reversed(edges')
               ends == {n \in c : OutOf(edges', n) = {} /\ OutOf(back, n) # {}}
           IN anchors' = IF edges' = {} THEN {}
                         ELSE Seeds(edges', c, "out") \cup Seeds(back, ends, "in")
    /\ UNCHANGED <<map, answers, crossed, search, rows, accepted, chained>>
-----------------------------------------------------------------------------
At(e) == [at |-> e.to, nodes |-> Range(e.nodes), ids |-> e.path]

(* The search begins behind the first edge, on which the source stands for *)
(* the kin that lent it.                                                   *)
TakeAnchor ==
    /\ step = "anchors" /\ anchors # {} /\ step' = "search"
    /\ LET a == CHOOSE b \in anchors : TRUE
       IN /\ anchor' = a /\ anchors' = anchors \ {a}
          /\ stack' = IF a.first = {} THEN <<>>
                      ELSE LET e == CHOOSE e \in a.first : TRUE
                           IN <<[At(e) EXCEPT !.nodes = {a.src} \cup Range(Tail(e.nodes))]>>
    /\ spent' = 1 /\ cut' = FALSE /\ met' = <<>>
    /\ UNCHANGED <<map, answers, crossed, edges, rows, accepted, chained>>

Earlier(d, e) ==
    \/ d.to < e.to
    \/ d.to = e.to /\ Len(d.path) < Len(e.path)
    \/ d.to = e.to /\ Len(d.path) = Len(e.path) /\ d # e /\ Above(e.path, d.path)
InOrder(S) == SetToSortSeq(S, Earlier)

(* Going on from a node: the budget is looked at first, so that even an    *)
(* edge back into the path may end the search, with all that was stacked.  *)
GoOn(top) ==
    FoldLeft(LAMBDA s, e :
                 IF s.cut THEN s
                 ELSE IF s.spent >= Budget THEN [s EXCEPT !.cut = TRUE, !.stack = <<>>]
                 ELSE IF e.to \in top.nodes THEN s
                 ELSE [s EXCEPT !.spent = @ + 1,
                                !.stack = Append(@, [at |-> e.to, nodes |-> top.nodes \cup {e.to},
                                                     ids |-> top.ids \o e.path])],
             [stack |-> Front(stack), spent |-> spent, cut |-> FALSE],
             InOrder(OutOf(Graph, top.at)))

Meets(n) == n # anchor.src /\ n \in crossed

Meet ==
    /\ step = "search" /\ stack # <<>> /\ Meets(Last(stack).at)
    /\ stack' = Front(stack)
    /\ met' = IF \E i \in DOMAIN met : met[i].ids = Last(stack).ids THEN met
              ELSE Append(met, [dst |-> Last(stack).at, ids |-> Last(stack).ids])
    /\ UNCHANGED <<map, step, answers, crossed, edges, anchors, anchor, spent, cut, rows, accepted, chained>>

Expand ==
    /\ step = "search" /\ stack # <<>> /\ ~Meets(Last(stack).at)
    /\ LET s == GoOn(Last(stack))
       IN stack' = s.stack /\ spent' = s.spent /\ cut' = s.cut
    /\ UNCHANGED <<map, step, answers, crossed, edges, anchors, anchor, met, rows, accepted, chained>>
-----------------------------------------------------------------------------
Dsts == {met[i].dst : i \in DOMAIN met}

PairForwardOnly(src, dst) == <<src, dst>> \* mutant: found backwards, told forwards

PairOf(src, dst) == IF anchor.role = "in" THEN <<dst, src>> ELSE <<src, dst>>

(* A destination is the one next if it is the only one found; a search cut *)
(* short may not have found the others.                                    *)
Status ==
    IF Dsts = {} THEN "unresolved"
    ELSE IF Cardinality(Dsts) > 1 THEN "multi_dst"
    ELSE IF map.unique /\ Len(met) > 1 THEN "multi_chain"
    ELSE IF \E d \in Dsts : d # anchor.src /\ Kin(d) \cap Kin(anchor.src) # {}
    THEN "filtered_shared_group_sibling"
    ELSE "accepted"

Decide ==
    /\ step = "search" /\ stack = <<>> /\ step' = "anchors"
    /\ rows' = rows \cup
            {[anchor |-> anchor, status |-> Status, cut |-> cut, dsts |-> Dsts,
              pair |-> {PairOf(anchor.src, d) : d \in IF Status = "accepted" THEN Dsts ELSE {}},
              chain |-> IF met = <<>> THEN <<>> ELSE met[1].ids]}
    /\ anchor' = NoAnchor /\ met' = <<>> /\ spent' = 0 /\ cut' = FALSE
    /\ UNCHANGED <<map, answers, crossed, edges, anchors, stack, accepted, chained>>

Wanted(p) ==
    /\ map.pairs = {} \/ p \in map.pairs
    /\ map.sources = {} \/ p[1] \in map.sources

(* Pairs with several chains between them, one to an anchor, are told from *)
(* what was found going forwards.  A source that is not asked for loses    *)
(* its anchors.                                                            *)
Conclude ==
    /\ step = "anchors" /\ anchors = {} /\ step' = "done"
    /\ accepted' = {p \in UNION {r.pair : r \in rows} : Wanted(p)}
    /\ chained' =
        LET told(p) == {r.chain : r \in {q \in rows : q.pair = {p} /\ q.anchor.role = "out"
                                         /\ (map.sources = {} \/ q.anchor.src \in map.sources)}}
        IN {p \in accepted' : Cardinality(told(p)) > 1}
    /\ UNCHANGED <<map, answers, crossed, edges, anchors, search, rows>>

Next == GateSections \/ BuildGraph \/ TakeAnchor \/ Meet \/ Expand \/ Decide \/ Conclude
Spec == Init /\ [][Next]_vars
-----------------------------------------------------------------------------
(* The nodes roads lead to from n, not through a cross section or avoid.   *)
RECURSIVE Spread(_, _, _)
Spread(pairs, avoid, S) ==
    LET more == S \cup {p[2] : p \in {q \in pairs : q[1] \in S \ avoid}}
    IN IF more = S THEN S ELSE Spread(pairs, avoid, more)

RoadPairs == {<<r.from, r.to>> : r \in PriorRoads}

Leads(m, n) == \E r \in PriorRoads : r.from = m /\ n \in Spread(RoadPairs, crossed, {r.to})

(***************************************************************************)
(* Every accepted pair follows the prior roads, in their direction and     *)
(* past no cross section that passed the gate, from its source or a kin of *)
(* it to its destination or a kin of it; and a search that was not cut     *)
(* short has found exactly the cross sections the compressed graph leads   *)
(* to behind its first edge, from the source on if that edge leads back to *)
(* it (_build_topology_unique_anchor_decisions and all it calls).          *)
(***************************************************************************)
PairsFollowRoads ==
    /\ step = "done" => \A p \in accepted :
        /\ p[1] # p[2]
        /\ \E m \in Kin(p[1]), n \in Kin(p[2]) : Leads(m, n)
    /\ step \in {"anchors", "done"} => \A r \in rows :
        LET hops == {<<e.from, e.to>> : e \in IF r.anchor.role = "out" THEN edges ELSE Backwards}
            firsts == {e.to : e \in r.anchor.first}
            avoid == (crossed \ {r.anchor.src}) \cup ({r.anchor.src} \ firsts)
        IN ~r.cut => r.dsts = (Spread(hops, avoid, firsts) \cap crossed) \ {r.anchor.src}

(***************************************************************************)
(* What goes on of a cross section is a part of it that may be driven on   *)
(* (Honest), and a node has a section only if its line went on.            *)
(***************************************************************************)
SectionsAreHonest ==
    step = "graph" =>
        /\ \A l \in map.lines : Honest(l.section, answers[l])
        /\ \A n \in crossed : \E l \in map.lines : n \in l.members /\ answers[l].went
=============================================================================
