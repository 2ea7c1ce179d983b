----------------------------- MODULE RoadGraph -----------------------------
(***************************************************************************)
(* The directed graph of the prior roads in step 2 of                      *)
(* t05_topology_between_rc_v2 (pipeline.py): compression of the nodes that *)
(* only pass traffic on, direct topology arcs between cross sections, and  *)
(* the owner of a cross section no arc leaves.                             *)
(*                                                                         *)
(* A road is a record [id, from, to] after xsec aliases and the direction  *)
(* field were applied (a road from a node to itself is dropped there), an  *)
(* edge of the compressed graph keeps the ids of its roads as path and the *)
(* nodes it goes through.  Line geometry is left out.                      *)
(***************************************************************************)
EXTENDS Integers, FiniteSets, Sequences, SequencesExt

CONSTANT Cross  \* the nodes that are cross sections

ASSUME CrossAssumption == IsFiniteSet(Cross) /\ Cross \subseteq Nat

Nodes(roads) == Cross \cup {r.from : r \in roads} \cup {r.to : r \in roads}
Outs(roads, n) == {r \in roads : r.from = n}
Preds(roads, n) == {r.from : r \in {q \in roads : q.to = n}}
Succs(roads, n) == {r.to : r \in Outs(roads, n)}

RemovableCountingOuts(roads) == \* mutant: the nodes that come in are not counted
    {n \in Nodes(roads) \ Cross : Cardinality(Succs(roads, n)) = 1}

(* Neighbours are counted, not roads: a node with two roads to one         *)
(* neighbour counts as passing on.                                         *)
Removable(roads) ==
    {n \in Nodes(roads) \ Cross :
        Cardinality(Preds(roads, n)) = 1 /\ Cardinality(Succs(roads, n)) = 1}

(* The members of a finite set in the order that Before says they have.    *)
Sorted(S, Before(_, _)) ==
    [k \in 1..Cardinality(S) |->
        CHOOSE x \in S : Cardinality({y \in S : Before(y, x)}) = k - 1]

-----------------------------------------------------------------------------
(* A chain is a sequence of roads, each beginning where the last ended.    *)

ChainEnds(roads, chain) ==
    LET n == Last(chain).to
    IN  \/ n \notin Removable(roads)
        \/ \E i \in 1..(Len(chain) - 1) : chain[i].to = n
        \/ Cardinality(Outs(roads, n)) # 1

(* The chain from a road on.  It goes on while it meets new nodes, so as   *)
(* many times as there are roads are enough.                               *)
Chain(roads, first) ==
    LET GoOn(c) ==
            IF ChainEnds(roads, c) THEN c
            ELSE Append(c, CHOOSE r \in Outs(roads, Last(c).to) : TRUE)
        chain[k \in 0..Cardinality(roads)] ==
            IF k = 0 THEN <<first>> ELSE GoOn(chain[k - 1])
    IN  chain[Cardinality(roads)]

Edge(chain) ==
    [from |-> chain[1].from, to |-> Last(chain).to,
     path |-> [i \in 1..Len(chain) |-> chain[i].id],
     nodes |-> <<chain[1].from>> \o [i \in 1..Len(chain) |-> chain[i].to]]

Compressed(roads) ==
    {Edge(Chain(roads, r)) : r \in {q \in roads : q.from \notin Removable(roads)}}

Reversed(edges) ==
    {[from |-> e.to, to |-> e.from, path |-> Reverse(e.path),
      nodes |-> Reverse(e.nodes)] : e \in edges}

-----------------------------------------------------------------------------
(* Direct arcs are the compressed edges from cross section to cross        *)
(* section; a terminal is one that arcs reach and none leaves.             *)

Arcs(edges) ==
    {e \in edges : e.from \in Cross /\ e.to \in Cross /\ e.from # e.to}

ArcPairs(arcs) == {<<e.from, e.to>> : e \in arcs}
Terminals(arcs) == {e.to : e \in arcs} \ {e.from : e \in arcs}
Sources(arcs, n) == {e.from : e \in {d \in arcs : d.to = n}}

(* Can n be reached from m over the pairs of reach in at most k hops?      *)
WithinHops(pairs, m, n, k) ==
    LET reach[i \in 0..k] ==
            IF i = 0 THEN {m}
            ELSE reach[i - 1] \cup {p[2] : p \in {q \in pairs : q[1] \in reach[i - 1]}}
    IN  n \in reach[k]

BridgeHops == 4
=============================================================================
