---------------------------- MODULE AnchorChains ----------------------------
(***************************************************************************)
(* The chains of close crossings of t04_rc_sw_anchor                       *)
(* (continuous_chain.py, and the choice of the seed nodes in runner.py).   *)
(*                                                                         *)
(* A road is a record [id, s, e, dir, len]: dir 2 runs from s to e, dir 3  *)
(* from e to s, and any other value takes the road out of the chains.  A   *)
(* kind is the set of the bits of a node the module reads.  Lengths are    *)
(* in units that keep their order with the two limits.                     *)
(***************************************************************************)
EXTENDS Integers, FiniteSets, Sequences, SequencesExt, FiniteSetsExt

CONSTANTS
    Near,   \* continuous_dist_max_m
    Far,    \* continuous_diverge_then_merge_dist_max_m
    Hops    \* the hops a corridor is followed, 256 in the code

ASSUME ChainsAssumption == Near \in Nat /\ Far \in Nat /\ Hops \in Nat \ {0}

-----------------------------------------------------------------------------
(* Which nodes are evaluated.  A row is a node of the file: its id fields  *)
(* in the order of the code (mainid, mainnodeid, id, nodeid), as ids.      *)

Endpoints(roads) == {r.s : r \in roads} \cup {r.e : r \in roads}

Canonical(row, roads) ==
    LET onRoad == SelectSeq(row, LAMBDA id : id \in Endpoints(roads))
    IN  IF onRoad # <<>> THEN onRoad[1] ELSE row[1]

(* A row whose canonical id was taken by a row before it is dropped, and   *)
(* its other ids with it.                                                  *)
KeptRows(rows, roads) ==
    {i \in DOMAIN rows :
        \A j \in 1..(i - 1) : Canonical(rows[j], roads) # Canonical(rows[i], roads)}

(* The canonical id a number stands for: the first kept row that has it.   *)
Resolved(id, rows, roads) ==
    LET has == {i \in KeptRows(rows, roads) : id \in ToSet(rows[i])}
    IN  IF has = {} THEN {} ELSE {Canonical(rows[Min(has)], roads)}

CanonicalIds(rows, roads) == {Canonical(rows[i], roads) : i \in KeptRows(rows, roads)}

(* The nodes of the focus ids, repeats counted once; without focus ids     *)
(* every node.                                                             *)
SeedsOf(focus, rows, roads) ==
    IF focus = {} THEN CanonicalIds(rows, roads)
    ELSE UNION {Resolved(id, rows, roads) : id \in focus}

-----------------------------------------------------------------------------
(* The directed roads, and the corridor that begins with one of them.      *)

Directed(roads) ==
    {[id |-> r.id, from |-> IF r.dir = 2 THEN r.s ELSE r.e,
      to |-> IF r.dir = 2 THEN r.e ELSE r.s, len |-> r.len] :
        r \in {q \in roads : q.dir \in {2, 3}}}

Degree(roads, n) ==
    Cardinality({r.id : r \in {q \in Directed(roads) : n \in {q.from, q.to}}})

SearchLimit == Max({Near, Far})

Going(at, prev, dist) == [fate |-> "going", at |-> at, prev |-> prev, dist |-> dist]
Hit(at, dist) == [fate |-> "hit", at |-> at, prev |-> at, dist |-> dist]
Lost(at) == [fate |-> "lost", at |-> at, prev |-> at, dist |-> 0]

(* One hop: stop at a node of degree three, go on through a node of degree *)
(* two that has one way on besides the way back.                           *)
Hop(roads, w) ==
    LET deg == Degree(roads, w.at)
        on == {d \in Directed(roads) : d.from = w.at /\ d.to # w.prev}
        next == CHOOSE d \in on : TRUE
    IN  IF w.fate # "going" THEN w
        ELSE IF deg >= 3 THEN Hit(w.at, w.dist)
        ELSE IF \/ deg # 2
                \/ Cardinality(on) # 1
                \/ w.dist + next.len > SearchLimit
        THEN Lost(w.at)
        ELSE Going(next.to, w.at, w.dist + next.len)

Corridor(roads, d) ==
    LET walk[k \in 0..Hops] ==
            IF k = 0
            THEN IF d.len > SearchLimit THEN Lost(d.to) ELSE Going(d.to, d.from, d.len)
            ELSE Hop(roads, walk[k - 1])
    IN  walk[Hops]

IsMerge(kind) == "merge" \in kind
IsDiverge(kind) == "diverge" \in kind

\* mutant: the longer limit whatever the kinds
EdgeLimitFar(src, dst) == Far

EdgeLimit(src, dst) == IF IsDiverge(src) /\ IsMerge(dst) THEN Far ELSE Near

(* The chain edges: from each seed the corridors that end at a seed that   *)
(* merges or diverges, strictly below the limit of the two kinds; of       *)
(* several to one node the shortest.                                       *)
ChainEdges(roads, seeds, kind) ==
    LET found == {[src |-> d.from, hit |-> Corridor(roads, d)] :
                    d \in {q \in Directed(roads) : q.from \in seeds}}
        legal == {[src |-> f.src, dst |-> f.hit.at, dist |-> f.hit.dist] :
                    f \in {g \in found :
                        /\ g.hit.fate = "hit"
                        /\ g.hit.at \in seeds
                        /\ IsMerge(kind[g.hit.at]) \/ IsDiverge(kind[g.hit.at])
                        /\ g.hit.dist < EdgeLimit(kind[g.src], kind[g.hit.at])}}
    IN  {e \in legal : \A f \in legal :
            f.src = e.src /\ f.dst = e.dst => e.dist <= f.dist}

-----------------------------------------------------------------------------
(* Components, and the offset of a node along its component.               *)

ChainNodes(edges) == {e.src : e \in edges} \cup {e.dst : e \in edges}

(* The nodes that no set which every edge stays in or out of keeps apart   *)
(* from n.                                                                 *)
Joined(edges, n) ==
    {m \in ChainNodes(edges) :
        \A apart \in SUBSET ChainNodes(edges) :
            (n \in apart /\ \A e \in edges : e.src \in apart <=> e.dst \in apart) => m \in apart}

Into(edges, n) == {e \in edges : e.dst = n}

(* The nodes all of whose predecessors can be settled before them.         *)
Settled(edges) ==
    LET nodes == ChainNodes(edges)
        layer[k \in 0..Cardinality(nodes)] ==
            IF k = 0 THEN {}
            ELSE {n \in nodes : \A e \in Into(edges, n) : e.src \in layer[k - 1]}
    IN  layer[Cardinality(nodes)]

(* A settled node is at the least of its predecessors' offset plus the     *)
(* distance; the nodes of a cycle begin at zero, or where a settled node   *)
(* put them, and are relaxed until nothing changes.                        *)
Offsets(edges) ==
    LET nodes == ChainNodes(edges)
        settled == Settled(edges)
        n0 == Cardinality(nodes)
        via(off, n) == {off[e.src] + e.dist :
                          e \in {f \in Into(edges, n) : f.src \in settled}}
        first[k \in 0..n0] ==
            [n \in nodes |-> IF k = 0 \/ via(first[k - 1], n) = {} THEN 0
                             ELSE Min(via(first[k - 1], n))]
        relaxed[k \in 0..n0] ==
            IF k = 0 THEN first[n0]
            ELSE [n \in nodes |->
                    Min({relaxed[k - 1][n]}
                        \cup {relaxed[k - 1][e.src] + e.dist : e \in Into(edges, n)})]
    IN  IF settled = nodes THEN first[n0] ELSE relaxed[n0]

Number(edges, n) == Min(Joined(edges, n))

(* The order in which the nodes are evaluated: component after component,  *)
(* and in each by the offset.                                              *)
NodeBefore(edges, m, n) ==
    LET off == Offsets(edges)
    IN  \/ Number(edges, m) < Number(edges, n)
        \/ /\ Number(edges, m) = Number(edges, n)
           /\ off[m] < off[n] \/ (off[m] = off[n] /\ m < n)

(* The order in which the edges are looked at afterwards.                  *)
EdgeBefore(edges, d, e) ==
    \/ Number(edges, d.src) < Number(edges, e.src)
    \/ /\ Number(edges, d.src) = Number(edges, e.src)
       /\ \/ d.dist < e.dist
          \/ d.dist = e.dist /\ d.src < e.src
          \/ d.dist = e.dist /\ d.src = e.src /\ d.dst < e.dst
=============================================================================
