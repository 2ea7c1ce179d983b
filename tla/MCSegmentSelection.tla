------------------------- MODULE MCSegmentSelection -------------------------
(* Every patch of up to four roads on three cross sections and two other   *)
(* nodes, every patch of up to three of which one has a parallel road, and *)
(* patches of up to seven roads built round two hubs: two cross sections   *)
(* into a terminal, and a terminal with a direct way and one through a     *)
(* node that more ways lead into.  The hubs have a fourth cross section.   *)
(* Some patches are driven on: a road in two parts whose first part is no  *)
(* pair, alone, twice, or beside others; three cross sections in a row;    *)
(* two arcs of a pair; two ways into a terminal; and no arc at all.        *)
EXTENDS SegmentSelection

Plain == {1, 2}
Road(p, k) == [id |-> 100 * p[1] + 10 * p[2] + k, from |-> p[1], to |-> p[2]]
Steps(nodes) == {p \in nodes \X nodes : p[1] # p[2]}

UpTo(n, nodes) == UNION {kSubset(k, Steps(nodes)) : k \in 0..n}
Few(nodes) == {{}} \cup {{p, q} : p, q \in Steps(nodes)}
Small == UpTo(4, Plain \cup {3, 4, 5})
Parallel == UpTo(3, Plain \cup {3, 4, 5})
Hubs == {{<<4, 3>>, <<5, 3>>}, {<<4, 1>>, <<2, 1>>, <<1, 3>>, <<4, 3>>, <<5, 2>>}}

Patches ==
    {{Road(p, 0) : p \in ps} : ps \in Small}
    \cup UNION {{{Road(p, 0) : p \in ps} \cup {Road(q, 1)} : q \in ps} : ps \in Parallel}
    \cup {{Road(p, 0) : p \in hub \cup ps} : hub \in Hubs, ps \in Few(Plain \cup Cross)}

Line(fault, others, offset, zone, length) ==
    [fault |-> fault, others |-> others, offset |-> offset, place |-> 0,
     zone |-> zone, length |-> length]

SomeLines ==
    {Line("", 0, 0, 90, 100), Line("", 1, 1, 100, 120), Line("", 1, 5, 100, 110),
     Line("", 0, 6, 100, 130), Line("segment_crosses_divstrip", 0, 0, 100, 100)}

Drive(ps, trajs) ==
    [roads |-> {Road(p, 0) : p \in ps}, trajs |-> trajs, reversed |-> {}, raw |-> <<>>,
     anchor |-> [i \in {Road(p, 0).id : p \in ps} |-> <<>>],
     strict |-> TRUE, one |-> FALSE, scoped |-> FALSE, allow |-> {}, bridge |-> {}]

Split == {<<3, 1>>, <<1, 4>>}
Row == {<<3, 4>>, <<4, 5>>}
SomeDrives ==
    {Drive(Split, <<<<3, 4>>>>),
     Drive(Split, <<<<3, 4>>, <<3, 4>>>>),
     [Drive(Split, <<<<3, 4>>>>) EXCEPT !.anchor[140] = <<3, 4>>],
     [Drive(Split, <<<<3, 4>>, <<3, 4>>>>) EXCEPT
        !.strict = FALSE, !.one = TRUE, !.anchor[140] = <<3, 4>>],
     [Drive(Split, <<<<3, 4>>>>) EXCEPT !.raw = [i \in {310} |-> 9]],
     Drive(Split \cup {<<3, 2>>}, <<<<3, 4>>>>),
     Drive(Row, <<<<3, 4, 5>>>>),
     [Drive(Row, <<<<3, 4, 5>>>>) EXCEPT !.strict = FALSE],
     [Drive(Row, <<<<3, 4, 5>>>>) EXCEPT !.bridge = {<<3, 5>>}, !.reversed = {340}],
     [Drive(Row, <<<<3, 4>>>>) EXCEPT !.scoped = TRUE, !.allow = {<<3, 4>>}],
     Drive(Split \cup {<<3, 4>>}, <<<<3, 4>>, <<3, 4>>>>),
     Drive({<<3, 5>>, <<4, 5>>}, <<<<3, 4, 5>>>>),
     Drive({<<3, 4>>, <<4, 3>>}, <<<<4, 3>>>>),
     Drive({}, <<<<3, 4, 5>>>>)}
=============================================================================
