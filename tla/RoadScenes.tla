------------------------------- MODULE RoadScenes -------------------------------
(***************************************************************************)
(* The arcs RoadGeometry is checked on: eight grounds, ten metres wide and  *)
(* nine stations long, and the lines that lie about them.  Each family     *)
(* varies a part of what the steps before found out; the rest is plain.    *)
(***************************************************************************)
EXTENDS LineGrid

Ground(zone(_), strip(_)) == [zone |-> [s \in Stations |-> zone(s)], strip |-> [s \in Stations |-> strip(s)]]
Wide(s) == 1..10
Bare(s) == {}

Open == Ground(Wide, Bare)
Island == Ground(Wide, LAMBDA s : IF s \in 3..6 THEN {5, 6} ELSE {})
Divided == Ground(Wide, LAMBDA s : {5, 6})
Fork == Ground(Wide, LAMBDA s : IF s >= 6 THEN {5, 6} ELSE {})
Narrow == Ground(LAMBDA s : IF s \in {4, 5} THEN 1..4 ELSE 1..10, Bare)
Torn == Ground(LAMBDA s : IF s \in {4, 5, 6} THEN {} ELSE 1..10, Bare)
Short == Ground(LAMBDA s : IF s = Finish THEN {} ELSE 1..10, Bare)
Patchy == Ground(Wide, LAMBDA s : CASE s = 5 -> {5, 6} [] s = 6 -> {2, 4} [] OTHER -> {})
Grounds == {Open, Island, Divided, Fork, Narrow, Torn, Short, Patchy}

Straight(o) == [s \in Stations |-> o]
Left == Straight(28)
Middle == Straight(45)
Right == Straight(68)
Across == [s \in Stations |-> Chord(0, 28, Finish, 68, s)]
Part == [s \in 2..6 |-> 28]

NoSlot == [lo |-> 1, hi |-> 0]
Ends == {"src", "dst"}
NoAnchor == -999
Free(o) == [e \in Ends |-> o]
Source(b, a, z, sure) == [line |-> b, src |-> a, dst |-> z, trusted |-> sure]
NoSource == Source(NoLine, NoAnchor, NoAnchor, FALSE)

Row(s, t, whose) ==
    [selected |-> s, stitched |-> t, preferred |-> whose, available |-> t # NoSource,
     full |-> s.line # NoLine /\ s.line # Part, dominant |-> s.trusted, partial |-> s.line = Part]
NoSupport == Row(NoSource, NoSource, "")

Plain ==
    [ground |-> Open, segment |-> Left, production |-> FALSE, fellBack |-> FALSE, supported |-> FALSE,
     prior |-> NoLine, arc |-> NoLine, fit |-> NoLine, support |-> NoSupport,
     assigned |-> Free(NoSlot), anchors |-> Free(NoAnchor), enters |-> FALSE, smallGap |-> FALSE, lanes |-> {}]

\* What the ground and the known lines make of an arc.
ByGround ==
    {[Plain EXCEPT !.ground = g, !.segment = b, !.production = p, !.supported = u, !.prior = q, !.arc = r,
                   !.enters = gap >= 1, !.smallGap = gap = 2] :
        g \in Grounds, b \in {Left, Middle, Across}, p \in BOOLEAN, u \in BOOLEAN,
        q \in {NoLine, Right, Across}, r \in {NoLine, Left}, gap \in 0..2}

\* What its supports make of it.
BySupport ==
    {[Plain EXCEPT !.ground = g, !.segment = b, !.production = p >= 1, !.fellBack = p = 2, !.arc = Middle,
                   !.support = r, !.supported = TRUE, !.anchors = k, !.enters = gap >= 1, !.smallGap = gap = 2] :
        g \in Grounds, b \in {Left, Across}, p \in 0..2, gap \in 0..2,
        r \in {Row(Source(Right, 68, 68, TRUE), NoSource, "selected"),
               Row(Source(Right, 68, 68, FALSE), NoSource, ""),
               Row(Source(Part, 28, NoAnchor, FALSE), Source(Right, 60, 68, TRUE), "stitched"),
               Row(Source(Part, 28, NoAnchor, FALSE), NoSource, "")},
        k \in {Free(NoAnchor), Free(30), [src |-> 30, dst |-> NoAnchor], [src |-> 120, dst |-> 30]}}

\* What a fit, lanes, anchors and assigned slots make of it.
ByFit ==
    {[Plain EXCEPT !.ground = g, !.segment = b, !.production = p, !.supported = TRUE, !.fit = f, !.lanes = l,
                   !.anchors = k, !.assigned = o, !.support = r] :
        g \in Grounds, b \in {Left, Across}, p \in BOOLEAN, f \in {NoLine, Middle, Right},
        l \in {{}, {Straight(16), Straight(64)}, {Straight(10), Across, Straight(90)}},
        k \in {Free(NoAnchor), [src |-> 34, dst |-> 70], [src |-> 28, dst |-> NoAnchor]},
        o \in {Free(NoSlot), Free([lo |-> 8, hi |-> 39])},
        r \in {NoSupport, Row(Source(Middle, 45, 45, FALSE), NoSource, "")}}

RoadsOnGrounds == ByGround \cup BySupport \cup ByFit
=============================================================================
