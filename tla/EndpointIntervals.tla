--------------------------- MODULE EndpointIntervals ---------------------------
(***************************************************************************)
(* The interval of a cross section that each of its arcs may end in        *)
(* (xsec_endpoint_interval.py): first the raw interval that the crossings  *)
(* of trajectories, the line drawn so far or the drivable surface give,    *)
(* then the share of it that is left when the arcs of the section stand    *)
(* side by side.  Positions on a section are integers in units of 5 cm,    *)
(* rounded down; a surface is a sequence of intervals <<from, to>>, none   *)
(* shorter than Width and none overlapping.                                *)
(***************************************************************************)
EXTENDS Integers, FiniteSets, Sequences, FiniteSetsExt, SequencesExt

CONSTANTS
    SectionLength,  \* of each cross section
    Width,          \* XSEC_ENDPOINT_SINGLE_TRAJ_WIDTH_M
    Gap             \* XSEC_ENDPOINT_ALLOCATOR_GAP_M

Dist(x, y) == IF x < y THEN y - x ELSE x - y
Clamp(x, low, high) == IF x < low THEN low ELSE IF x > high THEN high ELSE x
Mid(i) == (i[1] + i[2]) \div 2
Length(i) == i[2] - i[1]
Around(x) == <<x - Width \div 2, x + Width \div 2>>

(* The first place where two keys of equal length differ decides.          *)
Precedes(k, l) ==
    \E i \in DOMAIN k : k[i] < l[i] /\ \A j \in 1..(i - 1) : k[j] = l[j]

(* The element with the least key, the earliest one of several.           *)
FirstBest(seq, key) ==
    seq[CHOOSE k \in DOMAIN seq : \A j \in DOMAIN seq \ {k} :
            Precedes(Append(key[k], k), Append(key[j], j))]

Overlap(i, j) == <<Max({i[1], j[1]}), Min({i[2], j[2]})>>

\* Wrong: the piece with the middle is taken, but not cut to.
ClipLoosely(i, center, surface) == <<Max({0, i[1]}), Max({0, i[1], i[2]})>>

(* _surface_clip_interval.                                                 *)
Clip(i, center, surface) ==
    LET from == Max({0, i[1]})
        want == <<from, Max({from, i[2]})>>
        Key(s) == <<IF s[1] <= center /\ center <= s[2] THEN 0 ELSE 1,
                    0 - Max({0, Length(Overlap(s, want))}), Dist(s[1] + s[2], 2 * center)>>
        best == FirstBest(surface, [k \in DOMAIN surface |-> Key(surface[k])])
    IN  IF surface = <<>> THEN want
        ELSE IF Length(Overlap(best, want)) > 0 THEN Overlap(best, want)
        ELSE best

Longest(surface) ==
    FirstBest(surface, [k \in DOMAIN surface |-> <<0 - Length(surface[k])>>])

(* _raw_interval_from_crossings, of crossings [trip, at, clean]; the clean *)
(* ones count, or all if none is.  projection holds a position or nothing, *)
(* and the arc is the rank-th of the section's count arcs.                 *)
Raw(crossings, projection, rank, count, surface) ==
    LET clean == {c \in crossings : c.clean}
        at == {c.at : c \in (IF clean = {} THEN crossings ELSE clean)}
        span == <<Min(at), Max(at)>>
        share == LET s == Longest(surface) IN s[1] + (rank * Length(s)) \div (count + 1)
    IN  IF at # {}
        THEN Clip(IF Length(span) = 0 THEN Around(span[1]) ELSE span, Mid(span), surface)
        ELSE IF projection # {} THEN Clip(Around(Min(projection)), Min(projection), surface)
        ELSE IF surface # <<>> /\ count > 1 THEN Clip(Around(share), share, surface)
        ELSE IF surface # <<>> THEN Longest(surface)
        ELSE <<0, Width>>
-----------------------------------------------------------------------------
(* _allocate_group_intervals: raw is a sequence of intervals in the order  *)
(* of their centers.                                                       *)

Pushed(raw) ==
    LET c[k \in 1..Len(raw)] ==
            IF k = 1 THEN Mid(raw[1])
            ELSE IF Mid(raw[k]) < c[k - 1] + Gap THEN c[k - 1] + Gap
            ELSE Mid(raw[k])
    IN  c

(* The centers, Gap apart, moved back as a whole if the last one falls off *)
(* the section.                                                            *)
Centers(raw) ==
    LET c == Pushed(raw)
        over == IF c[Len(raw)] > SectionLength THEN c[Len(raw)] - SectionLength ELSE 0
    IN  [k \in 1..Len(raw) |-> IF over = 0 THEN c[k] ELSE Max({0, c[k] - over})]

(* Half the width that an interval with no room left is given: 0.25 m.     *)
Sliver == 5

(* The share of the k-th interval, up to half the gap from the middle      *)
(* between its center and those of its neighbours.                         *)
Share(raw, k) ==
    LET c == Centers(raw)
        i == raw[k]
        mine == Clamp(c[k], i[1], i[2])
        left == IF k = 1 THEN i[1] ELSE Max({i[1], (c[k - 1] + mine + Gap) \div 2})
        right == IF k = Len(raw) THEN i[2] ELSE Min({i[2], (mine + c[k + 1] - Gap) \div 2})
    IN  IF left < right THEN <<left, right>>
        ELSE <<Max({i[1], mine - Sliver}), Min({i[2], mine + Sliver})>>

(* The intervals and, by rank, whether each begins after the one before it *)
(* ends: relative_order_satisfied.                                         *)
Allocation(raw) == [k \in 1..Len(raw) |-> Share(raw, k)]
\* Wrong: begins are compared with begins.
InOrderOfBegins(alloc, k) == k > 1 => alloc[k][1] >= alloc[k - 1][1]

InOrder(alloc, k) == k > 1 => alloc[k][1] >= alloc[k - 1][2]
=============================================================================
