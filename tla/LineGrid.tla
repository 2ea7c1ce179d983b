-------------------------------- MODULE LineGrid --------------------------------
(***************************************************************************)
(* The lines step 5 works with, on a grid.  A segment runs along the       *)
(* stations 0..Finish, its cross-sections lie at the first and the last.   *)
(* A line gives each station it covers its lateral offset in eighths of a  *)
(* metre; a line covers a range of stations, NoLine none.  The ground says *)
(* which metre-wide lanes are drivable at each station and which lie under *)
(* the buffered dividing strip.  An interval is a range of offsets.        *)
(***************************************************************************)
EXTENDS Integers, SequencesExt

CONSTANTS
    Finish,     \* the station of the second cross-section
    MinLength   \* INTERVAL_MIN_LEN_M, in eighths

Stations == 0..Finish
NoLine == <<>>
First(b) == Min(DOMAIN b)
Final(b) == Max(DOMAIN b)
Lane(o) == o \div 8
Size(n) == IF n < 0 THEN -n ELSE n

\* The lanes of the drivable surface at each station: the zone without the
\* strip, the whole zone when nothing would be left.
Surface(g) ==
    LET rest == [s \in Stations |-> g.zone[s] \ g.strip[s]]
    IN IF \A s \in Stations : rest[s] = {} THEN g.zone ELSE rest

RunsOf(lanes) ==
    {r \in lanes \X lanes : /\ r[1] - 1 \notin lanes /\ r[2] + 1 \notin lanes
                            /\ r[1] <= r[2] /\ r[1]..r[2] \subseteq lanes}

Length(i) == i.hi - i.lo
Centre(i) == (i.lo + i.hi) \div 2
Within(o, i) == i.lo <= o /\ o <= i.hi
Near(i, o) == IF o < i.lo THEN i.lo ELSE IF o > i.hi THEN i.hi ELSE o

\* The intervals of a cut through the surface, in the order of their centres.
Intervals(lanes) ==
    SetToSortSeq({[lo |-> 8 * r[1], hi |-> 8 * r[2] + 7] : r \in {r \in RunsOf(lanes) : 8 * (r[2] - r[1] + 1) >= MinLength}},
                 LAMBDA i, j : i.lo < j.lo)

\* A straight line between two points, at a station between them.
Chord(s1, o1, s2, o2, s) == IF s1 = s2 THEN o2 ELSE o1 + ((o2 - o1) * (s - s1)) \div (s2 - s1)

\* A line led from one anchor to the other: the base line where it lies
\* between them, straight to the anchors where it does not reach them.
AnchorAlong(b, a, z) ==
    [s \in Stations |->
        CASE s = 0 -> a
          [] s = Finish -> z
          [] s \in DOMAIN b /\ s \notin {0, Finish} -> b[s]
          [] s < First(b) -> Chord(0, a, First(b), b[First(b)], s)
          [] OTHER -> Chord(Final(b), b[Final(b)], Finish, z, s)]

\* The longest part of a line that lies on the surface.
CoreIn(b, safe) ==
    LET on == {s \in DOMAIN b : Lane(b[s]) \in safe[s]}
        parts == {r \in RunsOf(on) : r[1] < r[2]}
        best == {r \in parts : \A q \in parts : \/ q[2] - q[1] < r[2] - r[1]
                                                \/ q[2] - q[1] = r[2] - r[1] /\ r[1] <= q[1]}
    IN IF parts = {} THEN NoLine
       ELSE LET r == CHOOSE r \in best : TRUE IN [s \in r[1]..r[2] |-> b[s]]

\* Where the first (last) stretch of a line, prolonged, meets the section.
Prolonged(b, atStart) ==
    LET f == First(b)
        t == Final(b)
    IN IF atStart THEN b[f] - f * (b[f + 1] - b[f]) ELSE b[t] + (Finish - t) * (b[t] - b[t - 1])

\* How far a line must be moved sideways for its ends to come to the anchors,
\* twice over; 0 when a quarter of a metre or less.
SideShift(b, a, z) ==
    LET outer == (a - b[First(b)]) + (z - b[Final(b)])
        inner == (a - b[First(b) + 1]) + (z - b[Final(b) - 1])
    IN IF Size(outer) > 4 THEN outer
       ELSE IF Cardinality(DOMAIN b) >= 3 /\ Size(inner) > 4 THEN inner ELSE 0

\* The line moved sideways by that much times quarter / 4.
Moved(b, a, z, quarter) ==
    IF Size(SideShift(b, a, z) * quarter) <= 16 \/ SideShift(b, a, z) = 0 THEN NoLine
    ELSE AnchorAlong([s \in DOMAIN b |-> b[s] + (SideShift(b, a, z) * quarter) \div 8], a, z)

\* A line without the outer 15 hundredths of its length at either end; led to
\* the anchors again, its ends are straight connectors.
Trimmed(b) ==
    LET cut == (15 * (Final(b) - First(b)) + 99) \div 100
    IN IF First(b) + cut >= Final(b) - cut THEN b ELSE [s \in (First(b) + cut)..(Final(b) - cut) |-> b[s]]

Smooth(b) == [s \in Stations |-> IF s \in {0, Finish} THEN b[s] ELSE (b[s - 1] + 2 * b[s] + b[s + 1]) \div 4]

\* The share of a line that lies in lanes, in hundredths.
Share(b, lanes) == (100 * Cardinality({s \in DOMAIN b : Lane(b[s]) \in lanes[s]})) \div Cardinality(DOMAIN b)

\* A line meets the strip at a station or on its way to the next one.
Crosses(b, strip) ==
    \E s \in DOMAIN b :
        \/ Lane(b[s]) \in strip[s]
        \/ /\ s + 1 \in DOMAIN b
           /\ \E k \in strip[s] \cap strip[s + 1] :
                 \/ Lane(b[s]) < k /\ k < Lane(b[s + 1])
                 \/ Lane(b[s + 1]) < k /\ k < Lane(b[s])

Mean(f) == FoldFunction(+, 0, f) \div Cardinality(DOMAIN f)

\* The mean distance of a line from another.
Offset(b, c) == Mean([s \in Stations |-> Size(b[s] - c[s])])

\* The mean turn of a line at its inner stations.
Turn(b) == Mean([s \in 1..(Finish - 1) |-> Size(b[s - 1] - 2 * b[s] + b[s + 1])])
=============================================================================
