------------------------------ MODULE MCArcFlow ------------------------------
(* ArcFlow with two or four arcs.  Supports are trajectories t1, t2, t3 in *)
(* the corridor clusters l1, l2; coverages lie on both sides of the        *)
(* thresholds of the code.                                                 *)
EXTENDS ArcAudit

\* A trajectory is anchored where it meets the cross sections of its arc,
\* which for the arcs here are in the same places.
Support(k, c, e, t, l) ==
    [kind |-> k, cov |-> c, ends |-> e, traj |-> t, lane |-> l, at |-> "p"]
Terminal(c, t, l) == Support("terminal_crossing_support", c, Ends, t, l)
Stitched(c, t, l) == Support("stitched_arc_support", c, Ends, t, l)
Partial(c, e, t, l) == Support("partial_arc_support", c, e, t, l)

Cand(m, f, c) == [mode |-> m, fit |-> f, cross |-> c]
\* One corridor for each of two arcs of a pair, a trajectory that follows
\* another in its corridor, and what gap-controlled arcs may find.
PairSupports == {Terminal(90, "t1", "l1"), Terminal(60, "t2", "l1"),
                 Stitched(80, "t3", "l2"), Partial(80, {"src"}, "t1", "l1")}
FanSupports == {Terminal(40, "t1", "l1"), Stitched(40, "t2", "l2"),
                Terminal(20, "t2", "l2"), Partial(80, {"dst"}, "t1", "l1"),
                Partial(45, Ends, "t1", "l1")}

\* A pair of arcs, and two single arcs that come together downstream; all
\* of them lead to one node and are gap-controlled, so that there are three
\* rivals.
MixFirst == CHOOSE b \in Arcs : TRUE
MixSecond == CHOOSE b \in Arcs \ {MixFirst} : TRUE
MixFan == {MixFirst, MixSecond}
MixControlled == Arcs
MixSrc == [a \in Arcs |-> IF a \in MixFan THEN a ELSE "n1"]
MixDst == [a \in Arcs |-> "n"]
MixPath == [a \in Arcs |-> a]
MixShares == {<<MixFirst, MixSecond>>, <<MixSecond, MixFirst>>}
MixSupports == PairSupports \cup FanSupports
MixOptions ==
    {<<>>, <<Stitched(40, "t2", "l2")>>,
     <<Terminal(90, "t1", "l1"), Stitched(80, "t3", "l2")>>,
     <<Partial(80, {"src"}, "t1", "l1"), Stitched(80, "t3", "l2")>>}

\* Two arcs that have nothing in common, and all that steps 4 to 6 may find.
RoadSrc == [a \in Arcs |-> a]
RoadDst == [a \in Arcs |-> a]
NoShares == {}
RoadSupports == {Terminal(40, "t1", "l1"), Stitched(60, "t1", "l1"),
                 Partial(40, Ends, "t1", "l1"), Partial(80, {"src"}, "t1", "l1")}
RoadOptions == {<<>>} \cup {<<s>> : s \in RoadSupports}
AllSlotFates == SUBSET Ends
AllCandidateSets ==
    LET good == Cand("plain", "inside", FALSE)
        crossing == Cand("plain", "inside", TRUE)
        sideCrossing == Cand("side_constrained", "near", TRUE)
        near == Cand("trend_extended", "near", FALSE)
        outside == Cand("plain", "outside", FALSE)
        rcsd == Cand("rcsdroad_trend", "near", FALSE)
        rcsdCrossing == Cand("rcsdroad_trend", "near", TRUE)
    IN  {{}, {crossing}, {crossing, sideCrossing}, {outside, crossing},
         {near}, {outside, rcsd}, {rcsdCrossing}, {good, crossing}}

\* What steps 4 to 6 may find of the four arcs.
MixSlots == {Ends, {"src"}}
MixCandidateSets ==
    {{Cand("plain", "inside", FALSE)},
     {Cand("trend_extended", "near", FALSE), Cand("rcsdroad_trend", "near", TRUE)}}
=============================================================================
