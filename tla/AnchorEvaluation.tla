--------------------------- MODULE AnchorEvaluation -------------------------
(***************************************************************************)
(* The evaluation of one node of t04_rc_sw_anchor (runner.py               *)
(* _evaluate_node, k16_ops.py, multibranch_ops.py): the gates, the forward *)
(* scan, the search behind the node, the reference, the window around it,  *)
(* the probes, the way back past the node, and the line.                   *)
(*                                                                         *)
(* One position is one scan step, and the probes step as wide as the scan. *)
(* What a scan meets is chosen: the first position where the segment       *)
(* between the branches touches a divstrip, the first where the drivezone  *)
(* splits it (strictly, or only when it is extended), and the projection   *)
(* of the divstrip tip.  Aiming the divstrip scan at the component next to *)
(* the split only changes which of these is met.  A probe meets pieces of  *)
(* the drivezone on the long crossline.                                    *)
(***************************************************************************)
EXTENDS AnchorNode, Sequences, SequencesExt, FiniteSetsExt

CONSTANTS
    Stop,       \* the farthest stop boundary (scan_max_limit_m)
    RevMax,     \* how far behind the node is searched (reverse_tip_max_m)
    Past,       \* how far back past the node (drivezone_split_backtrack_past_node_m)
    Window,     \* divstrip_ref_hard_window_m
    MinGuard,   \* continuous_tip_projection_min_abs_m, not less than Window
    MaxOffset,  \* divstrip_drivezone_max_offset_m
    K16Max,     \* how far a tollgate is searched (k16_search_max_m)
    K16Ahead,   \* and how far beyond the first hit (k16_refine_ahead_m)
    Nodes       \* the nodes to evaluate, see the MC module

(* The positions of the contract are those that a probe can reach: the     *)
(* stop boundary and as far back, a window more for what was found behind  *)
(* the node, and as far past it.                                           *)
WithinReach ==
    /\ {Stop, RevMax, Past, Window, MinGuard, K16Max, K16Ahead} \subseteq Nat
    /\ RevMax + Window <= Back /\ Past <= Back
    /\ {Stop, RevMax, Past, Window} \subseteq 0..Ahead

ASSUME EvaluationAssumption == WithinReach

VARIABLES
    node,     \* [kind, known, offset, required, branches, zone, conn]
    step,
    stop,     \* the stop boundary
    strip,    \* is there a divstrip
    fwd,      \* what the forward scan met
    ref,      \* the reference chosen
    reverse,  \* was it found behind the node
    aim,      \* [target, guard, prefer, exact]
    probes,     \* the positions still to probe
    hits,     \* the probes that count
    first,    \* how many of them came from the window
    passed,   \* was a probe with pieces turned down for its position
    best,     \* the probe chosen
    back,     \* was it found on the way back
    gate,     \* a tollgate: [sign, tangent, first, at, gain]
    breaks,     \* the hard breakpoints of the node
    verdict

scene == <<stop, strip, fwd, ref, reverse>>
probing == <<aim, probes, hits, first, passed, best, back>>
nodeVars == <<node, step, scene, probing, gate, breaks, verdict>>

Nothing == [div |-> {}, divBy |-> "none", split |-> {}, splitBy |-> "none", atNode |-> FALSE]
NoRef == [s |-> {}, by |-> "none", met |-> Nothing]
NoAim == [target |-> 0, guard |-> FALSE, prefer |-> FALSE, exact |-> FALSE]

EvaluationInit ==
    /\ node \in Nodes
    /\ step = "kind"
    /\ stop = 0 /\ strip = FALSE /\ fwd = Nothing /\ ref = NoRef /\ reverse = FALSE
    /\ aim = NoAim /\ probes = <<>> /\ hits = <<>> /\ first = 0 /\ passed = FALSE
    /\ best = {} /\ back = FALSE
    /\ gate = [sign |-> 0, tangent |-> 0, first |-> 0, at |-> 0, gain |-> 0]
    /\ breaks = {} /\ verdict = {}

Go(next) == step' = next /\ UNCHANGED <<breaks, verdict>>

Fail(reason) ==
    /\ breaks' = breaks \cup {reason}
    /\ verdict' = {Failed}
    /\ step' = "done"

-----------------------------------------------------------------------------
(* The kind decides which of two programs places the line.                 *)
CheckKind ==
    /\ step = "kind"
    /\ IF ~node.known THEN Fail("kind_missing")
       ELSE IF node.kind = {"k16"} THEN Go("k16")
       ELSE IF node.kind \in {{"merge"}, {"diverge"}} THEN Go("branches")
       ELSE Fail("kind")
    /\ UNCHANGED <<node, gate, scene, probing>>

(* Is the node the end its road is driven from?  Roads of direction 2 are  *)
(* driven from their start, those of direction 3 from their end.           *)
DrivenFrom(r) == (r.dir = 2) = (r.at = "start")

(* The tangent at the node points into the road (1) or out of it (-1).     *)
Tangent(r) == IF DrivenFrom(r) THEN 1 ELSE -1

(* A tollgate needs one road with a direction; the search goes along the   *)
(* tangent where traffic leaves the node, against it where it arrives.     *)
K16Road ==
    /\ step = "k16"
    /\ IF ~node.zone THEN Fail("drivezone_missing") /\ UNCHANGED gate
       ELSE IF Cardinality(node.conn) # 1 \/ \E r \in node.conn : r.dir \notin {2, 3}
       THEN Fail("k16_road") /\ UNCHANGED gate
       ELSE \E r \in node.conn :
              \/ Fail("k16_tangent") /\ UNCHANGED gate
              \/ /\ gate' = [gate EXCEPT !.sign = IF DrivenFrom(r) THEN 1 ELSE -1,
                                         !.tangent = Tangent(r)]
                 /\ Go("k16_search")
    /\ UNCHANGED <<node, scene, probing>>

(* The first crossline of the search that meets the drivezone.             *)
K16Search ==
    /\ step = "k16_search"
    /\ \/ Fail("k16_not_reached") /\ UNCHANGED gate
       \/ \E k \in 0..K16Max :
            /\ gate' = [gate EXCEPT !.first = gate.sign * k]
            /\ Go("k16_refine")
    /\ UNCHANGED <<node, scene, probing>>

K16Positions == [j \in 0..K16Ahead |-> gate.first + gate.sign * j]

\* The longest line, then the fewest pieces, the nearest to the first hit.
BestLine(made, len, raw) ==
    LET longest == {j \in made : \A i \in made : len[j] >= len[i]}
        fewest == {j \in longest : \A i \in longest : raw[j] <= raw[i]}
    IN  Min(fewest)

(* The best line of the first hit and of the crosslines a little further   *)
(* on; the first hit itself has to make a line.                            *)
K16Refine ==
    /\ step = "k16_refine"
    /\ \E made \in SUBSET (0..K16Ahead) :
        IF 0 \notin made
        THEN Fail("k16_first_hit") /\ UNCHANGED gate
        ELSE \E len \in [made -> 1..2], raw \in [made -> 1..2] :
               /\ gate' = [gate EXCEPT !.at = K16Positions[BestLine(made, len, raw)],
                                       !.gain = len[BestLine(made, len, raw)] - len[0]]
               /\ verdict' = {Placed({})}
               /\ step' = "done" /\ UNCHANGED breaks
    /\ UNCHANGED <<node, scene, probing>>

(* Fewer than two roads leave a diverge (reach a merge), or no drivezone.  *)
Branches ==
    /\ step = "branches"
    /\ IF node.branches < 2 THEN Fail("road_link")
       ELSE IF ~node.zone THEN Fail("drivezone_missing")
       ELSE Go("stop")
    /\ UNCHANGED <<node, gate, scene, probing>>

(* The node's own boundary, or the wider one of its chain.                 *)
StopBoundary ==
    /\ step = "stop"
    /\ \E own \in 0..Stop, wider \in 0..Stop :
        stop' = IF node.offset # {} /\ wider > own THEN wider ELSE own
    /\ Go("scan")
    /\ UNCHANGED <<node, gate, strip, fwd, ref, reverse, probing>>

-----------------------------------------------------------------------------
(* Where the number of drivezone pieces grows along the samples, as long   *)
(* as the pieces that came before are fewer than the expected events.      *)
Events(counts, at, expected) ==
    LET before(i) == IF i = 1 THEN 1 ELSE counts[i - 1]
        grow(i) == IF counts[i] > before(i) THEN counts[i] - before(i) ELSE 0
        sofar(i) == SumFunction([k \in 1..(i - 1) |-> grow(k)])
    IN  {at[i] : i \in {j \in DOMAIN counts : grow(j) > 0 /\ sofar(j) < expected}}

(* Splits at the node itself count only where there is no other.  The      *)
(* farthest split behind the node leads, else the nearest in front.        *)
MainSplit(fwdEvents, revEvents) ==
    LET f == IF \E e \in fwdEvents : e > 0 THEN {e \in fwdEvents : e > 0} ELSE fwdEvents
        r == IF \E e \in revEvents : e < 0 THEN {e \in revEvents : e < 0} ELSE revEvents
    IN  IF r # {} THEN {Min(r)} ELSE IF f # {} THEN {Min(f)} ELSE {}

Multi == node.branches > 2

(* The split of a node with more than two branches comes from the piece    *)
(* counts over all branches, in front and behind.                          *)
MultiSplit(ahead, behind) ==
    LET m == MainSplit(Events(ahead, [i \in 1..(stop + 1) |-> i - 1], node.branches - 1),
                       Events(behind, [i \in 1..(RevMax + 1) |-> 1 - i], node.branches - 1))
    IN  [split |-> m, splitBy |-> IF m = {} THEN "none" ELSE "multi"]

Splits ==
    IF ~Multi
    THEN {[split |-> {}, splitBy |-> "none"]}
         \cup {[split |-> {s}, splitBy |-> b] : s \in 0..stop, b \in {"strict", "extended"}}
    ELSE {MultiSplit(c[1], c[2]) : c \in [1..(stop + 1) -> 0..3] \X [1..(RevMax + 1) -> 0..3]}

(* A touch of the divstrip comes before the projection of its tip, and the *)
(* projection counts only where the scan went.                             *)
DivstripRefs(lo, hi) ==
    {[div |-> {}, divBy |-> "none"]}
    \cup {[div |-> {s}, divBy |-> b] : s \in lo..hi, b \in {"first_hit", "tip_projection"}}

Met(d, p, near) ==
    [div |-> d.div, divBy |-> d.divBy, split |-> p.split, splitBy |-> p.splitBy, atNode |-> near]

Scan ==
    /\ step = "scan"
    /\ \E s \in BOOLEAN, d \in DivstripRefs(0, stop), p \in Splits, near \in BOOLEAN :
        /\ ~s => d.div = {}
        /\ near => d = [div |-> {0}, divBy |-> "first_hit"]
        /\ strip' = s
        /\ fwd' = Met(d, p, near)
    /\ Go("reference")
    /\ UNCHANGED <<node, gate, stop, ref, reverse, probing>>

Size(n) == IF n < 0 THEN -n ELSE n

(* The divstrip leads, unless it is only a projection or lies much farther *)
(* from the node than the split.                                           *)
PickReference(m) ==
    LET byStrip == \E d \in m.div : \A s \in m.split :
                      m.divBy # "tip_projection" /\ Size(d) - Size(s) <= MaxOffset
        lone == m.split = {}
    IN  [s |-> IF m.div # {} /\ (lone \/ byStrip) THEN m.div ELSE m.split,
         by |-> IF m.div # {} /\ (lone \/ byStrip) THEN "divstrip_ref"
                ELSE IF lone THEN "none" ELSE "drivezone_split",
         met |-> m]

(* Behind the node is searched when nothing was met, when the divstrip     *)
(* lies at the node itself, or when it was touched and nothing split.      *)
WantsReverse ==
    /\ ~Multi
    /\ \/ fwd.div = {} /\ fwd.split = {}
       \/ fwd.atNode
       \/ fwd.divBy = "first_hit" /\ fwd.split = {}

Reference ==
    /\ step = "reference"
    /\ fwd' = Nothing
    /\ IF WantsReverse
       THEN \E d \in DivstripRefs(-RevMax, 0), p \in BOOLEAN, s \in -RevMax..0,
               b \in {"strict", "extended"} :
              /\ ~strip => d.div = {}
              /\ fwd.atNode => d.div # {0} /\ (p => s # 0)
              /\ LET split == [split |-> IF p THEN {s} ELSE {},
                               splitBy |-> IF p THEN b ELSE "none"]
                     found == PickReference(Met(d, split, FALSE))
                 IN  \/ found.s = {} /\ reverse' = FALSE /\ ref' = PickReference(fwd)
                     \/ found.s # {} /\ reverse' = TRUE /\ ref' = found
       ELSE reverse' = FALSE /\ ref' = PickReference(fwd)
    /\ Go("window")
    /\ UNCHANGED <<node, gate, stop, strip, probing>>

-----------------------------------------------------------------------------
Sign(n) == IF n < 0 THEN -1 ELSE 1
Between(r, target) ==
    [from |-> IF r <= target THEN r ELSE target, to |-> IF r <= target THEN target ELSE r,
     target |-> target]
\* From a to b, one step after the other.
Walk(a, b) == IF a <= b THEN [i \in 1..(b - a + 1) |-> a + i - 1]
              ELSE [i \in 1..(a - b + 1) |-> a - i + 1]

\* mutant: the window reaches across the node
WindowUnclamped(r, exact, away) ==
    LET far == r + Sign(r) * Window
        near == r - Sign(r) * Window
    IN  IF exact THEN Between(r, r) ELSE IF away THEN Between(r, far) ELSE Between(r, near)

(* The window: the weak split next to the node alone; away from the node   *)
(* for a divstrip found behind it; else towards the node and never across. *)
WindowOf(r, exact, away) ==
    LET far == r + Sign(r) * Window
        near == IF Size(r) <= Window THEN 0 ELSE r - Sign(r) * Window
    IN  IF exact THEN Between(r, r) ELSE IF away THEN Between(r, far) ELSE Between(r, near)

(* A projection next to the node, in a chain with a placed predecessor and *)
(* without a split, is not trusted: farther positions are probed too, each *)
(* of them once.                                                           *)
Guarded(r) ==
    /\ ~reverse /\ node.required # {}
    /\ ref.met.split = {} /\ ref.by = "divstrip_ref" /\ ref.met.divBy = "tip_projection"
    /\ Size(r) <= MinGuard

MakeWindow ==
    /\ step = "window"
    /\ IF ref.s = {}
       THEN Fail("position_reference_missing") /\ UNCHANGED <<aim, probes>>
       ELSE \E r \in ref.s :
              LET byZone == ref.by = "drivezone_split"
                  exact == byZone /\ ref.met.splitBy = "extended" /\ Size(r) <= 1
                  win == WindowOf(r, exact, reverse /\ ~byZone)
                  prefer == reverse /\ ref.met.split = {} /\ strip
                  nearest == IF Size(r) = MinGuard THEN MinGuard + 1 ELSE MinGuard
                  guard == IF Guarded(r) /\ nearest <= stop
                           THEN Walk(Sign(r) * nearest, Sign(r) * stop) ELSE <<>>
                  wide == IF prefer /\ Size(win.target) < RevMax
                          THEN Walk(win.target + Sign(r), Sign(r) * RevMax) ELSE <<>>
              IN  /\ aim' = [target |-> win.target, guard |-> Guarded(r),
                             prefer |-> prefer, exact |-> exact]
                  /\ probes' = Walk(win.from, win.to) \o guard \o wide
                  /\ Go("probe")
    /\ UNCHANGED <<node, gate, scene, hits, first, passed, best, back>>

Views == [raw : 1..3, center : BOOLEAN, clear : BOOLEAN]

\* mutant: the position is only compared where the window was left
ExceedsOrEquals(s) ==
    \A a \in AbsS(node.kind, node.offset, s), r \in node.required : a >= r

FarEnough(s) == Exceeds(AbsS(node.kind, node.offset, s), node.required)

(* One probe: nothing there, too near for the guard, not beyond the        *)
(* predecessors, or a hit - under the guard only a split one clear of the  *)
(* divstrip.  Whether the piece is clear is asked only where it counts.    *)
Probe ==
    /\ step \in {"probe", "return"} /\ probes # <<>>
    /\ probes' = Tail(probes)
    /\ LET s == Head(probes)
       IN  \/ UNCHANGED <<hits, passed>>
           \/ /\ aim.guard => Size(s) >= MinGuard
              /\ \E v \in Views :
                  /\ ~(aim.guard \/ aim.prefer) => v.clear
                  /\ IF ~FarEnough(s)
                     THEN passed' = TRUE /\ UNCHANGED hits
                     ELSE IF aim.guard /\ ~(v.raw >= 2 /\ v.clear)
                     THEN UNCHANGED <<hits, passed>>
                     ELSE /\ hits' = Append(hits, [s |-> s, raw |-> v.raw,
                                                   center |-> v.center, clear |-> v.clear])
                          /\ UNCHANGED passed
    /\ UNCHANGED <<node, gate, step, scene, aim, first, best, back, breaks, verdict>>

Single == \E i \in DOMAIN hits : hits[i].raw = 1

(* From the target back to the node, and past it.                          *)
WayBack(r) ==
    LET toNode == IF Sign(r) * aim.target > 0 THEN Walk(aim.target - Sign(r), 0) ELSE <<>>
    IN  toNode \o (IF Past > 0 THEN Walk(-Sign(r), -Sign(r) * Past) ELSE <<>>)

(* A split that shows only several pieces in its window is followed back.  *)
TurnBack ==
    /\ step = "probe" /\ probes = <<>>
    /\ first' = Len(hits)
    /\ IF aim.guard /\ hits = <<>>
       THEN Fail("tip_projection_guard") /\ UNCHANGED probes
       ELSE /\ probes' = IF /\ ref.by = "drivezone_split" /\ ~aim.exact /\ ~reverse
                          /\ Past > 0 /\ ~Single
                       THEN WayBack(CHOOSE r \in ref.s : TRUE) ELSE <<>>
            /\ Go("return")
    /\ UNCHANGED <<node, gate, scene, aim, hits, passed, best, back>>

-----------------------------------------------------------------------------
Least(S, f) == {h \in S : \A g \in S : f[h] <= f[g]}
Rank(b) == IF b THEN 0 ELSE 1

(* Clear of the divstrip where that is preferred, then over the center,    *)
(* then the fewest pieces, the nearest to the target, the first probed.    *)
BestHit(H) ==
    LET a == IF aim.prefer THEN Least(H, [i \in H |-> Rank(hits[i].clear)]) ELSE H
        b == Least(a, [i \in H |-> Rank(hits[i].center)])
        c == Least(b, [i \in H |-> hits[i].raw])
    IN  Min(Least(c, [i \in H |-> Size(hits[i].s - aim.target)]))

(* On the way back the first single piece over the center, or else the     *)
(* first single piece, is taken before everything else.                    *)
Pick ==
    /\ step = "return" /\ probes = <<>>
    /\ LET backHits == {i \in DOMAIN hits : i > first /\ hits[i].raw = 1}
           centered == {i \in backHits : hits[i].center}
       IN  IF hits = <<>>
           THEN /\ Fail(IF passed THEN "sequential_order" ELSE "no_piece_in_window")
                /\ UNCHANGED <<best, back>>
           ELSE /\ best' = {IF centered # {} THEN Min(centered)
                            ELSE IF backHits # {} THEN Min(backHits)
                            ELSE BestHit(DOMAIN hits)}
                /\ back' = (backHits # {})
                /\ Go("place")
    /\ UNCHANGED <<node, gate, scene, aim, probes, hits, first, passed>>

(* A split that shows only in the extended drivezone, next to the node.    *)
Unstable(h, nearby) ==
    /\ ref.by = "drivezone_split" /\ ref.met.splitBy = "extended"
    /\ h.s # 0 /\ Size(h.s) <= 1 /\ ~nearby
    /\ h.raw >= 3 \/ h.center

(* The line over the chosen piece.  A line from behind the node that still *)
(* touches the divstrip, and a weak split next to the node, are reported   *)
(* as hard and keep their line in a failed result.                         *)
Place ==
    /\ step = "place"
    /\ \E i \in best, nearby \in BOOLEAN :
        LET h == hits[i]
            split == ref.met.split # {} \/ (aim.guard /\ h.raw >= 2)
        IN  /\ nearby => strip /\ (aim.prefer \/ aim.guard => ~h.clear)
            /\ \/ Fail("span_empty")
               \/ /\ LET bad == (IF reverse /\ ~split /\ nearby
                                 THEN {"divstrip_not_left"} ELSE {})
                                \cup (IF Unstable(h, nearby) THEN {"gap_unstable"} ELSE {})
                     IN  /\ breaks' = breaks \cup bad
                         /\ verdict' = {IF bad # {} THEN Failed
                                        ELSE Placed(AbsS(node.kind, node.offset, h.s))}
                  /\ step' = "done"
    /\ UNCHANGED <<node, gate, scene, probing>>

EvaluationNext ==
    \/ CheckKind \/ K16Road \/ K16Search \/ K16Refine \/ Branches \/ StopBoundary \/ Scan \/ Reference
    \/ MakeWindow \/ Probe \/ TurnBack \/ Pick \/ Place

EvaluationSpec == EvaluationInit /\ [][EvaluationNext]_nodeVars

-----------------------------------------------------------------------------
Chosen == hits[CHOOSE i \in best : TRUE]
HasLine == step = "done" /\ best # {} /\ verdict # {Failed}

ProbeHit == [s : Int, raw : 1..3, center : BOOLEAN, clear : BOOLEAN]

(* Types of the state of one evaluation.                                   *)
EvaluationTypes ==
    /\ node \in Nodes
    /\ step \in {"kind", "k16", "k16_search", "k16_refine", "branches", "stop", "scan", "reference", "window",
               "probe", "return", "place", "done"}
    /\ stop \in 0..Stop /\ strip \in BOOLEAN /\ reverse \in BOOLEAN
    /\ ref.s \subseteq -RevMax..Stop /\ Cardinality(ref.s) <= 1
    /\ (ref.s = {}) = (ref.by = "none")
    /\ aim.target \in Int /\ aim.guard \in BOOLEAN /\ aim.prefer \in BOOLEAN
    /\ \A i \in DOMAIN probes : probes[i] \in Int
    /\ \A i \in DOMAIN hits : hits[i] \in ProbeHit
    /\ first \in 0..Len(hits) /\ passed \in BOOLEAN /\ back \in BOOLEAN
    /\ best \subseteq DOMAIN hits /\ Cardinality(best) <= 1
    /\ gate.sign \in -1..1 /\ gate.first \in -K16Max..K16Max /\ gate.gain \in Nat
    /\ (verdict = {}) = (step # "done") /\ Cardinality(verdict) <= 1

(* What the run of all nodes relies on: whatever the scans, the window and *)
(* the way back did, a node without exactly one usable kind fails, and a   *)
(* line that is placed lies beyond the predecessors of its node.           *)
VerdictIsContract ==
    /\ EvaluationTypes
    /\ verdict \subseteq Verdicts(IF node.known THEN node.kind ELSE {}, node.offset, node.required)

(* A line lies across the node from what it refers to only for a split of  *)
(* the drivezone in whose window no probe was one piece.                   *)
NeverPastNode ==
    HasLine /\ (\E r \in ref.s : Chosen.s * Sign(r) < 0) =>
        /\ ref.by = "drivezone_split" /\ ~reverse
        /\ \A i \in 1..first : hits[i].raw > 1

VerdictIsSound == VerdictIsContract /\ NeverPastNode
=============================================================================
