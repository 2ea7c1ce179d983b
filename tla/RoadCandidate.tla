---------------------------- MODULE RoadCandidate ----------------------------
(***************************************************************************)
(* One pair of the legacy t05 run: the corridor its road keeps to, at the  *)
(* end of this module, and one candidate road                              *)
(* (_evaluate_candidate_road): the line that is chosen, what replaces it   *)
(* on the way, and which checks see which line.  A line is a record:       *)
(*   gore    it crosses a divider                                          *)
(*   bridge  its longest segment is a bridge over nothing                  *)
(*   zone    "in" the drive zone without the dividers, "near" (a rescue    *)
(*           lets it pass) or "out"                                        *)
(*   ends    both its ends are in that zone                                *)
(*   corr    "in" the corridor of step 1, "near", "some" meters out (a     *)
(*           line that stays inside may replace it) or "out"               *)
(*   own     the same for the corridor around the prior road               *)
(*   surf    "in" the surface of the trajectories, "near" or "out"         *)
(* A line that crosses a divider is never "in" the zone, whatever the      *)
(* drive zone is.  What is known of a candidate:                           *)
(*   kind    "cluster", "variant" (a branch with trajectories), "branch"   *)
(*           (one without), "topology" (a pair without)                    *)
(*   noTraj  step 1 took the prior road because no trajectory was left     *)
(*   enforced  the surface of the trajectories is good enough to be held to*)
(*   prior, center, sub, part, refit   the line of the prior road, of the  *)
(*           center estimate, of the reference between the cross sections, *)
(*           the longest part free of dividers, and what merging and       *)
(*           diverging ends are fitted to                                  *)
(*   widen, close, far, multi   the road widens at an end; the ends are    *)
(*           on the cross sections; they are off the anchor; the support   *)
(*           has several channels                                          *)
(***************************************************************************)
EXTENDS Integers, FiniteSets, FiniteSetsExt

NoLine == [there |-> FALSE]

Several(f) == f.kind \in {"variant", "branch"}

(* _should_enable_road_prior_gap_fill                                      *)
GapFill(f) ==
    /\ f.prior.there /\ ~f.enforced
    /\ f.kind \in {"topology", "branch"} \/ f.noTraj

Within(line, gate) == IF gate = "prior" THEN line.own ELSE line.corr

Blocked(line, gate) == Within(line, gate) # "in" \/ line.zone # "in" \/ ~line.ends

(* The line to begin with; without a center line the estimate is empty.    *)
Start(f) ==
    LET direct == f.prior.there /\ f.kind \in {"topology", "branch"}
    IN [line |-> IF direct THEN f.prior ELSE IF f.center.there THEN f.center ELSE f.sub,
        gate |-> IF GapFill(f) THEN "prior" ELSE "step1",
        fallback |-> direct \/ (~f.center.there /\ f.sub.there),
        swapped |-> FALSE, override |-> FALSE,
        hard |-> {r \in {"center_empty", "off_anchor", "multi_road"} :
                    \/ r = "center_empty" /\ ~f.center.there
                    \/ r = "off_anchor" /\ f.far
                    \/ r = "multi_road" /\ f.multi}]

DirectRescue(f, c) ==
    IF /\ f.kind = "variant" /\ c.line.there /\ f.prior.there
       /\ Blocked(c.line, c.gate) /\ ~Blocked(f.prior, "prior")
    THEN [c EXCEPT !.line = f.prior, !.gate = "prior", !.fallback = TRUE]
    ELSE c

Downgrade(f, c) ==
    IF /\ c.fallback /\ c.line.there
       /\ \/ f.kind = "topology" /\ f.prior.there
          \/ Several(f) /\ f.sub.there
          \/ f.close
    THEN [c EXCEPT !.hard = @ \ {"center_empty"}] ELSE c

Widen(f, c) ==
    IF f.widen /\ c.line.there /\ f.sub.there
    THEN [c EXCEPT !.line = f.sub, !.fallback = TRUE] ELSE c

GoreFree(f, c) ==
    IF ~c.line.there \/ ~c.line.gore THEN c
    ELSE [c EXCEPT !.line = IF f.sub.there /\ ~f.sub.gore THEN f.sub ELSE f.part]

Refit(f, c) ==
    IF c.line.there /\ f.refit.there THEN [c EXCEPT !.line = f.refit] ELSE c

(* No line counts as one across a divider.                                 *)
GeometryCheck(c) ==
    [c EXCEPT !.hard = @ \cup
        (IF ~c.line.there THEN {"divstrip"}
         ELSE (IF c.line.bridge THEN {"bridge"} ELSE {})
              \cup (IF c.line.gore THEN {"divstrip"} ELSE {}))]

(* A line some meters out of the corridor gives way to the reference; what *)
(* GeometryCheck found stays with it.                                      *)
CorridorCheck(f, c) ==
    IF ~c.line.there \/ Within(c.line, c.gate) = "in" THEN c
    ELSE IF /\ Within(c.line, c.gate) # "out" /\ f.sub.there
            /\ Within(f.sub, c.gate) = "in"
    THEN [c EXCEPT !.line = f.sub, !.swapped = TRUE, !.fallback = TRUE]
    ELSE [c EXCEPT !.hard = @ \cup {"corridor"}]

(* Whether the ends are inside was noted by the center estimate, if there  *)
(* was one, and is not asked again when the line has changed.              *)
EndsNoted(f, c) == IF f.center.there THEN f.center.ends ELSE c.line.ends

ZoneCheck(f, c) ==
    IF ~c.line.there \/ (c.line.zone = "in" /\ EndsNoted(f, c)) THEN c
    ELSE IF /\ GapFill(f) /\ (f.prior.zone # "in" \/ ~f.prior.ends)
            /\ f.prior.zone = "out" \/ c.line.zone # "out"
            /\ EndsNoted(f, c) \/ ~f.prior.ends
    THEN [c EXCEPT !.override = TRUE]
    ELSE [c EXCEPT !.hard = @ \cup {"zone"}]

SurfaceCheck(f, c) ==
    IF c.line.there /\ f.enforced /\ c.line.surf # "in"
    THEN [c EXCEPT !.hard = @ \cup {"surface"}] ELSE c

(* Near misses are soft; that of the surface only if nothing else is hard. *)
NearRescue(f, c) ==
    IF ~c.line.there THEN c
    ELSE LET near == {r \in {"corridor", "zone"} :
                        \/ r = "corridor" /\ Within(c.line, c.gate) = "near"
                        \/ r = "zone" /\ c.line.zone = "near" /\ EndsNoted(f, c)}
             rest == c.hard \ near
         IN [c EXCEPT !.hard =
                IF c.line.surf = "near" /\ rest \subseteq {"surface", "zone", "corridor"}
                THEN rest \ {"surface"} ELSE rest]

Shaped(f) == GoreFree(f, Widen(f, Downgrade(f, DirectRescue(f, Start(f)))))

JudgedBeforeRefit(f) == \* mutant: the ends are fitted after the checks
    LET c == ZoneCheck(f, CorridorCheck(f, GeometryCheck(Shaped(f))))
    IN  NearRescue(f, SurfaceCheck(f, Refit(f, c)))

Judged(f) ==
    LET c == ZoneCheck(f, CorridorCheck(f, GeometryCheck(Refit(f, Shaped(f)))))
    IN  NearRescue(f, SurfaceCheck(f, c))

Blocking == {"bridge", "divstrip", "zone", "corridor"}

(* Which branch it is of is for the run to say.                            *)
Verdict(f) ==
    LET c == Judged(f)
    IN [branch |-> 0, kind |-> f.kind, held |-> f.enforced, line |-> c.line, gate |-> c.gate,
        swapped |-> c.swapped, override |-> c.override, hard |-> c.hard,
        geometry |-> c.line.there,
        feasible |-> /\ c.line.there /\ c.hard \cap Blocking = {}
                     /\ "surface" \notin c.hard \/ f.kind = "branch"]

Selectable(v) ==
    v.geometry /\ v.hard \cap Blocking = {} /\ (v.feasible \/ v.kind = "branch")
-----------------------------------------------------------------------------
(***************************************************************************)
(* Step 1 of a pair in the legacy t05 run: which of its trajectories may   *)
(* lead the road, and whether there is one corridor                        *)
(* (_build_step1_corridor_for_pair).  A trajectory is a record:            *)
(*   id       its place in the support                                     *)
(*   inside   how much of it is in the drive zone: 2 enough, 1 by the      *)
(*            relaxed limit, 0 less                                        *)
(*   bad      it comes near a divider at the constrained end               *)
(*   gore     it crosses a divider                                         *)
(*   reach    it comes close to both cross sections                        *)
(*   prior    how far it is from the prior road                            *)
(*   dist     how far from the middle of the seed cross section            *)
(*   side     its corridor, when corridors are far apart                   *)
(*   long     its length                                                   *)
(* The pair targets, which reorder the trajectories that are otherwise     *)
(* equal, are left out with the other geometry.                            *)
(***************************************************************************)

CONSTANTS
    TopK,       \* STEP1_PRIMARY_PICK_TOPK
    MultiHard,  \* STEP1_MULTI_CORRIDOR_HARD
    MainShare   \* STEP1_MULTI_CORRIDOR_MIN_RATIO, in percent

ASSUME CorridorAssumption ==
    TopK \in Nat \ {0} /\ MultiHard \in BOOLEAN /\ MainShare \in Nat

Prefer(S, T) == IF S \cap T = {} THEN S ELSE S \cap T

(* Where none is inside even by the relaxed limit the best three go on.    *)
Inside(S) ==
    LET enough == {x \in S : x.inside = 2}
        relaxed == {x \in S : x.inside >= 1}
        closer(x) == {y \in S : y.dist < x.dist \/ (y.dist = x.dist /\ y.id < x.id)}
    IN  IF relaxed # {} THEN Prefer(relaxed, enough)
        ELSE {x \in S : Cardinality(closer(x)) < 3}

Usable(S) ==
    LET good == {x \in S : ~x.bad}
        free == {x \in S : ~x.gore}
        reaching == {x \in S : x.reach}
    IN  Prefer(Prefer(Prefer(Inside(S), good), free), reaching)

Bit(b) == IF b THEN 0 ELSE 1

(* The first place where two keys differ decides; the last one is the id.  *)
Before(a, b) ==
    LET key(x) == <<Bit(x.reach), 2 - x.inside, Bit(~x.bad), Bit(~x.gore),
                    x.prior, x.dist, -x.long, x.id>>
    IN  \E i \in 1..8 : key(a)[i] < key(b)[i] /\ \A j \in 1..(i - 1) : key(a)[j] = key(b)[j]

Top(S) == {x \in Usable(S) : Cardinality({y \in Usable(S) : Before(y, x)}) < TopK}

SeveralCorridors(S) ==
    LET through == {x \in Top(S) : x.reach}
        all == MapThenSumSet(LAMBDA x : x.long, through)
    IN  /\ \E x, y \in through : x.side # y.side
        /\ \/ Cardinality(through) >= 3
           \/ \A x \in through : 100 * x.long < MainShare * all

(* The prior line leads a road that no trajectory leads.                   *)
Corridor(S, hasPrior) ==
    [hard |-> S # {} /\ MultiHard /\ SeveralCorridors(S),
     mode |-> IF S # {} THEN "traj" ELSE IF hasPrior THEN "no_traj" ELSE "none"]
=============================================================================
