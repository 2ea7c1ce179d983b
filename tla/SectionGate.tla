----------------------------- MODULE SectionGate -----------------------------
(***************************************************************************)
(* Step 0 of the legacy t05 (_truncate_cross_sections_for_crossing): the   *)
(* part of a cross section that later steps use.  It lies on a line of     *)
(* metres, metre i from point i to i + 1.  A section x is a record         *)
(*   lo, hi         the metres of the line it was drawn with, evenly many  *)
(*   zoned, zone    whether there is a drive zone, and the metres in it    *)
(*   goreKnown, gore  the same of the dividers                             *)
(*   tracks         the points where a trajectory crosses                  *)
(* Lanes run across the line: marching goes along it.  Without a zone the  *)
(* lite mode rejects all; the checks it has for repaired sections can not  *)
(* be reached and are left out, and so are the counters.                   *)
(***************************************************************************)
EXTENDS Integers, FiniteSets, FiniteSetsExt, SequencesExt

CONSTANTS
    March, Slack,            \* XSEC_TRUNC_LMAX_M, XSEC_TRUNC_NONPASS_K
    MidMargin, MinEvidence,  \* XSEC_GATE_EVIDENCE_MID_MARGIN_M, .._MIN_LEN_M
    MinSection               \* STEP0_LITE_MIN_LEN_M

Seed(x) == x.lo .. x.hi
Centre(x) == (x.lo + x.hi + 1) \div 2
Percent(line, mask) == (100 * Cardinality(line \cap mask)) \div Cardinality(line)

(* A divider may take one part in a hundred, the zone may lack ten.        *)
SeedFaults(x, goreNeeded) ==
    {f \in {"short", "zone", "gore", "no gore"} :
        CASE f = "short" -> Cardinality(Seed(x)) < MinSection
          [] f = "zone" -> ~x.zoned \/ Percent(Seed(x), x.zone) < 90
          [] f = "gore" -> x.goreKnown /\ Percent(Seed(x), x.gore) > 1
          [] f = "no gore" -> ~x.goreKnown /\ goreNeeded}

Goes(line, how) == [went |-> TRUE, line |-> line, how |-> how, fallback |-> FALSE]
Failed(x) == [went |-> FALSE, line |-> Seed(x), how |-> "audit_reject", fallback |-> TRUE]
-----------------------------------------------------------------------------
GateUncut(x) == Seed(x) \cap x.zone \* mutant: the dividers are not cut out

(* What of the seed lies in the zone and off the dividers.  A part of the  *)
(* zone that dividers cover altogether is kept as it is.                   *)
GateAll(x) ==
    LET inside == Seed(x) \cap x.zone
    IN IF inside \ x.gore = {} THEN inside ELSE inside \ x.gore

Stretches(S) ==
    {p[1] .. p[2] : p \in {q \in S \X S : /\ q[1] - 1 \notin S /\ q[2] + 1 \notin S
                                          /\ q[1] <= q[2] /\ q[1] .. q[2] \subseteq S}}

(* Twice the distance of a part from the middle of the seed.               *)
MidDist(x, part) ==
    2 * Max({0, Min(part) - Centre(x), Centre(x) - (Max(part) + 1)})

Evidence(x, part) ==
    Cardinality({i \in part : \E t \in x.tracks : i \in (t - 2) .. (t + 1)})

(* Near the middle and with traffic, then the most traffic, the nearest,   *)
(* the longest and the first.                                              *)
Rank(x, parts, part) ==
    LET near == MidDist(x, part) <= Min({MidDist(x, p) : p \in parts}) + 2 * MidMargin
    IN <<IF near /\ Evidence(x, part) >= MinEvidence THEN 1 ELSE 0,
         IF near THEN Evidence(x, part) ELSE 0,
         0 - MidDist(x, part), Cardinality(part), 0 - Min(part)>>

Above(a, b) == \E i \in DOMAIN a : a[i] > b[i] /\ \A j \in 1..(i - 1) : a[j] = b[j]

Selected(x, parts) ==
    CHOOSE p \in parts : \A q \in parts : ~Above(Rank(x, parts, q), Rank(x, parts, p))

ByZone(x) ==
    LET gate == GateAll(x)
    IN IF gate # {} THEN Goes(Selected(x, Stretches(gate)), "drivezone_intersection")
       ELSE IF x.goreKnown /\ Seed(x) \ x.gore # {}
       THEN [Goes(Selected(x, Stretches(Seed(x) \ x.gore)), "fallback_seed_minus_divstrip")
                 EXCEPT !.fallback = TRUE]
       ELSE [Goes(Seed(x), "fallback_raw_seed") EXCEPT !.fallback = TRUE]
-----------------------------------------------------------------------------
(* Without a zone one goes out from the middle to both sides, as far as    *)
(* points near a trajectory are met; a divider counts as any other point   *)
(* that is not, so that a thin one is passed over.                         *)
Passable(x, p) ==
    /\ {p - 1, p} \cap x.gore = {}
    /\ \E t \in x.tracks : p \in (t - 1) .. (t + 1)

Extent(x, sign) ==
    FoldLeft(LAMBDA s, i :
                 IF s.failed >= Slack THEN s
                 ELSE IF Passable(x, Centre(x) + sign * i) THEN [best |-> i, failed |-> 0]
                 ELSE [s EXCEPT !.failed = @ + 1],
             [best |-> 0, failed |-> 0], [i \in 1..March |-> i]).best

ByMarch(x) ==
    LET half == Min({March, Cardinality(Seed(x)) \div 2})
        met == [sign \in {-1, 1} |-> Extent(x, sign)]
        far == IF met[-1] = 0 /\ met[1] = 0 THEN [sign \in {-1, 1} |-> half] ELSE met
        line == IF far[-1] + far[1] <= 1 THEN Seed(x)
                ELSE (Centre(x) - far[-1]) .. (Centre(x) + far[1] - 1)
    IN [Goes(line, "legacy_trunc") EXCEPT
            !.fallback = Cardinality(line) >= Cardinality(Seed(x))]
-----------------------------------------------------------------------------
(* Only the lite mode looks at the seed: audit lets all pass, as it finds  *)
(* no faults.                                                              *)
Answer(x, mode, goreNeeded) ==
    CASE mode = "bypass" -> Goes(Seed(x), "step0_bypass")
      [] mode = "audit" -> Goes(Seed(x), "passthrough")
      [] mode = "lite" ->
            IF SeedFaults(x, goreNeeded) = {} THEN Goes(Seed(x), "passthrough") ELSE Failed(x)
      [] mode = "full" -> IF x.zoned THEN ByZone(x) ELSE ByMarch(x)

(***************************************************************************)
(* A section that goes on as its part in the zone lies in the zone, is one *)
(* piece of the seed, and keeps off the dividers, unless they cover all of *)
(* it that is in the zone; a piece that is left aside is no nearer to the  *)
(* middle, unless the one taken has traffic; what a march leaves is in one *)
(* piece around the middle, or the seed.                                   *)
(***************************************************************************)
Honest(x, answer) ==
    /\ answer.how = "drivezone_intersection" =>
        /\ answer.line # {} /\ answer.line \subseteq Seed(x) \cap x.zone
        /\ answer.line \cap x.gore = {} \/ Seed(x) \cap x.zone \subseteq x.gore
        /\ \A i \in (Seed(x) \cap x.zone) \ (x.gore \cup answer.line) :
               MidDist(x, {i}) < MidDist(x, answer.line) => Evidence(x, answer.line) >= MinEvidence
    /\ answer.how = "fallback_seed_minus_divstrip" => answer.line \cap x.gore = {}
    /\ answer.how = "legacy_trunc" /\ answer.line # Seed(x) =>
        /\ {Centre(x) - 1, Centre(x)} \cap answer.line # {}
        /\ Cardinality(Stretches(answer.line)) = 1
=============================================================================
