------------------------------ MODULE ArcAudit ------------------------------
(***************************************************************************)
(* What the reviews of a run of ArcFlow say about it: audit_acceptance.py, *)
(* which repeats the tests of legality on the files of the run, and        *)
(* witness_review.py, which sorts the gap-controlled arcs.  The reviews    *)
(* read the registry of metrics.json, or while it is missing the one that  *)
(* step 3 wrote, and the roads; they keep no state of their own.           *)
(*                                                                         *)
(* An arc is taken to be 100 m long and a support to be one trajectory.    *)
(***************************************************************************)
EXTENDS ArcFlow

ArcsOf(p) == {a \in Arcs : PairOf(a) = p}
HasRoad(a) == road[a] # NoRoad

(* The record of identity of a row: gap control clears what blocked it.    *)
IdentityAsWritten(a) == \* mutant: what gap control cleared still blocks
    [unique |-> Unique(a), finalize |-> a \in finalize, entered |-> a \in entered,
     controlled |-> Controlled(a), blocked |-> blocked[a],
     hard |-> hard[a], built |-> class[a] = "built", reason |-> reason[a]]

Identity(a) ==
    [unique |-> Unique(a), finalize |-> a \in finalize, entered |-> a \in entered,
     controlled |-> Controlled(a), blocked |-> blocked[a] /\ ~Controlled(a),
     hard |-> IF Controlled(a) THEN "" ELSE hard[a],
     built |-> class[a] = "built", reason |-> reason[a]]

(* The row that speaks for a pair: a built one before a controlled one     *)
(* before one of the main flow before any.                                 *)
Precedence(a) ==
    LET row == Identity(a)
    IN  IF row.built THEN 3 ELSE IF row.controlled THEN 2
        ELSE IF row.entered THEN 1 ELSE 0
BestRow(p) ==
    CHOOSE a \in ArcsOf(p) : \A b \in ArcsOf(p) : Precedence(b) <= Precedence(a)

-----------------------------------------------------------------------------
(* Legality, decisions by pair, coverage and acceptance.                   *)

ProductionArc(row) == row.unique \/ row.finalize

(* What build_arc_legality_audit would say of a road of a, whose working   *)
(* segment leads it to the row of a.                                       *)
Condemned(a) ==
    LET row == Identity(a)
    IN  ~ProductionArc(row) \/ row.blocked \/ row.hard # ""

BadRoads == {a \in Arcs : HasRoad(a) /\ Condemned(a)}

Decision(p) ==
    LET row == Identity(BestRow(p))
    IN  [built |-> row.built \/ \E a \in ArcsOf(p) : HasRoad(a),
         reason |-> row.reason]

(* The arcs of the main flow that build_legal_arc_coverage counts, and     *)
(* those of them that it counts as built.                                  *)
Coverage == [total |-> entered,
             built |-> {a \in entered : Identity(a).built \/ HasRoad(a)}]

UnexpectedBuilt(expected) == {p \in Pairs : Decision(p).built} \ expected

Accepted(expected) ==
    /\ gate.pass
    /\ \A a \in entered : class[a] = "built"
    /\ UnexpectedBuilt(expected) = {}
    /\ \A p \in expected : \E a \in Arcs : PairOf(a) = p /\ HasRoad(a)

Regressed(expected) == BadRoads # {} \/ ~Accepted(expected)

-----------------------------------------------------------------------------
(* Gap-controlled arcs and their obligations.                              *)

SupportRank(a) ==
    CASE support[a].kind \in {"terminal_crossing_support", "stitched_arc_support"} -> 30
      [] support[a].kind = "partial_arc_support" -> 20
      [] OTHER -> IF prior[a] THEN 5 ELSE 0

(* _support_strength_score in tenths: rank, coverage, length, number of    *)
(* supports, and bonuses for slot and corridor.                            *)
Strength(a) ==
    LET s == support[a]
    IN  100 * SupportRank(a) + 10 * s.cov + 4 * s.cov
        + (IF s.kind = "no_support" THEN 0 ELSE 60)
        + (IF slots[a] = Ends THEN 30 ELSE 0)
        + (IF corridor[a][1] = "unresolved" THEN 0 ELSE 20)

SelectionMargin == 20

(* The class that _topology_gap_decision_rows finds for a row.             *)
Classification(a) ==
    IF gap[a] # NoGap THEN gap[a][1]
    ELSE IF bridge[a] = "topology_gap_unresolved" THEN Remain ELSE ""

Peers(a) == {b \in GapControlled : Dst[b] = Dst[a] /\ PairOf(b) # PairOf(a)}
BestPeer(a) == Max({Strength(b) : b \in Peers(a)} \cup {0})

LosesAnyway(a) == \* mutant: the gap is taken without its sign
    Peers(a) # {} /\ (IF BestPeer(a) > Strength(a) THEN BestPeer(a) - Strength(a)
                      ELSE Strength(a) - BestPeer(a)) >= SelectionMargin

Loses(a) == Peers(a) # {} /\ BestPeer(a) - Strength(a) >= SelectionMargin

(* Why a competing arc stays blocked; over are the arcs whose corridor     *)
(* lies over DivStrip by more than a tenth.  The first of the built rivals *)
(* counts, and the first of the strongest, in the order of their rows.     *)
RowOrder ==
    CHOOSE place \in [Arcs -> 1..Cardinality(Arcs)] :
        \A a, b \in Arcs : place[a] = place[b] => a = b
FirstRow(S) == CHOOSE a \in S : \A b \in S : RowOrder[a] <= RowOrder[b]

Blame(a, over) ==
    LET built == {b \in Peers(a) : class[b] = "built"}
        strongest == {b \in Peers(a) : Strength(b) = BestPeer(a)}
    IN  IF a \in over THEN "competing_arc_crosses_divstrip"
        ELSE IF built # {}
        THEN IF Loses(a) /\ PairOf(FirstRow(built)) = PairOf(FirstRow(strongest))
             THEN "competing_arc_support_weaker_than_built_sibling"
             ELSE "competing_arc_slot_conflict_with_built_sibling"
        ELSE IF slots[a] # Ends /\ \E b \in Peers(a) : slots[b] = Ends
        THEN "competing_arc_no_independent_slot"
        ELSE IF Loses(a) THEN "competing_arc_support_weaker_below_selection_threshold"
        ELSE IF Peers(a) # {} THEN "competing_arc_requires_new_pair_selection_rule"
        ELSE "competing_arc_business_rule_not_decided"

SelectedBySupport(a) ==
    Peers(a) = {} \/ Strength(a) > BestPeer(a) + SelectionMargin

(* The status, state and reason of the obligation of a gap-controlled arc. *)
Obligation(a, over) ==
    IF Classification(a) # Enter THEN
        <<"must_remain_blocked", "blocked",
          IF Classification(a) = Remain THEN reason[a] ELSE Blame(a, over)>>
    ELSE IF class[a] = "built" THEN <<"must_build_now", "controlled_entry_built", "">>
    ELSE <<"must_build_now", "blocked", reason[a]>>

-----------------------------------------------------------------------------
(* Structures of several arcs, found anew in the finished registry.        *)

Structure(a) ==
    IF SamePair(a, support) THEN "same_pair_multi_arc"
    ELSE IF MergePeers(a, Arcs) # {} THEN "merge_multi_upstream" ELSE "single"

(* independent_support_confirmed of build_merge_diverge_review.            *)
MergeConfirmed(a) ==
    Structure(a) = "merge_multi_upstream" /\ AllowUpstream(a, Arcs, support)

(* allow_multi_output of a pair in build_multi_arc_review: every arc of    *)
(* the pair has evidence of its own.                                       *)
DualOutputOfOne(p) == \* mutant: the evidence of one arc is enough for the pair
    LET rows == {a \in ArcsOf(p) : Structure(a) = "same_pair_multi_arc"}
    IN  Cardinality(rows) >= 2 /\ rows \cap finalize # {}

DualOutput(p) ==
    LET rows == {a \in ArcsOf(p) : Structure(a) = "same_pair_multi_arc"}
    IN  Cardinality(rows) >= 2 /\ rows \subseteq finalize

-----------------------------------------------------------------------------
(* Properties.                                                             *)

(* The legality audit (audit_acceptance.py:1059) repeats the tests of the  *)
(* final gate (step5_conservative_road.py:2775) in other words.  For every *)
(* arc, built or not, both come to the same verdict: no road of the        *)
(* pipeline raises an alarm, and none that it would refuse goes unseen.    *)
AuditKnowsTheGate ==
    Decided =>
        /\ \A a \in Arcs : Condemned(a) <=> FinalGate(a) # "" \/ hard[a] # ""
        /\ BadRoads = {}

(* The reviews by pair are true of the arcs: a pair counts as built when   *)
(* an arc of it has a road, no pair without a road is left without a       *)
(* reason, the coverage counts the roads there are, a patch is accepted    *)
(* exactly when every arc of the main flow became a road and these are the *)
(* expected pairs, and a pair is a candidate for several roads only when   *)
(* all its arcs entered the main flow.                                     *)
ReviewsAreTrue ==
    phase = "done" =>
        /\ \A p \in Pairs :
              /\ Decision(p).built <=> \E a \in ArcsOf(p) : HasRoad(a)
              /\ ~Decision(p).built => Decision(p).reason # ""
              /\ DualOutput(p) => ArcsOf(p) \subseteq Coverage.total
        /\ Coverage.built = {a \in Arcs : HasRoad(a)}
        /\ \A expected \in SUBSET Pairs :
              Regressed(expected) <=>
                 ~ /\ entered # {} /\ Coverage.built = entered
                   /\ expected = {PairOf(a) : a \in entered}

(* The obligations of the arcs that gap control decided on are the ones    *)
(* the run kept: what must stay blocked has no road, what must be built    *)
(* and was not has a reason, and a merge of gap-controlled arcs that the   *)
(* review confirms was let in.  Whatever lies over DivStrip, of rivals at  *)
(* most one is selected by its support, they never all lose to each other, *)
(* and one without a slot of its own has a rival that has one.             *)
ObligationsAreKept ==
    phase = "done" =>
        /\ \A a \in GapControlled, over \in SUBSET GapControlled :
              /\ gap[a] # NoGap =>
                    LET o == Obligation(a, over) IN
                    /\ o[1] = "must_remain_blocked" => ~HasRoad(a) /\ o[3] # ""
                    /\ o[1] = "must_build_now" =>
                          a \in entered /\ (o[3] = "" <=> HasRoad(a))
              /\ Blame(a, over) = "competing_arc_no_independent_slot" =>
                    \E b \in Peers(a) : Blame(b, over) # "competing_arc_no_independent_slot"
        /\ \A a \in GapControlled :
              /\ MergeConfirmed(a) /\ MergePeers(a, Arcs) \subseteq GapControlled
                    => Controlled(a)
              /\ \A b \in Peers(a) : ~(SelectedBySupport(a) /\ SelectedBySupport(b))
              /\ Loses(a) => \E b \in GapControlled : Dst[b] = Dst[a] /\ ~Loses(b)
=============================================================================
