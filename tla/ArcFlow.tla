------------------------------- MODULE ArcFlow -------------------------------
(***************************************************************************)
(* What steps 2 to 6 of t05_topology_between_rc_v2 decide about the direct *)
(* legal arcs of a patch: which enter the main flow, which resolve their   *)
(* corridor and their slots, which become roads, and what the registry,    *)
(* metrics.json and gate.json say about those that do not.                 *)
(*                                                                         *)
(* A row of full_legal_arc_registry is spread over one function per field. *)
(* What trajectories, surfaces and priors yield is input of the step that  *)
(* reads it.  Every row is a direct legal arc, so the tests of legality    *)
(* and of a synthetic source never fire and are left out.                  *)
(***************************************************************************)
EXTENDS ArcSelection

CONSTANTS
    BridgeAudits,   \* bridge classes a blocked pair may get; "" not blocked
    Rejections,     \* may step 2 find that a segment should not exist?
    OptionLists,    \* lists of supports step 3 may find for an arc
    Priors,         \* may a prior road be found?
    PathFates,      \* may the arc path run off the surface?
    SlotFates,      \* sets of ends at which a slot interval may be found
    CandidateSets   \* sets of candidate lines that may be offered for a road

Modes == {"plain", "side_constrained", "trend_extended", "rcsdroad_trend"}
Candidate == [mode : Modes, fit : {"inside", "near", "outside"}, cross : BOOLEAN]

ASSUME InputsAssumption ==
    /\ "" \in BridgeAudits /\ Rejections \subseteq BOOLEAN
    /\ Priors \subseteq BOOLEAN /\ PathFates \subseteq BOOLEAN
    /\ \A l \in OptionLists : l \in Seq(Supports)
    /\ SlotFates \subseteq SUBSET Ends
    /\ \A c \in CandidateSets : c \subseteq Candidate

VARIABLES
    phase,      \* the step that runs next
    refused,    \* pairs in segment_should_not_exist left without a segment
    entered,    \* entered_main_flow
    blocked,    \* blocked_diagnostic_only
    bridge,     \* blocked_diagnostic_reason
    hard,       \* hard_block_reason
    gap,        \* topology_gap_decision and topology_gap_reason
    support,    \* the traj_support_* and support_* fields
    prior,      \* prior_support_type is prior_fallback_support
    finalize,   \* same_pair_arc_finalize_allowed
    corridor,   \* corridor identity, state and reason
    slots,      \* the ends whose slot is resolved
    result,     \* reason of build_final_road
    road,       \* the road, or NoRoad
    class,      \* failure_classification of metrics.json
    stage,      \* unbuilt_stage
    reason,     \* unbuilt_reason
    gate        \* gate.json: overall_pass and the arcs with a hard breakpoint

vars == <<phase, refused, entered, blocked, bridge, hard, gap, support, prior,
          finalize, corridor, slots, result, road, class, stage, reason, gate>>
registry == <<refused, entered, blocked, bridge, hard, gap, support, prior,
              finalize>>
outputs == <<class, gate>>

Pairs == {<<Src[a], Dst[a]>> : a \in Arcs}
PairOf(a) == <<Src[a], Dst[a]>>
NoGap == <<"", "">>
NoRoad == [mode |-> "none", fit |-> "none", cross |-> FALSE]
Unresolved == <<"unresolved", "">>
None == [a \in Arcs |-> NoSupport]
All(v) == [a \in Arcs |-> v]

NonUnique == "non_unique_direct_legal_arc"
ShouldNotExist == "src_conflicts_with_unique_unanchored_prior_endpoint"
Controlled(a) == gap[a][1] = Enter

Init ==
    /\ phase = "step2"
    /\ refused = {} /\ entered = {} /\ finalize = {}
    /\ blocked = All(FALSE) /\ bridge = All("") /\ hard = All("")
    /\ gap = All(NoGap) /\ support = None /\ prior = All(FALSE)
    /\ corridor = All(Unresolved) /\ slots = All({})
    /\ result = All("") /\ road = All(NoRoad) /\ class = All("")
    /\ stage = All("") /\ reason = All("")
    /\ gate = [pass |-> FALSE, hard |-> {}]

-----------------------------------------------------------------------------
(* Step 2: build_full_legal_arc_registry.                                  *)

(* A row of segment_should_not_exist, and one of blocked_pair_bridge_audit.*)
RefusalRow(p) == [src_nodeid |-> p[1], dst_nodeid |-> p[2], reason |-> ShouldNotExist]
AuditRow(p, c) == [pair_id |-> p, src_nodeid |-> p[1], dst_nodeid |-> p[2],
                   bridge_classification |-> c]

(* The pairs that _pair_status_indexes finds in rows of either kind.       *)
Indexed(rows) ==
    {row.pair_id : row \in {r \in rows : "pair_id" \in DOMAIN r}}

(* segs: the arcs with a step-2 segment; bad: the refused pairs; audit:    *)
(* the bridge class of every pair.  Segments exist for unique arcs and for *)
(* arcs that differ from a sibling.                                        *)
Register(segs, bad, audit) ==
    LET pending == {a \in segs : SamePair(a, None)}
        hardPairs == Indexed({RefusalRow(p) : p \in bad})
        auditPairs == Indexed({AuditRow(p, audit[p]) : p \in {q \in Pairs : audit[q] # ""}})
        hardOf(a) == IF a \in pending THEN ""
                     ELSE IF ~Unique(a) THEN NonUnique
                     ELSE IF a \notin segs /\ PairOf(a) \in hardPairs
                     THEN ShouldNotExist ELSE ""
        blockedOf(a) == a \notin segs /\ PairOf(a) \in auditPairs
    IN  /\ hard' = [a \in Arcs |-> hardOf(a)]
        /\ blocked' = [a \in Arcs |-> blockedOf(a)]
        /\ bridge' = [a \in Arcs |-> IF a \in pending THEN "" ELSE audit[PairOf(a)]]
        /\ entered' = {a \in Arcs : Unique(a) /\ hardOf(a) = "" /\ ~blockedOf(a)}
        /\ stage' = [a \in Arcs |->
               IF a \in pending THEN "step3_same_pair_evidence_pending"
               ELSE IF hardOf(a) # "" \/ blockedOf(a) THEN "hard_blocked" ELSE ""]
        /\ reason' = [a \in Arcs |->
               IF a \in pending THEN "same_pair_multi_arc_candidate_pending_step3"
               ELSE IF hardOf(a) # "" THEN hardOf(a) ELSE audit[PairOf(a)]]

RegisterArcs ==
    /\ phase = "step2"
    /\ phase' = "step3"
    /\ \E segs \in SUBSET {a \in Arcs : Unique(a) \/ SamePair(a, None)},
          bad \in SUBSET {p \in Pairs : TRUE \in Rejections},
          audit \in [Pairs -> BridgeAudits] :
          /\ Register(segs, bad, audit)
          /\ refused' = {p \in bad : \A a \in segs : PairOf(a) # p}
    /\ UNCHANGED <<gap, support, prior, finalize, corridor, slots, result, road, outputs>>

-----------------------------------------------------------------------------
(* Step 3: build_arc_evidence_attach.                                      *)

TurnedStage(decision) ==
    IF decision[1] = Remain THEN "hard_blocked" ELSE "gap_needs_more_constraints"

EnteringKeepsTurned(targets, admitted, final) == \* mutant: a negative decision is not carried out
    entered \cup admitted \cup final

Entering(targets, admitted, final) ==
    (entered \ targets) \cup admitted \cup final

(* ev: the supports after deconfliction; has: the arcs with a prior; ok:   *)
(* the arcs whose path stays on the surface.                               *)
Attach(ev, has, ok) ==
    LET targets == GapTargets(bridge, ev)
        decision == [a \in Arcs |->
            IF a \in targets THEN GapDecision(a, targets, ev, has) ELSE NoGap]
        admitted == {a \in targets : decision[a][1] = Enter}
        turned == targets \ admitted
        multi == {a \in Arcs : SamePair(a, ev)}
        final == {a \in multi : EvidenceSuffices(ev[a], ok[a])}
        in == Entering(targets, admitted, final)
        cleared == admitted \cup final
        stageOf(a) ==
            IF a \in cleared THEN ""
            ELSE IF a \in turned
            THEN TurnedStage(decision[a])
            ELSE IF a \in multi /\ a \notin entered /\ stage[a] = ""
            THEN "step3_multi_arc_rule_blocked" ELSE stage[a]
        reasonOf(a) ==
            IF a \in cleared THEN ""
            ELSE IF a \in turned THEN decision[a][2]
            ELSE IF a \in multi /\ a \notin entered /\ reason[a] = ""
            THEN "same_pair_multi_arc_evidence_not_sufficient" ELSE reason[a]
        bare == {a \in in : /\ stageOf(a) = "" /\ ~has[a]
                            /\ ev[a].kind = "no_support"}
    IN  /\ gap' = decision
        /\ support' = ev /\ prior' = has
        /\ finalize' = final
        /\ entered' = in
        /\ blocked' = [a \in Arcs |-> blocked[a] /\ a \notin final]
        /\ hard' = [a \in Arcs |-> IF a \in final THEN "" ELSE hard[a]]
        /\ bridge' = [a \in Arcs |-> IF a \in final THEN ""
                                     ELSE IF a \in turned THEN decision[a][2]
                                     ELSE bridge[a]]
        /\ stage' = [a \in Arcs |->
                        IF a \in bare THEN "step3_no_support" ELSE stageOf(a)]
        /\ reason' = [a \in Arcs |->
                        IF a \in bare THEN "no_traj_support" ELSE reasonOf(a)]

AttachEvidence ==
    /\ phase = "step3"
    /\ phase' = "step4"
    /\ \E options \in [Arcs -> OptionLists] : \E pick \in Assignments(options) :
          \E has \in [Arcs -> Priors], ok \in [Arcs -> PathFates] :
             Attach(Chosen(options, pick), has, ok)
    /\ UNCHANGED <<refused, corridor, slots, result, road, outputs>>

-----------------------------------------------------------------------------
(* Step 4: build_corridor_identities, for the working segments, of which   *)
(* step 3 made one per entered arc.                                        *)

ResolveCorridors ==
    /\ phase = "step4"
    /\ phase' = "step5"
    /\ \E seen \in SUBSET entered :
          corridor' = [a \in Arcs |->
              IF a \notin entered THEN Unresolved
              ELSE IF hard[a] # "" THEN <<"unresolved", hard[a]>>
              ELSE Corridor(support[a], prior[a], a \in seen)]
    /\ UNCHANGED <<registry, slots, result, road, stage, reason, outputs>>

(* Step 5: build_slot at both ends.                                        *)
MapSlotsAnyway == \* mutant: a slot is looked for without a corridor
    /\ phase = "step5"
    /\ phase' = "step6"
    /\ slots' \in [Arcs -> SlotFates \cup {{}}]
    /\ \A a \in Arcs : a \in entered <=> slots'[a] \in SlotFates
    /\ UNCHANGED <<registry, corridor, result, road, stage, reason, outputs>>

MapSlots ==
    /\ phase = "step5"
    /\ phase' = "step6"
    /\ \E found \in [entered -> SlotFates] :
          slots' = [a \in Arcs |->
              IF a \in entered /\ corridor[a][1] # "unresolved" THEN found[a] ELSE {}]
    /\ UNCHANGED <<registry, corridor, result, road, stage, reason, outputs>>

-----------------------------------------------------------------------------
(* Step 6: build_final_road, _apply_geometry_refine, write_road_outputs.   *)

FinalGateWholePair(a) == \* mutant: one arc of a pair needs all of them
    CASE ~Unique(a) /\ ~(Siblings(a) \subseteq finalize) -> "final_gate_non_unique_arc"
      [] (Unique(a) \/ Siblings(a) \subseteq finalize) /\ blocked[a] /\ ~Controlled(a) ->
            "final_gate_blocked_diagnostic_only"
      [] OTHER -> ""

(* The tests of step 3's decisions that build_final_road repeats.  Its     *)
(* last one is left out: a segment has a hard_block_reason of its own,     *)
(* besides that of its row, and no step writes it.                         *)
FinalGate(a) ==
    CASE ~Unique(a) /\ a \notin finalize -> "final_gate_non_unique_arc"
      [] (Unique(a) \/ a \in finalize) /\ blocked[a] /\ ~Controlled(a) ->
            "final_gate_blocked_diagnostic_only"
      [] OTHER -> ""

(* The coverage of DriveZone is "inside" from ROAD_MIN_DRIVEZONE_RATIO on  *)
(* and "near" from the relaxed ratio on.                                   *)
AdmissibleAnyGap(c, smallGap) == \* mutant: the gap is not looked at
    /\ ~c.cross
    /\ \/ c.fit = "inside"
       \/ c.fit = "near" /\ c.mode \in {"trend_extended", "rcsdroad_trend"}

Admissible(c, smallGap) ==
    /\ ~c.cross
    /\ \/ c.fit = "inside"
       \/ /\ c.fit = "near" /\ smallGap
          /\ c.mode \in {"trend_extended", "rcsdroad_trend"}

FallbackCrossing(c) == c.mode = "rcsdroad_trend" /\ c.fit # "outside" \* mutant
Fallback(c) == c.mode = "rcsdroad_trend" /\ ~c.cross /\ c.fit # "outside"

(* The roads that may come of the candidates: the first admissible one, or *)
(* else the best rcsdroad fallback; refinement may replace its line by one *)
(* inside DriveZone, never drop it.  The road keeps the candidate's mode   *)
(* (shape_ref_mode).                                                       *)
SmallGap(a) == gap[a] = <<Enter, "gap_small_terminal_gap_candidate">>
Refined(c) == [c EXCEPT !.fit = "inside", !.cross = FALSE]

Roads(a, offered) ==
    LET fit == {c \in offered : Admissible(c, SmallGap(a))}
        used == IF fit # {} THEN fit ELSE {c \in offered : Fallback(c)}
    IN  used \cup {Refined(c) : c \in used}

GeometryReason(offered) ==
    IF offered # {} /\ \A c \in offered : c.cross
    THEN IF \E c \in offered : c.mode = "side_constrained"
         THEN "road_crosses_divstrip_after_side_constrained_generation"
         ELSE "road_crosses_divstrip"
    ELSE "road_outside_drivezone"

(* What build_final_road may return for a: a reason and a road.            *)
Outcomes(a) ==
    IF FinalGate(a) # "" THEN {<<FinalGate(a), NoRoad>>}
    ELSE IF corridor[a][1] = "unresolved" THEN {<<corridor[a][2], NoRoad>>}
    ELSE IF slots[a] # Ends THEN {<<"slot_unresolved", NoRoad>>}
    ELSE UNION {IF Roads(a, offered) = {}
                THEN {<<GeometryReason(offered), NoRoad>>}
                ELSE {<<"built", r>> : r \in Roads(a, offered)} :
                    offered \in CandidateSets}

BuildRoads ==
    /\ phase = "step6"
    /\ phase' = "outputs"
    /\ \E out \in [entered -> UNION {Outcomes(a) : a \in entered}] :
          /\ \A a \in entered : out[a] \in Outcomes(a)
          /\ result' = [a \in Arcs |-> IF a \in entered THEN out[a][1] ELSE ""]
          /\ road' = [a \in Arcs |-> IF a \in entered THEN out[a][2] ELSE NoRoad]
    /\ UNCHANGED <<registry, corridor, slots, stage, reason, outputs>>

Legality == {"final_gate_non_unique_arc", "final_gate_blocked_diagnostic_only",
             NonUnique, ShouldNotExist}

(* classify_segment_outcome.                                               *)
Classify(a) ==
    IF road[a] # NoRoad THEN "built"
    ELSE IF result[a] \in Legality THEN "arc_legality_rejected"
    ELSE IF corridor[a][1] = "unresolved" THEN "unresolved_corridor"
    ELSE IF slots[a] # Ends THEN "slot_mapping_failed"
    ELSE IF result[a] \in {"road_outside_drivezone", "road_crosses_divstrip"}
    THEN "final_geometry_invalid"
    ELSE "should_be_no_geometry_candidate"

(* _finalize_full_legal_arc_registry for an arc that was not built.  The   *)
(* part below "entered" needs metrics, which only working segments have.   *)
FinalBlock(a) ==
    IF blocked[a] /\ ~Controlled(a)
    THEN <<"hard_blocked", IF bridge[a] # "" THEN bridge[a] ELSE "blocked_diagnostic_only">>
    ELSE IF hard[a] # "" THEN <<"hard_blocked", hard[a]>>
    ELSE IF a \notin entered THEN <<stage[a], reason[a]>>
    ELSE IF support[a].kind = "no_support" /\ ~prior[a]
    THEN <<"step3_no_support", "no_traj_support">>
    ELSE IF corridor[a][1] = "unresolved" THEN <<"step3_corridor_unresolved", corridor[a][2]>>
    ELSE IF slots[a] # Ends THEN <<"step4_slot_not_established", "slot_not_established">>
    ELSE <<"step5_geometry_rejected", result[a]>>

(* Every working segment without a road is a hard breakpoint; a patch      *)
(* without working segments fails by a breakpoint that names none.         *)
GateFor(missing) ==
    [pass |-> missing = {} /\ entered # {}, hard |-> missing]

WriteOutputs ==
    /\ phase = "outputs"
    /\ phase' = "done"
    /\ class' = [a \in Arcs |-> IF a \in entered THEN Classify(a) ELSE ""]
    /\ LET built == {a \in entered : Classify(a) = "built"} IN
          /\ stage' = [a \in Arcs |-> IF a \in built THEN "" ELSE FinalBlock(a)[1]]
          /\ reason' = [a \in Arcs |-> IF a \in built THEN "" ELSE FinalBlock(a)[2]]
          /\ gate' = GateFor({a \in entered : road[a] = NoRoad})
    /\ UNCHANGED <<registry, corridor, slots, result, road>>

Next ==
    \/ RegisterArcs \/ AttachEvidence \/ ResolveCorridors
    \/ MapSlots \/ BuildRoads \/ WriteOutputs

Spec == Init /\ [][Next]_vars

-----------------------------------------------------------------------------
(* Properties.                                                             *)

Decided == phase \notin {"step2", "step3"}

(* Every field keeps to the values the code writes.                        *)
TypeOK ==
    /\ phase \in {"step2", "step3", "step4", "step5", "step6", "outputs", "done"}
    /\ refused \subseteq Pairs
    /\ entered \subseteq Arcs /\ finalize \subseteq Arcs
    /\ blocked \in [Arcs -> BOOLEAN] /\ prior \in [Arcs -> BOOLEAN]
    /\ hard \in [Arcs -> {"", NonUnique, ShouldNotExist}]
    /\ DOMAIN bridge = Arcs /\ DOMAIN gap = Arcs
    /\ \A a \in Arcs : gap[a][1] \in {"", Enter, Remain, Ambiguous}
    /\ support \in [Arcs -> Supports \cup {NoSupport}]
    /\ DOMAIN corridor = Arcs
    /\ \A a \in Arcs :
          corridor[a][1] \in {"unresolved", "witness_based", "prior_based"}
    /\ slots \in [Arcs -> SUBSET Ends]
    /\ DOMAIN result = Arcs /\ DOMAIN reason = Arcs
    /\ road \in [Arcs -> Candidate \cup {NoRoad}]
    /\ class \in [Arcs -> {"", "built", "arc_legality_rejected",
                           "unresolved_corridor", "slot_mapping_failed",
                           "final_geometry_invalid",
                           "should_be_no_geometry_candidate"}]
    /\ stage \in [Arcs -> {"", "hard_blocked", "step3_same_pair_evidence_pending",
                           "step3_multi_arc_rule_blocked",
                           "gap_needs_more_constraints", "step3_no_support",
                           "step3_corridor_unresolved",
                           "step4_slot_not_established",
                           "step5_geometry_rejected"}]
    /\ gate \in [pass : BOOLEAN, hard : SUBSET Arcs]

(* After step 3 an arc is in the main flow for one of three reasons and    *)
(* only then: gap control let it in; it is one of several arcs of its pair *)
(* and has evidence of its own; or it is the only arc of its pair, nothing *)
(* blocks it and gap control had nothing to decide.                        *)
EntryIsJustified ==
    Decided => \A a \in Arcs :
        a \in entered <=> \/ Controlled(a)
                          \/ a \in finalize
                          \/ /\ Unique(a) /\ ~blocked[a] /\ hard[a] = ""
                             /\ gap[a] = NoGap

(* What the entry decisions of steps 2 and 3 let in, the final gate of     *)
(* build_final_road never turns down: the two sets of tests agree.         *)
NoLateLegalityRejection ==
    /\ Decided => \A a \in entered : FinalGate(a) = ""
    /\ \A a \in Arcs : class[a] # "arc_legality_rejected"

(* Two arcs of one pair that both enter never rest on one corridor.        *)
SiblingsNeverShareSupport ==
    Decided => \A a, b \in entered :
        b \in Siblings(a) \ {a} => support[a].lane # support[b].lane

(* Of two arcs that come together downstream and that gap control lets in  *)
(* with both anchors, each has a support of its own, told apart by more    *)
(* than its coverage.                                                      *)
MergeSupportsDiffer ==
    \A a, b \in Arcs :
        /\ Controlled(a) /\ b \in MergePeers(a, {c \in Arcs : Controlled(c)})
        /\ support[a].ends = Ends /\ support[b].ends = Ends
        => Signature(support[a]) # Signature(support[b])

(* A published road was earned at every layer: it stays clear of DivStrip, *)
(* both slots were found in a resolved corridor, the corridor rests on     *)
(* what it says it rests on, and below the normal DriveZone coverage it    *)
(* has the shape of an RCSD road, or is one extended over the small gap    *)
(* that gap control let its arc in with.                                   *)
BuiltIsEarned ==
    \A a \in Arcs : class[a] = "built" =>
        /\ a \in entered /\ road[a].fit \in {"inside", "near"} /\ ~road[a].cross
        /\ road[a].fit = "near" => \/ road[a].mode = "rcsdroad_trend"
                                   \/ road[a].mode = "trend_extended" /\ SmallGap(a)
        /\ slots[a] = Ends
        /\ \/ corridor[a][1] = "witness_based" /\ support[a].kind # "no_support"
           \/ corridor[a][1] = "prior_based" /\ prior[a]

(* The layer metrics.json blames for an arc of the main flow and the layer *)
(* the registry blames are the same.                                       *)
LayersAgree ==
    phase = "done" => \A a \in entered :
        <<class[a], stage[a]>> \in
            {<<"built", "">>,
             <<"unresolved_corridor", "step3_no_support">>,
             <<"unresolved_corridor", "step3_corridor_unresolved">>,
             <<"slot_mapping_failed", "step4_slot_not_established">>,
             <<"final_geometry_invalid", "step5_geometry_rejected">>,
             <<"should_be_no_geometry_candidate", "step5_geometry_rejected">>}

(* No direct legal arc is missing from the roads without a stage and a     *)
(* reason in the registry.                                                 *)
NothingSilent ==
    phase = "done" => \A a \in Arcs :
        class[a] # "built" => stage[a] # "" /\ reason[a] # ""

(* gate.json passes exactly when there are arcs in the main flow and all   *)
(* of them were built, and it names those that were not.                   *)
GateIsHonest ==
    phase = "done" =>
        /\ gate.hard = {a \in entered : class[a] # "built"}
        /\ gate.pass <=> entered # {} /\ \A a \in entered : class[a] = "built"

(* The arcs the glossary calls legal: a pair that step 2 found should not  *)
(* exist does not enter the main flow.                                     *)
RefusedStaysOut ==
    \A a \in Arcs : PairOf(a) \in refused => a \notin entered

(* The registry implements the funnel its counts report.                   *)
Level == CASE phase \in {"step2", "step3"} -> 0 [] phase = "step4" -> 1
           [] phase = "step5" -> 2 [] phase = "step6" -> 3
           [] phase = "outputs" -> 4 [] phase = "done" -> 5

Alive == CASE Level = 0 -> Arcs [] Level = 1 -> entered
           [] Level = 2 -> {a \in Arcs : corridor[a][1] # "unresolved"}
           [] Level = 3 -> {a \in Arcs : slots[a] = Ends}
           [] Level \in {4, 5} -> {a \in Arcs : road[a] # NoRoad}

Funnel == INSTANCE ArcFunnel WITH
    level <- Level, alive <- Alive,
    admitted <- IF Level = 0 THEN {} ELSE entered, pass <- gate.pass

ImplementsFunnel == Funnel!Spec
=============================================================================
