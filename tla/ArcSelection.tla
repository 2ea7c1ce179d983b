---------------------------- MODULE ArcSelection ----------------------------
(***************************************************************************)
(* The rules that decide which direct legal arcs of a patch may become     *)
(* roads: the arc structure (arc_selection_rules.py), the deconfliction of *)
(* supports among arcs of one pair, the topology-gap decision              *)
(* (step3_arc_evidence.py) and the corridor rule (step3_corridor_identity  *)
(* .py).  All of it is without state; ArcFlow runs the stages on it.       *)
(*                                                                         *)
(* Geometry is abstracted to what the rules compare: an arc has a Path     *)
(* (edges, nodes and line), two arcs may share their way downstream, a     *)
(* support is a trajectory (traj) in a corridor cluster (lane) that is     *)
(* anchored at some ends of its arc (ends), at places of its own (at).     *)
(***************************************************************************)
EXTENDS Integers, FiniteSets, Sequences, FiniteSetsExt

CONSTANTS
    Arcs,           \* the direct topology arcs of the patch
    Src, Dst,       \* their end nodes
    Path,           \* Path[a]: edges, node path and line of a
    Shares,         \* pairs of arcs with a nontrivial shared downstream signal
    GapControlled,  \* arcs whose pair is under topology-gap control
    Supports        \* the trajectory supports that step 3 may find

Ends == {"src", "dst"}
Kinds == {"terminal_crossing_support", "stitched_arc_support",
          "partial_arc_support"}
NoSupport == [kind |-> "no_support", cov |-> 0, ends |-> {},
              traj |-> "none", lane |-> "none", at |-> "none"]

ASSUME ArcsAssumption ==
    /\ IsFiniteSet(Arcs)
    /\ DOMAIN Src = Arcs /\ DOMAIN Dst = Arcs /\ DOMAIN Path = Arcs
    /\ GapControlled \subseteq Arcs
    /\ Shares \subseteq Arcs \X Arcs
    /\ \A a, b \in Arcs : <<a, b>> \in Shares => <<b, a>> \in Shares
ASSUME SupportsAssumption ==
    \A s \in Supports :
        /\ DOMAIN s = DOMAIN NoSupport
        /\ s.kind \in Kinds /\ s.cov \in 0..100 /\ s.ends \subseteq Ends

(* Thresholds of the code, in percent of the arc covered.                  *)
MinCoverage == 35
PartialCoverage == 50
SmallGapCoverage == 72
CorridorPartialCoverage == 45
CorridorStitchedCoverage == 72

Siblings(a) == {b \in Arcs : Src[b] = Src[a] /\ Dst[b] = Dst[a]}
Unique(a) == Siblings(a) = {a}

-----------------------------------------------------------------------------
(* Structure.  evidence[a] is the support of a, NoSupport before step 3.   *)

Distinguishable(a, b, evidence) ==
    /\ a # b
    /\ \/ Path[a] # Path[b]
       \/ evidence[a].traj # evidence[b].traj
       \/ evidence[a].lane # evidence[b].lane
       \/ evidence[a].ends # evidence[b].ends
       \/ evidence[a].at # evidence[b].at

SamePair(a, evidence) ==
    \E b \in Siblings(a) : Distinguishable(a, b, evidence)

(* The arcs of rows that reach the end node of a over the same way.        *)
MergePeers(a, rows) ==
    {b \in rows : /\ Dst[b] = Dst[a] /\ Src[b] # Src[a]
                  /\ Unique(b) /\ <<a, b>> \in Shares}

Independent(s) ==
    s.kind # "no_support" /\ s.cov >= MinCoverage /\ s.ends = Ends

(* What supports of different arcs are told apart by: all but how much of  *)
(* its arc a support covers.                                               *)
Signature(s) == [s EXCEPT !.cov = 0]

(* allow_multiple_upstream_arcs: every arc of the merge has support of its *)
(* own, and no two of them the same.                                       *)
AllowUpstream(a, rows, evidence) ==
    LET group == {a} \cup MergePeers(a, rows)
    IN  /\ MergePeers(a, rows) # {}
        /\ \A b \in group : Independent(evidence[b])
        /\ \A b, c \in group : b # c => Signature(evidence[b]) # Signature(evidence[c])

-----------------------------------------------------------------------------
(* Deconfliction of the supports of one pair.  options[a] are the supports *)
(* found for a, best first; pick[a] is the one assigned, 0 for none.       *)

Chosen(options, pick) ==
    [a \in Arcs |-> IF pick[a] = 0 THEN NoSupport ELSE options[a][pick[a]]]

CompatibleAlways(group, options, pick) == TRUE \* mutant: used_keys not looked at

(* Two arcs of a pair never use supports of one corridor cluster.          *)
Compatible(group, options, pick) ==
    \A a, b \in group :
        a # b /\ pick[a] # 0 /\ pick[b] # 0
            => options[a][pick[a]].lane # options[b][pick[b]].lane

Served(group, pick) == Cardinality({a \in group : pick[a] # 0})
Ranks(group, pick) == MapThenSumSet(LAMBDA a : pick[a], group)

(* More arcs served first, better ranks second.  Distance and coverage     *)
(* break the remaining ties: any of the best assignments may be taken.     *)
Better(group, p, q) ==
    \/ Served(group, p) > Served(group, q)
    \/ /\ Served(group, p) = Served(group, q)
       /\ Ranks(group, p) < Ranks(group, q)

(* A unique arc keeps the best support found for it.                       *)
Assignments(options) ==
    LET most == Max({Len(options[a]) : a \in Arcs} \cup {0})
        picks == {p \in [Arcs -> 0..most] :
                     /\ \A a \in Arcs :
                           /\ p[a] <= Len(options[a])
                           /\ Unique(a) => p[a] = Min({1, Len(options[a])})
                     /\ \A a \in Arcs : Compatible(Siblings(a), options, p)}
    IN  {p \in picks : \A q \in picks, a \in Arcs : ~Better(Siblings(a), q, p)}

(* fallback_based of _multi_arc_evidence_mode; witness_based needs a       *)
(* corridor identity, which no row has before step 4.                      *)
EvidenceSuffices(s, pathOk) == s.ends = Ends /\ pathOk

-----------------------------------------------------------------------------
(* Topology-gap control: classify_topology_gap_rows.                       *)

GapTargets(bridge, evidence) ==
    {a \in GapControlled :
        /\ Unique(a)
        /\ \/ bridge[a] = "topology_gap_unresolved"
           \/ evidence[a].kind # "no_support" /\ evidence[a].cov > 0}

Enter == "gap_enter_mainflow"
Remain == "gap_remain_blocked"
Ambiguous == "gap_ambiguous_need_more_constraints"

(* The decision on target a and its reason, first rule that applies.       *)
GapDecision(a, targets, evidence, prior) ==
    LET s == evidence[a]
        rivals == {b \in targets : Dst[b] = Dst[a]}
    IN  IF s.kind = "no_support" /\ ~prior[a]
            THEN <<Remain, "gap_support_insufficient">>
        ELSE IF /\ s.kind = "partial_arc_support"
                /\ Cardinality(s.ends) = 1
                /\ s.cov >= SmallGapCoverage
            THEN <<Enter, "gap_small_terminal_gap_candidate">>
        ELSE IF s.ends # Ends
            THEN <<Ambiguous, "gap_anchor_unreliable">>
        ELSE IF AllowUpstream(a, targets, evidence)
            THEN <<Enter, "gap_should_enter_mainflow">>
        ELSE IF MergePeers(a, targets) # {}
            THEN <<Ambiguous, "gap_merge_support_not_independent">>
        ELSE IF Cardinality(rivals) >= 2
            THEN <<Ambiguous, "gap_competing_arc_conflict">>
        ELSE IF \/ s.kind # "partial_arc_support" /\ s.cov >= MinCoverage
                \/ s.kind = "partial_arc_support" /\ s.cov >= PartialCoverage
            THEN <<Enter, "gap_should_enter_mainflow">>
        ELSE IF s.cov > 0
            THEN <<Ambiguous, "gap_support_insufficient">>
        ELSE IF prior[a]
            THEN <<Ambiguous, "gap_slot_ambiguous">>
        ELSE <<Remain, "gap_support_insufficient">>

-----------------------------------------------------------------------------
(* The corridor rule of build_corridor_identities; seen says whether the   *)
(* witness of the segment was selected.                                    *)

Corridor(s, prior, seen) ==
    CASE s.kind = "terminal_crossing_support" -> <<"witness_based", s.kind>>
      [] s.kind = "partial_arc_support" ->
            IF seen \/ s.cov >= CorridorPartialCoverage
            THEN <<"witness_based", s.kind>>
            ELSE <<"unresolved", "insufficient_partial_support">>
      [] s.kind = "stitched_arc_support" ->
            IF seen \/ s.cov >= CorridorStitchedCoverage
            THEN <<"witness_based", s.kind>>
            ELSE <<"unresolved", "stitch_failed">>
      [] s.kind = "no_support" ->
            IF prior THEN <<"prior_based", "same_arc_prior_fallback">>
                     ELSE <<"unresolved", "no_traj_support">>
=============================================================================
