-------------------------- MODULE SegmentSelection --------------------------
(***************************************************************************)
(* The rest of step 2 (pipeline.py, _segment_candidates, _cluster_segments *)
(* and _select_segments_same_pair) on the topology that TopologySearch     *)
(* built: candidates from trajectories and prior roads, the gates they     *)
(* pass, the clusters they form on an arc, and the segment an arc gets.    *)
(*                                                                         *)
(* A patch is driven by a record:                                          *)
(*   roads     the prior roads it belongs to                               *)
(*   trajs     what each trajectory crosses, in order, once each           *)
(*   reversed  the roads that were drawn against their direction           *)
(*   raw       roads that begin at an alias: its id by the id of the road  *)
(*   anchor    for roads that do not join cross sections: the pair they    *)
(*             are anchored to, or <<>>                                    *)
(*   strict    only neighbours on a trajectory are paired                  *)
(*   one, scoped, allow   exceptions for lines that cross one other cross  *)
(*             section: for all pairs, for listed ones, and their list     *)
(*   bridge    the pairs of the bridge gate                                *)
(* A line is what the rules compare: the fault that the cross filter finds *)
(* first, the other cross sections it crosses, its offset and where it     *)
(* lies, the percentage inside DriveZone and of its length to the pair's.  *)
(***************************************************************************)
EXTENDS TopologySearch

CONSTANTS
    Drives, Lines,
    TopK,          \* STEP2_SAME_PAIR_TOPK
    MaxOther,      \* SEGMENT_MAX_OTHER_XSEC_CROSSINGS
    Offset, Near,  \* SEGMENT_CLUSTER_OFFSET_M, SEGMENT_CLUSTER_LINE_DIST_M
    Support1, Zone1, Length1  \* STEP2_CROSS1_...: least support, zone, most length

VARIABLES
    drive, step,
    cands,     \* the raw candidates
    fate,      \* by candidate: why it was dropped, or ""
    arcOf,     \* by candidate: the arc it was assigned to, or NoArc
    selected,  \* the segments that were selected
    rest       \* by segment that was not: dropped_reason

topologyVars == <<roads, phase, edges, arcs, todo, cur, traces, anchors, cut>>
segmentVars == <<drive, step, cands, fate, arcOf, selected, rest>>
allVars == <<topologyVars, segmentVars>>

NoArc == [path |-> <<>>, nodes |-> <<>>]
NoDrive == [trajs |-> <<>>]

SegmentInit ==
    /\ Init
    /\ drive = NoDrive /\ step = "wait" /\ cands = {}
    /\ fate = <<>> /\ arcOf = <<>> /\ selected = {} /\ rest = <<>>
-----------------------------------------------------------------------------
(* Every trajectory gives a candidate for every two cross sections in the  *)
(* order it meets them, every road one for the ends as it was drawn.  A    *)
(* candidate's id is its place in the list, where the roads come first.    *)
FromTrajs(d) ==
    UNION {UNION {{[id |-> 1000 * t + 10 * i + j, source |-> "traj", traj |-> t, road |-> 0,
                    src |-> d.trajs[t][i], dst |-> d.trajs[t][j], gap |-> j - i] :
                        i \in 1..(j - 1)} : j \in DOMAIN d.trajs[t]} : t \in DOMAIN d.trajs}

FromRoads(d) ==
    {[id |-> r.id, source |-> "prior", traj |-> 0, road |-> r.id,
      src |-> IF r.id \in d.reversed THEN r.to ELSE r.from,
      dst |-> IF r.id \in d.reversed THEN r.from ELSE r.to, gap |-> 0] : r \in d.roads}

Generate ==
    /\ phase = "done" /\ step = "wait" /\ step' = "pairing"
    /\ \E d \in {e \in Drives : e.roads = roads} :
        LET raw == FromTrajs(d) \cup FromRoads(d)
        IN  /\ drive' = d
            /\ \E line \in [{c.id : c \in raw} -> Lines] :
                  cands' = {[id |-> c.id, source |-> c.source, traj |-> c.traj, road |-> c.road,
                             src |-> c.src, dst |-> c.dst, gap |-> c.gap, line |-> line[c.id]] :
                                c \in raw}
            /\ fate' = [i \in {c.id : c \in raw} |-> ""]
            /\ arcOf' = [i \in {c.id : c \in raw} |-> NoArc]
    /\ UNCHANGED <<topologyVars, selected, rest>>

(* Numbers are what the rules compare them as, no trajectory meets a cross *)
(* section twice, a road or a place on a trajectory has one id, and none   *)
(* of the faults of a line has the name of another reason.                 *)
ASSUME SegmentAssumption ==
    /\ TopK \in Nat \ {0} /\ Offset \in Nat /\ Near \in Nat
    /\ \A l \in Lines :
          /\ l.others \in Nat /\ l.offset \in Int /\ l.place \in Int
          /\ l.zone \in Int /\ l.length \in Int
          /\ l.fault # "src_conflicts_with_unique_unanchored_prior_endpoint"
    /\ \A d \in Drives :
          /\ d.trajs \in Seq(Seq(Cross))
          /\ \A t \in DOMAIN d.trajs : \A i, j \in DOMAIN d.trajs[t] :
                d.trajs[t][i] = d.trajs[t][j] => i = j
          /\ \A b, c \in FromTrajs(d) \cup FromRoads(d) : b.id = c.id => b = c
          /\ \A c \in FromTrajs(d) : c.id \in Nat

Pair(c) == <<c.src, c.dst>>
Left == {c \in cands : fate[c.id] = ""}
IdsOf(S) == {c.id : c \in S}
-----------------------------------------------------------------------------
(* The pairing filter.                                                     *)
Traced(p) == \E t \in traces : t.src = p[1] /\ t.dst = p[2]
Loose(c) == c.source = "prior" /\ ~(c.src \in Cross /\ c.dst \in Cross)

(* A pair of the bridge gate is refused in any case, also as no direct     *)
(* legal arc when it is one.  Arcs in a row or a trace make it a bridge.   *)
BridgeReason(p) ==
    IF /\ p \notin ArcPairs(arcs)
       /\ WithinHops(ArcPairs(arcs), p[1], p[2], BridgeHops) \/ Traced(p)
    THEN "synthetic_arc_not_allowed" ELSE "pair_not_direct_legal_arc"

PairingReason(c) ==
    CASE Loose(c) -> IF drive.anchor[c.road] = <<>> THEN "prior_endpoints_not_anchored" ELSE ""
      [] c.source = "traj" /\ drive.strict /\ c.gap > 1 ->
            IF Pair(c) \in drive.bridge THEN BridgeReason(Pair(c))
            ELSE IF Traced(Pair(c)) THEN "trace_only_reachability"
            ELSE IF <<c.dst, c.src>> \in ArcPairs(arcs) THEN "directed_path_not_supported"
            ELSE "non_adjacent_pair_blocked"
      [] OTHER -> ""

Anchored(c) ==
    IF Loose(c) /\ drive.anchor[c.road] # <<>>
    THEN [c EXCEPT !.src = drive.anchor[c.road][1], !.dst = drive.anchor[c.road][2]] ELSE c

Pairing ==
    /\ step = "pairing" /\ step' = "gate"
    /\ fate' = [i \in DOMAIN fate |-> PairingReason(CHOOSE c \in cands : c.id = i)]
    /\ cands' = {Anchored(c) : c \in cands}
    /\ UNCHANGED <<topologyVars, drive, arcOf, selected, rest>>

(* The semantic gate: the production gate of the topology, and the arc: of *)
(* several between a pair the one whose line is nearest.  A patch without  *)
(* arcs has no gate.                                                       *)
ArcsOf(p) == {e \in arcs : <<e.from, e.to>> = p}

Gate ==
    /\ step = "gate" /\ step' = "filter"
    /\ fate' = [i \in DOMAIN fate |->
                    LET c == CHOOSE d \in cands : d.id = i
                    IN  IF fate[i] # "" THEN fate[i] ELSE ProductionGate(c.src, c.dst)]
    /\ LET in == {c \in Left : ArcsOf(Pair(c)) # {} /\ ProductionGate(c.src, c.dst) = ""}
       IN  \E nearest \in [IdsOf(in) -> UNION {ArcsOf(Pair(c)) : c \in in}] :
              /\ \A c \in in : nearest[c.id] \in ArcsOf(Pair(c))
              /\ arcOf' = [i \in DOMAIN fate |-> IF i \in IdsOf(in) THEN nearest[i] ELSE NoArc]
    /\ UNCHANGED <<topologyVars, drive, cands, selected, rest>>
-----------------------------------------------------------------------------
(* ownership_gate_reason.  The priors that were not anchored compete under *)
(* the id that their road begins at, an alias included.                    *)
RawBegin(c) == IF c.road \in DOMAIN drive.raw THEN drive.raw[c.road] ELSE c.src

Rivals(n) ==
    {<<RawBegin(c), c.dst>> : c \in {d \in cands : /\ fate[d.id] = "prior_endpoints_not_anchored"
                                                 /\ RawBegin(d) = n}}

OnArc(c) == {d \in Left : Pair(d) = Pair(c) /\ arcOf[d.id] = arcOf[c.id]}

LosesToAnchored(c) == \* mutant: a prior road on the arc does not shield it
    /\ c.source = "traj" /\ c.gap = 1
    /\ Cardinality({d.traj : d \in {e \in OnArc(c) : e.source = "traj"}}) <= 1
    /\ Cardinality(Rivals(c.src)) = 1
    /\ \A r \in Rivals(c.src) :
          r # Pair(c) /\ arcOf[c.id].nodes = <<c.src, r[2], c.dst>>

LosesToPrior(c) ==
    /\ c.source = "traj" /\ c.gap = 1
    /\ \A d \in OnArc(c) : d.source = "traj"
    /\ Cardinality({d.traj : d \in OnArc(c)}) <= 1
    /\ Cardinality(Rivals(c.src)) = 1
    /\ \A r \in Rivals(c.src) :
          r # Pair(c) /\ arcOf[c.id].nodes = <<c.src, r[2], c.dst>>

CrossReason(c) ==
    IF c.line.fault # "" THEN c.line.fault
    ELSE IF c.line.others > MaxOther THEN "segment_crosses_too_many_other_xsecs"
    ELSE IF /\ c.line.others = 1 /\ ~drive.one /\ drive.scoped
            /\ Pair(c) \notin drive.allow
    THEN "cross1_pair_not_allowlisted" ELSE ""

Filter ==
    /\ step = "filter" /\ step' = "select"
    /\ fate' = [i \in DOMAIN fate |->
                    LET c == CHOOSE d \in cands : d.id = i
                    IN  IF fate[i] # "" THEN fate[i]
                        ELSE IF LosesToPrior(c)
                        THEN "src_conflicts_with_unique_unanchored_prior_endpoint"
                        ELSE CrossReason(c)]
    /\ UNCHANGED <<topologyVars, drive, cands, arcOf, selected, rest>>
-----------------------------------------------------------------------------
(* _cluster_segments, arc by arc: in order of the offset, a candidate joins *)
(* the first cluster whose first member is near.                           *)
NearTo(c, d) ==
    /\ c.line.offset - d.line.offset <= Offset /\ d.line.offset - c.line.offset <= Offset
    /\ c.line.place - d.line.place <= Near /\ d.line.place - c.line.place <= Near

Join(clusters, c) ==
    LET fits == {k \in DOMAIN clusters : NearTo(c, clusters[k][1])}
    IN  IF fits = {} THEN Append(clusters, <<c>>)
        ELSE LET k == CHOOSE k \in fits : \A l \in fits : k <= l
             IN  [clusters EXCEPT ![k] = Append(@, c)]

ByOffset(S) ==
    Sorted(S, LAMBDA c, d : \/ c.line.offset < d.line.offset
                            \/ c.line.offset = d.line.offset /\ c.id < d.id)

Clusters(S) ==
    LET clusters[k \in 0..Cardinality(S)] ==
            IF k = 0 THEN <<>> ELSE Join(clusters[k - 1], ByOffset(S)[k])
    IN  clusters[Cardinality(S)]

Part == 12  \* an average is kept in twelfths: exact for up to four members
Average(values) == (Part * SumFunction(values)) \div Len(values)

(* The line of a cluster is that of a trajectory, if it has any, and of    *)
(* those the longest.                                                      *)
Representative(q) ==
    LET Score(c) == (IF c.source = "traj" THEN 10000 ELSE 0) + c.line.length
    IN  q[CHOOSE i \in DOMAIN q : \A j \in DOMAIN q :
              \/ Score(q[i]) > Score(q[j])
              \/ Score(q[i]) = Score(q[j]) /\ i <= j]

SegmentOfFirst(q, k) == \* mutant: the crossings are those of the line that is drawn
    [src |-> q[1].src, dst |-> q[1].dst, arc |-> arcOf[q[1].id], members |-> IdsOf(Range(q)),
     line |-> Representative(q).line, others |-> Representative(q).line.others, count |-> Len(q),
     zone |-> Average([i \in DOMAIN q |-> q[i].line.zone]),
     offset |-> Average([i \in DOMAIN q |-> q[i].line.offset]), rank |-> k]

(* A segment counts the crossings of the best member of its cluster, which *)
(* need not be the one whose line it has.                                  *)
Segment(q, k) ==
    [src |-> q[1].src, dst |-> q[1].dst, arc |-> arcOf[q[1].id], members |-> IdsOf(Range(q)),
     line |-> Representative(q).line, others |-> Min({c.line.others : c \in Range(q)}),
     count |-> Len(q), zone |-> Average([i \in DOMAIN q |-> q[i].line.zone]),
     offset |-> Average([i \in DOMAIN q |-> q[i].line.offset]), rank |-> k]

Segments(S) == {Segment(Clusters(S)[k], k) : k \in DOMAIN Clusters(S)}
-----------------------------------------------------------------------------
(* _select_segments_same_pair for the segments of an arc.  None of them    *)
(* crosses a divider: the filter took those away.                          *)
Key(s) ==
    <<s.others, 0 - s.count, 0 - s.zone, s.line.length,
      IF s.offset < 0 THEN 0 - s.offset ELSE s.offset, s.offset, s.rank>>

Better(s, t) ==
    \E i \in DOMAIN Key(s) : /\ Key(s)[i] < Key(t)[i]
                             /\ \A j \in 1..(i - 1) : Key(s)[j] = Key(t)[j]

Cross1Reason(s, group) ==
    LET clean == \E t \in group : t.others = 0
        listed == drive.scoped /\ <<s.src, s.dst>> \in drive.allow
    IN  CASE s.others = 0 -> ""
          [] s.others # 0 /\ ~drive.one /\ ~listed -> "cross1_disabled"
          [] s.others # 0 /\ drive.one /\ s.count < Support1 -> "cross1_support_too_low"
          [] s.others # 0 /\ ~drive.one /\ listed /\ \E t \in group : Better(t, s) ->
                "cross1_pair_scoped_not_best_rank"
          [] OTHER ->
                IF s.zone < Part * Zone1 THEN "cross1_drivezone_ratio_too_low"
                ELSE IF s.line.length > Length1 THEN "cross1_length_ratio_too_high"
                ELSE IF clean THEN "cross1_has_cross0_alternative" ELSE ""

DroppedReason(s, group) ==
    LET ahead == {t \in group : Better(t, s) /\ Cross1Reason(t, group) = ""}
    IN  IF Cross1Reason(s, group) # "" THEN Cross1Reason(s, group)
        ELSE IF Cardinality(ahead) >= TopK THEN "same_pair_topk_exceeded" ELSE ""

Select ==
    /\ step = "select" /\ step' = "end"
    /\ LET groups == {Segments(OnArc(c)) : c \in Left}
           reason == [s \in UNION groups |->
                         DroppedReason(s, CHOOSE g \in groups : s \in g)]
       IN  /\ selected' = {s \in DOMAIN reason : reason[s] = ""}
           /\ rest' = [s \in {t \in DOMAIN reason : reason[t] # ""} |-> reason[s]]
    /\ UNCHANGED <<topologyVars, drive, cands, fate, arcOf>>

SegmentNext ==
    \/ Next /\ UNCHANGED segmentVars
    \/ Generate \/ Pairing \/ Gate \/ Filter \/ Select

SegmentSpec == SegmentInit /\ [][SegmentNext]_allVars
-----------------------------------------------------------------------------
(* Properties.                                                             *)

(* Every candidate is dropped with a reason or part of one segment, and    *)
(* evidence is never lost between the two: an arc with a candidate that    *)
(* passed every filter and crosses no other cross section gets a segment.  *)
(* The candidates of one arc share their fate at the gate of the owners,   *)
(* which looks at them one by one (ownership_gate_reason).                 *)
EvidenceGetsASegment ==
    /\ step = "end" =>
        \A c \in cands :
            LET mine == {s \in selected \cup DOMAIN rest : c.id \in s.members}
            IN  /\ Cardinality(mine) = (IF fate[c.id] = "" THEN 1 ELSE 0)
                /\ (fate[c.id] = "" /\ c.line.others = 0) =>
                      \E s \in selected : s.arc = arcOf[c.id] /\ <<s.src, s.dst>> = Pair(c)
    /\ \A c, d \in cands :
        (/\ step \in {"select", "end"} /\ arcOf[c.id] # NoArc
         /\ arcOf[c.id] = arcOf[d.id] /\ Pair(c) = Pair(d)
         /\ fate[c.id] = "src_conflicts_with_unique_unanchored_prior_endpoint")
        => fate[d.id] = fate[c.id]
=============================================================================
