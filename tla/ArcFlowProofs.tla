--------------------------- MODULE ArcFlowProofs ---------------------------
(***************************************************************************)
(* Theorems about ArcFlow and ArcAudit, for any arcs, supports, priors and *)
(* outcomes: who enters the main flow and why, that every later layer and  *)
(* report agrees with that, that the registry is a funnel, and that the    *)
(* audit, the reviews and the obligations say of the run what it was.      *)
(***************************************************************************)
EXTENDS ArcAudit, FiniteSetTheorems, WellFoundedInduction, TLAPS

Phases == {"step2", "step3", "step4", "step5", "step6", "outputs", "done"}
Unseen == phase = "step2"
Resolved == phase \in {"step5", "step6", "outputs", "done"}
Mapped == phase \in {"step6", "outputs", "done"}
Offered == phase \in {"outputs", "done"}

Shape ==
    /\ phase \in Phases
    /\ entered \subseteq Arcs /\ finalize \subseteq Arcs
    /\ \A a \in Arcs : blocked[a] \in BOOLEAN
    /\ \A a \in Arcs : support[a] \in Supports \cup {NoSupport}
    /\ phase # "done" => class = All("") /\ gate.pass = FALSE

(* Until gap control has run, only a pair of several arcs is hard blocked  *)
(* and the main flow is what nothing blocks.                               *)
Registered ==
    /\ \A a \in Arcs : hard[a] # "" => ~Unique(a)
    /\ phase \in {"step2", "step3"} => gap = All(NoGap)
    /\ phase = "step3" =>
          entered = {a \in Arcs : Unique(a) /\ hard[a] = "" /\ ~blocked[a]}

(* What the entry decision leaves to the later layers.                     *)
Admitted ==
    Decided =>
        /\ EntryIsJustified
        /\ \A a \in Arcs : Controlled(a) => Unique(a)
        /\ \A a \in finalize :
              ~blocked[a] /\ ~Unique(a) /\ hard[a] = "" /\ support[a].ends = Ends
        /\ \A a, b \in Arcs :
              /\ b \in Siblings(a) \ {a}
              /\ support[a] # NoSupport /\ support[b] # NoSupport
              => support[a].lane # support[b].lane
        /\ MergeSupportsDiffer

(* What is left outside has a stage and a reason.                          *)
Outside ==
    phase \notin {"step2", "done"} =>
        \A a \in Arcs \ entered : stage[a] # "" /\ reason[a] # ""

CorridorFits(a) ==
    \/ corridor[a][1] = "witness_based" /\ support[a].kind # "no_support"
    \/ corridor[a][1] = "prior_based" /\ prior[a]
    \/ /\ corridor[a][1] = "unresolved"
       /\ corridor[a][2] \in {"insufficient_partial_support", "stitch_failed",
                              "no_traj_support"}

(* Every layer only holds what the one before it let through.              *)
Layered ==
    /\ \A a \in Arcs : corridor[a][1] # "unresolved" => Resolved /\ a \in entered
    /\ Resolved => \A a \in entered : CorridorFits(a)
    /\ Mapped => \A a \in Arcs :
          slots[a] = Ends => corridor[a][1] # "unresolved"
    /\ Offered => \A a \in entered : <<result[a], road[a]>> \in Outcomes(a)
    /\ Offered => \A a \in Arcs \ entered : road[a] = NoRoad

Reported ==
    phase = "done" =>
        /\ \A a \in Arcs : class[a] = IF a \in entered THEN Classify(a) ELSE ""
        /\ LayersAgree /\ NothingSilent
        /\ gate = GateFor({a \in entered : road[a] = NoRoad})

IInv == Shape /\ Registered /\ Admitted /\ Outside /\ Layered /\ Reported

-----------------------------------------------------------------------------
(* Facts about the rules.                                                  *)

LEMMA SupportKind ==
    ASSUME NEW s \in Supports \cup {NoSupport}
    PROVE  s.kind \in Kinds \cup {"no_support"}
BY SupportsAssumption DEF NoSupport

LEMMA GapTargetsUnique ==
    ASSUME NEW bridgeOf, NEW ev, NEW a \in GapTargets(bridgeOf, ev)
    PROVE  a \in Arcs /\ Unique(a)
BY ArcsAssumption DEF GapTargets

(* A decision is never the empty one, and every negative one has a reason. *)
LEMMA DecisionFacts ==
    ASSUME NEW a, NEW targets, NEW ev, NEW has
    PROVE  LET d == GapDecision(a, targets, ev, has)
           IN  /\ d = <<d[1], d[2]>>
               /\ d[1] \in {Enter, Remain, Ambiguous}
               /\ d[2] # ""
BY DEF GapDecision, Enter, Remain, Ambiguous

LEMMA EndsCardinality == Cardinality(Ends) = 2
<1>1. Cardinality({"src"}) = 1 /\ IsFiniteSet({"src"})
  BY FS_Singleton
<1>2. Ends = {"src"} \cup {"dst"} /\ "dst" \notin {"src"}
  BY DEF Ends
<1> QED
  BY <1>1, <1>2, FS_AddElement

(* Gap control lets an arc with both anchors in beside arcs it meets       *)
(* downstream only if they rest on different supports.                     *)
LEMMA EnterMerges ==
    ASSUME NEW a, NEW targets, NEW ev, NEW has,
           GapDecision(a, targets, ev, has)[1] = Enter,
           ev[a].ends = Ends,
           NEW b \in MergePeers(a, targets)
    PROVE  b # a => Signature(ev[a]) # Signature(ev[b])
<1>1. ~(Cardinality(ev[a].ends) = 1)
  BY EndsCardinality
<1>2. MergePeers(a, targets) # {}
  OBVIOUS
<1>3. AllowUpstream(a, targets, ev)
  BY <1>1, <1>2 DEF GapDecision, Enter, Remain, Ambiguous
<1> QED
  BY <1>3 DEF AllowUpstream

LEMMA SamePairNotUnique ==
    ASSUME NEW a \in Arcs, NEW ev, SamePair(a, ev)
    PROVE  ~Unique(a)
BY DEF SamePair, Distinguishable, Unique

(* Assigned supports of one pair lie in different corridor clusters.       *)
LEMMA AssignedLanes ==
    ASSUME NEW options, NEW pick \in Assignments(options),
           NEW a \in Arcs, NEW b \in Siblings(a) \ {a},
           Chosen(options, pick)[a] # NoSupport, Chosen(options, pick)[b] # NoSupport
    PROVE  Chosen(options, pick)[a].lane # Chosen(options, pick)[b].lane
<1>1. a \in Siblings(a) /\ b \in Siblings(a) /\ b \in Arcs /\ a # b
  BY DEF Siblings
<1>2. Compatible(Siblings(a), options, pick)
  BY DEF Assignments
<1>3. pick[a] # 0 /\ pick[b] # 0
  BY <1>1 DEF Chosen
<1>4. options[a][pick[a]].lane # options[b][pick[b]].lane
  BY <1>1, <1>2, <1>3 DEF Compatible
<1> QED
  BY <1>1, <1>3, <1>4 DEF Chosen

(* An assigned support is one of those found.                              *)
LEMMA ChosenSupport ==
    ASSUME NEW options \in [Arcs -> OptionLists], NEW pick \in Assignments(options),
           NEW a \in Arcs
    PROVE  Chosen(options, pick)[a] \in Supports \cup {NoSupport}
<1>1. options[a] \in Seq(Supports)
  BY InputsAssumption
<1>2. pick[a] <= Len(options[a]) /\ pick[a] \in Nat
  <2>1. PICK most : pick \in [Arcs -> 0..most]
    BY DEF Assignments
  <2>2. pick[a] \in 0..most
    BY <2>1
  <2>3. pick[a] <= Len(options[a])
    BY DEF Assignments
  <2> QED
    BY <2>2, <2>3
<1>3. CASE pick[a] = 0
  BY <1>3 DEF Chosen
<1>4. CASE pick[a] # 0
  <2>1. pick[a] \in 1..Len(options[a])
    BY <1>1, <1>2, <1>4
  <2>2. options[a][pick[a]] \in Supports
    BY <1>1, <2>1
  <2> QED
    BY <1>4, <2>2 DEF Chosen
<1> QED
  BY <1>3, <1>4

(* The rows that say which pairs should not exist carry no pair_id, so     *)
(* they are never found; the bridge audit is.                              *)
LEMMA RefusalsNotFound ==
    ASSUME NEW bad PROVE Indexed({RefusalRow(p) : p \in bad}) = {}
<1>1. \A p \in bad : "pair_id" \notin DOMAIN RefusalRow(p)
  BY DEF RefusalRow
<1> QED
  BY <1>1 DEF Indexed

LEMMA AuditsFound ==
    ASSUME NEW audit, NEW p,
           p \in Indexed({AuditRow(q, audit[q]) : q \in {r \in Pairs : audit[r] # ""}})
    PROVE  audit[p] # ""
<1>1. \A q : AuditRow(q, audit[q]).pair_id = q
  BY DEF AuditRow
<1> QED
  BY <1>1 DEF Indexed

-----------------------------------------------------------------------------
(* The inductive invariant.                                                *)

LEMMA InvInit == Init => IInv
<1> SUFFICES ASSUME Init PROVE IInv
  OBVIOUS
<1>1. Shape
  BY DEF Init, Shape, Phases, All, None
<1>2. Registered
  BY DEF Init, Registered, All
<1>3. Admitted /\ Outside /\ Reported
  BY DEF Init, Admitted, Decided, Outside, Reported
<1>4. \A a \in Arcs : corridor[a][1] = "unresolved"
  BY DEF Init, All, Unresolved
<1>5. Layered
  BY <1>4 DEF Init, Layered, Resolved, Mapped, Offered
<1> QED
  BY <1>1, <1>2, <1>3, <1>5 DEF IInv

LEMMA RegisterInv ==
    ASSUME IInv, RegisterArcs
    PROVE  IInv'
<1>1. PICK segs \in SUBSET {a \in Arcs : Unique(a) \/ SamePair(a, None)},
           bad \in SUBSET {p \in Pairs : TRUE \in Rejections},
           audit \in [Pairs -> BridgeAudits] : Register(segs, bad, audit)
  BY DEF RegisterArcs
<1> DEFINE pending == {a \in segs : SamePair(a, None)}
           hardPairs == Indexed({RefusalRow(p) : p \in bad})
           auditPairs == Indexed({AuditRow(p, audit[p]) :
                                     p \in {q \in Pairs : audit[q] # ""}})
           hardOf(a) == IF a \in pending THEN ""
                        ELSE IF ~Unique(a) THEN NonUnique
                        ELSE IF a \notin segs /\ PairOf(a) \in hardPairs
                        THEN ShouldNotExist ELSE ""
           blockedOf(a) == a \notin segs /\ PairOf(a) \in auditPairs
<1>2. /\ hard' = [a \in Arcs |-> hardOf(a)]
      /\ blocked' = [a \in Arcs |-> blockedOf(a)]
      /\ entered' = {a \in Arcs : Unique(a) /\ hardOf(a) = "" /\ ~blockedOf(a)}
      /\ stage' = [a \in Arcs |->
             IF a \in pending THEN "step3_same_pair_evidence_pending"
             ELSE IF hardOf(a) # "" \/ blockedOf(a) THEN "hard_blocked" ELSE ""]
      /\ reason' = [a \in Arcs |->
             IF a \in pending THEN "same_pair_multi_arc_candidate_pending_step3"
             ELSE IF hardOf(a) # "" THEN hardOf(a) ELSE audit[PairOf(a)]]
  BY <1>1 DEF Register
<1>3. /\ phase = "step2" /\ phase' = "step3"
      /\ UNCHANGED <<gap, support, prior, finalize, corridor, slots, result, road,
                     class, gate>>
  BY DEF RegisterArcs, outputs
<1>4. hardPairs = {}
  BY RefusalsNotFound
<1>5. \A a \in Arcs : hardOf(a) # "" => ~Unique(a)
  BY <1>4
<1>6. \A a \in Arcs : blockedOf(a) => audit[PairOf(a)] # ""
  BY AuditsFound
<1>7. gap = All(NoGap)
  BY <1>3 DEF IInv, Registered
<1>8. Shape'
  BY <1>2, <1>3 DEF IInv, Shape, Phases
<1>9. Registered'
  <2>1. \A a \in Arcs : hard'[a] = hardOf(a) /\ blocked'[a] = blockedOf(a)
    BY <1>2
  <2> HIDE DEF hardOf, blockedOf
  <2>2. entered' = {a \in Arcs : Unique(a) /\ hard'[a] = "" /\ ~blocked'[a]}
    BY <1>2, <2>1
  <2>3. gap' = All(NoGap)
    BY <1>3, <1>7
  <2> QED
    BY <1>3, <1>5, <2>1, <2>2, <2>3 DEF Registered
<1>10. Outside'
  <2>1. SUFFICES ASSUME NEW a \in Arcs, a \notin entered'
                 PROVE  stage'[a] # "" /\ reason'[a] # ""
    BY DEF Outside
  <2>2. CASE a \in pending
    BY <1>2, <2>2
  <2>3. CASE a \notin pending /\ hardOf(a) # ""
    BY <1>2, <2>3
  <2>4. CASE a \notin pending /\ hardOf(a) = ""
    <3> HIDE DEF pending, hardPairs, auditPairs
    <3>1. Unique(a)
      BY <2>4 DEF NonUnique
    <3>2. blockedOf(a)
      BY <1>2, <2>1, <2>4, <3>1
    <3> HIDE DEF hardOf, blockedOf
    <3> QED
      BY <1>2, <1>6, <2>4, <3>2
  <2> QED
    BY <2>2, <2>3, <2>4
<1>11. Admitted' /\ Reported'
  BY <1>3 DEF Admitted, Decided, Reported
<1>12. Layered'
  BY <1>3 DEF IInv, Layered, Resolved, Mapped, Offered
<1> QED
  BY <1>8, <1>9, <1>10, <1>11, <1>12 DEF IInv

LEMMA AttachInv ==
    ASSUME IInv, AttachEvidence
    PROVE  IInv'
<1>1. PICK options \in [Arcs -> OptionLists] : \E pick \in Assignments(options) :
          \E has \in [Arcs -> Priors], ok \in [Arcs -> PathFates] :
             Attach(Chosen(options, pick), has, ok)
  BY DEF AttachEvidence
<1>2. PICK pick \in Assignments(options) :
          \E has \in [Arcs -> Priors], ok \in [Arcs -> PathFates] :
             Attach(Chosen(options, pick), has, ok)
  BY <1>1
<1>3. PICK has \in [Arcs -> Priors], ok \in [Arcs -> PathFates] :
          Attach(Chosen(options, pick), has, ok)
  BY <1>2
<1> DEFINE ev == Chosen(options, pick)
           targets == GapTargets(bridge, ev)
           decision == [a \in Arcs |->
              IF a \in targets THEN GapDecision(a, targets, ev, has) ELSE NoGap]
           admitted == {a \in targets : decision[a][1] = Enter}
           turned == targets \ admitted
           multi == {a \in Arcs : SamePair(a, ev)}
           final == {a \in multi : EvidenceSuffices(ev[a], ok[a])}
           in == Entering(targets, admitted, final)
           cleared == admitted \cup final
           stageOf(a) ==
              IF a \in cleared THEN ""
              ELSE IF a \in turned
              THEN TurnedStage(decision[a])
              ELSE IF a \in multi /\ a \notin entered /\ stage[a] = ""
              THEN "step3_multi_arc_rule_blocked" ELSE stage[a]
           reasonOf(a) ==
              IF a \in cleared THEN ""
              ELSE IF a \in turned THEN decision[a][2]
              ELSE IF a \in multi /\ a \notin entered /\ reason[a] = ""
              THEN "same_pair_multi_arc_evidence_not_sufficient" ELSE reason[a]
           bare == {a \in in : /\ stageOf(a) = "" /\ ~has[a]
                               /\ ev[a].kind = "no_support"}
<1>4. /\ gap' = decision
      /\ support' = ev /\ prior' = has
      /\ finalize' = final
      /\ entered' = in
      /\ blocked' = [a \in Arcs |-> blocked[a] /\ a \notin final]
      /\ hard' = [a \in Arcs |-> IF a \in final THEN "" ELSE hard[a]]
      /\ stage' = [a \in Arcs |->
                      IF a \in bare THEN "step3_no_support" ELSE stageOf(a)]
      /\ reason' = [a \in Arcs |->
                      IF a \in bare THEN "no_traj_support" ELSE reasonOf(a)]
  BY <1>3 DEF Attach
<1>5. /\ phase = "step3" /\ phase' = "step4"
      /\ UNCHANGED <<corridor, slots, result, road, class, gate>>
  BY DEF AttachEvidence, outputs
<1>6. \A a \in targets : a \in Arcs /\ Unique(a)
  BY GapTargetsUnique
<1>7. \A a \in final : a \in Arcs /\ ~Unique(a) /\ ev[a].ends = Ends
  BY SamePairNotUnique DEF EvidenceSuffices
<1>8. \A a \in Arcs : a \notin targets => decision[a] = NoGap
  OBVIOUS
<1>9. \A a \in targets : /\ decision[a] = GapDecision(a, targets, ev, has)
                         /\ decision[a] # NoGap /\ decision[a][2] # ""
  <2>1. SUFFICES ASSUME NEW a \in targets
                 PROVE  /\ decision[a] = GapDecision(a, targets, ev, has)
                        /\ decision[a] # NoGap /\ decision[a][2] # ""
    OBVIOUS
  <2>2. decision[a] = GapDecision(a, targets, ev, has)
    BY <1>6
  <2>3. decision[a][1] \in {Enter, Remain, Ambiguous} /\ decision[a][2] # ""
    BY <2>2, DecisionFacts
  <2>4. NoGap[1] = ""
    BY DEF NoGap
  <2>5. decision[a][1] # ""
    BY <2>3 DEF Enter, Remain, Ambiguous
  <2> HIDE DEF targets, decision
  <2> QED
    BY <2>2, <2>3, <2>4, <2>5
<1>10. /\ \A a \in Arcs : a \in admitted <=> decision[a][1] = Enter
       /\ admitted \subseteq targets
  BY <1>6, <1>8 DEF NoGap, Enter
<1>11. in = (entered \ targets) \cup admitted \cup final
  BY DEF Entering
<1>12. \A a \in Arcs : a \in entered <=> Unique(a) /\ hard[a] = "" /\ ~blocked[a]
  BY <1>5 DEF IInv, Registered
<1>13. \A a \in Arcs : ev[a] \in Supports \cup {NoSupport}
  BY ChosenSupport
<1>14. \A a \in Arcs : hard[a] # "" => ~Unique(a)
  BY DEF IInv, Registered
<1>15. entered \subseteq Arcs
  BY DEF IInv, Shape
<1>16. \A a \in Arcs : a \in in <=>
           \/ decision[a][1] = Enter
           \/ a \in final
           \/ Unique(a) /\ ~blocked'[a] /\ hard'[a] = "" /\ decision[a] = NoGap
  <2>1. SUFFICES ASSUME NEW a \in Arcs
                 PROVE  a \in in <=>
                          \/ decision[a][1] = Enter
                          \/ a \in final
                          \/ Unique(a) /\ ~blocked'[a] /\ hard'[a] = "" /\ decision[a] = NoGap
    OBVIOUS
  <2>2. Unique(a) => (blocked'[a] <=> blocked[a]) /\ hard'[a] = hard[a]
    <3>1. Unique(a) => a \notin final
      BY <1>7
    <3> HIDE DEF final
    <3>2. blocked[a] \in BOOLEAN
      BY DEF IInv, Shape
    <3>3. blocked'[a] <=> blocked[a] /\ a \notin final
      BY <1>4
    <3>4. hard'[a] = IF a \in final THEN "" ELSE hard[a]
      BY <1>4
    <3> QED
      BY <3>1, <3>3, <3>4
  <2> HIDE DEF targets, decision, admitted, final, in
  <2> QED
    BY <1>8, <1>9, <1>10, <1>11, <1>12, <2>2
<1>17. EntryIsJustified'
  BY <1>4, <1>16 DEF EntryIsJustified, Decided, Controlled
<1>18. \A a \in final : ~blocked'[a] /\ hard'[a] = ""
  <2> HIDE DEF final
  <2> QED
    BY <1>4, <1>7
<1>19. \A a \in Arcs : Controlled(a)' <=> decision[a][1] = Enter
  BY <1>4 DEF Controlled
<1>20. MergeSupportsDiffer'
  <2>1. SUFFICES ASSUME NEW a \in Arcs, decision[a][1] = Enter,
                        NEW b \in MergePeers(a, admitted),
                        ev[a].ends = Ends
                 PROVE  Signature(ev[a]) # Signature(ev[b])
    <3> HIDE DEF decision, ev
    <3>1. {c \in Arcs : Controlled(c)'} = admitted
      BY <1>6, <1>10, <1>19
    <3> QED
      BY <1>4, <1>19, <3>1 DEF MergeSupportsDiffer
  <2>2. a \in targets /\ GapDecision(a, targets, ev, has)[1] = Enter
    BY <1>8, <1>9, <2>1 DEF NoGap, Enter
  <2>3. b \in MergePeers(a, targets) /\ b # a
    BY <2>1 DEF MergePeers
  <2> QED
    BY <2>1, <2>2, <2>3, EnterMerges
<1>21. \A a, b \in Arcs :
          /\ b \in Siblings(a) \ {a}
          /\ support'[a] # NoSupport /\ support'[b] # NoSupport
          => support'[a].lane # support'[b].lane
  <2>1. ASSUME NEW a \in Arcs, NEW b \in Siblings(a) \ {a},
               ev[a] # NoSupport, ev[b] # NoSupport
        PROVE  ev[a].lane # ev[b].lane
    BY <2>1, AssignedLanes
  <2> HIDE DEF ev
  <2> QED
    BY <1>4, <2>1
<1>22. Admitted'
  <2> HIDE DEF ev, decision, final, targets, admitted
  <2>1. \A a \in Arcs : Controlled(a)' => Unique(a)
    BY <1>6, <1>10, <1>19
  <2>2. \A a \in finalize' :
           ~blocked'[a] /\ ~Unique(a) /\ hard'[a] = "" /\ support'[a].ends = Ends
    BY <1>4, <1>7, <1>18
  <2> QED
    BY <1>17, <1>20, <1>21, <2>1, <2>2 DEF Admitted
<1>23. Registered'
  <2> HIDE DEF final
  <2>1. \A a \in Arcs : hard'[a] # "" => hard[a] # ""
    BY <1>4
  <2> QED
    BY <1>5, <1>14, <2>1 DEF Registered
<1>24. Shape'
  <2>1. entered' \subseteq Arcs /\ finalize' \subseteq Arcs
    BY <1>4, <1>6, <1>10, <1>11, <1>15
  <2>2. \A a \in Arcs : blocked'[a] \in BOOLEAN
    BY <1>4
  <2>3. \A a \in Arcs : support'[a] \in Supports \cup {NoSupport}
    BY <1>4, <1>13
  <2> QED
    BY <1>5, <2>1, <2>2, <2>3 DEF IInv, Shape, Phases
<1>25. Outside'
  <2>1. SUFFICES ASSUME NEW a \in Arcs, a \notin in
                 PROVE  stage'[a] # "" /\ reason'[a] # ""
    BY <1>4 DEF Outside
  <2>2. stage'[a] = stageOf(a) /\ reason'[a] = reasonOf(a)
    <3>1. a \notin bare
      BY <2>1
    <3> HIDE DEF bare, stageOf, reasonOf
    <3> QED
      BY <1>4, <3>1
  <2>3. a \notin cleared
    BY <1>11, <2>1
  <2>4. CASE a \in turned
    <3>1. stage'[a] = TurnedStage(decision[a]) /\ reason'[a] = decision[a][2]
      BY <2>2, <2>3, <2>4
    <3> QED
      BY <1>9, <2>4, <3>1 DEF TurnedStage
  <2>5. CASE a \notin turned
    <3>1. a \notin entered
      BY <1>11, <2>1, <2>5
    <3>2. stage[a] # "" /\ reason[a] # ""
      BY <1>5, <3>1 DEF IInv, Outside
    <3> QED
      BY <2>2, <2>3, <2>5, <3>2
  <2> QED
    BY <2>4, <2>5
<1>26. Layered' /\ Reported'
  BY <1>5 DEF IInv, Layered, Resolved, Mapped, Offered, Reported
<1> QED
  BY <1>22, <1>23, <1>24, <1>25, <1>26 DEF IInv

(* What is in the main flow carries no block that counts, and the final    *)
(* gate of step 6 has nothing to add.                                      *)
LEMMA EnteredClean ==
    ASSUME IInv, Decided, NEW a \in entered
    PROVE  /\ a \in Arcs /\ hard[a] = "" /\ FinalGate(a) = ""
           /\ blocked[a] => Controlled(a)
<1>1. a \in Arcs /\ blocked[a] \in BOOLEAN
  BY DEF IInv, Shape
<1>2. \/ Controlled(a) \/ a \in finalize
      \/ Unique(a) /\ ~blocked[a] /\ hard[a] = ""
  BY <1>1 DEF IInv, Admitted, EntryIsJustified
<1>3. hard[a] = "" /\ (Unique(a) \/ a \in finalize) /\ (blocked[a] => Controlled(a))
  BY <1>1, <1>2 DEF IInv, Admitted, Registered
<1> QED
  BY <1>1, <1>3 DEF FinalGate

LEMMA CorridorFacts ==
    ASSUME NEW a \in Arcs, NEW seen, support[a] \in Supports \cup {NoSupport},
           corridor[a] = Corridor(support[a], prior[a], seen)
    PROVE  CorridorFits(a)
<1>1. support[a].kind \in Kinds \cup {"no_support"}
  BY SupportKind
<1> QED
  BY <1>1 DEF Corridor, CorridorFits, Kinds

LEMMA ResolveInv ==
    ASSUME IInv, ResolveCorridors
    PROVE  IInv'
<1>1. PICK seen \in SUBSET entered :
          corridor' = [a \in Arcs |->
              IF a \notin entered THEN Unresolved
              ELSE IF hard[a] # "" THEN <<"unresolved", hard[a]>>
              ELSE Corridor(support[a], prior[a], a \in seen)]
  BY DEF ResolveCorridors
<1>2. /\ phase = "step4" /\ phase' = "step5"
      /\ UNCHANGED <<registry, slots, result, road, stage, reason, class, gate>>
  BY DEF ResolveCorridors, outputs
<1>3. ASSUME NEW a \in entered PROVE CorridorFits(a)'
  <2>1. a \in Arcs /\ hard[a] = ""
    BY <1>2, EnteredClean DEF Decided
  <2>2. corridor'[a] = Corridor(support[a], prior[a], a \in seen)
    BY <1>1, <2>1
  <2>3. support[a].kind \in Kinds \cup {"no_support"}
    BY <2>1, SupportKind DEF IInv, Shape
  <2> QED
    BY <1>2, <2>2, <2>3 DEF Corridor, CorridorFits, Kinds, registry
<1>4. \A a \in Arcs : corridor'[a][1] # "unresolved" => a \in entered
  BY <1>1 DEF Unresolved
<1>5. Layered'
  BY <1>2, <1>3, <1>4 DEF Layered, Resolved, Mapped, Offered, registry
<1>6. Shape' /\ Registered' /\ Outside' /\ Reported'
  BY <1>2 DEF IInv, Shape, Phases, Registered, Outside, Reported, registry, Unique, Siblings
<1>7. Admitted'
  BY <1>2 DEF IInv, Admitted, Decided, EntryIsJustified, MergeSupportsDiffer, Controlled,
              registry
<1> QED
  BY <1>5, <1>6, <1>7 DEF IInv

LEMMA MapInv ==
    ASSUME IInv, MapSlots
    PROVE  IInv'
<1>1. PICK found \in [entered -> SlotFates] :
          slots' = [a \in Arcs |->
              IF a \in entered /\ corridor[a][1] # "unresolved" THEN found[a] ELSE {}]
  BY DEF MapSlots
<1>2. /\ phase = "step5" /\ phase' = "step6"
      /\ UNCHANGED <<registry, corridor, result, road, stage, reason, class, gate>>
  BY DEF MapSlots, outputs
<1>3. \A a \in Arcs : slots'[a] = Ends => corridor[a][1] # "unresolved"
  BY <1>1 DEF Ends
<1>4. Layered'
  BY <1>2, <1>3 DEF IInv, Layered, Resolved, Mapped, Offered, CorridorFits, registry
<1>5. Shape' /\ Registered' /\ Outside' /\ Reported'
  BY <1>2 DEF IInv, Shape, Phases, Registered, Outside, Reported, registry
<1>6. Admitted'
  BY <1>2 DEF IInv, Admitted, Decided, EntryIsJustified, MergeSupportsDiffer, Controlled,
              registry
<1> QED
  BY <1>4, <1>5, <1>6 DEF IInv

(* The four ways build_final_road may end.                                 *)
LEMMA OutcomeCases ==
    ASSUME NEW a, NEW o \in Outcomes(a)
    PROVE  \/ FinalGate(a) # "" /\ o = <<FinalGate(a), NoRoad>>
           \/ /\ FinalGate(a) = "" /\ corridor[a][1] = "unresolved"
              /\ o = <<corridor[a][2], NoRoad>>
           \/ /\ FinalGate(a) = "" /\ corridor[a][1] # "unresolved"
              /\ slots[a] # Ends /\ o = <<"slot_unresolved", NoRoad>>
           \/ /\ FinalGate(a) = "" /\ corridor[a][1] # "unresolved" /\ slots[a] = Ends
              /\ \E offered \in CandidateSets :
                    \/ o = <<GeometryReason(offered), NoRoad>>
                    \/ \E r \in Roads(a, offered) : o = <<"built", r>>
<1>1. CASE FinalGate(a) # ""
  BY <1>1 DEF Outcomes
<1>2. CASE FinalGate(a) = "" /\ corridor[a][1] = "unresolved"
  BY <1>2 DEF Outcomes
<1>3. CASE FinalGate(a) = "" /\ corridor[a][1] # "unresolved" /\ slots[a] # Ends
  BY <1>3 DEF Outcomes
<1>4. CASE FinalGate(a) = "" /\ corridor[a][1] # "unresolved" /\ slots[a] = Ends
  <2>1. PICK offered \in CandidateSets :
            o \in IF Roads(a, offered) = {}
                  THEN {<<GeometryReason(offered), NoRoad>>}
                  ELSE {<<"built", r>> : r \in Roads(a, offered)}
    BY <1>4 DEF Outcomes
  <2> QED
    BY <1>4, <2>1
<1> QED
  BY <1>1, <1>2, <1>3, <1>4

(* A road that is offered stays clear of DivStrip and within DriveZone, or *)
(* near it for a reason.                                                   *)
GroundFits(a, r) ==
    /\ r.fit \in {"inside", "near"} /\ ~r.cross
    /\ r.fit = "near" => \/ r.mode = "rcsdroad_trend"
                         \/ r.mode = "trend_extended" /\ SmallGap(a)

LEMMA RoadFacts ==
    ASSUME NEW a, NEW offered \in CandidateSets, NEW r \in Roads(a, offered)
    PROVE  r # NoRoad /\ GroundFits(a, r)
<1>1. PICK c \in offered : /\ r = c \/ r = Refined(c)
                           /\ Admissible(c, SmallGap(a)) \/ Fallback(c)
  BY DEF Roads
<1>2. c \in Candidate
  BY InputsAssumption
<1>3. c.fit \in {"inside", "near", "outside"} /\ NoRoad.fit = "none"
  BY <1>2 DEF Candidate, NoRoad
<1>4. CASE r = c
  BY <1>1, <1>3, <1>4 DEF Admissible, Fallback, GroundFits
<1>5. CASE r = Refined(c)
  <2>1. r.fit = "inside" /\ r.cross = FALSE
    BY <1>2, <1>5 DEF Candidate, Refined
  <2> QED
    BY <1>3, <2>1 DEF GroundFits
<1> QED
  BY <1>1, <1>4, <1>5

LEMMA BuildInv ==
    ASSUME IInv, BuildRoads
    PROVE  IInv'
<1>1. PICK out : /\ \A a \in entered : out[a] \in Outcomes(a)
                 /\ result' = [a \in Arcs |-> IF a \in entered THEN out[a][1] ELSE ""]
                 /\ road' = [a \in Arcs |-> IF a \in entered THEN out[a][2] ELSE NoRoad]
  BY DEF BuildRoads
<1>2. /\ phase = "step6" /\ phase' = "outputs"
      /\ UNCHANGED <<registry, corridor, slots, stage, reason, class, gate>>
  BY DEF BuildRoads, outputs
<1>3. entered \subseteq Arcs
  BY DEF IInv, Shape
<1>4. ASSUME NEW a \in entered
      PROVE  <<result'[a], road'[a]>> \in Outcomes(a)'
  <2>1. \A o \in Outcomes(a) : o = <<o[1], o[2]>>
    <3>1. ASSUME NEW o \in Outcomes(a) PROVE \E x, y : o = <<x, y>>
      BY OutcomeCases
    <3>2. \A x, y : <<x, y>> = <<<<x, y>>[1], <<x, y>>[2]>>
      OBVIOUS
    <3> QED
      BY <3>1, <3>2
  <2>2. <<result'[a], road'[a]>> \in Outcomes(a)
    BY <1>1, <1>3, <2>1
  <2>3. Outcomes(a)' = Outcomes(a)
    BY <1>2 DEF Outcomes, FinalGate, Controlled, Roads, SmallGap, registry
  <2> QED
    BY <2>2, <2>3
<1>5. Layered'
  BY <1>1, <1>2, <1>4 DEF IInv, Layered, Resolved, Mapped, Offered, CorridorFits, registry
<1>6. Shape' /\ Registered' /\ Outside' /\ Reported'
  BY <1>2 DEF IInv, Shape, Phases, Registered, Outside, Reported, registry
<1>7. Admitted'
  BY <1>2 DEF IInv, Admitted, Decided, EntryIsJustified, MergeSupportsDiffer, Controlled,
              registry
<1> QED
  BY <1>5, <1>6, <1>7 DEF IInv

(* What is known of an arc of the main flow when the outputs are written.  *)
LEMMA OutcomeFacts ==
    ASSUME IInv, Offered, NEW a \in entered
    PROVE  /\ road[a] # NoRoad =>
                 /\ slots[a] = Ends /\ corridor[a][1] # "unresolved"
                 /\ GroundFits(a, road[a])
           /\ road[a] = NoRoad =>
                 /\ result[a] # "" /\ result[a] \notin Legality
                 /\ corridor[a][1] = "unresolved" => result[a] = corridor[a][2]
                 /\ corridor[a][1] # "unresolved" /\ slots[a] # Ends
                       => result[a] = "slot_unresolved"
<1>1. FinalGate(a) = "" /\ a \in Arcs
  BY EnteredClean DEF Offered, Decided
<1>2. <<result[a], road[a]>> \in Outcomes(a) /\ CorridorFits(a)
  BY <1>1 DEF IInv, Layered, Offered, Resolved
<1>3. CASE corridor[a][1] = "unresolved"
  <2>1. result[a] = corridor[a][2] /\ road[a] = NoRoad
    BY <1>1, <1>2, <1>3, OutcomeCases
  <2> QED
    BY <1>2, <1>3, <2>1 DEF CorridorFits, Legality, NonUnique, ShouldNotExist
<1>4. CASE corridor[a][1] # "unresolved" /\ slots[a] # Ends
  <2>1. result[a] = "slot_unresolved" /\ road[a] = NoRoad
    BY <1>1, <1>2, <1>4, OutcomeCases
  <2> QED
    BY <1>4, <2>1 DEF Legality, NonUnique, ShouldNotExist
<1>5. CASE corridor[a][1] # "unresolved" /\ slots[a] = Ends
  <2>1. PICK offered \in CandidateSets :
            \/ result[a] = GeometryReason(offered) /\ road[a] = NoRoad
            \/ result[a] = "built" /\ road[a] \in Roads(a, offered)
    BY <1>1, <1>2, <1>5, OutcomeCases
  <2>2. GeometryReason(offered) \notin Legality \cup {""}
    BY DEF GeometryReason, Legality, NonUnique, ShouldNotExist
  <2> QED
    BY <1>5, <2>1, <2>2, RoadFacts
<1> QED
  BY <1>3, <1>4, <1>5

LEMMA WriteInv ==
    ASSUME IInv, WriteOutputs
    PROVE  IInv'
<1> DEFINE built == {a \in entered : Classify(a) = "built"}
<1>1. /\ phase = "outputs" /\ phase' = "done"
      /\ class' = [a \in Arcs |-> IF a \in entered THEN Classify(a) ELSE ""]
      /\ stage' = [a \in Arcs |-> IF a \in built THEN "" ELSE FinalBlock(a)[1]]
      /\ reason' = [a \in Arcs |-> IF a \in built THEN "" ELSE FinalBlock(a)[2]]
      /\ gate' = GateFor({a \in entered : road[a] = NoRoad})
      /\ UNCHANGED <<registry, corridor, slots, result, road>>
  BY DEF WriteOutputs
<1>2. Offered /\ Decided /\ Resolved
  BY <1>1 DEF Offered, Decided, Resolved
<1>3. \A a \in entered : Classify(a) = "built" <=> road[a] # NoRoad
  BY DEF Classify
<1>4. \A a \in Arcs : Classify(a)' = Classify(a)
  BY <1>1 DEF Classify, registry
<1>5. ASSUME NEW a \in entered, road[a] = NoRoad
      PROVE  /\ <<Classify(a), FinalBlock(a)[1]>> \in
                   {<<"unresolved_corridor", "step3_no_support">>,
                    <<"unresolved_corridor", "step3_corridor_unresolved">>,
                    <<"slot_mapping_failed", "step4_slot_not_established">>,
                    <<"final_geometry_invalid", "step5_geometry_rejected">>,
                    <<"should_be_no_geometry_candidate", "step5_geometry_rejected">>}
             /\ FinalBlock(a)[2] # ""
  <2>1. ~(blocked[a] /\ ~Controlled(a)) /\ hard[a] = "" /\ a \in Arcs
    BY <1>2, EnteredClean
  <2>2. result[a] # "" /\ result[a] \notin Legality
    BY <1>2, <1>5, OutcomeFacts
  <2>3. CorridorFits(a)
    BY <1>2 DEF IInv, Layered
  <2>4. CASE corridor[a][1] = "unresolved"
    <3>1. Classify(a) = "unresolved_corridor"
      BY <1>5, <2>2, <2>4 DEF Classify
    <3>2. FinalBlock(a) = IF support[a].kind = "no_support" /\ ~prior[a]
                          THEN <<"step3_no_support", "no_traj_support">>
                          ELSE <<"step3_corridor_unresolved", corridor[a][2]>>
      BY <1>5, <2>1, <2>4 DEF FinalBlock
    <3>3. corridor[a][2] # ""
      BY <2>3, <2>4 DEF CorridorFits
    <3>4. FinalBlock(a)[1] \in {"step3_no_support", "step3_corridor_unresolved"}
          /\ FinalBlock(a)[2] # ""
      <4>1. CASE support[a].kind = "no_support" /\ ~prior[a]
        BY <3>2, <4>1
      <4>2. CASE ~(support[a].kind = "no_support" /\ ~prior[a])
        <5>1. FinalBlock(a) = <<"step3_corridor_unresolved", corridor[a][2]>>
          BY <3>2, <4>2
        <5>2. FinalBlock(a)[1] = "step3_corridor_unresolved"
              /\ FinalBlock(a)[2] = corridor[a][2]
          BY <5>1
        <5> QED
          BY <3>3, <5>2
      <4> QED
        BY <4>1, <4>2
    <3> QED
      BY <3>1, <3>4
  <2>5. CASE corridor[a][1] # "unresolved"
    <3>1. ~(support[a].kind = "no_support" /\ ~prior[a])
      BY <2>3, <2>5 DEF CorridorFits
    <3>2. FinalBlock(a) = IF slots[a] # Ends
                          THEN <<"step4_slot_not_established", "slot_not_established">>
                          ELSE <<"step5_geometry_rejected", result[a]>>
      BY <1>5, <2>1, <2>5, <3>1 DEF FinalBlock
    <3>3. Classify(a) \in IF slots[a] # Ends THEN {"slot_mapping_failed"}
                          ELSE {"final_geometry_invalid", "should_be_no_geometry_candidate"}
      BY <1>5, <2>2, <2>5 DEF Classify
    <3>4. /\ FinalBlock(a)[1] = IF slots[a] # Ends THEN "step4_slot_not_established"
                                ELSE "step5_geometry_rejected"
          /\ FinalBlock(a)[2] # ""
      <4>1. CASE slots[a] # Ends
        BY <3>2, <4>1
      <4>2. CASE slots[a] = Ends
        <5>1. FinalBlock(a) = <<"step5_geometry_rejected", result[a]>>
          BY <3>2, <4>2
        <5>2. FinalBlock(a)[1] = "step5_geometry_rejected" /\ FinalBlock(a)[2] = result[a]
          BY <5>1
        <5> QED
          BY <2>2, <4>2, <5>2
      <4> QED
        BY <4>1, <4>2
    <3> QED
      BY <3>3, <3>4
  <2> QED
    BY <2>4, <2>5
<1>6. ASSUME NEW a \in Arcs, a \notin entered
      PROVE  FinalBlock(a)[1] # "" /\ FinalBlock(a)[2] # ""
  <2>1. stage[a] # "" /\ reason[a] # ""
    BY <1>1, <1>6 DEF IInv, Outside
  <2> QED
    BY <1>6, <2>1 DEF FinalBlock
<1>7. entered \subseteq Arcs /\ entered' = entered
  BY <1>1 DEF IInv, Shape, registry
<1>8. ASSUME NEW a \in Arcs, class'[a] # "built"
      PROVE  stage'[a] # "" /\ reason'[a] # ""
  <2>1. a \notin built
    BY <1>1, <1>8
  <2>2. stage'[a] = FinalBlock(a)[1] /\ reason'[a] = FinalBlock(a)[2]
    BY <1>1, <2>1
  <2>3. a \in entered => road[a] = NoRoad
    BY <1>3, <2>1
  <2> QED
    BY <1>5, <1>6, <2>2, <2>3
<1>9. ASSUME NEW a \in entered
      PROVE  <<class'[a], stage'[a]>> \in
            {<<"built", "">>,
             <<"unresolved_corridor", "step3_no_support">>,
             <<"unresolved_corridor", "step3_corridor_unresolved">>,
             <<"slot_mapping_failed", "step4_slot_not_established">>,
             <<"final_geometry_invalid", "step5_geometry_rejected">>,
             <<"should_be_no_geometry_candidate", "step5_geometry_rejected">>}
  <2>1. class'[a] = Classify(a) /\ stage'[a] = IF a \in built THEN "" ELSE FinalBlock(a)[1]
    BY <1>1, <1>7
  <2>2. CASE road[a] # NoRoad
    BY <1>3, <2>1, <2>2
  <2>3. CASE road[a] = NoRoad
    BY <1>3, <1>5, <2>1, <2>3
  <2> QED
    BY <2>2, <2>3
<1>10. Reported'
  <2>1. LayersAgree'
    BY <1>7, <1>9 DEF LayersAgree
  <2>2. NothingSilent'
    BY <1>8 DEF NothingSilent
  <2>3. \A a \in Arcs : class'[a] = IF a \in entered' THEN Classify(a)' ELSE ""
    BY <1>1, <1>4, <1>7
  <2>4. gate' = GateFor({a \in entered : road[a] = NoRoad})'
    BY <1>1, <1>7 DEF GateFor
  <2> QED
    BY <2>1, <2>2, <2>3, <2>4 DEF Reported
<1>11. Layered'
  <2>1. ASSUME NEW a \in entered PROVE Outcomes(a)' = Outcomes(a)
    <3>1. UNCHANGED <<registry, corridor, slots>>
      BY <1>1
    <3> QED
      BY <3>1 DEF Outcomes, FinalGate, Controlled, Roads, SmallGap, registry
  <2> QED
    BY <1>1, <1>7, <2>1
       DEF IInv, Layered, Resolved, Mapped, Offered, CorridorFits, registry
<1>12. Shape' /\ Registered' /\ Outside'
  BY <1>1 DEF IInv, Shape, Phases, Registered, Outside, registry
<1>13. Admitted'
  BY <1>1 DEF IInv, Admitted, Decided, EntryIsJustified, MergeSupportsDiffer, Controlled,
              registry
<1> QED
  BY <1>10, <1>11, <1>12, <1>13 DEF IInv

LEMMA InvNext == IInv /\ [Next]_vars => IInv'
<1> SUFFICES ASSUME IInv, [Next]_vars PROVE IInv'
  OBVIOUS
<1>1. CASE UNCHANGED vars
  <2>1. \A a : Outcomes(a)' = Outcomes(a) /\ Classify(a)' = Classify(a)
    BY <1>1 DEF vars, Outcomes, FinalGate, Controlled, Roads, SmallGap, Classify
  <2>2. Shape' /\ Registered' /\ Outside'
    BY <1>1 DEF vars, IInv, Shape, Registered, Outside
  <2>3. Admitted'
    BY <1>1 DEF vars, IInv, Admitted, Decided, EntryIsJustified, MergeSupportsDiffer, Controlled
  <2>4. Layered'
    BY <1>1, <2>1 DEF vars, IInv, Layered, Resolved, Mapped, Offered, CorridorFits
  <2>5. Reported'
    BY <1>1, <2>1 DEF vars, IInv, Reported, LayersAgree, NothingSilent, GateFor
  <2> QED
    BY <2>2, <2>3, <2>4, <2>5 DEF IInv
<1> QED
  BY <1>1, RegisterInv, AttachInv, ResolveInv, MapInv, BuildInv, WriteInv DEF Next

LEMMA Invariant == Spec => []IInv
BY InvInit, InvNext, PTL DEF Spec

-----------------------------------------------------------------------------
(* The theorems.                                                           *)

(* An arc is in the main flow for one of the three reasons and only then.  *)
THEOREM EntryHasReason == Spec => []EntryIsJustified
<1>1. IInv => EntryIsJustified
  BY DEF IInv, Admitted, EntryIsJustified
<1> QED
  BY Invariant, <1>1, PTL

(* Step 6 never takes back what steps 2 and 3 let in.                      *)
THEOREM EntryIsFinal == Spec => []NoLateLegalityRejection
<1>1. ASSUME IInv PROVE NoLateLegalityRejection
  <2>1. Decided => \A a \in entered : FinalGate(a) = ""
    BY <1>1, EnteredClean
  <2>2. ASSUME NEW a \in Arcs PROVE class[a] # "arc_legality_rejected"
    <3>1. CASE phase # "done"
      BY <1>1, <3>1 DEF IInv, Shape, All
    <3>2. CASE phase = "done" /\ a \in entered
      <4>1. road[a] = NoRoad => result[a] \notin Legality
        BY <1>1, <3>2, OutcomeFacts DEF Offered
      <4>2. class[a] = Classify(a)
        BY <1>1, <3>2 DEF IInv, Reported
      <4> QED
        BY <4>1, <4>2 DEF Classify
    <3>3. CASE phase = "done" /\ a \notin entered
      BY <1>1, <3>3 DEF IInv, Reported
    <3> QED
      BY <3>1, <3>2, <3>3
  <2> QED
    BY <2>1, <2>2 DEF NoLateLegalityRejection
<1> QED
  BY Invariant, <1>1, PTL

(* Two arcs of one pair never both enter on one corridor.                  *)
THEOREM SiblingsKeepApart == Spec => []SiblingsNeverShareSupport
<1>1. ASSUME IInv, Decided, NEW a \in entered, NEW b \in entered,
             b \in Siblings(a) \ {a}
      PROVE  support[a].lane # support[b].lane
  <2>1. a \in Arcs /\ b \in Arcs /\ ~Unique(a) /\ ~Unique(b)
    BY <1>1 DEF IInv, Shape, Unique, Siblings
  <2>2. a \in finalize /\ b \in finalize
    BY <1>1, <2>1 DEF IInv, Admitted, EntryIsJustified
  <2>3. support[a] # NoSupport /\ support[b] # NoSupport
    <3>1. support[a].ends = Ends /\ support[b].ends = Ends
      BY <1>1, <2>2 DEF IInv, Admitted
    <3>2. NoSupport.ends = {} /\ Ends # {}
      BY DEF NoSupport, Ends
    <3> QED
      BY <3>1, <3>2
  <2> QED
    BY <1>1, <2>1, <2>3 DEF IInv, Admitted
<1>2. IInv => SiblingsNeverShareSupport
  BY <1>1 DEF SiblingsNeverShareSupport
<1> QED
  BY Invariant, <1>2, PTL

(* Arcs that meet downstream and enter by gap control with both anchors    *)
(* rest on different supports.                                             *)
THEOREM MergesKeepApart == Spec => []MergeSupportsDiffer
<1>1. ASSUME IInv PROVE MergeSupportsDiffer
  <2>1. CASE Decided
    BY <1>1, <2>1 DEF IInv, Admitted
  <2>2. CASE ~Decided
    <3>1. \A a \in Arcs : ~Controlled(a)
      <4>1. gap = [a \in Arcs |-> NoGap]
        BY <1>1, <2>2 DEF IInv, Registered, Decided, All
      <4>2. NoGap[1] # Enter
        BY DEF NoGap, Enter
      <4> QED
        BY <4>1, <4>2 DEF Controlled
    <3> QED
      BY <3>1 DEF MergeSupportsDiffer
  <2> QED
    BY <2>1, <2>2
<1> QED
  BY Invariant, <1>1, PTL

(* A road was earned at every layer, and below the normal coverage of the  *)
(* DriveZone by its shape or by a small gap.                               *)
THEOREM RoadsAreEarned == Spec => []BuiltIsEarned
<1>1. ASSUME IInv, NEW a \in Arcs, class[a] = "built"
      PROVE  /\ a \in entered /\ road[a].fit \in {"inside", "near"} /\ ~road[a].cross
             /\ road[a].fit = "near" => \/ road[a].mode = "rcsdroad_trend"
                                        \/ road[a].mode = "trend_extended" /\ SmallGap(a)
             /\ slots[a] = Ends
             /\ \/ corridor[a][1] = "witness_based" /\ support[a].kind # "no_support"
                \/ corridor[a][1] = "prior_based" /\ prior[a]
  <2>1. phase = "done"
    BY <1>1 DEF IInv, Shape, All
  <2>2. a \in entered /\ class[a] = Classify(a)
    BY <1>1, <2>1 DEF IInv, Reported
  <2>3. road[a] # NoRoad
    BY <1>1, <2>2 DEF Classify
  <2>4. CorridorFits(a)
    BY <1>1, <2>1, <2>2 DEF IInv, Layered, Resolved
  <2> QED
    BY <1>1, <2>1, <2>2, <2>3, <2>4, OutcomeFacts DEF Offered, CorridorFits, GroundFits
<1>2. IInv => BuiltIsEarned
  BY <1>1 DEF BuiltIsEarned
<1> QED
  BY Invariant, <1>2, PTL

(* metrics.json and the registry blame the same layer.                     *)
THEOREM LayersAlwaysAgree == Spec => []LayersAgree
<1>1. IInv => LayersAgree
  BY DEF IInv, Reported, LayersAgree
<1> QED
  BY Invariant, <1>1, PTL

(* No arc is missing from the roads without a stage and a reason.          *)
THEOREM NoArcIsSilent == Spec => []NothingSilent
<1>1. IInv => NothingSilent
  BY DEF IInv, Reported, NothingSilent
<1> QED
  BY Invariant, <1>1, PTL

LEMMA DoneClass ==
    ASSUME IInv, phase = "done", NEW a \in entered
    PROVE  class[a] = "built" <=> road[a] # NoRoad
<1>1. class[a] = Classify(a)
  BY DEF IInv, Reported, Shape
<1> QED
  BY <1>1 DEF Classify

(* The gate passes exactly when no arc of the main flow was lost.          *)
THEOREM GateTellsTheTruth == Spec => []GateIsHonest
<1>1. ASSUME IInv, phase = "done"
      PROVE  /\ gate.hard = {a \in entered : class[a] # "built"}
             /\ gate.pass <=> entered # {} /\ \A a \in entered : class[a] = "built"
  <2> DEFINE missing == {a \in entered : road[a] = NoRoad}
  <2>1. gate.hard = missing /\ gate.pass = (missing = {} /\ entered # {})
    <3>1. gate = GateFor(missing)
      BY <1>1 DEF IInv, Reported
    <3> HIDE DEF missing
    <3> QED
      BY <3>1 DEF GateFor
  <2>2. \A a \in entered : class[a] = "built" <=> road[a] # NoRoad
    BY <1>1, DoneClass
  <2> QED
    BY <2>1, <2>2
<1>2. IInv => GateIsHonest
  BY <1>1 DEF GateIsHonest
<1> QED
  BY Invariant, <1>2, PTL

-----------------------------------------------------------------------------
(* ArcFlow implements ArcFunnel.                                           *)

FunnelAdmitted == IF Level = 0 THEN {} ELSE entered

(* The arcs a layer still holds.                                           *)
LEMMA AliveFacts ==
    ASSUME IInv
    PROVE  /\ phase \in {"step2", "step3"} => Level = 0 /\ Alive = Arcs
           /\ phase = "step4" => Level = 1 /\ Alive = entered
           /\ phase = "step5" =>
                 Level = 2 /\ Alive = {a \in Arcs : corridor[a][1] # "unresolved"}
           /\ phase = "step6" => Level = 3 /\ Alive = {a \in Arcs : slots[a] = Ends}
           /\ phase = "outputs" => Level = 4 /\ Alive = {a \in Arcs : road[a] # NoRoad}
           /\ phase = "done" => Level = 5 /\ Alive = {a \in Arcs : road[a] # NoRoad}
BY DEF Level, Alive

(* A step of the registry admits, narrows, judges or leaves the funnel.    *)
LEMMA FunnelStep ==
    ASSUME IInv, IInv', [Next]_vars
    PROVE  [Funnel!Next]_(<<Level, Alive, FunnelAdmitted, gate.pass>>)
<1>1. CASE UNCHANGED vars
  BY <1>1 DEF vars, Level, Alive, FunnelAdmitted
<1>2. CASE RegisterArcs
  <2>1. phase = "step2" /\ phase' = "step3" /\ gate' = gate
    BY <1>2 DEF RegisterArcs, outputs
  <2> QED
    BY <2>1 DEF Level, Alive, FunnelAdmitted
<1>3. CASE AttachEvidence
  <2>1. phase = "step3" /\ phase' = "step4" /\ gate' = gate
    BY <1>3 DEF AttachEvidence, outputs
  <2>2. Level = 0 /\ Level' = 1 /\ Alive' = entered' /\ FunnelAdmitted' = entered'
    BY <2>1 DEF Level, Alive, FunnelAdmitted
  <2>3. entered' \subseteq Arcs
    BY DEF IInv, Shape
  <2> QED
    BY <2>1, <2>2, <2>3 DEF Funnel!Next, Funnel!Admit, FunnelAdmitted
<1>4. CASE ResolveCorridors
  <2>1. phase = "step4" /\ phase' = "step5" /\ gate' = gate /\ entered' = entered
    BY <1>4 DEF ResolveCorridors, outputs, registry
  <2>2. /\ Level = 1 /\ Level' = 2 /\ Alive = entered
        /\ Alive' = {a \in Arcs : corridor'[a][1] # "unresolved"}
        /\ FunnelAdmitted' = FunnelAdmitted
    BY <2>1 DEF Level, Alive, FunnelAdmitted
  <2>3. \A a \in Arcs : corridor'[a][1] # "unresolved" => a \in entered
    BY <2>1 DEF IInv, Layered
  <2> QED
    BY <2>1, <2>2, <2>3 DEF Funnel!Next, Funnel!Narrow, FunnelAdmitted
<1>5. CASE MapSlots
  <2>1. phase = "step5" /\ phase' = "step6" /\ gate' = gate
        /\ entered' = entered /\ corridor' = corridor
    BY <1>5 DEF MapSlots, outputs, registry
  <2>2. /\ Level = 2 /\ Level' = 3 /\ Alive = {a \in Arcs : corridor[a][1] # "unresolved"}
        /\ Alive' = {a \in Arcs : slots'[a] = Ends'}
        /\ FunnelAdmitted' = FunnelAdmitted
    BY <2>1 DEF Level, Alive, FunnelAdmitted
  <2>3. \A a \in Arcs : slots'[a] = Ends => corridor[a][1] # "unresolved"
    BY <2>1 DEF IInv, Layered, Mapped
  <2> QED
    BY <2>1, <2>2, <2>3 DEF Funnel!Next, Funnel!Narrow, FunnelAdmitted
<1>6. CASE BuildRoads
  <2>1. phase = "step6" /\ phase' = "outputs" /\ gate' = gate
        /\ entered' = entered /\ slots' = slots
    BY <1>6 DEF BuildRoads, outputs, registry
  <2>2. /\ Level = 3 /\ Level' = 4 /\ Alive = {a \in Arcs : slots[a] = Ends}
        /\ Alive' = {a \in Arcs : road'[a] # NoRoad}
        /\ FunnelAdmitted' = FunnelAdmitted
    BY <2>1 DEF Level, Alive, FunnelAdmitted
  <2>3. ASSUME NEW a \in Arcs, road'[a] # NoRoad PROVE slots[a] = Ends
    <3>1. a \in entered'
      BY <2>1, <2>3 DEF IInv, Layered, Offered
    <3>2. <<result'[a], road'[a]>> \in Outcomes(a)'
      BY <2>1, <3>1 DEF IInv, Layered, Offered
    <3>3. slots'[a] = Ends
      BY <2>3, <3>2 DEF Outcomes
    <3> QED
      BY <2>1, <3>3
  <2> QED
    BY <2>1, <2>2, <2>3 DEF Funnel!Next, Funnel!Narrow, FunnelAdmitted
<1>7. CASE WriteOutputs
  <2>1. phase = "outputs" /\ phase' = "done" /\ entered' = entered /\ road' = road
        /\ gate' = GateFor({a \in entered : road[a] = NoRoad})
    BY <1>7 DEF WriteOutputs, registry
  <2>2. /\ Level = 4 /\ Level' = 5 /\ Alive = {a \in Arcs : road[a] # NoRoad}
        /\ Alive' = Alive
        /\ FunnelAdmitted = entered /\ FunnelAdmitted' = entered
    BY <2>1 DEF Level, Alive, FunnelAdmitted
  <2>3. \A a \in Arcs : road[a] # NoRoad => a \in entered
    BY <2>1 DEF IInv, Layered, Offered
  <2>4. entered \subseteq Arcs
    BY DEF IInv, Shape
  <2>5. gate'.pass = (Alive = entered /\ entered # {})
    <3>1. gate'.pass = ({a \in entered : road[a] = NoRoad} = {} /\ entered # {})
      BY <2>1 DEF GateFor
    <3>2. {a \in entered : road[a] = NoRoad} = {} <=> Alive = entered
      BY <2>2, <2>3, <2>4
    <3> QED
      BY <3>1, <3>2
  <2> QED
    BY <2>1, <2>2, <2>5 DEF Funnel!Next, Funnel!Judge, FunnelAdmitted
<1> QED
  BY <1>1, <1>2, <1>3, <1>4, <1>5, <1>6, <1>7 DEF Next

(* The registry implements the funnel that its counts report.              *)
THEOREM RegistryIsFunnel == Spec => ImplementsFunnel
<1>1. Init => Funnel!Init
  <2> SUFFICES ASSUME Init PROVE Funnel!Init
    OBVIOUS
  <2>1. phase = "step2" /\ gate.pass = FALSE
    BY DEF Init
  <2>2. Level = 0 /\ Alive = Arcs
    BY <2>1 DEF Level, Alive
  <2> QED
    BY <2>1, <2>2 DEF Funnel!Init
<1>2. IInv /\ IInv' /\ [Next]_vars => [Funnel!Next]_(Funnel!vars)
  BY FunnelStep DEF Funnel!vars, FunnelAdmitted
<1> QED
  BY Invariant, <1>1, <1>2, PTL DEF Spec, ImplementsFunnel, Funnel!Spec

-----------------------------------------------------------------------------
(* The reviews.  They also rest on two facts that no step needs: before    *)
(* step 6 there are no roads, and gap control only decides on single arcs. *)
Reviewed ==
    /\ ~Offered => \A a \in Arcs : road[a] = NoRoad
    /\ \A a \in Arcs : gap[a] # NoGap => Unique(a)
    /\ phase \in {"step2", "step3"} \/ \A a \in GapControlled :
          Unique(a) /\ support[a].kind # "no_support" /\ support[a].cov > 0 =>
              \E targets \in SUBSET GapControlled : \E has :
                 /\ \A b \in GapControlled :
                       Unique(b) /\ support[b].kind # "no_support" /\ support[b].cov > 0
                           => b \in targets
                 /\ gap[a] = GapDecision(a, targets, support, has)

LEMMA ReviewedInit == Init => Reviewed
BY DEF Init, Reviewed, All, Offered

LEMMA ReviewedNext == Reviewed /\ [Next]_vars => Reviewed'
<1> SUFFICES ASSUME Reviewed, [Next]_vars PROVE Reviewed'
  OBVIOUS
<1>1. CASE AttachEvidence
  <2>1. PICK ev, has, ok : Attach(ev, has, ok)
    BY <1>1 DEF AttachEvidence
  <2> DEFINE targets == GapTargets(bridge, ev)
  <2>2. /\ gap' = [a \in Arcs |->
                IF a \in targets THEN GapDecision(a, targets, ev, has) ELSE NoGap]
        /\ support' = ev /\ road' = road /\ phase = "step3" /\ phase' = "step4"
    BY <1>1, <2>1 DEF AttachEvidence, Attach
  <2>3. /\ targets \subseteq GapControlled /\ \A a \in targets : Unique(a)
        /\ \A b \in GapControlled : Unique(b) /\ ev[b].kind # "no_support" /\ ev[b].cov > 0
                                       => b \in targets
    BY DEF GapTargets
  <2> HIDE DEF targets
  <2>4. \A a \in Arcs : gap'[a] # NoGap => Unique(a)
    BY <2>2, <2>3
  <2>5. ASSUME NEW a \in GapControlled, Unique(a), ev[a].kind # "no_support", ev[a].cov > 0
        PROVE  gap'[a] = GapDecision(a, targets, ev, has)
    BY <2>2, <2>3, <2>5, ArcsAssumption
  <2> QED
    BY <2>2, <2>3, <2>4, <2>5 DEF Reviewed, Offered
<1>2. CASE RegisterArcs
  BY <1>2 DEF RegisterArcs, Reviewed, Offered
<1>3. CASE ResolveCorridors \/ MapSlots
  <2>1. /\ UNCHANGED <<gap, support, road>> /\ phase \in {"step4", "step5"}
        /\ phase' \in {"step5", "step6"}
    BY <1>3 DEF ResolveCorridors, MapSlots, registry
  <2> QED
    BY <2>1 DEF Reviewed, Offered
<1>4. CASE BuildRoads
  BY <1>4 DEF BuildRoads, registry, Reviewed, Offered
<1>5. CASE WriteOutputs
  BY <1>5 DEF WriteOutputs, registry, Reviewed, Offered
<1>6. CASE UNCHANGED vars
  BY <1>6 DEF vars, Reviewed, Offered
<1> QED
  BY <1>1, <1>2, <1>3, <1>4, <1>5, <1>6 DEF Next

LEMMA ReviewedAlways == Spec => [](IInv /\ Reviewed)
BY InvInit, InvNext, ReviewedInit, ReviewedNext, PTL DEF Spec

LEMMA RoadsEntered ==
    ASSUME IInv, Reviewed, NEW a \in Arcs, HasRoad(a)
    PROVE  a \in entered /\ Decided
BY DEF IInv, Layered, Reviewed, HasRoad, Offered, Decided

(* A controlled arc is the only one of its pair and nothing blocks it hard.*)
LEMMA ControlledClean ==
    ASSUME IInv, Decided, NEW a \in Arcs, Controlled(a)
    PROVE  Unique(a) /\ hard[a] = "" /\ a \in entered
BY DEF IInv, Admitted, Registered, EntryIsJustified

(* The audit of legality and the final gate come to one verdict.           *)
THEOREM AuditMeetsGate == Spec => []AuditKnowsTheGate
<1>1. ASSUME IInv, Reviewed, Decided PROVE AuditKnowsTheGate
  <2>1. ASSUME NEW a \in Arcs
        PROVE  Condemned(a) <=> FinalGate(a) # "" \/ hard[a] # ""
    <3>1. Condemned(a) <=> \/ ~Unique(a) /\ a \notin finalize
                           \/ blocked[a] /\ ~Controlled(a)
                           \/ ~Controlled(a) /\ hard[a] # ""
      BY DEF Condemned, Identity, ProductionArc
    <3>2. FinalGate(a) # "" <=> \/ ~Unique(a) /\ a \notin finalize
                                \/ (Unique(a) \/ a \in finalize) /\ blocked[a] /\ ~Controlled(a)
      BY DEF FinalGate
    <3>3. Controlled(a) => hard[a] = ""
      BY <1>1, ControlledClean
    <3> QED
      BY <3>1, <3>2, <3>3
  <2>2. ASSUME NEW a \in Arcs, HasRoad(a) PROVE ~Condemned(a)
    <3>1. a \in entered
      BY <1>1, <2>2, RoadsEntered
    <3>2. FinalGate(a) = "" /\ hard[a] = ""
      BY <1>1, <3>1, EnteredClean
    <3> QED
      BY <2>1, <3>2
  <2> QED
    BY <2>1, <2>2 DEF AuditKnowsTheGate, BadRoads
<1>2. IInv /\ Reviewed => AuditKnowsTheGate
  BY <1>1 DEF AuditKnowsTheGate
<1> QED
  BY ReviewedAlways, <1>2, PTL

-----------------------------------------------------------------------------
(* The row that speaks for a pair is one of its rows, a built one if there *)
(* is one.                                                                 *)
LEMMA BestRowIsOne ==
    ASSUME NEW p \in Pairs
    PROVE  /\ BestRow(p) \in ArcsOf(p)
           /\ \A b \in ArcsOf(p) : class[b] = "built" => class[BestRow(p)] = "built"
<1>1. PICK x \in ArcsOf(p) : TRUE
  BY DEF Pairs, ArcsOf, PairOf
<1>2. \A a : /\ Precedence(a) \in 0..3
             /\ Precedence(a) = 3 <=> class[a] = "built"
  <2> SUFFICES ASSUME NEW a PROVE Precedence(a) \in 0..3 /\ (Precedence(a) = 3 <=> class[a] = "built")
    OBVIOUS
  <2>1. /\ Identity(a).built = (class[a] = "built") /\ Identity(a).controlled = Controlled(a)
        /\ Identity(a).entered = (a \in entered)
    BY DEF Identity
  <2>2. Precedence(a) = IF Identity(a).built THEN 3 ELSE IF Identity(a).controlled THEN 2
                        ELSE IF Identity(a).entered THEN 1 ELSE 0
    BY DEF Precedence
  <2>3. Precedence(a) = IF class[a] = "built" THEN 3 ELSE IF Controlled(a) THEN 2
                        ELSE IF a \in entered THEN 1 ELSE 0
    BY <2>1, <2>2, Zenon
  <2>4. CASE class[a] = "built"
    BY <2>3, <2>4
  <2>5. CASE class[a] # "built"
    <3>1. Precedence(a) \in {0, 1, 2}
      BY <2>3, <2>5, Zenon
    <3> QED
      BY <2>5, <3>1
  <2> QED
    BY <2>4, <2>5
<1>3. \E a \in ArcsOf(p) : \A b \in ArcsOf(p) : Precedence(b) <= Precedence(a)
  <2>1. CASE \E a \in ArcsOf(p) : Precedence(a) = 3
    BY <1>2, <2>1
  <2>2. CASE \E a \in ArcsOf(p) : Precedence(a) = 2 /\ \A b \in ArcsOf(p) : Precedence(b) # 3
    BY <1>2, <2>2
  <2>3. CASE \E a \in ArcsOf(p) : Precedence(a) = 1 /\ \A b \in ArcsOf(p) : Precedence(b) \notin {2, 3}
    BY <1>2, <2>3
  <2>4. CASE \A b \in ArcsOf(p) : Precedence(b) \notin {1, 2, 3}
    <3>1. \A b \in ArcsOf(p) : Precedence(b) = 0
      BY <1>2, <2>4
    <3> QED
      BY <1>1, <3>1
  <2> QED
    BY <2>1, <2>2, <2>3, <2>4
<1>4. BestRow(p) \in ArcsOf(p) /\ \A b \in ArcsOf(p) : Precedence(b) <= Precedence(BestRow(p))
  BY <1>3 DEF BestRow
<1> QED
  BY <1>2, <1>4

LEMMA BuiltHasRoad ==
    ASSUME IInv, phase = "done", NEW a \in Arcs
    PROVE  class[a] = "built" <=> HasRoad(a)
<1>1. CASE a \in entered
  BY <1>1, DoneClass DEF HasRoad
<1>2. CASE a \notin entered
  BY <1>2 DEF IInv, Reported, Layered, Offered, HasRoad
<1> QED
  BY <1>1, <1>2

(* Arcs of a pair that the evidence does not tell apart rest on nothing.   *)
LEMMA NotTold ==
    ASSUME IInv, Decided, NEW a \in Arcs, ~SamePair(a, support), support[a].ends = Ends
    PROVE  Unique(a)
<1> SUFFICES ASSUME ~Unique(a) PROVE FALSE
  OBVIOUS
<1>1. PICK b \in Siblings(a) : b # a
  BY DEF Unique, Siblings
<1>2. support[b].ends = Ends /\ support[b].lane = support[a].lane /\ b \in Arcs
  BY <1>1 DEF SamePair, Distinguishable, Siblings
<1>3. support[a] # NoSupport /\ support[b] # NoSupport
  <2>1. NoSupport.ends = {} /\ Ends # {}
    BY DEF NoSupport, Ends
  <2> QED
    BY <1>2, <2>1
<1> QED
  BY <1>1, <1>2, <1>3 DEF IInv, Admitted

LEMMA DualEnters ==
    ASSUME IInv, phase = "done", NEW p \in Pairs, DualOutput(p)
    PROVE  ArcsOf(p) \subseteq entered
<1> DEFINE rows == {a \in ArcsOf(p) : Structure(a) = "same_pair_multi_arc"}
<1>1. Cardinality(rows) >= 2 /\ rows \subseteq finalize
  BY DEF DualOutput
<1>2. PICK r \in rows : TRUE
  <2> HIDE DEF rows
  <2>1. rows # {}
    BY <1>1, FS_EmptySet
  <2> QED
    BY <2>1
<1>3. ASSUME NEW a \in ArcsOf(p) PROVE a \in finalize
  <2> SUFFICES ASSUME a \notin rows PROVE FALSE
    BY <1>1
  <2>1. ~SamePair(a, support) /\ a \in Arcs /\ r \in Siblings(a) /\ r # a
    BY <1>2 DEF Structure, ArcsOf, PairOf, Siblings
  <2>2. support[r].ends = Ends
    BY <1>1, <1>2 DEF IInv, Admitted, Decided
  <2>3. support[a].ends = Ends
    BY <2>1, <2>2 DEF SamePair, Distinguishable
  <2>4. Unique(a)
    BY <2>1, <2>3, NotTold DEF Decided
  <2> QED
    BY <2>1, <2>4 DEF Unique
<1>4. finalize \subseteq entered
  BY DEF IInv, Admitted, Decided, EntryIsJustified, Shape
<1> QED
  BY <1>3, <1>4

LEMMA PatchIsAccepted ==
    ASSUME IInv, Reviewed, phase = "done", NEW expected \in SUBSET Pairs
    PROVE  Regressed(expected) <=>
              ~ /\ entered # {} /\ {a \in entered : HasRoad(a)} = entered
                /\ expected = {PairOf(a) : a \in entered}
<1>1. entered \subseteq Arcs /\ \A a \in Arcs : class[a] = "built" <=> HasRoad(a)
  BY BuiltHasRoad DEF IInv, Shape
<1>2. BadRoads = {}
  BY EnteredClean, RoadsEntered, ControlledClean DEF BadRoads, Condemned, Identity, ProductionArc, FinalGate
<1>3. gate.pass <=> entered # {} /\ \A a \in entered : HasRoad(a)
  <2> DEFINE missing == {a \in entered : road[a] = NoRoad}
  <2>1. gate = GateFor(missing)
    BY DEF IInv, Reported
  <2> HIDE DEF missing
  <2>2. gate.pass = (missing = {} /\ entered # {})
    BY <2>1 DEF GateFor
  <2> QED
    BY <2>2 DEF missing, HasRoad
<1>4. \A p \in Pairs : Decision(p).built <=> \E a \in ArcsOf(p) : HasRoad(a)
  <2> SUFFICES ASSUME NEW p \in Pairs
               PROVE  Decision(p).built <=> \E a \in ArcsOf(p) : HasRoad(a)
    OBVIOUS
  <2>1. BestRow(p) \in ArcsOf(p)
    BY BestRowIsOne
  <2>2. Decision(p).built <=> class[BestRow(p)] = "built" \/ \E a \in ArcsOf(p) : HasRoad(a)
    BY DEF Decision, Identity
  <2> QED
    BY <1>1, <2>1, <2>2 DEF ArcsOf
<1>5. \A a \in Arcs : HasRoad(a) => a \in entered
  BY RoadsEntered
<1>6. UnexpectedBuilt(expected) = {} <=> \A a \in Arcs : HasRoad(a) => PairOf(a) \in expected
  BY <1>4 DEF UnexpectedBuilt, ArcsOf, Pairs, PairOf
<1>7. Accepted(expected) <=>
         /\ entered # {} /\ \A a \in entered : HasRoad(a)
         /\ \A a \in Arcs : HasRoad(a) => PairOf(a) \in expected
         /\ \A p \in expected : \E a \in Arcs : PairOf(a) = p /\ HasRoad(a)
  BY <1>1, <1>3, <1>6 DEF Accepted
<1>8. Accepted(expected) <=>
         /\ entered # {} /\ \A a \in entered : HasRoad(a)
         /\ expected = {PairOf(a) : a \in entered}
  BY <1>1, <1>5, <1>7
<1> QED
  BY <1>2, <1>8 DEF Regressed

(* What the reviews say by pair is true of the arcs.                       *)
THEOREM ReviewsTellTheTruth == Spec => []ReviewsAreTrue
<1>1. ASSUME IInv, Reviewed, phase = "done" PROVE ReviewsAreTrue
  <2>1. ASSUME NEW p \in Pairs
        PROVE  /\ Decision(p).built <=> \E a \in ArcsOf(p) : HasRoad(a)
               /\ ~Decision(p).built => Decision(p).reason # ""
               /\ DualOutput(p) => ArcsOf(p) \subseteq Coverage.total
    <3>1. BestRow(p) \in ArcsOf(p) /\ BestRow(p) \in Arcs
      BY BestRowIsOne DEF ArcsOf
    <3>2. Decision(p).built <=> class[BestRow(p)] = "built" \/ \E a \in ArcsOf(p) : HasRoad(a)
      BY DEF Decision, Identity
    <3>3. class[BestRow(p)] = "built" <=> HasRoad(BestRow(p))
      BY <1>1, <3>1, BuiltHasRoad
    <3>4. Decision(p).reason = reason[BestRow(p)]
      BY DEF Decision, Identity
    <3>5. class[BestRow(p)] # "built" => reason[BestRow(p)] # ""
      BY <1>1, <3>1 DEF IInv, Reported, NothingSilent
    <3>6. DualOutput(p) => ArcsOf(p) \subseteq Coverage.total
      BY <1>1, DualEnters DEF Coverage
    <3> QED
      BY <3>1, <3>2, <3>3, <3>4, <3>5, <3>6
  <2>2. Coverage.built = {a \in entered : HasRoad(a)}
    <3>1. Coverage.built = {a \in entered : class[a] = "built" \/ HasRoad(a)}
      BY DEF Coverage, Identity
    <3>2. \A a \in entered : class[a] = "built" <=> HasRoad(a)
      BY <1>1, BuiltHasRoad DEF IInv, Shape
    <3> QED
      BY <3>1, <3>2
  <2>3. {a \in entered : HasRoad(a)} = {a \in Arcs : HasRoad(a)}
    BY <1>1, RoadsEntered DEF IInv, Shape
  <2>4. \A expected \in SUBSET Pairs :
           Regressed(expected) <=>
              ~ /\ entered # {} /\ Coverage.built = entered
                /\ expected = {PairOf(a) : a \in entered}
    BY <1>1, <2>2, PatchIsAccepted
  <2> QED
    BY <2>1, <2>2, <2>3, <2>4 DEF ReviewsAreTrue
<1>2. IInv /\ Reviewed => ReviewsAreTrue
  BY <1>1 DEF ReviewsAreTrue
<1> QED
  BY ReviewedAlways, <1>2, PTL

-----------------------------------------------------------------------------
(* Strengths are numbers of a bounded size, so that of rivals some are     *)
(* strongest.                                                              *)
Most == 10000

LEMMA StrengthFits == ASSUME IInv, NEW a \in Arcs PROVE Strength(a) \in 0..Most
<1>1. support[a].cov \in 0..100
  <2>1. support[a] \in Supports \cup {NoSupport}
    BY DEF IInv, Shape
  <2>2. NoSupport.cov \in 0..100
    BY DEF NoSupport
  <2> QED
    BY <2>1, <2>2, SupportsAssumption
<1>2. SupportRank(a) \in {0, 5, 20, 30}
  BY DEF SupportRank
<1> DEFINE c == support[a].cov
           r == SupportRank(a)
           x == IF support[a].kind = "no_support" THEN 0 ELSE 60
           y == IF slots[a] = Ends THEN 30 ELSE 0
           z == IF corridor[a][1] = "unresolved" THEN 0 ELSE 20
<1>3. x \in 0..60 /\ y \in 0..30 /\ z \in 0..20 /\ c \in 0..100 /\ r \in 0..30
  BY <1>1, <1>2
<1>4. Strength(a) = 100 * r + 10 * c + 4 * c + x + y + z
  BY DEF Strength
<1> HIDE DEF c, r, x, y, z
<1> QED
  BY <1>3, <1>4 DEF Most

LEMMA GreatestOfBounded ==
    ASSUME NEW S, NEW top \in Nat, S \subseteq 0..top, S # {}
    PROVE  Max(S) \in S /\ \A n \in S : n <= Max(S)
<1> DEFINE Less == OpToRel(<, Nat)
           gaps == {top - n : n \in S}
<1>1. gaps \subseteq Nat /\ gaps # {}
  <2>1. \A n \in S : top - n \in Nat
    <3> SUFFICES ASSUME NEW n \in S PROVE top - n \in Nat
      OBVIOUS
    <3>1. n \in 0..top
      OBVIOUS
    <3> QED
      BY <3>1
  <2> QED
    BY <2>1
<1>2. PICK g \in gaps : \A h \in gaps : <<h, g>> \notin Less
  <2> HIDE DEF gaps
  <2> QED
    BY <1>1, NatLessThanWellFounded, WFMin
<1>3. \A h, k \in Nat : h < k => <<h, k>> \in Less
  BY DEF OpToRel
<1> HIDE DEF Less
<1>4. \A h \in gaps : ~(h < g)
  BY <1>1, <1>2, <1>3
<1>5. PICK n \in S : g = top - n
  BY <1>2
<1>6. \A k \in S : n >= k
  <2> SUFFICES ASSUME NEW k \in S PROVE n >= k
    OBVIOUS
  <2>1. top - k \in gaps
    OBVIOUS
  <2>2. ~(top - k < g)
    BY <1>4, <2>1
  <2>3. n \in 0..top /\ k \in 0..top
    OBVIOUS
  <2> QED
    BY <1>5, <2>2, <2>3
<1>7. Max(S) \in S /\ \A k \in S : Max(S) >= k
  BY <1>6 DEF Max
<1> QED
  BY <1>7

LEMMA BestPeerFits ==
    ASSUME IInv, NEW a \in GapControlled
    PROVE  /\ BestPeer(a) \in 0..Most
           /\ \A b \in Peers(a) : Strength(b) <= BestPeer(a)
           /\ BestPeer(a) = 0 \/ \E b \in Peers(a) : Strength(b) = BestPeer(a)
<1> DEFINE S == {Strength(b) : b \in Peers(a)} \cup {0}
<1>1. \A b \in Peers(a) : Strength(b) \in 0..Most
  BY StrengthFits, ArcsAssumption DEF Peers
<1>2. S \subseteq 0..Most /\ S # {} /\ Most \in Nat
  BY <1>1 DEF Most
<1>3. BestPeer(a) = Max(S)
  BY DEF BestPeer
<1>4. Max(S) \in S /\ \A n \in S : n <= Max(S)
  <2> HIDE DEF S
  <2> QED
    BY <1>2, GreatestOfBounded
<1> QED
  BY <1>2, <1>3, <1>4

(* A merge of controlled arcs that the review confirms was let in.         *)
LEMMA ConfirmedEnters ==
    ASSUME IInv, Reviewed, phase = "done", NEW a \in GapControlled,
           MergeConfirmed(a), MergePeers(a, Arcs) \subseteq GapControlled
    PROVE  Controlled(a)
<1> DEFINE good(b) == Unique(b) /\ support[b].kind # "no_support" /\ support[b].cov > 0
<1>1. a \in Arcs /\ GapControlled \subseteq Arcs
  BY ArcsAssumption
<1>2. /\ ~SamePair(a, support) /\ MergePeers(a, Arcs) # {}
      /\ \A b \in {a} \cup MergePeers(a, Arcs) : Independent(support[b])
      /\ \A b, c \in {a} \cup MergePeers(a, Arcs) :
            b # c => Signature(support[b]) # Signature(support[c])
  BY DEF MergeConfirmed, Structure, AllowUpstream
<1>3. \A b \in Arcs : support[b].cov \in Int
  BY SupportsAssumption DEF IInv, Shape, NoSupport
<1>4. \A b \in Arcs : Independent(support[b]) =>
         support[b].kind # "no_support" /\ support[b].cov > 0 /\ support[b].ends = Ends
  BY <1>3 DEF Independent, MinCoverage
<1>5. Unique(a) /\ support[a].ends = Ends
  BY <1>1, <1>2, <1>4, NotTold DEF Decided
<1>6. good(a)
  BY <1>1, <1>2, <1>4, <1>5
<1>7. PICK targets \in SUBSET GapControlled : \E has :
         /\ \A b \in GapControlled : good(b) => b \in targets
         /\ gap[a] = GapDecision(a, targets, support, has)
  BY <1>6 DEF Reviewed
<1>8. PICK has : gap[a] = GapDecision(a, targets, support, has)
  BY <1>7
<1>9. \A b \in MergePeers(a, Arcs) : b \in targets
  BY <1>1, <1>2, <1>4, <1>7 DEF MergePeers
<1>10. MergePeers(a, targets) = MergePeers(a, Arcs)
  BY <1>1, <1>7, <1>9 DEF MergePeers
<1>11. AllowUpstream(a, targets, support)
  BY <1>2, <1>10 DEF AllowUpstream
<1>12. Cardinality(support[a].ends) # 1
  BY <1>5, EndsCardinality
<1>13. GapDecision(a, targets, support, has)[1] = Enter
  BY <1>5, <1>6, <1>11, <1>12 DEF GapDecision
<1> QED
  BY <1>8, <1>13 DEF Controlled

LEMMA InBounds == \A n \in 0..Most : n \in Int
OBVIOUS

LEMMA PeersMeet ==
    ASSUME NEW a \in GapControlled, NEW b \in Peers(a)
    PROVE  b \in GapControlled /\ Dst[b] = Dst[a] /\ a \in Peers(b)
BY DEF Peers

(* Rivals: of the strongest of those that lead to a node none loses.       *)
LEMMA StrongestKeeps ==
    ASSUME IInv, NEW a \in GapControlled
    PROVE  \E b \in GapControlled : Dst[b] = Dst[a] /\ ~Loses(b)
<1> DEFINE rivals == {b \in GapControlled : Dst[b] = Dst[a]}
           S == {Strength(b) : b \in rivals}
<1>1. \A b \in rivals : Strength(b) \in 0..Most
  BY StrengthFits, ArcsAssumption
<1>2. S \subseteq 0..Most /\ S # {} /\ Most \in Nat
  BY <1>1 DEF Most
<1>3. Max(S) \in S /\ \A n \in S : n <= Max(S)
  <2> HIDE DEF S
  <2> QED
    BY <1>2, GreatestOfBounded
<1>4. PICK b \in rivals : \A c \in rivals : Strength(c) <= Strength(b)
  BY <1>3
<1>5. BestPeer(b) <= Strength(b)
  <2>1. \A c \in Peers(b) : c \in rivals
    BY PeersMeet
  <2>2. BestPeer(b) = 0 \/ \E c \in Peers(b) : Strength(c) = BestPeer(b)
    BY BestPeerFits
  <2> QED
    BY <1>1, <1>4, <2>1, <2>2
<1>6. ~Loses(b)
  <2>1. BestPeer(b) \in 0..Most /\ Strength(b) \in 0..Most
    BY <1>1, BestPeerFits
  <2>2. BestPeer(b) \in Int /\ Strength(b) \in Int
    BY <2>1, InBounds
  <2>3. ~(BestPeer(b) - Strength(b) >= 20)
    BY <1>5, <2>2
  <2> QED
    BY <2>3 DEF Loses, SelectionMargin
<1> QED
  BY <1>6

LEMMA OneIsSelected ==
    ASSUME IInv, NEW a \in GapControlled, NEW b \in Peers(a)
    PROVE  ~(SelectedBySupport(a) /\ SelectedBySupport(b))
<1>1. b \in GapControlled /\ a \in Peers(b)
  BY PeersMeet
<1>2. /\ Strength(a) \in 0..Most /\ Strength(b) \in 0..Most
      /\ BestPeer(a) \in 0..Most /\ BestPeer(b) \in 0..Most
      /\ Strength(b) <= BestPeer(a) /\ Strength(a) <= BestPeer(b)
  BY <1>1, StrengthFits, BestPeerFits, ArcsAssumption
<1>3. /\ SelectedBySupport(a) => Strength(a) > BestPeer(a) + 20
      /\ SelectedBySupport(b) => Strength(b) > BestPeer(b) + 20
  BY <1>1 DEF SelectedBySupport, SelectionMargin
<1>4. /\ Strength(a) \in Int /\ Strength(b) \in Int
      /\ BestPeer(a) \in Int /\ BestPeer(b) \in Int
  BY <1>2, InBounds
<1> QED
  BY <1>2, <1>3, <1>4

LEMMA SlotlessYields ==
    ASSUME NEW a \in GapControlled, NEW over,
           Blame(a, over) = "competing_arc_no_independent_slot"
    PROVE  \E b \in Peers(a) : Blame(b, over) # "competing_arc_no_independent_slot"
<1>1. PICK b \in Peers(a) : slots[b] = Ends
  BY DEF Blame
<1>2. Blame(b, over) # "competing_arc_no_independent_slot"
  BY <1>1 DEF Blame
<1> QED
  BY <1>2

LEMMA Different == "must_build_now" # "must_remain_blocked"
OBVIOUS

LEMMA TripleParts ==
    ASSUME NEW x, NEW y, NEW z, NEW o, o = <<x, y, z>>
    PROVE  o[1] = x /\ o[3] = z
OBVIOUS

(* What gap control left outside has no road.                              *)
LEMMA ObligationKept ==
    ASSUME IInv, Reviewed, phase = "done", NEW a \in GapControlled, gap[a] # NoGap, NEW over
    PROVE  LET o == Obligation(a, over) IN
             /\ o[1] = "must_remain_blocked" => ~HasRoad(a) /\ o[3] # ""
             /\ o[1] = "must_build_now" => a \in entered /\ (o[3] = "" <=> HasRoad(a))
<1>1. a \in Arcs /\ Classification(a) = gap[a][1]
  BY ArcsAssumption DEF Classification
<1>2. class[a] = "built" <=> HasRoad(a)
  BY <1>1, BuiltHasRoad
<1>3. ~HasRoad(a) => reason[a] # ""
  BY <1>1, <1>2 DEF IInv, Reported, NothingSilent
<1>4. CASE Controlled(a)
  <2>1. a \in entered
    BY <1>1, <1>4, ControlledClean DEF Decided
  <2>2. Classification(a) = Enter
    BY <1>1, <1>4 DEF Controlled
  <2>3. CASE HasRoad(a)
    <3> DEFINE o == Obligation(a, over)
    <3>1. o = <<"must_build_now", "controlled_entry_built", "">>
      BY <1>2, <2>2, <2>3 DEF Obligation
    <3>2. o[1] = "must_build_now" /\ o[3] = ""
      <4> HIDE DEF o
      <4> QED
        BY <3>1, TripleParts
    <3> QED
      BY <2>1, <2>3, <3>2, Zenon
  <2>4. CASE ~HasRoad(a)
    <3> DEFINE o == Obligation(a, over)
    <3>1. o = <<"must_build_now", "blocked", reason[a]>>
      BY <1>2, <2>2, <2>4 DEF Obligation
    <3>2. o[1] = "must_build_now" /\ o[3] = reason[a]
      <4> HIDE DEF o
      <4> QED
        BY <3>1, TripleParts
    <3> QED
      BY <1>3, <2>1, <2>4, <3>2, Different, Zenon
  <2> QED
    BY <2>3, <2>4
<1>5. CASE ~Controlled(a)
  <2>1. Unique(a)
    BY <1>1 DEF Reviewed
  <2>2. a \notin entered
    BY <1>1, <1>5, <2>1 DEF IInv, Admitted, Decided, EntryIsJustified
  <2>3. ~HasRoad(a)
    BY <1>1, <2>2, RoadsEntered
  <2>4. Blame(a, over) # ""
    BY DEF Blame
  <2>5. Classification(a) # Enter
    BY <1>1, <1>5 DEF Controlled
  <2> DEFINE o == Obligation(a, over)
  <2>6. PICK why : o = <<"must_remain_blocked", "blocked", why>> /\ why # ""
    <3>1. CASE Classification(a) = Remain
      BY <1>3, <2>3, <2>5, <3>1 DEF Obligation
    <3>2. CASE Classification(a) # Remain
      BY <2>4, <2>5, <3>2 DEF Obligation
    <3> QED
      BY <3>1, <3>2
  <2>7. o[1] = "must_remain_blocked" /\ o[3] # ""
    <3> HIDE DEF o
    <3> QED
      BY <2>6, TripleParts
  <2> QED
    BY <2>3, <2>7, Different, Zenon
<1> QED
  BY <1>4, <1>5

(* The obligations of gap-controlled arcs are the ones the run kept.       *)
THEOREM ObligationsHold == Spec => []ObligationsAreKept
<1>1. IInv /\ Reviewed => ObligationsAreKept
  BY ObligationKept, ConfirmedEnters, OneIsSelected, StrongestKeeps, SlotlessYields
     DEF ObligationsAreKept
<1> QED
  BY ReviewedAlways, <1>1, PTL

=============================================================================
