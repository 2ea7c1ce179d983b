---------------------------- MODULE AnchorProofs ----------------------------
(***************************************************************************)
(* Theorems about the anchors of crossings.                                *)
(*                                                                         *)
(* AnchorRun, for any patches, any limits and any chains.  What comes up   *)
(* to PassingIsClean holds whatever the offsets and the orders of          *)
(* evaluation are.  The next part needs them: the offsets are numbers, one *)
(* component is judged as a whole, so a node judged in its turn exceeds    *)
(* its predecessors.  Then a corridor is followed hop by hop and a trail   *)
(* road by road: they meet the same crossings at the same distance.        *)
(*                                                                         *)
(* AnchorEvaluation, from Reaches on: the evaluation of a node keeps the   *)
(* contract that AnchorNode states and AnchorRun relies on, for any stop   *)
(* boundary, windows, scans and probes.                                    *)
(***************************************************************************)
EXTENDS AnchorRun, AnchorEvaluation, FiniteSetTheorems, WellFoundedInduction, TLAPS

Early == {"load", "seeds", "zones", "chains"}
Late == {"order", "merge", "done"}

(* A verdict is a record of two fields, and only a node of exactly one     *)
(* usable kind is ever placed.                                             *)
Sound ==
    /\ results = [n \in Evaluated |-> results[n]]
    /\ \A n \in Evaluated :
          /\ results[n] = [fate |-> results[n].fate, abs |-> results[n].abs]
          /\ results[n].fate \in {"placed", "fail"}
          /\ Up(n) => Kind(n) \in {{"merge"}, {"diverge"}, {"k16"}}

(* What is already known of the order of the lines.                        *)
OrderSoFar ==
    /\ pc = "order" => \A e \in edges : e \in todo \/ Ordered(e)
    /\ pc \in {"merge", "done"} => \A e \in edges : Ordered(e)

(* What the loading and the choice of the seeds left behind.               *)
Told ==
    /\ pc \notin {"load", "seeds", "zones"} => zone = TRUE \/ <<"input", "drivezone">> \in hard
    /\ pc \notin {"load", "seeds"} /\ world.mode = "global_focus" =>
          \A id \in world.focus :
             /\ Resolved(id, rows, roads) = {} => <<"focus", id>> \in hard
             /\ Resolved(id, rows, roads) \subseteq seeds

Taken ==
    /\ pc \notin {"merge", "done"} => merged = {}
    /\ \A m \in merged : m.src \in used /\ m.dst \in used

Phases ==
    /\ pc \in Early \cup Late \cup {"chained", "rest"}
    /\ pc \in Early => Evaluated = {}
    /\ pc \in Late => seeds \subseteq Evaluated
    /\ pc # "done" => pass = {}
    /\ pc = "done" => pass = {Gates}

AnchorInv ==
    Phases /\ Sound /\ FailureIsLoud /\ OrderSoFar /\ Told /\ Taken /\ OneLinePerGroup

LEMMA AnchorInit == Init => AnchorInv
<1> SUFFICES ASSUME Init PROVE AnchorInv
  OBVIOUS
<1>1. DOMAIN results = {} /\ results = [n \in Evaluated |-> results[n]]
  BY DEF Init, Evaluated
<1> QED
  BY <1>1 DEF Init, AnchorInv, Phases, Sound, FailureIsLoud, OrderSoFar, Told, Taken,
       OneLinePerGroup, Early, Late, Evaluated

-----------------------------------------------------------------------------
(* Steps that only go on to the next phase, or do not touch the verdicts.  *)

LEMMA KindStays ==
    ASSUME UNCHANGED <<world, rows, roads>>, NEW n
    PROVE  Kind(n)' = Kind(n)
BY DEF Kind

LEMMA VerdictsStay ==
    ASSUME Sound, UNCHANGED <<inputs, results>>
    PROVE  /\ Sound'
           /\ \A n : Up(n)' = Up(n) /\ Abs(n)' = Abs(n)
           /\ \A e : Ordered(e)' = Ordered(e)
<1>1. results' = results /\ world' = world /\ rows' = rows /\ roads' = roads
  BY DEF inputs
<1>2. Evaluated' = Evaluated
  BY <1>1 DEF Evaluated
<1>3. \A n : Up(n)' = Up(n) /\ Abs(n)' = Abs(n) /\ Kind(n)' = Kind(n)
  BY <1>1, <1>2 DEF Up, Abs, Kind
<1>4. \A e : Ordered(e)' = Ordered(e)
  BY <1>3 DEF Ordered
<1>5. Sound'
  BY <1>1, <1>2, <1>3 DEF Sound
<1> QED
  BY <1>3, <1>4, <1>5

LEMMA EarlySteps ==
    ASSUME AnchorInv, Load \/ PickSeeds \/ LoadZones \/ BuildChains
    PROVE  AnchorInv'
<1> USE DEF AnchorInv
<1>1. /\ pc \in Early /\ Evaluated = {} /\ merged = {} /\ pass = {}
      /\ results' = results /\ merged' = merged /\ used' = used /\ pass' = pass
  BY DEF Load, PickSeeds, LoadZones, BuildChains, verdicts, merges, Phases, Taken, Early, Late
<1>2. Evaluated' = {} /\ merged' = {} /\ pass' = {}
  BY <1>1 DEF Evaluated
<1>3. Sound' /\ FailureIsLoud' /\ OneLinePerGroup' /\ Taken'
  BY <1>1, <1>2 DEF Sound, FailureIsLoud, OneLinePerGroup, Taken
<1>4. CASE Load
  <2>1. pc' = "seeds"
    BY <1>4 DEF Load
  <2> QED
    BY <1>2, <1>3, <2>1 DEF Phases, OrderSoFar, Told, Early, Late
<1>5. CASE PickSeeds
  <2>1. pc' = "zones" /\ world' = world /\ rows' = rows /\ roads' = roads
    BY <1>5 DEF PickSeeds, inputs
  <2>2. ASSUME world.mode = "global_focus", NEW id \in world.focus
        PROVE  /\ Resolved(id, rows, roads) = {} => <<"focus", id>> \in hard'
               /\ Resolved(id, rows, roads) \subseteq seeds'
    <3>1. seeds' = UNION {Resolved(f, rows, roads) : f \in world.focus}
      BY <1>5, <2>2 DEF PickSeeds, SeedsOf
    <3>2. hard' = hard \cup {<<"focus", f>> : f \in
                    {g \in world.focus : world.mode = "global_focus"
                                          /\ Resolved(g, rows, roads) = {}}}
      BY <1>5 DEF PickSeeds
    <3> QED
      BY <2>2, <3>1, <3>2
  <2>3. Told'
    BY <2>1, <2>2 DEF Told
  <2> QED
    BY <1>2, <1>3, <2>1, <2>3 DEF Phases, OrderSoFar, Early, Late
<1>6. CASE LoadZones
  <2>1. /\ pc = "zones" /\ pc' = "chains" /\ world' = world /\ rows' = rows /\ roads' = roads
        /\ seeds' = seeds /\ hard \subseteq hard'
        /\ zone' = TRUE \/ <<"input", "drivezone">> \in hard'
    BY <1>6 DEF LoadZones, chain
  <2>2. Told'
    BY <2>1 DEF Told
  <2> QED
    BY <1>2, <1>3, <2>1, <2>2 DEF Phases, OrderSoFar, Early, Late
<1>7. CASE BuildChains
  <2>1. /\ pc = "chains" /\ pc' = "chained" /\ UNCHANGED <<inputs, seeds, hard>>
    BY <1>7 DEF BuildChains
  <2>2. Told'
    BY <2>1 DEF Told, inputs
  <2> QED
    BY <1>2, <1>3, <2>1, <2>2 DEF Phases, OrderSoFar, Early, Late
<1> QED
  BY <1>4, <1>5, <1>6, <1>7

LEMMA TurnSteps ==
    ASSUME AnchorInv, ChainedDone \/ RestDone \/ OrderDone \/ Finish
    PROVE  AnchorInv'
<1> USE DEF AnchorInv
<1>1. UNCHANGED <<inputs, chain, verdicts, merges, hard>>
  BY DEF ChainedDone, RestDone, OrderDone, Finish
<1>2. /\ world' = world /\ rows' = rows /\ roads' = roads /\ zone' = zone
      /\ seeds' = seeds /\ edges' = edges /\ results' = results
      /\ merged' = merged /\ used' = used /\ hard' = hard
  BY <1>1 DEF inputs, chain, verdicts, merges
<1>3. /\ Sound'
      /\ \A n : Up(n)' = Up(n) /\ Abs(n)' = Abs(n)
      /\ \A e : Ordered(e)' = Ordered(e)
  BY <1>1, VerdictsStay DEF verdicts
<1>4. Evaluated' = Evaluated
  BY <1>2 DEF Evaluated
<1>5. FailureIsLoud' /\ OneLinePerGroup'
  BY <1>2, <1>3, <1>4 DEF FailureIsLoud, OneLinePerGroup
<1>6. Told'
  BY <1>2 DEF Told, ChainedDone, RestDone, OrderDone, Finish
<1>7. Taken'
  BY <1>2 DEF Taken, ChainedDone, RestDone, OrderDone, Finish
<1>8. OrderSoFar'
  <2>1. CASE ChainedDone
    BY <2>1 DEF ChainedDone, OrderSoFar
  <2>2. CASE RestDone
    BY <2>2, <1>2 DEF RestDone, OrderSoFar
  <2>3. CASE OrderDone
    <3>1. \A e \in edges : Ordered(e)
      BY <2>3 DEF OrderDone, OrderSoFar
    <3> QED
      BY <2>3, <3>1, <1>2, <1>3 DEF OrderDone, OrderSoFar
  <2>4. CASE Finish
    BY <2>4, <1>2, <1>3 DEF Finish, OrderSoFar
  <2> QED
    BY <2>1, <2>2, <2>3, <2>4
<1>9. Phases'
  <2>1. CASE ChainedDone
    BY <2>1, <1>4 DEF ChainedDone, Phases, Early, Late
  <2>2. CASE RestDone
    BY <2>2, <1>2, <1>4 DEF RestDone, Phases, Early, Late
  <2>3. CASE OrderDone
    BY <2>3, <1>2, <1>4 DEF OrderDone, Phases, Early, Late
  <2>4. CASE Finish
    <3>1. {n \in seeds : Up(n)}' = {n \in seeds : Up(n)}
      BY <1>2, <1>3
    <3>2. Gates' = Gates
      BY <3>1, <1>2 DEF Gates, Enough
    <3> QED
      BY <2>4, <3>2, <1>2, <1>4 DEF Finish, Phases, Early, Late
  <2> QED
    BY <2>1, <2>2, <2>3, <2>4
<1> QED
  BY <1>3, <1>5, <1>6, <1>7, <1>8, <1>9

-----------------------------------------------------------------------------
(* A verdict, the order pass and a merge.                                  *)

LEMMA JudgedIsSound ==
    ASSUME Sound, FailureIsLoud, UNCHANGED inputs, NEW n, NEW req, Judge(n, req)
    PROVE  /\ Sound' /\ FailureIsLoud'
           /\ Evaluated' = Evaluated \cup {n} /\ hard \subseteq hard'
<1>1. PICK v \in Verdicts(Kind(n), Offset(n), req) :
         /\ results' = [m \in Evaluated \cup {n} |-> IF m = n THEN v ELSE results[m]]
         /\ hard' = IF v = Failed THEN hard \cup {<<"node", n>>} ELSE hard
  BY DEF Judge
<1>2. Evaluated' = Evaluated \cup {n}
  BY <1>1 DEF Evaluated
<1>3. /\ v = [fate |-> v.fate, abs |-> v.abs]
      /\ v.fate \in {"placed", "fail"}
      /\ v.fate = "placed" => Kind(n) \in {{"merge"}, {"diverge"}, {"k16"}}
      /\ v.fate # "placed" => v = Failed
  BY DEF Verdicts, Failed, Placed
<1>4. \A m : Kind(m)' = Kind(m)
  BY DEF inputs, Kind
<1>5. Sound'
  <2>1. results' = [m \in Evaluated' |-> results'[m]]
    BY <1>1, <1>2
  <2>2. ASSUME NEW m \in Evaluated'
        PROVE  /\ results'[m] = [fate |-> results'[m].fate, abs |-> results'[m].abs]
               /\ results'[m].fate \in {"placed", "fail"}
               /\ Up(m)' => Kind(m)' \in {{"merge"}, {"diverge"}, {"k16"}}
    <3>1. CASE m = n
      BY <3>1, <1>1, <1>2, <1>3, <1>4 DEF Up
    <3>2. CASE m # n
      BY <3>2, <1>1, <1>2, <1>4 DEF Up, Sound
    <3> QED
      BY <3>1, <3>2
  <2> QED
    BY <2>1, <2>2 DEF Sound
<1>6. hard \subseteq hard'
  BY <1>1
<1>7. FailureIsLoud'
  <2> SUFFICES ASSUME NEW m \in Evaluated', ~Up(m)'
               PROVE  <<"node", m>> \in hard' \/ <<"order", m>> \in hard'
    BY DEF FailureIsLoud
  <2>1. CASE m = n
    <3>1. v.fate # "placed"
      BY <2>1, <1>1, <1>2 DEF Up
    <3> QED
      BY <3>1, <2>1, <1>1, <1>3
  <2>2. CASE m # n
    <3>1. m \in Evaluated /\ ~Up(m)
      BY <2>2, <1>1, <1>2 DEF Up
    <3> QED
      BY <3>1, <1>6 DEF FailureIsLoud
  <2> QED
    BY <2>1, <2>2
<1> QED
  BY <1>2, <1>5, <1>6, <1>7

LEMMA JudgeSteps ==
    ASSUME AnchorInv, EvaluateChained \/ EvaluateRest
    PROVE  AnchorInv'
<1> USE DEF AnchorInv
<1>1. /\ pc \in {"chained", "rest"} /\ pc' = pc /\ UNCHANGED <<inputs, chain, merges, pass>>
      /\ \E n, req : Judge(n, req)
  BY DEF EvaluateChained, EvaluateRest
<1>2. /\ Sound' /\ FailureIsLoud' /\ hard \subseteq hard'
  BY <1>1, JudgedIsSound
<1>3. merged' = merged /\ used' = used /\ merged = {} /\ pass = {} /\ pass' = {}
  BY <1>1 DEF merges, Taken, Phases
<1>4. Phases' /\ OrderSoFar'
  BY <1>1, <1>3 DEF Phases, OrderSoFar, Early, Late
<1>5. Told'
  BY <1>1, <1>2 DEF Told, inputs, chain
<1>6. Taken' /\ OneLinePerGroup'
  BY <1>3 DEF Taken, OneLinePerGroup
<1> QED
  BY <1>2, <1>4, <1>5, <1>6

LEMMA OrderStep ==
    ASSUME AnchorInv, CheckOrder PROVE AnchorInv'
<1> USE DEF AnchorInv
<1>1. PICK e \in todo :
        /\ IF OutOfOrder(e)
           THEN /\ results' = [results EXCEPT ![e.dst].fate = "fail"]
                /\ hard' = hard \cup {<<"order", e.dst>>}
           ELSE UNCHANGED <<results, hard>>
        /\ todo' = todo \ {e}
  BY DEF CheckOrder
<1>2. /\ pc = "order" /\ pc' = pc /\ UNCHANGED inputs /\ seeds' = seeds /\ edges' = edges
      /\ merged' = merged /\ used' = used /\ pass' = pass /\ merged = {} /\ pass = {}
  BY DEF CheckOrder, chain, merges, Taken, Phases
<1>3. \A n : Kind(n)' = Kind(n)
  BY <1>2 DEF inputs, Kind
<1>4. CASE ~OutOfOrder(e)
  <2>1. results' = results /\ hard' = hard
    BY <1>1, <1>4
  <2>2. /\ Sound' /\ Evaluated' = Evaluated
        /\ \A n : Up(n)' = Up(n) /\ Abs(n)' = Abs(n)
        /\ \A f : Ordered(f)' = Ordered(f)
    BY <1>2, <2>1, VerdictsStay DEF Evaluated
  <2>3. Ordered(e)
    BY <1>4 DEF OutOfOrder, Ordered, MayShare, IsDiverge, IsMerge
  <2>4. OrderSoFar'
    BY <1>1, <1>2, <2>2, <2>3 DEF OrderSoFar
  <2>5. FailureIsLoud'
    BY <2>1, <2>2 DEF FailureIsLoud
  <2>6. Phases' /\ Told' /\ Taken' /\ OneLinePerGroup'
    BY <1>2, <2>1, <2>2 DEF Phases, Told, Taken, OneLinePerGroup, inputs, Early, Late
  <2> QED
    BY <2>2, <2>4, <2>5, <2>6
<1>5. CASE OutOfOrder(e)
  <2>1. /\ e.dst \in Evaluated /\ Up(e.dst)
        /\ results' = [results EXCEPT ![e.dst].fate = "fail"]
        /\ hard' = hard \cup {<<"order", e.dst>>}
    BY <1>1, <1>5 DEF OutOfOrder, Up
  <2>2. Evaluated' = Evaluated
    BY <2>1 DEF Evaluated
  <2>3. /\ results'[e.dst] = [fate |-> "fail", abs |-> results[e.dst].abs]
        /\ \A n \in Evaluated : n # e.dst => results'[n] = results[n]
        /\ results' = [n \in Evaluated |-> results'[n]]
    <3>1. results[e.dst] = [fate |-> results[e.dst].fate, abs |-> results[e.dst].abs]
      BY <2>1 DEF Sound
    <3>2. [results[e.dst] EXCEPT !.fate = "fail"] = [fate |-> "fail", abs |-> results[e.dst].abs]
      BY <3>1
    <3>3. results' = [n \in Evaluated |-> IF n = e.dst
                                          THEN [results[e.dst] EXCEPT !.fate = "fail"]
                                          ELSE results[n]]
      BY <2>1 DEF Sound, Evaluated
    <3> QED
      BY <3>2, <3>3, <2>1
  <2>4. \A n : Up(n)' = (Up(n) /\ n # e.dst)
    BY <2>1, <2>2, <2>3 DEF Up
  <2>5. \A n : Abs(n)' = Abs(n)
    BY <2>1, <2>2, <2>3 DEF Abs
  <2>6. \A f : Ordered(f) => Ordered(f)'
    BY <1>3, <2>4, <2>5 DEF Ordered
  <2>7. Ordered(e)'
    BY <2>4 DEF Ordered
  <2>8. OrderSoFar'
    BY <1>1, <1>2, <2>6, <2>7 DEF OrderSoFar
  <2>9. Sound'
    <3> SUFFICES ASSUME NEW n \in Evaluated'
                 PROVE  /\ results'[n] = [fate |-> results'[n].fate, abs |-> results'[n].abs]
                        /\ results'[n].fate \in {"placed", "fail"}
                        /\ Up(n)' => Kind(n)' \in {{"merge"}, {"diverge"}, {"k16"}}
      BY <2>2, <2>3 DEF Sound
    <3>1. CASE n = e.dst
      <4>1. results'[n] = [fate |-> "fail", abs |-> results[e.dst].abs]
        BY <3>1, <2>3
      <4>2. results'[n].fate = "fail" /\ results'[n].abs = results[e.dst].abs
        BY <4>1
      <4>3. ~Up(n)'
        BY <3>1, <2>4
      <4> QED
        BY <4>1, <4>2, <4>3
    <3>2. CASE n # e.dst
      BY <3>2, <2>2, <2>3, <2>4, <1>3 DEF Sound
    <3> QED
      BY <3>1, <3>2
  <2>10. FailureIsLoud'
    BY <2>1, <2>2, <2>4 DEF FailureIsLoud
  <2>11. Phases' /\ Told' /\ Taken' /\ OneLinePerGroup'
    BY <1>2, <2>1, <2>2 DEF Phases, Told, Taken, OneLinePerGroup, inputs, Early, Late
  <2> QED
    BY <2>8, <2>9, <2>10, <2>11
<1> QED
  BY <1>4, <1>5

LEMMA MergeStep ==
    ASSUME AnchorInv, MergeEdge PROVE AnchorInv'
<1> USE DEF AnchorInv
<1>1. /\ pc = "merge" /\ pc' = pc /\ UNCHANGED <<inputs, chain, verdicts, hard, pass>>
  BY DEF MergeEdge
<1>2. /\ Sound' /\ Evaluated' = Evaluated
      /\ \A n : Up(n)' = Up(n) /\ Abs(n)' = Abs(n)
      /\ \A f : Ordered(f)' = Ordered(f)
  BY <1>1, VerdictsStay DEF verdicts, Evaluated
<1>3. FailureIsLoud' /\ OrderSoFar' /\ Told' /\ Phases'
  BY <1>1, <1>2 DEF FailureIsLoud, OrderSoFar, Told, Phases, chain, inputs, Early, Late
<1>4. CASE UNCHANGED merges
  BY <1>1, <1>2, <1>3, <1>4 DEF merges, Taken, OneLinePerGroup
<1>5. CASE ~UNCHANGED merges
  <2>1. \E e \in todo :
          /\ Mergeable(e)
          /\ \E k \in {e.src, e.dst} :
                merged' = merged \cup {[src |-> e.src, dst |-> e.dst, keeper |-> k]}
          /\ used' = used \cup {e.src, e.dst}
    BY <1>5 DEF MergeEdge, merges
  <2>b. PICK e \in todo :
          /\ Mergeable(e)
          /\ \E k \in {e.src, e.dst} :
                merged' = merged \cup {[src |-> e.src, dst |-> e.dst, keeper |-> k]}
          /\ used' = used \cup {e.src, e.dst}
    BY <2>1
  <2>a. PICK keeper \in {e.src, e.dst} :
          merged' = merged \cup {[src |-> e.src, dst |-> e.dst, keeper |-> keeper]}
    BY <2>b
  <2> DEFINE new == [src |-> e.src, dst |-> e.dst, keeper |-> keeper]
  <2>2. Up(e.src) /\ Up(e.dst) /\ e.src \notin used /\ e.dst \notin used
    BY <2>b DEF Mergeable
  <2>3. e.src # e.dst
    <3>1. "diverge" \in Kind(e.src) /\ "merge" \in Kind(e.dst)
      BY <2>b DEF Mergeable, IsDiverge, IsMerge
    <3>2. Kind(e.src) \in {{"merge"}, {"diverge"}, {"k16"}}
      BY <2>2 DEF Sound, Up
    <3> QED
      BY <3>1, <3>2
  <2>4. Taken'
    BY <1>1, <2>b, <2>a DEF Taken
  <2>5. OneLinePerGroup'
    <3>1. ASSUME NEW m \in merged'
          PROVE  Up(m.src)' /\ Up(m.dst)' /\ m.src # m.dst /\ m.keeper \in {m.src, m.dst}
      BY <1>2, <2>a, <2>2, <2>3 DEF OneLinePerGroup
    <3>2. ASSUME NEW m \in merged PROVE {m.src, m.dst} \cap {new.src, new.dst} = {}
      BY <2>2 DEF Taken
    <3>3. ASSUME NEW m1 \in merged', NEW m2 \in merged', m1 # m2
          PROVE  {m1.src, m1.dst} \cap {m2.src, m2.dst} = {}
      <4>1. m1 \in merged \cup {new} /\ m2 \in merged \cup {new}
        BY <2>a
      <4> HIDE DEF new
      <4>2. CASE m1 \in merged /\ m2 \in merged
        BY <3>3, <4>2 DEF OneLinePerGroup
      <4>3. CASE m1 = new \/ m2 = new
        BY <3>2, <3>3, <4>1, <4>3
      <4> QED
        BY <4>1, <4>2, <4>3
    <3> QED
      BY <3>1, <3>3 DEF OneLinePerGroup
  <2> QED
    BY <1>2, <1>3, <2>4, <2>5
<1> QED
  BY <1>4, <1>5

-----------------------------------------------------------------------------
THEOREM AnchorInvariant == Spec => []AnchorInv
<1>1. AnchorInv /\ [Next]_vars => AnchorInv'
  <2> SUFFICES ASSUME AnchorInv, [Next]_vars PROVE AnchorInv'
    OBVIOUS
  <2>1. CASE UNCHANGED vars
    <3>1. /\ UNCHANGED <<inputs, results>>
          /\ pc' = pc /\ todo' = todo /\ seeds' = seeds /\ edges' = edges
          /\ merged' = merged /\ used' = used /\ hard' = hard /\ pass' = pass
      BY <2>1 DEF vars, verdicts, chain, merges
    <3>2. /\ Sound' /\ Evaluated' = Evaluated
          /\ \A n : Up(n)' = Up(n) /\ Abs(n)' = Abs(n)
          /\ \A f : Ordered(f)' = Ordered(f)
      BY <3>1, VerdictsStay DEF Evaluated, AnchorInv
    <3>3. {n \in seeds : Up(n)}' = {n \in seeds : Up(n)}
      BY <3>1, <3>2
    <3>4. Gates' = Gates
      BY <3>1, <3>3 DEF Gates, Enough, inputs
    <3>5. Phases' /\ FailureIsLoud' /\ OrderSoFar'
      BY <3>1, <3>2, <3>4 DEF AnchorInv, Phases, FailureIsLoud, OrderSoFar, Early, Late
    <3>6. Told' /\ Taken' /\ OneLinePerGroup'
      BY <3>1, <3>2 DEF AnchorInv, Told, Taken, OneLinePerGroup, inputs
    <3> QED
      BY <3>2, <3>5, <3>6 DEF AnchorInv
  <2>2. CASE Next
    BY <2>2, EarlySteps, TurnSteps, JudgeSteps, OrderStep, MergeStep DEF Next
  <2> QED
    BY <2>1, <2>2
<1> QED
  BY <1>1, AnchorInit, PTL DEF Spec

(* After the order pass the placed nodes of every chain edge are in order, *)
(* whatever the pass failed on its way                                     *)
(* (_apply_continuous_relative_order_constraints).                         *)
THEOREM OrderPassIsEnough == Spec => []OrderHolds
<1>1. AnchorInv => OrderHolds
  BY DEF AnchorInv, OrderSoFar, OrderHolds
<1> QED
  BY <1>1, AnchorInvariant, PTL

(* No node fails without a hard breakpoint (_add_bp, the order pass).      *)
THEOREM FailuresAreTold == Spec => []FailureIsLoud
<1>1. AnchorInv => FailureIsLoud
  BY DEF AnchorInv
<1> QED
  BY <1>1, AnchorInvariant, PTL

(* Two merges share no node, and a merge keeps one of its two lines        *)
(* (_apply_continuous_merges).                                             *)
THEOREM MergesAreDisjoint == Spec => []OneLinePerGroup
<1>1. AnchorInv => OneLinePerGroup
  BY DEF AnchorInv
<1> QED
  BY <1>1, AnchorInvariant, PTL

(* A run that passes placed every node it was asked for, with every layer  *)
(* loaded and every chain in order (build_metrics).                        *)
THEOREM PassingIsClean == Spec => []PassIsClean
<1>1. AnchorInv => PassIsClean
  <2> SUFFICES ASSUME AnchorInv, pass = {TRUE} PROVE PassIsClean
    BY DEF PassIsClean
  <2>1. pc = "done" /\ Gates
    BY DEF AnchorInv, Phases
  <2>2. hard = {}
    BY <2>1 DEF Gates
  <2>3. seeds \subseteq Evaluated
    BY <2>1 DEF AnchorInv, Phases, Late
  <2>4. \A n \in Evaluated : Up(n)
    BY <2>2 DEF AnchorInv, FailureIsLoud
  <2>5. \A e \in edges : Ordered(e)
    BY <2>1 DEF AnchorInv, OrderSoFar
  <2>6. zone
    BY <2>1, <2>2 DEF AnchorInv, Told
  <2>7. ASSUME world.mode = "global_focus", NEW id \in world.focus
        PROVE  /\ Resolved(id, rows, roads) \subseteq Evaluated
               /\ Resolved(id, rows, roads) # {}
    BY <2>1, <2>2, <2>3, <2>7 DEF AnchorInv, Told
  <2> QED
    BY <2>3, <2>4, <2>5, <2>6, <2>7 DEF PassIsClean
<1> QED
  BY <1>1, AnchorInvariant, PTL

-----------------------------------------------------------------------------
LEMMA LeastOfSome ==
    ASSUME NEW S, S \subseteq Nat, S # {}
    PROVE  \E p \in S : \A q \in S : p <= q
<1> DEFINE Less == OpToRel(<, Nat)
<1>1. PICK p \in S : \A q \in S : <<q, p>> \notin Less
  BY NatLessThanWellFounded, WFMin
<1>2. Less = {s \in Nat \X Nat : s[1] < s[2]}
  BY DEF OpToRel
<1>3. \A q \in Nat : q < p => <<q, p>> \in Less
  BY <1>2
<1> HIDE DEF Less
<1>4. \A q \in S : ~(q < p)
  BY <1>1, <1>3
<1> QED
  BY <1>4

LEMMA LeastIsMin ==
    ASSUME NEW S, S \subseteq Nat, S # {}
    PROVE  Min(S) \in S /\ \A n \in S : Min(S) <= n
BY LeastOfSome DEF Min

(* What holds at 0 and is handed on from each number to the next holds up  *)
(* to N.                                                                   *)
LEMMA HandedOn ==
    ASSUME NEW N \in Nat, NEW Good, 0 \in Good,
           \A k \in 1..N : k - 1 \in Good => k \in Good
    PROVE  \A k \in 0..N : k \in Good
<1> DEFINE Bad == {k \in 0..N : k \notin Good}
<1>1. SUFFICES Bad = {}
  OBVIOUS
<1>2. SUFFICES ASSUME Bad # {} PROVE FALSE
  OBVIOUS
<1>3. Bad \subseteq Nat
  OBVIOUS
<1>4. PICK m \in Bad : \A n \in Bad : m <= n
  <2> HIDE DEF Bad
  <2> QED
    BY <1>2, <1>3, LeastOfSome
<1>5. m # 0 /\ m \in 1..N
  BY <1>4
<1>6. m - 1 \in 0..N /\ m - 1 \notin Bad
  BY <1>4, <1>5
<1> QED
  BY <1>4, <1>5, <1>6

(* A function can be defined by what it is at 0 and how it goes on.        *)
Follows(f, N, base, onto) == f[0] = base /\ \A k \in 1..N : f[k] = onto[f[k - 1]]

LEMMA RecursionExists ==
    ASSUME NEW N \in Nat, NEW X, NEW base \in X, NEW onto \in [X -> X]
    PROVE  \E f \in [0..N -> X] : Follows(f, N, base, onto)
<1> DEFINE Is(f, j) == Follows(f, j, base, onto)
           Good == {j \in Nat : \E f \in [0..j -> X] : Is(f, j)}
<1> USE DEF Follows
<1>1. 0 \in Good
  <2>1. [k \in 0..0 |-> base] \in [0..0 -> X] /\ Is([k \in 0..0 |-> base], 0)
    OBVIOUS
  <2> QED
    BY <2>1
<1>2. ASSUME NEW j \in 1..N, j - 1 \in Good PROVE j \in Good
  <2>1. PICK f \in [0..(j - 1) -> X] : Is(f, j - 1)
    BY <1>2
  <2> DEFINE g == [k \in 0..j |-> IF k = j THEN onto[f[j - 1]] ELSE f[k]]
  <2>2. f[j - 1] \in X
    OBVIOUS
  <2>3. g \in [0..j -> X]
    BY <2>2
  <2>4. ASSUME NEW k \in 1..j PROVE g[k] = onto[g[k - 1]]
    <3>1. CASE k = j
      BY <3>1
    <3>2. CASE k # j
      BY <2>1, <3>2
    <3> QED
      BY <3>1, <3>2
  <2>5. g[0] = base
    BY <2>1
  <2> HIDE DEF g
  <2>6. Is(g, j) /\ j \in Nat
    BY <2>4, <2>5
  <2> QED
    BY <2>3, <2>6
<1> HIDE DEF Is
<1>3. N \in Good
  <2> HIDE DEF Good
  <2> QED
    BY <1>1, <1>2, HandedOn
<1> QED
  BY <1>3 DEF Is

-----------------------------------------------------------------------------
(* Chains have lengths, nodes have offsets.                                *)
RoadsFit == IsFiniteSet(roads) /\ \A r \in roads : r.len \in Nat

Ends == {q.to : q \in Directed(roads)} \cup {q.from : q \in Directed(roads)}
Walks == [fate : {"going", "hit", "lost"}, at : Ends, prev : Ends, dist : Nat]
Start(d) == IF d.len > SearchLimit THEN Lost(d.to) ELSE Going(d.to, d.from, d.len)

LEMMA CorridorWalks ==
    ASSUME RoadsFit, NEW d \in Directed(roads)
    PROVE  \E walk : /\ Corridor(roads, d) = walk[Hops] /\ walk[0] = Start(d)
                     /\ \A k \in 1..Hops : walk[k] = Hop(roads, walk[k - 1])
                     /\ \A k \in 0..Hops : walk[k] \in Walks
<1> USE DEF Ends, Walks
<1> DEFINE base == Start(d)
           onto == [w \in Walks |-> Hop(roads, w)]
           walk[k \in 0..Hops] == IF k = 0 THEN base ELSE Hop(roads, walk[k - 1])
<1>1. \A q \in Directed(roads) : q.len \in Nat /\ q.to \in Ends /\ q.from \in Ends
  BY DEF RoadsFit, Directed
<1>2. base \in Walks
  BY <1>1 DEF Lost, Going, Start
<1>3. ASSUME NEW w \in Walks PROVE Hop(roads, w) \in Walks
  <2> DEFINE on == {q \in Directed(roads) : q.from = w.at /\ q.to # w.prev}
             next == CHOOSE q \in on : TRUE
  <2>1. CASE w.fate # "going"
    BY <2>1 DEF Hop
  <2>2. CASE w.fate = "going" /\ Degree(roads, w.at) >= 3
    BY <2>2 DEF Hop, Hit
  <2>3. CASE w.fate = "going" /\ ~(Degree(roads, w.at) >= 3)
    <3>1. CASE Cardinality(on) # 1
      <4>1. Hop(roads, w) = Lost(w.at)
        BY <2>3, <3>1 DEF Hop
      <4> QED
        BY <4>1 DEF Lost
    <3>2. CASE Cardinality(on) = 1
      <4>1. on # {}
        BY <3>2, FS_EmptySet
      <4>2. next \in on
        BY <4>1
      <4>3. next \in Directed(roads)
        BY <4>2
      <4>4. Hop(roads, w) \in {Lost(w.at), Going(next.to, w.at, w.dist + next.len)}
        BY <2>3 DEF Hop
      <4> HIDE DEF next
      <4>5. next.to \in Ends /\ w.dist + next.len \in Nat
        BY <1>1, <4>3
      <4> HIDE DEF Ends
      <4> QED
        BY <4>4, <4>5 DEF Lost, Going
    <3> QED
      BY <3>1, <3>2
  <2> QED
    BY <2>1, <2>2, <2>3
<1> HIDE DEF Walks, base, Ends
<1>4. onto \in [Walks -> Walks]
  BY <1>3
<1>5. PICK f \in [0..Hops -> Walks] : Follows(f, Hops, base, onto)
  <2>1. Hops \in Nat
    BY ChainsAssumption
  <2> HIDE DEF onto
  <2> QED
    BY <1>2, <1>4, <2>1, RecursionExists
<1>6. f = [k \in 0..Hops |-> IF k = 0 THEN base ELSE Hop(roads, f[k - 1])]
  <2>1. ASSUME NEW k \in 1..Hops PROVE f[k] = Hop(roads, f[k - 1])
    <3>1. f[k - 1] \in Walks
      BY ChainsAssumption
    <3> QED
      BY <1>5, <3>1 DEF Follows
  <2> QED
    BY <1>5, <2>1, ChainsAssumption DEF Follows
<1>7. walk = [k \in 0..Hops |-> IF k = 0 THEN base ELSE Hop(roads, walk[k - 1])]
  <2> DEFINE Is(g) == g = [k \in 0..Hops |-> IF k = 0 THEN base ELSE Hop(roads, g[k - 1])]
  <2>1. walk = CHOOSE g : Is(g)
    OBVIOUS
  <2>2. \E g : Is(g)
    BY <1>6
  <2> HIDE DEF Is
  <2>3. Is(walk)
    BY <2>1, <2>2
  <2> QED
    BY <2>3 DEF Is
<1>8. Corridor(roads, d) = walk[Hops]
  BY DEF Corridor, base, Start
<1> HIDE DEF walk
<1> DEFINE Good == {k \in 0..Hops : walk[k] \in Walks}
<1>9. 0 \in Good
  BY <1>2, <1>7, ChainsAssumption
<1>10. ASSUME NEW k \in 1..Hops, k - 1 \in Good PROVE k \in Good
  BY <1>3, <1>7, <1>10, ChainsAssumption
<1>11. \A k \in 0..Hops : k \in Good
  <2> HIDE DEF Good
  <2> QED
    BY <1>9, <1>10, HandedOn, ChainsAssumption
<1>12. walk[0] = base /\ \A k \in 1..Hops : walk[k] = Hop(roads, walk[k - 1])
  BY <1>7, ChainsAssumption
<1> QED
  BY <1>8, <1>11, <1>12 DEF base

LEMMA CorridorFits ==
    ASSUME RoadsFit, NEW d \in Directed(roads)
    PROVE  Corridor(roads, d).dist \in Nat
<1>1. Corridor(roads, d) \in Walks
  BY CorridorWalks, ChainsAssumption
<1> QED
  BY <1>1 DEF Walks

LEMMA DirectedFinite == ASSUME RoadsFit PROVE IsFiniteSet(Directed(roads))
<1> DEFINE driven == {q \in roads : q.dir \in {2, 3}}
           of == [r \in driven |->
                    [id |-> r.id, from |-> IF r.dir = 2 THEN r.s ELSE r.e,
                     to |-> IF r.dir = 2 THEN r.e ELSE r.s, len |-> r.len]]
<1>1. IsFiniteSet(driven)
  BY FS_Subset DEF RoadsFit
<1>2. Directed(roads) = {of[r] : r \in driven}
  BY DEF Directed
<1>3. of \in Surjection(driven, Directed(roads))
  BY <1>2 DEF Surjection
<1> HIDE DEF of, driven
<1> QED
  BY <1>1, <1>3, FS_Surjection

LEMMA EdgesFit ==
    ASSUME RoadsFit
    PROVE  /\ IsFiniteSet(ChainEdges(roads, seeds, Kinds))
           /\ \A e \in ChainEdges(roads, seeds, Kinds) :
                 e.src \in seeds /\ e.dst \in seeds /\ e.dist \in Nat
<1> DEFINE starts == {q \in Directed(roads) : q.from \in seeds}
           of == [d \in starts |-> [src |-> d.from, dst |-> Corridor(roads, d).at,
                                    dist |-> Corridor(roads, d).dist]]
           all == {of[d] : d \in starts}
<1>1. IsFiniteSet(starts)
  BY DirectedFinite, FS_Subset
<1>2. IsFiniteSet(all)
  <2>1. of \in Surjection(starts, all)
    BY DEF Surjection
  <2> HIDE DEF of, starts, all
  <2> QED
    BY <1>1, <2>1, FS_Surjection
<1>3. ASSUME NEW e \in ChainEdges(roads, seeds, Kinds)
      PROVE  e \in all /\ e.src \in seeds /\ e.dst \in seeds /\ e.dist \in Nat
  <2>1. \E d \in starts : /\ e = [src |-> d.from, dst |-> Corridor(roads, d).at,
                                  dist |-> Corridor(roads, d).dist]
                          /\ Corridor(roads, d).at \in seeds
    BY DEF ChainEdges
  <2>2. PICK d \in starts : /\ e = [src |-> d.from, dst |-> Corridor(roads, d).at,
                                    dist |-> Corridor(roads, d).dist]
                            /\ Corridor(roads, d).at \in seeds
    BY <2>1
  <2>3. Corridor(roads, d).dist \in Nat
    BY CorridorFits
  <2>4. e.src = d.from /\ e.dst = Corridor(roads, d).at /\ e.dist = Corridor(roads, d).dist
    BY <2>2
  <2>5. e \in all
    BY <2>2
  <2>6. d.from \in seeds
    OBVIOUS
  <2> QED
    BY <2>2, <2>3, <2>4, <2>5, <2>6
<1>4. ChainEdges(roads, seeds, Kinds) \subseteq all
  BY <1>3
<1> HIDE DEF all
<1> QED
  BY <1>2, <1>3, <1>4, FS_Subset

LEMMA NodesFinite ==
    ASSUME NEW E, IsFiniteSet(E) PROVE IsFiniteSet(ChainNodes(E))
<1> DEFINE src == [e \in E |-> e.src]
           dst == [e \in E |-> e.dst]
           A == {e.src : e \in E}
           B == {e.dst : e \in E}
<1>1. src \in Surjection(E, A) /\ dst \in Surjection(E, B)
  BY DEF Surjection
<1>2. ChainNodes(E) = A \cup B
  BY DEF ChainNodes
<1> HIDE DEF src, dst, A, B
<1>3. IsFiniteSet(A) /\ IsFiniteSet(B)
  BY <1>1, FS_Surjection
<1> QED
  BY <1>2, <1>3, FS_Union

LEMMA OffsetsFit ==
    ASSUME NEW E, IsFiniteSet(E), \A e \in E : e.dist \in Nat, NEW m \in ChainNodes(E)
    PROVE  Offsets(E)[m] \in Nat
<1> DEFINE nodes == ChainNodes(E)
           settled == Settled(E)
           n0 == Cardinality(nodes)
           Places == [nodes -> Nat]
           via(off, n) == {off[e.src] + e.dist : e \in {f \in Into(E, n) : f.src \in settled}}
           zero == [n \in nodes |-> 0]
           once(off) == [n \in nodes |-> IF via(off, n) = {} THEN 0 ELSE Min(via(off, n))]
           initial[k \in 0..n0] ==
             [n \in nodes |-> IF k = 0 \/ via(initial[k - 1], n) = {} THEN 0
                              ELSE Min(via(initial[k - 1], n))]
           reach(off, n) == {off[n]} \cup {off[e.src] + e.dist : e \in Into(E, n)}
           more(off) == [n \in nodes |-> Min(reach(off, n))]
           relaxed[k \in 0..n0] ==
             IF k = 0 THEN initial[n0]
             ELSE [n \in nodes |->
                     Min({relaxed[k - 1][n]}
                         \cup {relaxed[k - 1][e.src] + e.dist : e \in Into(E, n)})]
<1>1. n0 \in Nat
  BY NodesFinite, FS_CardinalityType
<1>2. \A n \in nodes : \A e \in Into(E, n) : e \in E /\ e.src \in nodes /\ e.dist \in Nat
  BY DEF Into, ChainNodes
<1>3. ASSUME NEW off \in Places PROVE once(off) \in Places /\ more(off) \in Places
  <2>1. ASSUME NEW n \in nodes PROVE via(off, n) = {} \/ Min(via(off, n)) \in Nat
    <3> DEFINE S == via(off, n)
    <3>1. S \subseteq Nat
      BY <1>2
    <3> HIDE DEF S
    <3>2. S = {} \/ Min(S) \in Nat
      BY <3>1, LeastIsMin
    <3> QED
      BY <3>2 DEF S
  <2>2. ASSUME NEW n \in nodes PROVE Min(reach(off, n)) \in Nat
    <3> DEFINE S == reach(off, n)
    <3>1. S \subseteq Nat /\ S # {}
      BY <1>2
    <3> HIDE DEF S
    <3>2. Min(S) \in Nat
      BY <3>1, LeastIsMin
    <3> QED
      BY <3>2 DEF S
  <2> HIDE DEF via, reach
  <2> QED
    BY <2>1, <2>2
<1>4. zero \in Places
  OBVIOUS
<1>5. initial[n0] \in Places
  <2> DEFINE onto == [off \in Places |-> once(off)]
  <2>1. onto \in [Places -> Places]
    BY <1>3
  <2>2. PICK f \in [0..n0 -> Places] : Follows(f, n0, zero, onto)
    <3> HIDE DEF onto, Places, zero, n0
    <3> QED
      BY <1>1, <1>4, <2>1, RecursionExists
  <2>3. f[0] = zero /\ \A k \in 1..n0 : f[k] = once(f[k - 1])
    <3>1. ASSUME NEW k \in 1..n0 PROVE f[k] = once(f[k - 1])
      <4>1. f[k - 1] \in Places
        BY <1>1
      <4> HIDE DEF once, Places
      <4> QED
        BY <2>2, <4>1 DEF Follows
    <3> QED
      BY <2>2, <3>1 DEF Follows
  <2>4. f = [k \in 0..n0 |-> [n \in nodes |-> IF k = 0 \/ via(f[k - 1], n) = {} THEN 0
                                               ELSE Min(via(f[k - 1], n))]]
    <3> DEFINE row(g, k) == [n \in nodes |-> IF k = 0 \/ via(g[k - 1], n) = {} THEN 0
                                             ELSE Min(via(g[k - 1], n))]
    <3>1. \A k \in 1..n0 : row(f, k) = once(f[k - 1])
      OBVIOUS
    <3>2. row(f, 0) = zero
      OBVIOUS
    <3> HIDE DEF row, once, zero
    <3>3. \A k \in 0..n0 : f[k] = row(f, k)
      BY <1>1, <2>3, <3>1, <3>2
    <3> HIDE DEF Places
    <3>4. f = [k \in 0..n0 |-> row(f, k)]
      BY <3>3
    <3> QED
      BY <3>4 DEF row
  <2>5. initial = [k \in 0..n0 |-> [n \in nodes |-> IF k = 0 \/ via(initial[k - 1], n) = {} THEN 0
                                               ELSE Min(via(initial[k - 1], n))]]
    <3> DEFINE Is(g) ==
          g = [k \in 0..n0 |-> [n \in nodes |-> IF k = 0 \/ via(g[k - 1], n) = {} THEN 0
                                             ELSE Min(via(g[k - 1], n))]]
    <3>1. initial = CHOOSE g : Is(g)
      OBVIOUS
    <3>2. \E g : Is(g)
      BY <2>4
    <3> HIDE DEF Is
    <3>3. Is(initial)
      BY <3>1, <3>2
    <3> QED
      BY <3>3 DEF Is
  <2> HIDE DEF initial
  <2>6. initial[0] = zero /\ \A k \in 1..n0 : initial[k] = once(initial[k - 1])
    <3> DEFINE row(g, k) == [n \in nodes |-> IF k = 0 \/ via(g[k - 1], n) = {} THEN 0
                                             ELSE Min(via(g[k - 1], n))]
    <3>1. initial = [k \in 0..n0 |-> row(initial, k)]
      BY <2>5
    <3>2. \A k \in 1..n0 : row(initial, k) = once(initial[k - 1])
      OBVIOUS
    <3>3. row(initial, 0) = zero
      OBVIOUS
    <3> HIDE DEF row, once, zero
    <3>4. \A k \in 0..n0 : initial[k] = row(initial, k)
      BY <3>1
    <3> QED
      BY <1>1, <3>2, <3>3, <3>4
  <2> DEFINE Good == {k \in 0..n0 : initial[k] \in Places}
  <2>7. 0 \in Good
    BY <1>1, <1>4, <2>6
  <2> HIDE DEF Places, once, more
  <2>8. ASSUME NEW k \in 1..n0, k - 1 \in Good PROVE k \in Good
    <3>1. once(initial[k - 1]) \in Places
      BY <1>3, <2>8
    <3> QED
      BY <1>1, <2>6, <3>1
  <2> HIDE DEF Good
  <2>9. n0 \in Good
    BY <1>1, <2>7, <2>8, HandedOn
  <2> QED
    BY <2>9 DEF Good
<1>6. relaxed[n0] \in Places
  <2> HIDE DEF initial
  <2> DEFINE onto == [off \in Places |-> more(off)]
  <2>1. onto \in [Places -> Places]
    BY <1>3
  <2>2. PICK f \in [0..n0 -> Places] : Follows(f, n0, initial[n0], onto)
    <3> HIDE DEF onto, Places, n0
    <3> QED
      BY <1>1, <1>5, <2>1, RecursionExists
  <2>3. f[0] = initial[n0] /\ \A k \in 1..n0 : f[k] = more(f[k - 1])
    <3>1. ASSUME NEW k \in 1..n0 PROVE f[k] = more(f[k - 1])
      <4>1. f[k - 1] \in Places
        BY <1>1
      <4> HIDE DEF more, Places
      <4> QED
        BY <2>2, <4>1 DEF Follows
    <3> QED
      BY <2>2, <3>1 DEF Follows
  <2> DEFINE Is(g) == g = [k \in 0..n0 |-> IF k = 0 THEN initial[n0] ELSE more(g[k - 1])]
  <2>4. Is(f)
    <3> HIDE DEF more, Places
    <3> QED
      BY <1>1, <2>3
  <2>5. relaxed = CHOOSE g : Is(g)
    OBVIOUS
  <2> HIDE DEF relaxed, Is
  <2>6. Is(relaxed)
    BY <2>4, <2>5
  <2> HIDE DEF more
  <2>7. relaxed[0] = initial[n0] /\ \A k \in 1..n0 : relaxed[k] = more(relaxed[k - 1])
    BY <1>1, <2>6 DEF Is
  <2> DEFINE Good == {k \in 0..n0 : relaxed[k] \in Places}
  <2> HIDE DEF Places, once
  <2>8. 0 \in Good
    BY <1>1, <1>5, <2>7
  <2>9. ASSUME NEW k \in 1..n0, k - 1 \in Good PROVE k \in Good
    <3>1. more(relaxed[k - 1]) \in Places
      BY <1>3, <2>9
    <3> QED
      BY <1>1, <2>7, <3>1
  <2> HIDE DEF Good
  <2>10. n0 \in Good
    BY <1>1, <2>8, <2>9, HandedOn
  <2> QED
    BY <2>10 DEF Good
<1>7. Offsets(E) = IF settled = nodes THEN initial[n0] ELSE relaxed[n0]
  BY DEF Offsets
<1>8. Offsets(E) \in Places
  <2> HIDE DEF initial, relaxed, Places
  <2> QED
    BY <1>5, <1>6, <1>7
<1> QED
  BY <1>8

(* A finite set that is bad in some way has a bad subset all whose proper  *)
(* subsets are good: what an induction over finite sets rests on.                 *)
LEMMA LeastBadSubset ==
    ASSUME NEW S, IsFiniteSet(S), NEW Bad, \A T \in Bad : T \subseteq S, Bad # {}
    PROVE  \E T \in Bad : \A U \in Bad : U \subseteq T => U = T
<1>1. IsWellFoundedOn(StrictSubsetOrdering(S), SUBSET S)
  BY FS_StrictSubsetOrderingWellFounded, FS_FiniteSubsetsOfFinite
<1>2. PICK T \in Bad : \A U \in Bad : <<U, T>> \notin StrictSubsetOrdering(S)
  <2>1. Bad \subseteq SUBSET S
    OBVIOUS
  <2> QED
    BY <1>1, <2>1, WFMin
<1>3. \A U \in Bad : U \subseteq T /\ U # T => <<U, T>> \in StrictSubsetOrdering(S)
  BY DEF StrictSubsetOrdering
<1>4. \A U \in Bad : U \subseteq T => U = T
  BY <1>2, <1>3
<1> QED
  BY <1>4

LEMMA GreatestIsMax ==
    ASSUME NEW S, IsFiniteSet(S), S \subseteq Int, S # {}
    PROVE  Max(S) \in S /\ \A n \in S : n <= Max(S)
<1> DEFINE Tops(T) == {m \in T : \A n \in T : n <= m}
           Bad == {T \in SUBSET S : T # {} /\ Tops(T) = {}}
<1>1. ASSUME Bad # {} PROVE FALSE
  <2>1. \A T \in Bad : T \subseteq S
    OBVIOUS
  <2>2. PICK T \in Bad : \A U \in Bad : U \subseteq T => U = T
    <3> HIDE DEF Bad
    <3> QED
      BY <1>1, <2>1, LeastBadSubset
  <2>3. PICK x \in T : TRUE
    OBVIOUS
  <2>4. x \in Int /\ T \subseteq Int
    OBVIOUS
  <2>5. CASE T = {x}
    <3>1. x \in Tops(T)
      BY <2>4, <2>5
    <3> QED
      BY <3>1
  <2>6. CASE T # {x}
    <3>1. T \ {x} \notin Bad /\ T \ {x} # {} /\ T \ {x} \in SUBSET S
      BY <2>2, <2>3, <2>6
    <3>2. PICK m \in T \ {x} : \A n \in T \ {x} : n <= m
      BY <3>1
    <3>3. m \in Int
      BY <2>4
    <3>4. CASE x <= m
      <4>1. m \in Tops(T)
        BY <3>2, <3>3, <3>4
      <4> QED
        BY <4>1
    <3>5. CASE ~(x <= m)
      <4>1. \A n \in T : n <= x
        BY <2>4, <3>2, <3>3, <3>5
      <4> QED
        BY <2>3, <4>1
    <3> QED
      BY <3>4, <3>5
  <2> QED
    BY <2>5, <2>6
<1>2. PICK m \in S : \A n \in S : n <= m
  BY <1>1
<1> QED
  BY <1>2 DEF Max

-----------------------------------------------------------------------------
(* The order in which the nodes of a chain are judged.                     *)
LEMMA OneComponent ==
    ASSUME NEW E, NEW e \in E PROVE Number(E, e.src) = Number(E, e.dst)
<1>1. Joined(E, e.src) = Joined(E, e.dst)
  BY DEF Joined
<1> QED
  BY <1>1 DEF Number

LEMMA VerdictFits ==
    ASSUME NEW kind, NEW offset, NEW o \in Int, offset \in {{}, {o}}, NEW req,
           NEW v \in Verdicts(kind, offset, req)
    PROVE  IsFiniteSet(v.abs) /\ v.abs \subseteq Int /\ Exceeds(v.abs, req)
<1>1. CASE v.abs = {}
  BY <1>1, FS_EmptySet DEF Exceeds
<1>2. CASE v.abs # {}
  <2>1. PICK s \in Positions : v.abs = AbsS(kind, offset, s) /\ Exceeds(v.abs, req)
    BY <1>2 DEF Verdicts, Failed, Placed
  <2>2. s \in Int
    BY NodeAssumption DEF Positions
  <2> DEFINE q == IF "diverge" \in kind THEN o + s ELSE o - s
  <2>3. v.abs \subseteq {q} /\ q \in Int
    BY <2>1, <2>2 DEF AbsS
  <2> HIDE DEF q
  <2>4. PICK p \in Int : v.abs = {p}
    BY <1>2, <2>3
  <2> QED
    BY <2>1, <2>4, FS_Singleton
<1> QED
  BY <1>1, <1>2

Later(e) ==
    Up(e.src) /\ Up(e.dst) => \A a \in Abs(e.src), b \in Abs(e.dst) : b > a

Judged ==
    /\ IsFiniteSet(edges) /\ \A e \in edges : e.dist \in Nat
    /\ pc = "chained" =>
          todo \subseteq ChainNodes(edges) /\ Evaluated = ChainNodes(edges) \ todo
    /\ pc # "chained" => ChainNodes(edges) \subseteq Evaluated
    /\ \A n \in Evaluated : IsFiniteSet(results[n].abs) /\ results[n].abs \subseteq Int
    /\ \A p \in DOMAIN chosen : IsFiniteSet(chosen[p]) /\ chosen[p] \subseteq Int
    /\ pc # "order" => \A n \in Evaluated :
          Up(n) /\ results[n].abs # {} => n \in DOMAIN chosen /\ chosen[n] = results[n].abs
    /\ \A e \in edges : Before(e.src, e.dst) /\ e.dst \in Evaluated =>
          e.src \in Evaluated /\ Later(e)

Timely ==
    /\ world \in Worlds /\ roads \subseteq world.roads
    /\ pc \in Early => DOMAIN chosen = {}
    /\ pc \in {"chained", "rest", "order"} => Judged

LEMMA TimelyInit == Init => Timely
BY DEF Init, Timely, Early

LEMMA JudgeIsTimely ==
    ASSUME AnchorInv, Timely, EvaluateChained \/ EvaluateRest PROVE Judged'
<1>1. PICK n, req :
        /\ Judge(n, req) /\ n \notin Evaluated
        /\ pc = "chained" => /\ n \in todo /\ todo' = todo \ {n} /\ req = Required(n)
                             /\ \A m \in todo : ~NodeBefore(edges, m, n)
        /\ pc # "chained" => pc = "rest"
  <2>1. CASE EvaluateChained
    BY <2>1 DEF EvaluateChained, Timely, Judged
  <2>2. CASE EvaluateRest
    BY <2>2 DEF EvaluateRest
  <2> QED
    BY <2>1, <2>2
<1>2. PICK v \in Verdicts(Kind(n), Offset(n), req) :
        /\ results' = [m \in Evaluated \cup {n} |-> IF m = n THEN v ELSE results[m]]
        /\ chosen' = IF v = Failed \/ v.abs = {} THEN chosen
                     ELSE [m \in DOMAIN chosen \cup {n} |-> IF m = n THEN v.abs ELSE chosen[m]]
  BY <1>1 DEF Judge
<1>3. pc' = pc /\ edges' = edges /\ pc \in {"chained", "rest"} /\ Judged
  BY <1>1 DEF EvaluateChained, EvaluateRest, chain, Timely
<1>4. Evaluated' = Evaluated \cup {n}
  BY <1>2 DEF Evaluated
<1>5. IsFiniteSet(v.abs) /\ v.abs \subseteq Int /\ Exceeds(v.abs, req)
  <2>1. CASE n \in ChainNodes(edges)
    <3>1. Offsets(edges)[n] \in Int /\ Offset(n) = {Offsets(edges)[n]}
      BY <1>3, <2>1, OffsetsFit DEF Judged, Offset
    <3> QED
      BY <3>1, VerdictFits
  <2>2. CASE n \notin ChainNodes(edges)
    <3>1. Offset(n) = {} /\ 0 \in Int
      BY <2>2 DEF Offset
    <3> QED
      BY <3>1, VerdictFits
  <2> QED
    BY <2>1, <2>2
<1>6. /\ results'[n] = v
      /\ \A m \in Evaluated : results'[m] = results[m] /\ m # n
  BY <1>1, <1>2
<1>7. \A m : m # n => Up(m)' = Up(m) /\ Abs(m)' = Abs(m)
  BY <1>4, <1>6 DEF Up, Abs
<1>8. /\ Up(n)' <=> v.fate = "placed"
      /\ Abs(n)' = v.abs
  BY <1>4, <1>6 DEF Up, Abs
<1>9. v.fate = "placed" => v # Failed
  BY DEF Failed
<1>10. \A m \in Evaluated' : IsFiniteSet(results'[m].abs) /\ results'[m].abs \subseteq Int
  BY <1>3, <1>4, <1>5, <1>6 DEF Judged
<1>11. \A p \in DOMAIN chosen' : IsFiniteSet(chosen'[p]) /\ chosen'[p] \subseteq Int
  <2>1. CASE v = Failed \/ v.abs = {}
    BY <1>2, <1>3, <2>1 DEF Judged
  <2>2. CASE ~(v = Failed \/ v.abs = {})
    BY <1>2, <1>3, <1>5, <2>2 DEF Judged
  <2> QED
    BY <2>1, <2>2
<1>12. ASSUME NEW m \in Evaluated', Up(m)', results'[m].abs # {}
       PROVE  m \in DOMAIN chosen' /\ chosen'[m] = results'[m].abs
  <2>1. CASE m = n
    <3>1. ~(v = Failed \/ v.abs = {})
      BY <1>6, <1>8, <1>9, <1>12, <2>1
    <3> QED
      BY <1>2, <1>6, <2>1, <3>1
  <2>2. CASE m # n
    <3>1. m \in Evaluated /\ Up(m) /\ results'[m] = results[m]
      BY <1>4, <1>6, <1>7, <1>12, <2>2
    <3>2. m \in DOMAIN chosen /\ chosen[m] = results[m].abs
      BY <1>3, <1>12, <3>1 DEF Judged
    <3> QED
      BY <1>2, <2>2, <3>1, <3>2
  <2> QED
    BY <2>1, <2>2
<1>13. /\ pc' = "chained" =>
             todo' \subseteq ChainNodes(edges') /\ Evaluated' = ChainNodes(edges') \ todo'
       /\ pc' # "chained" => ChainNodes(edges') \subseteq Evaluated'
  BY <1>1, <1>3, <1>4 DEF Judged
<1>14. ASSUME NEW e \in edges, Before(e.src, e.dst), e.dst \in Evaluated'
       PROVE  e.src \in Evaluated' /\ Later(e)'
  <2>1. e.src \in ChainNodes(edges) /\ e.dst \in ChainNodes(edges)
    BY DEF ChainNodes
  <2>2. CASE e.dst \in Evaluated
    <3>1. e.src \in Evaluated /\ Later(e)
      BY <1>3, <1>14, <2>2 DEF Judged
    <3>2. e.src # n /\ e.dst # n
      BY <1>6, <2>2, <3>1
    <3> QED
      BY <1>4, <1>7, <3>1, <3>2 DEF Later
  <2>3. CASE e.dst \notin Evaluated
    <3>1. e.dst = n /\ pc = "chained" /\ n \in todo /\ req = Required(n)
      BY <1>1, <1>3, <1>4, <1>14, <2>1, <2>3 DEF Judged
    <3>2. NodeBefore(edges, e.src, n)
      BY <1>14, <3>1, OneComponent DEF NodeBefore, Before
    <3>3. e.src \notin todo
      BY <1>1, <3>1, <3>2
    <3>4. e.src \in Evaluated /\ e.src # n
      BY <1>3, <2>1, <3>1, <3>3 DEF Judged
    <3>5. ASSUME Up(e.src), NEW a \in Abs(e.src), NEW b \in v.abs PROVE b > a
      <4> DEFINE preds == UNION {chosen[p] : p \in {d.src : d \in Into(edges, n)} \cap DOMAIN chosen}
      <4>1. Abs(e.src) = results[e.src].abs
        BY <3>4 DEF Abs
      <4>2. e.src \in DOMAIN chosen /\ chosen[e.src] = Abs(e.src)
        BY <1>3, <3>1, <3>4, <3>5, <4>1 DEF Judged
      <4>3. a \in preds
        BY <3>1, <3>5, <4>2 DEF Into
      <4>4. IsFiniteSet(preds) /\ preds \subseteq Int
        <5> DEFINE from == {d.src : d \in Into(edges, n)} \cap DOMAIN chosen
                   sets == {chosen[p] : p \in from}
                   of == [p \in from |-> chosen[p]]
        <5>1. from \subseteq ChainNodes(edges)
          BY DEF Into, ChainNodes
        <5>2. IsFiniteSet(from)
          <6>1. IsFiniteSet(ChainNodes(edges))
            BY <1>3, NodesFinite DEF Judged
          <6> HIDE DEF from
          <6> QED
            BY <5>1, <6>1, FS_Subset
        <5>3. of \in Surjection(from, sets)
          BY DEF Surjection
        <5>4. \A s \in sets : IsFiniteSet(s) /\ s \subseteq Int
          BY <1>3 DEF Judged
        <5>5. preds = UNION sets
          OBVIOUS
        <5> HIDE DEF of, from, sets
        <5>6. IsFiniteSet(sets)
          BY <5>2, <5>3, FS_Surjection
        <5>7. IsFiniteSet(UNION sets)
          BY <5>4, <5>6, FS_UNION
        <5> QED
          BY <5>4, <5>5, <5>7
      <4>5. Required(n) = {Max(preds)}
        BY <4>3 DEF Required
      <4> HIDE DEF preds
      <4>6. Max(preds) \in preds /\ a <= Max(preds)
        BY <4>3, <4>4, GreatestIsMax
      <4>7. b > Max(preds)
        BY <1>5, <3>1, <3>5, <4>5 DEF Exceeds
      <4>8. a \in Int /\ Max(preds) \in Int /\ b \in Int
        BY <1>5, <3>5, <4>3, <4>4, <4>6
      <4> QED
        BY <4>6, <4>7, <4>8
    <3>6. Later(e)'
      BY <1>3, <1>7, <1>8, <3>1, <3>4, <3>5 DEF Later
    <3> QED
      BY <1>4, <3>4, <3>6
  <2> QED
    BY <2>2, <2>3
<1>15. \A e : Before(e.src, e.dst)' = Before(e.src, e.dst)
  BY <1>3 DEF Before
<1> QED
  BY <1>3, <1>10, <1>11, <1>12, <1>13, <1>14, <1>15 DEF Judged

LEMMA TimelyNext == AnchorInv /\ Timely /\ [Next]_vars => Timely'
<1> SUFFICES ASSUME AnchorInv, Timely, [Next]_vars PROVE Timely'
  OBVIOUS
<1>1. CASE Load
  <2>1. pc' = "seeds" /\ pc = "load" /\ world' = world /\ roads' \in {{}, world.roads} /\ chosen' = chosen
    BY <1>1 DEF Load, verdicts
  <2> QED
    BY <2>1 DEF Timely, Early
<1>2. CASE PickSeeds \/ LoadZones
  <2>1. pc \in Early /\ pc' \in Early /\ world' = world /\ roads' = roads /\ chosen' = chosen
    BY <1>2 DEF PickSeeds, LoadZones, verdicts, inputs, Early
  <2> QED
    BY <2>1 DEF Timely, Early
<1>3. CASE BuildChains
  <2>1. /\ pc = "chains" /\ pc' = "chained" /\ world' = world /\ roads' = roads
        /\ chosen' = chosen /\ results' = results
        /\ edges' = ChainEdges(roads, seeds, Kinds) /\ todo' = ChainNodes(edges')
    BY <1>3 DEF BuildChains, verdicts, inputs
  <2>2. Evaluated = {} /\ Evaluated' = {} /\ DOMAIN chosen = {}
    BY <2>1 DEF AnchorInv, Phases, Early, Timely, Evaluated
  <2>3. RoadsFit
    BY WorldsAssumption, FS_Subset DEF Timely, RoadsFit
  <2>4. IsFiniteSet(edges') /\ \A e \in edges' : e.dist \in Nat
    BY <2>1, <2>3, EdgesFit
  <2>5. Judged'
    BY <2>1, <2>2, <2>4 DEF Judged
  <2> QED
    BY <2>1, <2>5 DEF Timely, Early
<1>4. CASE EvaluateChained \/ EvaluateRest
  <2>1. pc' = pc /\ pc \in {"chained", "rest"} /\ world' = world /\ roads' = roads
    BY <1>4 DEF EvaluateChained, EvaluateRest, inputs
  <2>2. Judged'
    BY <1>4, JudgeIsTimely
  <2> QED
    BY <2>1, <2>2 DEF Timely, Early
<1>5. CASE ChainedDone \/ RestDone
  <2>1. /\ UNCHANGED <<inputs, chain, verdicts>>
        /\ \/ pc = "chained" /\ todo = {} /\ pc' = "rest"
           \/ pc = "rest" /\ pc' = "order"
    BY <1>5 DEF ChainedDone, RestDone
  <2>2. /\ world' = world /\ roads' = roads /\ edges' = edges /\ results' = results
        /\ chosen' = chosen /\ Evaluated' = Evaluated
    BY <2>1 DEF inputs, chain, verdicts, Evaluated
  <2>3. \A n : Up(n)' = Up(n) /\ Abs(n)' = Abs(n)
    BY <2>2 DEF Up, Abs
  <2>4. \A e : Later(e)' = Later(e) /\ Before(e.src, e.dst)' = Before(e.src, e.dst)
    BY <2>2, <2>3 DEF Later, Before
  <2>5. Judged
    BY <2>1 DEF Timely
  <2>6. Judged'
    BY <2>1, <2>2, <2>3, <2>4, <2>5 DEF Judged
  <2> QED
    BY <2>1, <2>2, <2>6 DEF Timely, Early
<1>6. CASE CheckOrder
  <2>1. /\ pc = "order" /\ pc' = "order" /\ world' = world /\ roads' = roads /\ edges' = edges
        /\ chosen' = chosen /\ Judged
        /\ \E n : results' = results \/ results' = [results EXCEPT ![n].fate = "fail"]
    BY <1>6 DEF CheckOrder, inputs, chain, Timely
  <2>2. Evaluated' = Evaluated
    BY <2>1 DEF Evaluated
  <2>3. \A m \in Evaluated : /\ results'[m].abs = results[m].abs
                             /\ results'[m].fate = "placed" => results[m].fate = "placed"
    <3> SUFFICES ASSUME NEW n, results' = [results EXCEPT ![n].fate = "fail"], NEW m \in Evaluated
                 PROVE  /\ results'[m].abs = results[m].abs
                        /\ results'[m].fate = "placed" => results[m].fate = "placed"
      BY <2>1
    <3>1. results[m] = [fate |-> results[m].fate, abs |-> results[m].abs]
      BY DEF AnchorInv, Sound
    <3>2. CASE m # n
      BY <3>2 DEF Evaluated
    <3>3. CASE m = n
      <4>1. results'[m] = [results[m] EXCEPT !.fate = "fail"]
        BY <3>3 DEF Evaluated
      <4> QED
        BY <3>1, <4>1
    <3> QED
      BY <3>2, <3>3
  <2>4. \A m : (Up(m)' => Up(m)) /\ Abs(m)' = Abs(m)
    BY <2>2, <2>3 DEF Up, Abs
  <2>5. \A e : (Later(e) => Later(e)') /\ Before(e.src, e.dst)' = Before(e.src, e.dst)
    BY <2>1, <2>4 DEF Later, Before
  <2>6. Judged'
    BY <2>1, <2>2, <2>3, <2>5 DEF Judged
  <2> QED
    BY <2>1, <2>6 DEF Timely, Early
<1>7. CASE OrderDone \/ MergeEdge \/ Finish
  <2>1. /\ world' = world /\ roads' = roads /\ pc' \in {"merge", "done"}
    BY <1>7 DEF OrderDone, MergeEdge, Finish, inputs
  <2> QED
    BY <2>1 DEF Timely, Early
<1>8. CASE UNCHANGED vars
  <2>1. /\ world' = world /\ roads' = roads /\ edges' = edges /\ results' = results /\ pc' = pc
        /\ chosen' = chosen /\ Evaluated' = Evaluated /\ todo' = todo
    BY <1>8 DEF vars, inputs, chain, verdicts, Evaluated
  <2>2. \A n : Up(n)' = Up(n) /\ Abs(n)' = Abs(n)
    BY <2>1 DEF Up, Abs
  <2>3. \A e : Later(e)' = Later(e) /\ Before(e.src, e.dst)' = Before(e.src, e.dst)
    BY <2>1, <2>2 DEF Later, Before
  <2>4. Judged => Judged'
    BY <2>1, <2>2, <2>3 DEF Judged
  <2> QED
    BY <2>1, <2>4 DEF Timely
<1> QED
  BY <1>1, <1>2, <1>3, <1>4, <1>5, <1>6, <1>7, <1>8 DEF Next

(* Two nodes of a chain come out in the wrong order only where the later   *)
(* was judged first, whatever the chains and the verdicts                  *)
(* (_apply_continuous_relative_order_constraints).                         *)
THEOREM DisorderIsLate == Spec => []OnlyLateCausesDisorder
<1>1. ASSUME Timely, pc \in {"rest", "order"}, NEW e \in edges, Before(e.src, e.dst)
      PROVE  Ordered(e)
  <2>1. Judged /\ e.dst \in ChainNodes(edges)
    BY <1>1 DEF Timely, ChainNodes
  <2>2. e.dst \in Evaluated /\ e.src \in Evaluated /\ Later(e)
    BY <1>1, <2>1 DEF Judged
  <2>3. Abs(e.src) \subseteq Int /\ Abs(e.dst) \subseteq Int
    BY <2>1, <2>2 DEF Judged, Abs
  <2>4. ASSUME Up(e.src), Up(e.dst), NEW a \in Abs(e.src), NEW b \in Abs(e.dst)
        PROVE  ~(b < a) /\ a # b
    <3>1. b > a /\ a \in Int /\ b \in Int
      BY <2>2, <2>3, <2>4 DEF Later
    <3> QED
      BY <3>1
  <2> QED
    BY <2>4 DEF Ordered
<1>2. Timely => OnlyLateCausesDisorder
  BY <1>1 DEF OnlyLateCausesDisorder
<1> QED
  BY <1>2, AnchorInvariant, TimelyInit, TimelyNext, PTL DEF Spec

-----------------------------------------------------------------------------
(* The corridors and the trails of the roads.                              *)
RoadsKnown == RoadsFit /\ \A r, q \in roads : r.id = q.id => r = q

Touching(n) == {r \in roads : r.dir \in {2, 3} /\ n \in {r.s, r.e}}
Way(r) == [id |-> r.id, from |-> IF r.dir = 2 THEN r.s ELSE r.e,
           to |-> IF r.dir = 2 THEN r.e ELSE r.s, len |-> r.len]

LEMMA WaysAre ==
    /\ \A r \in roads : r.dir \in {2, 3} => Way(r) \in Directed(roads)
    /\ \A d \in Directed(roads) : \E r \in roads : r.dir \in {2, 3} /\ d = Way(r)
BY DEF Directed, Way

LEMMA DrivesIs ==
    ASSUME NEW r \in roads, NEW m, NEW n
    PROVE  Drives(r, m, n) <=> r.dir \in {2, 3} /\ Way(r).from = m /\ Way(r).to = n
BY DEF Drives, Way

LEMMA DegreeIs == ASSUME RoadsKnown, NEW n PROVE Degree(roads, n) = Driven(n)
<1> DEFINE ids == {d.id : d \in {q \in Directed(roads) : n \in {q.from, q.to}}}
           of == [r \in Touching(n) |-> r.id]
<1>1. ids = {r.id : r \in Touching(n)}
  <2>1. ASSUME NEW r \in Touching(n) PROVE r.id \in ids
    <3>1. Way(r) \in Directed(roads) /\ n \in {Way(r).from, Way(r).to} /\ Way(r).id = r.id
      BY WaysAre DEF Touching, Way
    <3> QED
      BY <3>1
  <2>2. ASSUME NEW d \in Directed(roads), n \in {d.from, d.to}
        PROVE  \E r \in Touching(n) : d.id = r.id
    <3>1. PICK r \in roads : r.dir \in {2, 3} /\ d = Way(r)
      BY WaysAre
    <3>2. r \in Touching(n) /\ d.id = r.id
      BY <2>2, <3>1 DEF Touching, Way
    <3> QED
      BY <3>2
  <2> QED
    BY <2>1, <2>2
<1>2. of \in Bijection(Touching(n), ids)
  <2>1. of \in Surjection(Touching(n), ids)
    BY <1>1 DEF Surjection
  <2>2. \A r, q \in Touching(n) : of[r] = of[q] => r = q
    BY DEF Touching, RoadsKnown
  <2> QED
    <3>1. of \in [Touching(n) -> ids]
      BY <2>1 DEF Surjection
    <3> HIDE DEF of, ids
    <3>2. of \in Injection(Touching(n), ids)
      BY <2>2, <3>1 DEF Injection, IsInjective
    <3> QED
      BY <2>1, <3>2 DEF Bijection
<1>3. IsFiniteSet(Touching(n))
  BY FS_Subset DEF Touching, RoadsKnown, RoadsFit
<1>4. Cardinality(ids) = Cardinality(Touching(n))
  <2> HIDE DEF of, ids
  <2> QED
    BY <1>2, <1>3, FS_Bijection DEF ExistsBijection
<1> QED
  BY <1>4 DEF Degree, Driven, Touching

(* Of two roads at a node the one that did not lead there goes on.         *)
LEMMA OneWayOn ==
    ASSUME RoadsKnown, NEW n, NEW p, Driven(n) = 2,
           NEW r0 \in roads, Drives(r0, p, n),
           NEW r1 \in roads, NEW q, Drives(r1, n, q), q # p
    PROVE  {d \in Directed(roads) : d.from = n /\ d.to # p} = {Way(r1)}
<1>1. r0 \in Touching(n) /\ r1 \in Touching(n) /\ r0 # r1
  BY DrivesIs DEF Touching, Drives
<1>2. Cardinality(Touching(n)) = 2 /\ IsFiniteSet(Touching(n))
  BY FS_Subset DEF Driven, Touching, RoadsKnown, RoadsFit
<1>3. ASSUME NEW r \in Touching(n), r # r0 PROVE r = r1
  <2>1. IsFiniteSet(Touching(n) \ {r0}) /\ Cardinality(Touching(n) \ {r0}) = 1
    BY <1>1, <1>2, FS_RemoveElement
  <2>2. PICK x : Touching(n) \ {r0} = {x}
    BY <2>1, FS_Singleton
  <2> QED
    BY <1>1, <1>3, <2>2
<1>4. ASSUME NEW d \in Directed(roads), d.from = n, d.to # p PROVE d = Way(r1)
  <2>1. PICK r \in roads : r.dir \in {2, 3} /\ d = Way(r)
    BY WaysAre
  <2>2. Drives(r, n, d.to)
    BY <1>4, <2>1, DrivesIs
  <2>3. r \in Touching(n)
    BY <2>2 DEF Touching, Drives
  <2>4. r # r0
    <3>1. Way(r0).from = p /\ Way(r0).to = n
      BY DrivesIs
    <3> QED
      BY <1>4, <2>1, <3>1
  <2> QED
    BY <1>3, <2>1, <2>3, <2>4
<1>5. Way(r1) \in Directed(roads) /\ Way(r1).from = n /\ Way(r1).to # p
  BY DrivesIs, WaysAre
<1> QED
  BY <1>4, <1>5

(* A corridor and the trails of a node, step by step.                      *)
Trail(t) == [at |-> t.at, prev |-> t.prev, len |-> t.dist]
First(m) ==
    {[at |-> q[2], prev |-> m, len |-> q[1].len] :
        q \in {p \in roads \X Endpoints(roads) : Drives(p[1], m, p[2])}}

LEMMA FirstIs ==
    ASSUME NEW m, NEW t
    PROVE  t \in First(m) <=> \E r \in roads : \E n \in Endpoints(roads) :
              Drives(r, m, n) /\ t = [at |-> n, prev |-> m, len |-> r.len]
<1>1. ASSUME t \in First(m)
      PROVE  \E r \in roads : \E n \in Endpoints(roads) :
                Drives(r, m, n) /\ t = [at |-> n, prev |-> m, len |-> r.len]
  <2>1. PICK q \in roads \X Endpoints(roads) :
           Drives(q[1], m, q[2]) /\ t = [at |-> q[2], prev |-> m, len |-> q[1].len]
    BY <1>1 DEF First
  <2>2. q[1] \in roads /\ q[2] \in Endpoints(roads)
    OBVIOUS
  <2> QED
    BY <2>1, <2>2
<1>2. ASSUME NEW r \in roads, NEW n \in Endpoints(roads), Drives(r, m, n),
             t = [at |-> n, prev |-> m, len |-> r.len]
      PROVE  t \in First(m)
  <2> DEFINE q == <<r, n>>
  <2>1. q \in roads \X Endpoints(roads) /\ q[1] = r /\ q[2] = n
    OBVIOUS
  <2> HIDE DEF q
  <2> QED
    BY <1>2, <2>1 DEF First
<1> QED
  BY <1>1, <1>2

LEMMA FurtherIs ==
    ASSUME NEW ts, NEW x
    PROVE  x \in Further(ts) <=>
              \E t \in ts : \E r \in roads : \E n \in Endpoints(roads) :
                 /\ Driven(t.at) = 2 /\ n # t.prev /\ Drives(r, t.at, n)
                 /\ x = [at |-> n, prev |-> t.at, len |-> t.len + r.len]
<1>1. ASSUME x \in Further(ts)
      PROVE  \E t \in ts : \E r \in roads : \E n \in Endpoints(roads) :
                 /\ Driven(t.at) = 2 /\ n # t.prev /\ Drives(r, t.at, n)
                 /\ x = [at |-> n, prev |-> t.at, len |-> t.len + r.len]
  <2>1. PICK q \in ts \X roads \X Endpoints(roads) :
           /\ Driven(q[1].at) = 2 /\ q[3] # q[1].prev /\ Drives(q[2], q[1].at, q[3])
           /\ x = [at |-> q[3], prev |-> q[1].at, len |-> q[1].len + q[2].len]
    BY <1>1 DEF Further
  <2>2. q[1] \in ts /\ q[2] \in roads /\ q[3] \in Endpoints(roads)
    OBVIOUS
  <2> QED
    BY <2>1, <2>2
<1>2. ASSUME NEW t \in ts, NEW r \in roads, NEW n \in Endpoints(roads),
             Driven(t.at) = 2, n # t.prev, Drives(r, t.at, n),
             x = [at |-> n, prev |-> t.at, len |-> t.len + r.len]
      PROVE  x \in Further(ts)
  <2> DEFINE q == <<t, r, n>>
  <2>1. q \in ts \X roads \X Endpoints(roads) /\ q[1] = t /\ q[2] = r /\ q[3] = n
    OBVIOUS
  <2> HIDE DEF q
  <2> QED
    BY <1>2, <2>1 DEF Further
<1> QED
  BY <1>1, <1>2

WalkOf(d) ==
    CHOOSE walk : /\ Corridor(roads, d) = walk[Hops] /\ walk[0] = Start(d)
                  /\ \A k \in 1..Hops : walk[k] = Hop(roads, walk[k - 1])
                  /\ \A k \in 0..Hops : walk[k] \in Walks

LEMMA WalkIs ==
    ASSUME RoadsFit, NEW d \in Directed(roads)
    PROVE  /\ Corridor(roads, d) = WalkOf(d)[Hops] /\ WalkOf(d)[0] = Start(d)
           /\ \A k \in 1..Hops : WalkOf(d)[k] = Hop(roads, WalkOf(d)[k - 1])
           /\ \A k \in 0..Hops : WalkOf(d)[k] \in Walks
<1> DEFINE Is(walk) == /\ Corridor(roads, d) = walk[Hops] /\ walk[0] = Start(d)
                       /\ \A k \in 1..Hops : walk[k] = Hop(roads, walk[k - 1])
                       /\ \A k \in 0..Hops : walk[k] \in Walks
<1>1. \E walk : Is(walk)
  BY CorridorWalks
<1>2. WalkOf(d) = CHOOSE walk : Is(walk)
  BY DEF WalkOf
<1> HIDE DEF Is
<1>3. Is(WalkOf(d))
  BY <1>1, <1>2
<1> QED
  BY <1>3 DEF Is

TrailsFrom(m) == [at : Endpoints(roads), prev : Endpoints(roads) \cup {m}, len : Nat]

LEMMA TrailsAre ==
    ASSUME RoadsFit, NEW m
    PROVE  \E trail : /\ Trails(m) = UNION {trail[k] : k \in 1..Hops}
                      /\ trail[1] = First(m)
                      /\ \A k \in 2..Hops : trail[k] = Further(trail[k - 1])
                      /\ \A k \in 1..Hops : trail[k] \subseteq TrailsFrom(m)
<1> DEFINE X == SUBSET TrailsFrom(m)
           onto == [ts \in X |-> Further(ts)]
           trail[k \in 1..Hops] == IF k = 1 THEN First(m) ELSE Further(trail[k - 1])
           last == Hops - 1
<1>1. last \in Nat /\ Hops \in Nat /\ 1 \in 1..Hops
  BY ChainsAssumption
<1>2. First(m) \in X
  <2> SUFFICES ASSUME NEW t \in First(m) PROVE t \in TrailsFrom(m)
    OBVIOUS
  <2>1. PICK r \in roads : \E n \in Endpoints(roads) : t = [at |-> n, prev |-> m, len |-> r.len]
    BY FirstIs
  <2>2. r.len \in Nat
    BY DEF RoadsFit
  <2> QED
    BY <2>1, <2>2 DEF TrailsFrom
<1>3. ASSUME NEW ts \in X PROVE Further(ts) \in X
  <2> SUFFICES ASSUME NEW x \in Further(ts) PROVE x \in TrailsFrom(m)
    OBVIOUS
  <2>1. PICK t \in ts : \E r \in roads : \E n \in Endpoints(roads) :
           x = [at |-> n, prev |-> t.at, len |-> t.len + r.len]
    BY FurtherIs
  <2>2. PICK r \in roads : \E n \in Endpoints(roads) :
           x = [at |-> n, prev |-> t.at, len |-> t.len + r.len]
    BY <2>1
  <2>3. t \in TrailsFrom(m) /\ r.len \in Nat
    BY DEF RoadsFit
  <2>4. t.at \in Endpoints(roads) /\ t.len + r.len \in Nat
    BY <2>3 DEF TrailsFrom
  <2> QED
    BY <2>2, <2>4 DEF TrailsFrom
<1>4. onto \in [X -> X]
  BY <1>3
<1> HIDE DEF X
<1>5. PICK f \in [0..last -> X] : Follows(f, last, First(m), onto)
  <2> HIDE DEF onto, last
  <2> QED
    BY <1>1, <1>2, <1>4, RecursionExists
<1> DEFINE g == [k \in 1..Hops |-> f[k - 1]]
           Is(h) == h = [k \in 1..Hops |-> IF k = 1 THEN First(m) ELSE Further(h[k - 1])]
<1>6. Is(g)
  <2>1. g[1] = First(m)
    BY <1>1, <1>5 DEF Follows
  <2>2. ASSUME NEW k \in 1..Hops, k # 1 PROVE g[k] = Further(g[k - 1])
    <3>1. k - 1 \in 1..last /\ k - 2 \in 0..last /\ k - 1 - 1 = k - 2
      BY <1>1, <2>2
    <3>2. f[k - 1] = onto[f[k - 2]] /\ f[k - 2] \in X
      BY <1>5, <3>1 DEF Follows
    <3>3. g[k] = f[k - 1] /\ g[k - 1] = f[k - 2]
      BY <1>1, <3>1
    <3> HIDE DEF g
    <3> QED
      BY <3>2, <3>3
  <2>3. \A k \in 1..Hops : g[k] = IF k = 1 THEN First(m) ELSE Further(g[k - 1])
    <3> HIDE DEF g
    <3> QED
      BY <2>1, <2>2
  <2>4. g = [k \in 1..Hops |-> g[k]]
    OBVIOUS
  <2> HIDE DEF g
  <2> QED
    BY <2>3, <2>4
<1>7. trail = CHOOSE h : Is(h)
  OBVIOUS
<1> HIDE DEF trail, Is
<1>8. Is(trail)
  BY <1>6, <1>7
<1>9. trail[1] = First(m) /\ \A k \in 2..Hops : trail[k] = Further(trail[k - 1])
  BY <1>1, <1>8 DEF Is
<1> DEFINE Good == {k \in 0..last : trail[k + 1] \in X}
<1>10. 0 \in Good
  BY <1>1, <1>2, <1>9
<1>11. ASSUME NEW k \in 1..last, k - 1 \in Good PROVE k \in Good
  <2>1. trail[k] \in X /\ k + 1 \in 2..Hops /\ k + 1 - 1 = k
    BY <1>1, <1>11
  <2>2. trail[k + 1] = Further(trail[k])
    BY <1>9, <2>1
  <2>3. Further(trail[k]) \in X
    BY <1>3, <2>1
  <2> QED
    BY <2>2, <2>3
<1>12. \A k \in 0..last : k \in Good
  <2> HIDE DEF Good, last
  <2> QED
    BY <1>1, <1>10, <1>11, HandedOn
<1>13. \A k \in 1..Hops : trail[k] \subseteq TrailsFrom(m)
  <2> SUFFICES ASSUME NEW k \in 1..Hops PROVE trail[k] \in X
    BY DEF X
  <2>1. k - 1 \in 0..last /\ k - 1 + 1 = k
    BY <1>1
  <2> QED
    BY <1>12, <2>1
<1>14. Trails(m) = UNION {trail[k] : k \in 1..Hops}
  BY DEF Trails, trail, First
<1> QED
  BY <1>9, <1>13, <1>14

TrailOf(m) ==
    CHOOSE trail : /\ Trails(m) = UNION {trail[k] : k \in 1..Hops}
                   /\ trail[1] = First(m)
                   /\ \A k \in 2..Hops : trail[k] = Further(trail[k - 1])
                   /\ \A k \in 1..Hops : trail[k] \subseteq TrailsFrom(m)

LEMMA TrailIs ==
    ASSUME RoadsFit, NEW m
    PROVE  /\ Trails(m) = UNION {TrailOf(m)[k] : k \in 1..Hops}
           /\ TrailOf(m)[1] = First(m)
           /\ \A k \in 2..Hops : TrailOf(m)[k] = Further(TrailOf(m)[k - 1])
           /\ \A k \in 1..Hops : TrailOf(m)[k] \subseteq TrailsFrom(m)
<1> DEFINE Is(trail) == /\ Trails(m) = UNION {trail[k] : k \in 1..Hops}
                        /\ trail[1] = First(m)
                        /\ \A k \in 2..Hops : trail[k] = Further(trail[k - 1])
                        /\ \A k \in 1..Hops : trail[k] \subseteq TrailsFrom(m)
<1>1. \E trail : Is(trail)
  BY TrailsAre
<1>2. TrailOf(m) = CHOOSE trail : Is(trail)
  BY DEF TrailOf
<1> HIDE DEF Is
<1>3. Is(TrailOf(m))
  BY <1>1, <1>2
<1> QED
  BY <1>3 DEF Is

LEMMA EndsAreEndpoints ==
    ASSUME NEW d \in Directed(roads) PROVE d.to \in Endpoints(roads) /\ d.from \in Endpoints(roads)
BY DEF Directed, Endpoints

LEMMA HopIs ==
    ASSUME RoadsKnown, NEW w, NEW on,
           on = {q \in Directed(roads) : q.from = w.at /\ q.to # w.prev},
           NEW next, next = CHOOSE q \in on : TRUE
    PROVE  /\ w.fate # "going" => Hop(roads, w) = w
           /\ w.fate = "going" /\ Driven(w.at) >= 3 => Hop(roads, w) = Hit(w.at, w.dist)
           /\ w.fate = "going" /\ ~(Driven(w.at) >= 3) =>
                IF \/ Driven(w.at) # 2 \/ Cardinality(on) # 1
                   \/ w.dist + next.len > SearchLimit
                THEN Hop(roads, w) = Lost(w.at)
                ELSE Hop(roads, w) = Going(next.to, w.at, w.dist + next.len)
<1>1. Degree(roads, w.at) = Driven(w.at)
  BY DegreeIs
<1> QED
  BY <1>1 DEF Hop

(* What a corridor hits lies at the end of a trail of the same length.     *)
LEMMA CorridorIsTrail ==
    ASSUME RoadsKnown, NEW d \in Directed(roads), Corridor(roads, d).fate = "hit"
    PROVE  \E t \in Trails(d.from) : /\ t.at = Corridor(roads, d).at
                                     /\ t.len = Corridor(roads, d).dist
                                     /\ Driven(t.at) >= 3
<1> DEFINE W == WalkOf(d)
           T == TrailOf(d.from)
           Found(k) == \E j \in 1..Hops : \E t \in T[j] :
                          t.at = W[k].at /\ t.len = W[k].dist /\ Driven(t.at) >= 3
           Good == {k \in 0..Hops :
                      /\ W[k].fate = "going" /\ k < Hops => Trail(W[k]) \in T[k + 1]
                      /\ W[k].fate = "hit" => Found(k)}
<1>1. /\ RoadsFit /\ Hops \in Nat /\ 1 \in 1..Hops /\ d \in Directed(roads)
  BY ChainsAssumption DEF RoadsKnown
<1>2. /\ Corridor(roads, d) = W[Hops] /\ W[0] = Start(d)
      /\ \A k \in 1..Hops : W[k] = Hop(roads, W[k - 1])
      /\ \A k \in 0..Hops : W[k] \in Walks
  BY <1>1, WalkIs
<1>3. /\ Trails(d.from) = UNION {T[k] : k \in 1..Hops} /\ T[1] = First(d.from)
      /\ \A k \in 2..Hops : T[k] = Further(T[k - 1])
  BY <1>1, TrailIs
<1> HIDE DEF W, T
<1>4. 0 \in Good
  <2>1. W[0].fate # "hit"
    BY <1>2 DEF Start, Lost, Going
  <2>2. ASSUME W[0].fate = "going" PROVE Trail(W[0]) \in T[1]
    <3>1. Trail(W[0]) = [at |-> d.to, prev |-> d.from, len |-> d.len]
      BY <1>2, <2>2 DEF Start, Lost, Going, Trail
    <3>2. PICK r \in roads : r.dir \in {2, 3} /\ d = Way(r)
      BY WaysAre
    <3>3. Drives(r, d.from, d.to) /\ d.len = r.len
      BY <3>2, DrivesIs DEF Way
    <3> QED
      BY <1>3, <3>1, <3>3, FirstIs, EndsAreEndpoints
  <2> QED
    BY <1>1, <2>1, <2>2
<1>5. ASSUME NEW k \in 1..Hops, k - 1 \in Good PROVE k \in Good
  <2> DEFINE w == W[k - 1]
             on == {q \in Directed(roads) : q.from = w.at /\ q.to # w.prev}
             next == CHOOSE q \in on : TRUE
  <2>1. /\ W[k] = Hop(roads, w) /\ w \in Walks /\ k - 1 < Hops /\ k - 1 \in 0..Hops /\ k - 1 + 1 = k
        /\ w.fate = "going" => Trail(w) \in T[k]
        /\ w.fate = "hit" => Found(k - 1)
    BY <1>1, <1>2, <1>5
  <2> HIDE DEF w
  <2>2. CASE w.fate # "going"
    <3>1. W[k] = w
      BY <2>1, <2>2, HopIs
    <3>2. W[k].fate = "hit" => Found(k)
      BY <2>1, <3>1 DEF w
    <3> QED
      BY <2>2, <3>1, <3>2
  <2>3. CASE w.fate = "going" /\ Driven(w.at) >= 3
    <3>1. W[k] = Hit(w.at, w.dist)
      BY <2>1, <2>3, HopIs
    <3>2. /\ W[k].fate = "hit" /\ W[k].at = w.at /\ W[k].dist = w.dist
          /\ Trail(w).at = w.at /\ Trail(w).len = w.dist
      BY <3>1 DEF Hit, Trail
    <3>3. Found(k)
      BY <2>1, <2>3, <3>2
    <3> QED
      BY <3>2, <3>3
  <2>4. CASE w.fate = "going" /\ ~(Driven(w.at) >= 3)
    <3>1. CASE W[k] = Lost(w.at)
      BY <3>1 DEF Lost
    <3>2. CASE W[k] # Lost(w.at)
      <4>1. /\ Driven(w.at) = 2 /\ Cardinality(on) = 1
            /\ W[k] = Going(next.to, w.at, w.dist + next.len)
        <5> HIDE DEF next, on
        <5>1. on = {q \in Directed(roads) : q.from = w.at /\ q.to # w.prev}
              /\ next = CHOOSE q \in on : TRUE
          BY DEF next, on
        <5>2. w.fate = "going" /\ ~(Driven(w.at) >= 3) =>
                IF \/ Driven(w.at) # 2 \/ Cardinality(on) # 1
                   \/ w.dist + next.len > SearchLimit
                THEN Hop(roads, w) = Lost(w.at)
                ELSE Hop(roads, w) = Going(next.to, w.at, w.dist + next.len)
          BY <5>1, HopIs
        <5> QED
          BY <2>1, <2>4, <3>2, <5>2
      <4>2. next \in on
        <5>1. on # {}
          BY <4>1, FS_EmptySet
        <5> QED
          BY <5>1
      <4>3. next \in Directed(roads) /\ next.from = w.at /\ next.to # w.prev
        BY <4>2
      <4> HIDE DEF next, on
      <4>4. PICK r \in roads : r.dir \in {2, 3} /\ next = Way(r)
        BY <4>3, WaysAre
      <4>5. Drives(r, w.at, next.to) /\ next.len = r.len
        BY <4>3, <4>4, DrivesIs DEF Way
      <4>6. ASSUME k < Hops PROVE Trail(W[k]) \in T[k + 1]
        <5>1. Trail(W[k]) = [at |-> next.to, prev |-> w.at, len |-> w.dist + r.len]
          BY <4>1, <4>5 DEF Trail, Going
        <5>2. /\ Trail(w) \in T[k] /\ Trail(w).at = w.at /\ Trail(w).prev = w.prev
              /\ Trail(w).len = w.dist
          BY <2>1, <2>4 DEF Trail
        <5>3. Trail(W[k]) \in Further(T[k])
          BY <4>1, <4>3, <4>5, <5>1, <5>2, FurtherIs, EndsAreEndpoints
        <5>4. k + 1 \in 2..Hops /\ k + 1 - 1 = k
          BY <1>1, <4>6
        <5> QED
          BY <1>3, <5>3, <5>4
      <4>7. W[k].fate = "going"
        BY <4>1 DEF Going
      <4> QED
        BY <4>6, <4>7
    <3> QED
      BY <3>1, <3>2
  <2> QED
    BY <2>2, <2>3, <2>4
<1>6. Hops \in Good
  <2> HIDE DEF Good
  <2> QED
    BY <1>1, <1>4, <1>5, HandedOn
<1>7. Found(Hops)
  BY <1>2, <1>6
<1> QED
  BY <1>2, <1>3, <1>7

LEMMA LimitIs == SearchLimit \in Int /\ Near <= SearchLimit /\ Far <= SearchLimit
<1>1. CASE Near >= Far
  <2>1. \A x \in {Near, Far} : Near >= x
    BY ChainsAssumption, <1>1
  <2>2. \A y \in {Near, Far} : (\A x \in {Near, Far} : y >= x) => y \in Int /\ Near <= y /\ Far <= y
    BY ChainsAssumption
  <2> QED
    BY <2>1, <2>2 DEF SearchLimit, Max
<1>2. CASE ~(Near >= Far)
  <2>1. \A x \in {Near, Far} : Far >= x
    BY ChainsAssumption, <1>2
  <2>2. \A y \in {Near, Far} : (\A x \in {Near, Far} : y >= x) => y \in Int /\ Near <= y /\ Far <= y
    BY ChainsAssumption
  <2> QED
    BY <2>1, <2>2 DEF SearchLimit, Max
<1> QED
  BY <1>1, <1>2

(* A trail within the limit to a crossing of three roads is a corridor.    *)
LEMMA TrailIsCorridor ==
    ASSUME RoadsKnown, NEW m, NEW t \in Trails(m), t.len <= SearchLimit, Driven(t.at) >= 3
    PROVE  \E d \in Directed(roads) : d.from = m /\ Corridor(roads, d) = Hit(t.at, t.len)
<1> DEFINE T == TrailOf(m)
           last == Hops - 1
           Came(u) == \E r \in roads : Drives(r, u.prev, u.at)
           Walked(u, k) == \E d \in Directed(roads) :
                              d.from = m /\ WalkOf(d)[k] = Going(u.at, u.prev, u.len)
           Good == {k \in 0..last : \A u \in T[k + 1] :
                      Came(u) /\ (u.len <= SearchLimit => Walked(u, k))}
<1>1. RoadsFit /\ Hops \in Nat /\ last \in Nat /\ 1 \in 1..Hops
  BY ChainsAssumption DEF RoadsKnown
<1>2. /\ Trails(m) = UNION {T[k] : k \in 1..Hops} /\ T[1] = First(m)
      /\ \A k \in 2..Hops : T[k] = Further(T[k - 1])
      /\ \A k \in 1..Hops : T[k] \subseteq TrailsFrom(m)
  BY <1>1, TrailIs
<1> HIDE DEF T
<1>3. SearchLimit \in Int
  BY LimitIs
<1>4. 0 \in Good
  <2> SUFFICES ASSUME NEW u \in First(m)
               PROVE  Came(u) /\ (u.len <= SearchLimit => Walked(u, 0))
    BY <1>1, <1>2
  <2>1. PICK r \in roads : \E n \in Endpoints(roads) :
           Drives(r, m, n) /\ u = [at |-> n, prev |-> m, len |-> r.len]
    BY FirstIs
  <2>2. Drives(r, u.prev, u.at) /\ u.prev = m /\ u.len = r.len
    BY <2>1
  <2>3. Way(r) \in Directed(roads) /\ Way(r).from = m /\ Way(r).to = u.at /\ Way(r).len = u.len
    BY <2>2, DrivesIs, WaysAre DEF Way
  <2>4. ASSUME u.len <= SearchLimit PROVE WalkOf(Way(r))[0] = Going(u.at, u.prev, u.len)
    <3>1. WalkOf(Way(r))[0] = Start(Way(r))
      BY <1>1, <2>3, WalkIs
    <3>2. u.len \in Nat
      BY <2>2 DEF RoadsKnown, RoadsFit
    <3> QED
      BY <1>3, <2>2, <2>3, <2>4, <3>1, <3>2 DEF Start
  <2> QED
    BY <2>2, <2>3, <2>4
<1>5. ASSUME NEW k \in 1..last, k - 1 \in Good PROVE k \in Good
  <2>0. /\ k \in 1..Hops /\ k + 1 \in 2..Hops /\ k + 1 - 1 = k /\ k - 1 + 1 = k
    BY <1>1
  <2> SUFFICES ASSUME NEW x \in Further(T[k])
               PROVE  Came(x) /\ (x.len <= SearchLimit => Walked(x, k))
    BY <1>2, <2>0
  <2>1. PICK u \in T[k] : \E r \in roads : \E n \in Endpoints(roads) :
           /\ Driven(u.at) = 2 /\ n # u.prev /\ Drives(r, u.at, n)
           /\ x = [at |-> n, prev |-> u.at, len |-> u.len + r.len]
    BY FurtherIs
  <2>2. PICK r \in roads :
           /\ Driven(u.at) = 2 /\ x.at # u.prev /\ Drives(r, u.at, x.at)
           /\ x.prev = u.at /\ x.len = u.len + r.len
    BY <2>1
  <2>3. Came(u) /\ (u.len <= SearchLimit => Walked(u, k - 1))
    BY <1>5, <2>0
  <2>4. ASSUME x.len <= SearchLimit PROVE Walked(x, k)
    <3>1. u.len \in Nat /\ r.len \in Nat
      BY <1>2, <2>0 DEF TrailsFrom, RoadsKnown, RoadsFit
    <3>2. u.len <= SearchLimit
      BY <1>3, <2>2, <2>4, <3>1
    <3>3. PICK d \in Directed(roads) :
             d.from = m /\ WalkOf(d)[k - 1] = Going(u.at, u.prev, u.len)
      BY <2>3, <3>2
    <3>4. PICK r0 \in roads : Drives(r0, u.prev, u.at)
      BY <2>3
    <3> DEFINE w == Going(u.at, u.prev, u.len)
               on == {q \in Directed(roads) : q.from = w.at /\ q.to # w.prev}
    <3>5. w.fate = "going" /\ w.at = u.at /\ w.prev = u.prev /\ w.dist = u.len
      BY DEF Going
    <3> HIDE DEF w
    <3>6. on = {Way(r)}
      BY <2>2, <3>4, <3>5, OneWayOn
    <3>7. Cardinality(on) = 1 /\ (CHOOSE q \in on : TRUE) = Way(r)
      BY <3>6, FS_Singleton
    <3>8. Way(r).to = x.at /\ Way(r).len = r.len
      BY <2>2, DrivesIs DEF Way
    <3>9. Hop(roads, w) = Going(x.at, u.at, x.len)
      <4>1. ~(Driven(w.at) >= 3) /\ Driven(w.at) = 2
        BY <2>2, <3>5
      <4>2. ~(w.dist + Way(r).len > SearchLimit)
        BY <1>3, <2>2, <2>4, <3>1, <3>5, <3>8
      <4> DEFINE next == CHOOSE q \in on : TRUE
      <4>3. next = Way(r)
        BY <3>7
      <4>4. Hop(roads, w) = Going(next.to, w.at, w.dist + next.len)
        <5>1. on = {q \in Directed(roads) : q.from = w.at /\ q.to # w.prev}
          OBVIOUS
        <5>2. next = CHOOSE q \in on : TRUE
          OBVIOUS
        <5> HIDE DEF on, next
        <5> QED
          BY <3>5, <3>7, <4>1, <4>2, <4>3, <5>1, <5>2, HopIs
      <4> HIDE DEF next
      <4> QED
        BY <2>2, <3>5, <3>8, <4>3, <4>4
    <3>10. WalkOf(d)[k] = Hop(roads, w)
      BY <1>1, <2>0, <3>3, WalkIs DEF w
    <3> QED
      BY <2>2, <3>3, <3>9, <3>10
  <2> QED
    BY <2>2, <2>4
<1>6. \A k \in 0..last : k \in Good
  <2> HIDE DEF Good, last
  <2> QED
    BY <1>1, <1>4, <1>5, HandedOn
<1>7. PICK k \in 1..Hops : t \in T[k]
  BY <1>2
<1>8. k - 1 \in 0..last /\ k - 1 + 1 = k
  BY <1>1
<1>9. PICK d \in Directed(roads) :
         d.from = m /\ WalkOf(d)[k - 1] = Going(t.at, t.prev, t.len)
  BY <1>6, <1>7, <1>8
<1> DEFINE W == WalkOf(d)
           Stays == {i \in 0..Hops : i >= k => W[i] = Hit(t.at, t.len)}
<1>10. /\ Corridor(roads, d) = W[Hops]
       /\ \A i \in 1..Hops : W[i] = Hop(roads, W[i - 1])
  BY <1>1, WalkIs
<1> HIDE DEF W
<1>11. W[k] = Hit(t.at, t.len)
  <2> DEFINE w == Going(t.at, t.prev, t.len)
  <2>1. w.fate = "going" /\ w.at = t.at /\ w.dist = t.len
    BY DEF Going
  <2>2. W[k] = Hop(roads, w)
    BY <1>9, <1>10 DEF W
  <2> HIDE DEF w
  <2> QED
    BY <2>1, <2>2, HopIs
<1>12. 0 \in Stays
  BY <1>1
<1>13. ASSUME NEW i \in 1..Hops, i - 1 \in Stays PROVE i \in Stays
  <2>1. CASE i = k
    BY <1>11, <2>1
  <2>2. CASE i # k /\ i >= k
    <3>1. i - 1 >= k /\ W[i - 1] = Hit(t.at, t.len)
      BY <1>13, <2>2
    <3>2. Hit(t.at, t.len).fate # "going"
      BY DEF Hit
    <3>3. Hop(roads, Hit(t.at, t.len)) = Hit(t.at, t.len)
      BY <3>2, HopIs
    <3> QED
      BY <1>10, <3>1, <3>3
  <2>3. CASE ~(i >= k)
    BY <2>3
  <2> QED
    BY <2>1, <2>2, <2>3
<1>14. Hops \in Stays
  <2> HIDE DEF Stays
  <2> QED
    BY <1>1, <1>12, <1>13, HandedOn
<1>15. W[Hops] = Hit(t.at, t.len)
  BY <1>1, <1>14
<1> QED
  BY <1>9, <1>10, <1>15

-----------------------------------------------------------------------------
(* The edges of the chains are the corridors.                              *)
Allowed(e) ==
    \E d \in Directed(roads) :
        /\ e = [src |-> d.from, dst |-> Corridor(roads, d).at, dist |-> Corridor(roads, d).dist]
        /\ d.from \in seeds /\ Corridor(roads, d).at \in seeds
        /\ Corridor(roads, d).fate = "hit"
        /\ IsMerge(Kinds[e.dst]) \/ IsDiverge(Kinds[e.dst])
        /\ e.dist < EdgeLimit(Kinds[e.src], Kinds[e.dst])

LEMMA EdgesAre ==
    ASSUME NEW e
    PROVE  e \in ChainEdges(roads, seeds, Kinds) <=>
              Allowed(e) /\ \A f : Allowed(f) /\ f.src = e.src /\ f.dst = e.dst => e.dist <= f.dist
<1> DEFINE found == {[src |-> d.from, hit |-> Corridor(roads, d)] :
                        d \in {q \in Directed(roads) : q.from \in seeds}}
           kept == {g \in found :
                        /\ g.hit.fate = "hit"
                        /\ g.hit.at \in seeds
                        /\ IsMerge(Kinds[g.hit.at]) \/ IsDiverge(Kinds[g.hit.at])
                        /\ g.hit.dist < EdgeLimit(Kinds[g.src], Kinds[g.hit.at])}
           legal == {[src |-> f.src, dst |-> f.hit.at, dist |-> f.hit.dist] : f \in kept}
<1>1. ASSUME NEW x \in legal PROVE Allowed(x)
  <2>1. PICK g \in kept : x = [src |-> g.src, dst |-> g.hit.at, dist |-> g.hit.dist]
    OBVIOUS
  <2>2. g \in found /\ g.hit.fate = "hit" /\ g.hit.at \in seeds
        /\ (IsMerge(Kinds[g.hit.at]) \/ IsDiverge(Kinds[g.hit.at]))
        /\ g.hit.dist < EdgeLimit(Kinds[g.src], Kinds[g.hit.at])
    OBVIOUS
  <2>3. PICK d \in Directed(roads) : d.from \in seeds /\ g = [src |-> d.from, hit |-> Corridor(roads, d)]
    BY <2>2
  <2> HIDE DEF kept, found
  <2>4. g.src = d.from /\ g.hit = Corridor(roads, d)
    BY <2>3
  <2>5. x.src = g.src /\ x.dst = g.hit.at /\ x.dist = g.hit.dist
    BY <2>1
  <2> QED
    BY <2>1, <2>2, <2>3, <2>4, <2>5 DEF Allowed
<1>2. ASSUME NEW x, Allowed(x) PROVE x \in legal
  <2>1. PICK d \in Directed(roads) :
        /\ x = [src |-> d.from, dst |-> Corridor(roads, d).at, dist |-> Corridor(roads, d).dist]
        /\ d.from \in seeds /\ Corridor(roads, d).at \in seeds
        /\ Corridor(roads, d).fate = "hit"
        /\ IsMerge(Kinds[x.dst]) \/ IsDiverge(Kinds[x.dst])
        /\ x.dist < EdgeLimit(Kinds[x.src], Kinds[x.dst])
    BY <1>2 DEF Allowed
  <2> DEFINE g == [src |-> d.from, hit |-> Corridor(roads, d)]
  <2>2. g \in found /\ g.src = d.from /\ g.hit = Corridor(roads, d)
    BY <2>1
  <2>3. x.src = d.from /\ x.dst = Corridor(roads, d).at /\ x.dist = Corridor(roads, d).dist
    BY <2>1
  <2> HIDE DEF g, found
  <2>4. g \in kept
    BY <2>1, <2>2, <2>3
  <2>5. x = [src |-> g.src, dst |-> g.hit.at, dist |-> g.hit.dist]
    BY <2>1, <2>2
  <2> HIDE DEF kept
  <2> QED
    BY <2>4, <2>5
<1>3. ChainEdges(roads, seeds, Kinds)
        = {x \in legal : \A f \in legal : f.src = x.src /\ f.dst = x.dst => x.dist <= f.dist}
  BY DEF ChainEdges
<1> HIDE DEF legal
<1> QED
  BY <1>1, <1>2, <1>3

(* The corridors from one seed to another that an edge may stand for are   *)
(* the trails that ChainsAreCorridors counts.                              *)
LEMMA AllowedAre ==
    ASSUME RoadsKnown, seeds \subseteq CanonicalIds(rows, roads),
           NEW m \in seeds, NEW n \in seeds, NEW x
    PROVE  Allowed([src |-> m, dst |-> n, dist |-> x]) <=>
              \E t \in Trails(m) :
                 /\ t.at = n /\ t.len = x /\ Driven(n) >= 3
                 /\ Kind(n) \cap {"merge", "diverge"} # {}
                 /\ x < (IF "diverge" \in Kind(m) /\ "merge" \in Kind(n) THEN Far ELSE Near)
<1> DEFINE e == [src |-> m, dst |-> n, dist |-> x]
           limit == IF "diverge" \in Kind(m) /\ "merge" \in Kind(n) THEN Far ELSE Near
<1>1. Kinds[m] = Kind(m) /\ Kinds[n] = Kind(n)
  BY DEF Kinds
<1>2. e.src = m /\ e.dst = n /\ e.dist = x
  OBVIOUS
<1>3. EdgeLimit(Kinds[e.src], Kinds[e.dst]) = limit
  BY <1>1, <1>2 DEF EdgeLimit, IsDiverge, IsMerge
<1>4. IsMerge(Kinds[e.dst]) \/ IsDiverge(Kinds[e.dst]) <=> Kind(n) \cap {"merge", "diverge"} # {}
  BY <1>1, <1>2 DEF IsDiverge, IsMerge
<1>5. ASSUME Allowed(e)
      PROVE  \E t \in Trails(m) :
                 /\ t.at = n /\ t.len = x /\ Driven(n) >= 3
                 /\ Kind(n) \cap {"merge", "diverge"} # {} /\ x < limit
  <2>1. PICK d \in Directed(roads) :
           /\ e = [src |-> d.from, dst |-> Corridor(roads, d).at, dist |-> Corridor(roads, d).dist]
           /\ Corridor(roads, d).fate = "hit"
           /\ IsMerge(Kinds[e.dst]) \/ IsDiverge(Kinds[e.dst])
           /\ e.dist < EdgeLimit(Kinds[e.src], Kinds[e.dst])
    BY <1>5 DEF Allowed
  <2>2. m = d.from /\ n = Corridor(roads, d).at /\ x = Corridor(roads, d).dist
    BY <1>2, <2>1
  <2>3. PICK t \in Trails(d.from) : /\ t.at = Corridor(roads, d).at
                                   /\ t.len = Corridor(roads, d).dist /\ Driven(t.at) >= 3
    BY <2>1, CorridorIsTrail
  <2> HIDE DEF e, limit
  <2> QED
    BY <1>2, <1>3, <1>4, <2>1, <2>2, <2>3
<1>6. ASSUME NEW t \in Trails(m), t.at = n, t.len = x, Driven(n) >= 3,
             Kind(n) \cap {"merge", "diverge"} # {}, x < limit
      PROVE  Allowed(e)
  <2>1. x \in Nat
    BY <1>6, TrailIs DEF TrailsFrom, RoadsKnown
  <2>2. t.len <= SearchLimit
    BY <1>6, <2>1, LimitIs, ChainsAssumption
  <2>3. PICK d \in Directed(roads) : d.from = m /\ Corridor(roads, d) = Hit(t.at, t.len)
    BY <1>6, <2>2, TrailIsCorridor
  <2>4. /\ Corridor(roads, d).at = n /\ Corridor(roads, d).dist = x
        /\ Corridor(roads, d).fate = "hit"
    BY <1>6, <2>3 DEF Hit
  <2>5. e = [src |-> d.from, dst |-> Corridor(roads, d).at, dist |-> Corridor(roads, d).dist]
    BY <2>3, <2>4
  <2> HIDE DEF e, limit
  <2> QED
    BY <1>2, <1>3, <1>4, <1>6, <2>3, <2>4, <2>5 DEF Allowed
<1> HIDE DEF e, limit
<1> QED
  BY <1>5, <1>6 DEF e, limit

(* What the chains were built from is what the evaluation still sees.      *)
Linked ==
    /\ rows \in {<< >>, world.rows}
    /\ pc \notin {"load", "seeds"} => seeds \subseteq CanonicalIds(rows, roads)
    /\ pc = "chained" => edges = ChainEdges(roads, seeds, Kinds)

LEMMA LinkedInit == Init => Linked
BY DEF Init, Linked

LEMMA SeedsAreNodes ==
    ASSUME Timely, Linked PROVE SeedsOf(world.focus, rows, roads) \subseteq CanonicalIds(rows, roads)
<1>1. DOMAIN rows \subseteq Nat
  <2>1. CASE rows = << >>
    BY <2>1
  <2>2. CASE rows = world.rows
    <3>1. \A len : 1..len \subseteq Nat
      OBVIOUS
    <3> QED
      BY <2>2, <3>1, WorldsAssumption DEF Timely
  <2> QED
    BY <2>1, <2>2 DEF Linked
<1>2. ASSUME NEW id PROVE Resolved(id, rows, roads) \subseteq CanonicalIds(rows, roads)
  <2> DEFINE has == {i \in KeptRows(rows, roads) : id \in ToSet(rows[i])}
  <2>1. CASE has = {}
    BY <2>1 DEF Resolved
  <2>2. CASE has # {}
    <3>1. has \subseteq Nat
      BY <1>1 DEF KeptRows
    <3>2. Min(has) \in has
      <4> HIDE DEF has
      <4> QED
        BY <2>2, <3>1, LeastIsMin
    <3>3. Min(has) \in KeptRows(rows, roads)
      BY <3>2
    <3>4. Resolved(id, rows, roads) = {Canonical(rows[Min(has)], roads)}
      BY <2>2 DEF Resolved
    <3> HIDE DEF has
    <3> QED
      BY <3>3, <3>4 DEF CanonicalIds
  <2> QED
    BY <2>1, <2>2
<1> QED
  BY <1>2 DEF SeedsOf

LEMMA LinkedNext == Timely /\ Linked /\ [Next]_vars => Linked'
<1> SUFFICES ASSUME Timely, Linked, [Next]_vars PROVE Linked'
  OBVIOUS
<1>1. CASE Load
  BY <1>1 DEF Load, Linked
<1>2. CASE PickSeeds
  <2>1. /\ pc' = "zones" /\ world' = world /\ roads' = roads /\ rows' = rows
        /\ seeds' \in {{}, SeedsOf(world.focus, rows, roads)}
    BY <1>2 DEF PickSeeds, inputs
  <2> QED
    BY <2>1, SeedsAreNodes DEF Linked
<1>3. CASE BuildChains
  <2>1. /\ pc = "chains" /\ world' = world /\ roads' = roads /\ rows' = rows /\ seeds' = seeds
        /\ edges' = ChainEdges(roads, seeds, Kinds)
    BY <1>3 DEF BuildChains, inputs
  <2>2. Kinds' = Kinds
    BY <2>1 DEF Kinds, Kind
  <2> QED
    BY <2>1, <2>2 DEF Linked
<1>4. CASE \/ LoadZones \/ EvaluateChained \/ ChainedDone \/ EvaluateRest \/ RestDone
          \/ CheckOrder \/ OrderDone \/ MergeEdge \/ Finish \/ UNCHANGED vars
  <2>1. /\ world' = world /\ roads' = roads /\ rows' = rows /\ seeds' = seeds /\ edges' = edges
        /\ pc \in {"load", "seeds"} => pc' = pc
        /\ pc' = "chained" => pc = "chained"
    BY <1>4 DEF LoadZones, EvaluateChained, ChainedDone, EvaluateRest, RestDone, CheckOrder,
         OrderDone, MergeEdge, Finish, vars, inputs, chain
  <2>2. Kinds' = Kinds
    BY <2>1 DEF Kinds, Kind
  <2> QED
    BY <2>1, <2>2 DEF Linked
<1> QED
  BY <1>1, <1>2, <1>3, <1>4 DEF Next

(* Between two seeds there is an edge exactly when driven roads lead from  *)
(* one to the other within the limit of their kinds, and it is as long as  *)
(* the shortest way, for any roads and any number of hops                  *)
(* (build_continuous_graph).                                               *)
THEOREM ChainsFollowRoads == Spec => []ChainsAreCorridors
<1>1. ASSUME Timely, Linked, pc = "chained", NEW m \in seeds, NEW n \in seeds
      PROVE  LET limit == IF "diverge" \in Kind(m) /\ "merge" \in Kind(n) THEN Far ELSE Near
                 short == {t.len : t \in {q \in Trails(m) :
                              /\ q.at = n /\ Driven(n) >= 3 /\ q.len < limit
                              /\ Kind(n) \cap {"merge", "diverge"} # {}}}
             IN  {e.dist : e \in {f \in edges : f.src = m /\ f.dst = n}}
                   = (IF short = {} THEN {} ELSE {Min(short)})
  <2> DEFINE limit == IF "diverge" \in Kind(m) /\ "merge" \in Kind(n) THEN Far ELSE Near
             short == {t.len : t \in {q \in Trails(m) :
                              /\ q.at = n /\ Driven(n) >= 3 /\ q.len < limit
                              /\ Kind(n) \cap {"merge", "diverge"} # {}}}
             kept == {e.dist : e \in {f \in edges : f.src = m /\ f.dst = n}}
             edge(x) == [src |-> m, dst |-> n, dist |-> x]
  <2>1. RoadsKnown /\ seeds \subseteq CanonicalIds(rows, roads) /\ edges = ChainEdges(roads, seeds, Kinds)
    BY <1>1, WorldsAssumption, FS_Subset DEF Timely, Linked, RoadsKnown, RoadsFit
  <2>2. \A x : Allowed(edge(x)) <=> x \in short
    <3>1. \A x : x \in short <=>
              \E t \in Trails(m) :
                 /\ t.at = n /\ t.len = x /\ Driven(n) >= 3
                 /\ Kind(n) \cap {"merge", "diverge"} # {} /\ x < limit
      OBVIOUS
    <3> HIDE DEF short
    <3> QED
      BY <2>1, <3>1, AllowedAre
  <2>3. short \subseteq Nat
    <3> SUFFICES ASSUME NEW t \in Trails(m) PROVE t.len \in Nat
      OBVIOUS
    <3> QED
      BY <2>1, TrailIs DEF TrailsFrom, RoadsKnown
  <2> HIDE DEF short
  <2>4. \A e : e \in edges /\ e.src = m /\ e.dst = n => e = edge(e.dist)
    BY <2>1, EdgesAre DEF Allowed
  <2>5. \A x : edge(x) \in edges <=> x \in short /\ \A y \in short : x <= y
    <3> SUFFICES ASSUME NEW x
                 PROVE  edge(x) \in edges <=> x \in short /\ \A y \in short : x <= y
      OBVIOUS
    <3>1. /\ edge(x).src = m /\ edge(x).dst = n /\ edge(x).dist = x
          /\ \A y : edge(y).src = m /\ edge(y).dst = n /\ edge(y).dist = y
      OBVIOUS
    <3>2. \A f : Allowed(f) /\ f.src = m /\ f.dst = n => f = edge(f.dist)
      BY DEF Allowed
    <3> HIDE DEF edge
    <3>3. edge(x) \in edges <=>
            Allowed(edge(x)) /\ \A f : Allowed(f) /\ f.src = m /\ f.dst = n => x <= f.dist
      BY <2>1, <3>1, EdgesAre
    <3> QED
      BY <2>2, <3>1, <3>2, <3>3
  <2>6. \A x : x \in kept <=> edge(x) \in edges
    <3>1. \A x : edge(x).src = m /\ edge(x).dst = n /\ edge(x).dist = x
      OBVIOUS
    <3> HIDE DEF edge
    <3> QED
      BY <2>4, <3>1
  <2> HIDE DEF kept, edge
  <2>7. CASE short = {}
    <3>1. kept = {}
      BY <2>5, <2>6, <2>7
    <3> QED
      BY <2>7, <3>1 DEF kept, short
  <2>8. CASE short # {}
    <3>1. Min(short) \in short /\ \A y \in short : Min(short) <= y
      BY <2>3, <2>8, LeastIsMin
    <3>2. ASSUME NEW x \in short, \A y \in short : x <= y PROVE x = Min(short)
      <4>1. x \in Nat /\ Min(short) \in Nat /\ x <= Min(short) /\ Min(short) <= x
        BY <2>3, <3>1, <3>2
      <4> QED
        BY <4>1
    <3>3. kept = {Min(short)}
      BY <2>5, <2>6, <3>1, <3>2
    <3> QED
      BY <2>8, <3>3 DEF kept, short
  <2> QED
    BY <2>7, <2>8
<1>2. Timely /\ Linked => ChainsAreCorridors
  BY <1>1 DEF ChainsAreCorridors
<1> QED
  BY <1>2, AnchorInvariant, TimelyInit, TimelyNext, LinkedInit, LinkedNext, PTL DEF Spec

-----------------------------------------------------------------------------
(* The evaluation of one node.                                             *)
One(S, lo, hi) == S = {} \/ \E x \in lo..hi : S = {x}
Side(r) == IF r < 0 THEN -Back..0 ELSE 0..Ahead

LEMMA Reaches ==
    ASSUME WithinReach
    PROVE  /\ Stop \in Nat /\ RevMax \in Nat /\ Past \in Nat /\ Window \in Nat /\ MinGuard \in Nat
           /\ K16Max \in Nat /\ K16Ahead \in Nat /\ Back \in Nat /\ Ahead \in Nat
           /\ RevMax + Window <= Back /\ Past <= Back
           /\ Stop <= Ahead /\ RevMax <= Ahead /\ Past <= Ahead /\ Window <= Ahead
BY NodeAssumption DEF WithinReach

LEMMA MinIsIn ==
    ASSUME NEW lo \in Int, NEW S, \A x \in S : x \in Int /\ lo <= x, S # {}
    PROVE  Min(S) \in S /\ \A x \in S : Min(S) <= x
<1> DEFINE T == {n \in Nat : n + lo \in S}
<1>1. T \subseteq Nat /\ T # {}
  <2>1. PICK x \in S : TRUE
    OBVIOUS
  <2>2. x - lo \in Nat /\ (x - lo) + lo = x
    OBVIOUS
  <2> QED
    BY <2>1, <2>2
<1>2. PICK p \in T : \A q \in T : p <= q
  <2> HIDE DEF T
  <2> QED
    BY <1>1, LeastOfSome
<1>3. p \in Nat /\ p + lo \in S
  OBVIOUS
<1>4. \A x \in S : p + lo <= x
  <2> SUFFICES ASSUME NEW x \in S PROVE p + lo <= x
    OBVIOUS
  <2>1. x - lo \in Nat /\ (x - lo) + lo = x
    OBVIOUS
  <2>2. x - lo \in T
    BY <2>1
  <2>3. p <= x - lo
    BY <1>2, <2>2
  <2> QED
    BY <1>3, <2>1, <2>3
<1> QED
  BY <1>3, <1>4 DEF Min

LEMMA WalkFits ==
    ASSUME NEW lo \in Int, NEW hi \in Int, NEW a \in lo..hi, NEW b \in lo..hi
    PROVE  Walk(a, b) \in Seq(lo..hi)
<1>1. CASE a <= b
  <2>1. b - a + 1 \in Nat
    BY <1>1
  <2>2. \A i \in 1..(b - a + 1) : a + i - 1 \in lo..hi
    BY <1>1
  <2> QED
    BY <1>1, <2>1, <2>2 DEF Walk
<1>2. CASE ~(a <= b)
  <2>1. a - b + 1 \in Nat
    BY <1>2
  <2>2. \A i \in 1..(a - b + 1) : a - i + 1 \in lo..hi
    BY <1>2
  <2> QED
    BY <1>2, <2>1, <2>2 DEF Walk
<1> QED
  BY <1>1, <1>2

-----------------------------------------------------------------------------
(* What a scan can meet, and the reference it leads to.                    *)

LEMMA EventsFit ==
    ASSUME NEW n \in Nat, NEW S, NEW at \in [1..n -> S], NEW counts \in [1..n -> 0..3], NEW expected
    PROVE  Events(counts, at, expected) \subseteq S
BY DEF Events

LEMMA MainSplitFits ==
    ASSUME WithinReach, NEW fwdEvents, NEW revEvents,
           fwdEvents \subseteq 0..Stop, revEvents \subseteq -RevMax..0
    PROVE  One(MainSplit(fwdEvents, revEvents), -RevMax, Stop)
<1> DEFINE f == IF \E e \in fwdEvents : e > 0 THEN {e \in fwdEvents : e > 0} ELSE fwdEvents
           r == IF \E e \in revEvents : e < 0 THEN {e \in revEvents : e < 0} ELSE revEvents
<1>1. -RevMax \in Int /\ 0 \in Int /\ RevMax \in Nat /\ Stop \in Nat
  BY DEF WithinReach
<1>2. f \subseteq 0..Stop /\ r \subseteq -RevMax..0
  OBVIOUS
<1>3. MainSplit(fwdEvents, revEvents) = IF r # {} THEN {Min(r)} ELSE IF f # {} THEN {Min(f)} ELSE {}
  BY DEF MainSplit
<1> HIDE DEF f, r
<1>4. r # {} => Min(r) \in -RevMax..0
  <2>1. \A x \in r : x \in Int /\ -RevMax <= x
    BY <1>1, <1>2
  <2> QED
    BY <1>1, <1>2, <2>1, MinIsIn
<1>5. f # {} => Min(f) \in 0..Stop
  <2>1. \A x \in f : x \in Int /\ 0 <= x
    BY <1>1, <1>2
  <2> QED
    BY <1>1, <1>2, <2>1, MinIsIn
<1>6. (r # {} => Min(r) \in -RevMax..Stop) /\ (f # {} => Min(f) \in -RevMax..Stop)
  BY <1>1, <1>4, <1>5
<1> QED
  BY <1>3, <1>6 DEF One

LEMMA SplitsFit ==
    ASSUME WithinReach, stop \in 0..Stop, NEW p \in Splits
    PROVE  One(p.split, -RevMax, Stop)
<1>1. RevMax \in Nat /\ Stop \in Nat /\ stop \in Nat /\ stop <= Stop
  BY DEF WithinReach
<1>2. CASE ~Multi
  <2>1. p.split = {} \/ \E s \in 0..stop : p.split = {s}
    BY <1>2 DEF Splits
  <2> QED
    BY <1>1, <2>1 DEF One
<1>3. CASE Multi
  <2>1. PICK c \in [1..(stop + 1) -> 0..3] \X [1..(RevMax + 1) -> 0..3] :
            p = MultiSplit(c[1], c[2])
    BY <1>3 DEF Splits
  <2> DEFINE f == c[1]
             r == c[2]
  <2>0. f \in [1..(stop + 1) -> 0..3] /\ r \in [1..(RevMax + 1) -> 0..3]
    OBVIOUS
  <2> DEFINE E1 == Events(f, [i \in 1..(stop + 1) |-> i - 1], node.branches - 1)
             E2 == Events(r, [i \in 1..(RevMax + 1) |-> 1 - i], node.branches - 1)
  <2>m. p.split = MainSplit(E1, E2)
    BY <2>1 DEF MultiSplit
  <2> HIDE DEF f, r
  <2>2. E1 \subseteq 0..Stop
    <3>1. [i \in 1..(stop + 1) |-> i - 1] \in [1..(stop + 1) -> 0..Stop]
      BY <1>1
    <3>2. stop + 1 \in Nat
      BY <1>1
    <3> QED
      BY <2>0, <3>1, <3>2, EventsFit
  <2>3. E2 \subseteq -RevMax..0
    <3>1. [i \in 1..(RevMax + 1) |-> 1 - i] \in [1..(RevMax + 1) -> -RevMax..0]
      BY <1>1
    <3>2. RevMax + 1 \in Nat
      BY <1>1
    <3> QED
      BY <2>0, <3>1, <3>2, EventsFit
  <2> HIDE DEF E1, E2
  <2>4. One(MainSplit(E1, E2), -RevMax, Stop)
    BY <2>2, <2>3, MainSplitFits
  <2> QED
    BY <2>m, <2>4
<1> QED
  BY <1>2, <1>3

LEMMA DivstripRefsFit ==
    ASSUME NEW lo, NEW hi, NEW d \in DivstripRefs(lo, hi) PROVE One(d.div, lo, hi)
BY DEF DivstripRefs, One

LEMMA PickFits ==
    ASSUME NEW m
    PROVE  /\ PickReference(m).s \in {m.div, m.split} /\ PickReference(m).met = m
           /\ PickReference(m).by = "divstrip_ref" => PickReference(m).s = m.div
           /\ PickReference(m).s = {} <=> PickReference(m).by = "none"
           /\ PickReference(m).by \in {"none", "divstrip_ref", "drivezone_split"}
<1> DEFINE lone == m.split = {}
           byStrip == \E d \in m.div : \A s \in m.split :
                         m.divBy # "tip_projection" /\ Size(d) - Size(s) <= MaxOffset
           strips == m.div # {} /\ (lone \/ byStrip)
<1>1. PickReference(m) =
        [s |-> IF strips THEN m.div ELSE m.split,
         by |-> IF strips THEN "divstrip_ref" ELSE IF lone THEN "none" ELSE "drivezone_split",
         met |-> m]
  BY DEF PickReference
<1>2. (strips => m.div # {}) /\ (lone <=> m.split = {})
  OBVIOUS
<1> HIDE DEF strips, lone
<1>3. CASE strips
  BY <1>1, <1>2, <1>3
<1>4. CASE ~strips /\ lone
  BY <1>1, <1>2, <1>4
<1>5. CASE ~strips /\ ~lone
  BY <1>1, <1>2, <1>5
<1> QED
  BY <1>3, <1>4, <1>5

-----------------------------------------------------------------------------
(* The invariant.                                                          *)
Fits(m) == One(m.div, -RevMax, Stop) /\ One(m.split, -RevMax, Stop)

Opening == {"kind", "k16", "k16_search", "k16_refine", "branches", "stop", "scan", "reference", "window"}
Gated == {"k16", "k16_search", "k16_refine"}
Placing == {"branches", "stop", "scan", "reference", "window", "probe", "return", "place"}

(* Only a node of one usable kind gets far enough to be placed.            *)
Admitted ==
    /\ node \in Nodes
    /\ step \in Opening \cup Placing \cup {"done"}
    /\ step \in Gated => node.known /\ node.kind = {"k16"}
    /\ step \in Placing => node.known /\ node.kind \in {{"merge"}, {"diverge"}}

(* A reference lies in reach, behind the node where it was found there,    *)
(* and in front of it where a divstrip was met there.                      *)
InReach(found, behind) ==
    /\ One(found.s, -RevMax, Stop)
    /\ found.s = {} <=> found.by = "none"
    /\ behind => found.s \subseteq -RevMax..0
    /\ ~behind /\ found.by = "divstrip_ref" => found.s \subseteq 0..Stop
    /\ found.by = "divstrip_ref" => found.s = found.met.div

Referred ==
    /\ stop \in 0..Stop /\ strip \in BOOLEAN /\ reverse \in BOOLEAN
    /\ step = "reference" => Fits(fwd) /\ fwd.div \subseteq 0..Stop
    /\ InReach(ref, reverse)

(* Every position that is probed is one of the contract, and every hit     *)
(* exceeds what was asked.                                                 *)
Probed ==
    /\ aim.target \in Int /\ aim.guard \in BOOLEAN /\ aim.prefer \in BOOLEAN
    /\ probes \in Seq(Positions) /\ hits \in Seq(ProbeHit)
    /\ \A i \in DOMAIN hits : hits[i].s \in Positions /\ FarEnough(hits[i].s)
    /\ first \in 0..Len(hits) /\ passed \in BOOLEAN /\ back \in BOOLEAN
    /\ best = {} \/ \E i \in DOMAIN hits : best = {i}
    /\ step \in Opening => probes = << >> /\ hits = << >>
    /\ step \in Opening \cup {"probe"} => first = 0
    /\ step \in Opening \cup {"probe", "return"} => best = {}

(* The window lies on the side of the reference.  Past the node is probed  *)
(* only after a window without a single piece.                             *)
Turned ==
    /\ ref.by = "drivezone_split" /\ ~reverse
    /\ \A i \in 1..first : hits[i].raw > 1

Sided ==
    \A r \in ref.s :
        /\ step = "probe" => /\ probes \in Seq(Side(r)) /\ aim.target \in Side(r)
                           /\ \A i \in DOMAIN hits : hits[i].s \in Side(r)
        /\ step \in {"return", "place", "done"} =>
              /\ \A i \in 1..first : hits[i].s \in Side(r)
              /\ probes # << >> \/ Len(hits) > first => Turned

Gates16 ==
    /\ gate \in [sign : -1..1, tangent : -1..1, first : -K16Max..K16Max, at : Int, gain : Nat]
    /\ step \in {"k16_search", "k16_refine"} => gate.sign \in {-1, 1}

Ruled ==
    /\ verdict = {} \/ \E v : verdict = {v}
    /\ (verdict = {}) = (step # "done")
    /\ verdict \subseteq Verdicts(IF node.known THEN node.kind ELSE {}, node.offset, node.required)

Inv == Admitted /\ Referred /\ Probed /\ Sided /\ Gates16 /\ Ruled

LEMMA InvInit == WithinReach /\ EvaluationInit => Inv
<1> SUFFICES ASSUME WithinReach, EvaluationInit PROVE Inv
  OBVIOUS
<1> USE Reaches DEF EvaluationInit
<1>1. Admitted
  BY DEF Admitted, Opening, Gated, Placing
<1>2. Referred
  <2>1. ref.s = {} /\ ref.by = "none" /\ step = "kind" /\ 0 \in 0..Stop
    BY DEF NoRef
  <2> QED
    BY <2>1 DEF Referred, InReach, One
<1>3. Probed
  <2>1. /\ aim.target = 0 /\ aim.guard = FALSE /\ aim.prefer = FALSE
        /\ hits = << >> /\ probes = << >> /\ best = {} /\ first = 0 /\ step = "kind"
        /\ passed = FALSE /\ back = FALSE
    BY DEF NoAim
  <2>2. probes \in Seq(Positions) /\ hits \in Seq(ProbeHit) /\ DOMAIN hits = {} /\ first \in 0..Len(hits)
    BY <2>1
  <2>3. \A i \in DOMAIN hits : hits[i].s \in Positions /\ FarEnough(hits[i].s)
    BY <2>2
  <2>4. probes = << >> /\ hits = << >> /\ first = 0 /\ best = {}
    BY <2>1
  <2>5. best = {} \/ \E i \in DOMAIN hits : best = {i}
    BY <2>4
  <2>6. /\ aim.target \in Int /\ aim.guard \in BOOLEAN /\ aim.prefer \in BOOLEAN
        /\ passed \in BOOLEAN /\ back \in BOOLEAN
    <3>1. aim.target \in Int
      BY <2>1
    <3> QED
      BY <2>1, <3>1, Zenon
  <2> HIDE DEF EvaluationInit
  <2> QED
    BY ONLY <2>2, <2>3, <2>4, <2>5, <2>6 DEF Probed
<1>4. Sided
  BY DEF Sided, NoRef
<1>5. Gates16
  BY DEF Gates16
<1>6. Ruled
  BY DEF Ruled
<1> QED
  BY <1>1, <1>2, <1>3, <1>4, <1>5, <1>6 DEF Inv

-----------------------------------------------------------------------------
(* What the steps have in common.                                          *)

LEMMA GoKeeps ==
    ASSUME Ruled, step # "done", NEW next, next # "done", Go(next), UNCHANGED node
    PROVE  Ruled' /\ step' = next
BY DEF Ruled, Go

LEMMA FailKeeps ==
    ASSUME NEW reason, Fail(reason), UNCHANGED node
    PROVE  Ruled' /\ step' = "done"
BY DEF Ruled, Fail, Verdicts

LEMMA SceneKeeps ==
    ASSUME Referred, UNCHANGED scene, step' # "reference"
    PROVE  Referred'
BY DEF Referred, scene

LEMMA GateKeeps ==
    ASSUME Gates16, UNCHANGED gate, step' \notin {"k16_search", "k16_refine"}
    PROVE  Gates16'
BY DEF Gates16

(* Nothing is probed before the window is made.                            *)
LEMMA EarlyKeeps ==
    ASSUME Probed, UNCHANGED <<node, probing>>, step \in Opening, step' \in Opening \cup {"done"}
    PROVE  Probed' /\ Sided'
<1>1. /\ aim' = aim /\ probes' = probes /\ hits' = hits /\ first' = first /\ passed' = passed
      /\ best' = best /\ back' = back /\ node' = node
  BY DEF probing
<1>2. probes = << >> /\ hits = << >> /\ first = 0 /\ best = {}
  BY DEF Probed
<1>3. Probed'
  BY <1>1, <1>2 DEF Probed, FarEnough
<1>4. step' # "probe"
  BY DEF Opening
<1>5. Sided'
  <2>1. \A i \in 1..first' : FALSE
    BY <1>1, <1>2
  <2>2. probes' = << >> /\ Len(hits') = first'
    BY <1>1, <1>2
  <2> QED
    BY <1>4, <2>1, <2>2 DEF Sided
<1> QED
  BY <1>3, <1>5

LEMMA CheckKindStep == ASSUME WithinReach, Inv, CheckKind PROVE Inv'
<1>1. /\ Admitted /\ Referred /\ Probed /\ Gates16 /\ Ruled /\ step = "kind" /\ step \in Opening
      /\ UNCHANGED <<node, gate, scene, probing>>
  BY DEF Inv, CheckKind, Opening
<1>2. \/ step' = "k16" /\ node.known /\ node.kind = {"k16"} /\ Ruled'
      \/ step' = "branches" /\ node.known /\ node.kind \in {{"merge"}, {"diverge"}} /\ Ruled'
      \/ step' = "done" /\ Ruled'
  <2>1. CASE ~node.known
    BY <1>1, <2>1, FailKeeps DEF CheckKind
  <2>2. CASE node.known /\ node.kind = {"k16"}
    BY <1>1, <2>2, GoKeeps DEF CheckKind
  <2>3. CASE node.known /\ node.kind # {"k16"} /\ node.kind \in {{"merge"}, {"diverge"}}
    BY <1>1, <2>3, GoKeeps DEF CheckKind
  <2>4. CASE node.known /\ node.kind # {"k16"} /\ node.kind \notin {{"merge"}, {"diverge"}}
    BY <1>1, <2>4, FailKeeps DEF CheckKind
  <2> QED
    BY <2>1, <2>2, <2>3, <2>4
<1>3. Admitted'
  BY <1>1, <1>2 DEF Admitted, Opening, Gated, Placing
<1>4. Probed' /\ Sided'
  BY <1>1, <1>2, EarlyKeeps DEF Opening
<1>5. Referred' /\ Gates16'
  BY <1>1, <1>2, SceneKeeps, GateKeeps
<1> QED
  BY <1>2, <1>3, <1>4, <1>5 DEF Inv

LEMMA K16RoadStep == ASSUME WithinReach, Inv, K16Road PROVE Inv'
<1>1. /\ Admitted /\ Referred /\ Probed /\ Gates16 /\ Ruled /\ step = "k16" /\ step \in Opening
      /\ UNCHANGED <<node, scene, probing>>
  BY DEF Inv, K16Road, Opening
<1>2. \/ step' = "done" /\ Ruled' /\ gate' = gate
      \/ step' = "k16_search" /\ Ruled' /\ \E sign \in {-1, 1}, tangent \in {-1, 1} :
            gate' = [gate EXCEPT !.sign = sign, !.tangent = tangent]
  <2>1. CASE \E reason : Fail(reason) /\ UNCHANGED gate
    BY <1>1, <2>1, FailKeeps
  <2>2. CASE \E r \in node.conn :
               /\ gate' = [gate EXCEPT !.sign = IF DrivenFrom(r) THEN 1 ELSE -1, !.tangent = Tangent(r)]
               /\ Go("k16_search")
    <3>1. PICK r \in node.conn :
               /\ gate' = [gate EXCEPT !.sign = IF DrivenFrom(r) THEN 1 ELSE -1, !.tangent = Tangent(r)]
               /\ Go("k16_search")
      BY <2>2
    <3>2. (IF DrivenFrom(r) THEN 1 ELSE -1) \in {-1, 1} /\ Tangent(r) \in {-1, 1}
      BY DEF Tangent
    <3>3. step' = "k16_search" /\ Ruled'
      BY <1>1, <3>1, GoKeeps
    <3> QED
      BY <3>1, <3>2, <3>3
  <2> QED
    BY <2>1, <2>2 DEF K16Road
<1>3. Admitted'
  BY <1>1, <1>2 DEF Admitted, Opening, Gated, Placing
<1>4. Probed' /\ Sided'
  BY <1>1, <1>2, EarlyKeeps DEF Opening
<1>5. Referred'
  BY <1>1, <1>2, SceneKeeps
<1>6. Gates16'
  <2>1. CASE gate' = gate
    BY <1>1, <1>2, <2>1 DEF Gates16
  <2>2. CASE step' = "k16_search"
    <3>1. PICK sign \in {-1, 1}, tangent \in {-1, 1} :
             gate' = [gate EXCEPT !.sign = sign, !.tangent = tangent]
      BY <1>2, <2>2
    <3>2. gate \in [sign : -1..1, tangent : -1..1, first : -K16Max..K16Max, at : Int, gain : Nat]
      BY <1>1 DEF Gates16
    <3>0. sign \in -1..1 /\ tangent \in -1..1
      BY <3>1
    <3>3. gate' \in [sign : -1..1, tangent : -1..1, first : -K16Max..K16Max, at : Int, gain : Nat]
      BY ONLY <3>0, <3>1, <3>2
    <3>4. gate'.sign = sign
      BY <3>1, <3>2
    <3> QED
      BY <3>3, <3>4 DEF Gates16
  <2> QED
    BY <1>2, <2>1, <2>2
<1>7. Ruled'
  BY <1>2
<1> QED
  BY <1>3, <1>4, <1>5, <1>6, <1>7 DEF Inv

LEMMA K16SearchStep == ASSUME WithinReach, Inv, K16Search PROVE Inv'
<1>1. /\ Admitted /\ Referred /\ Probed /\ Gates16 /\ Ruled /\ step = "k16_search" /\ step \in Opening
      /\ UNCHANGED <<node, scene, probing>>
  BY DEF Inv, K16Search, Opening
<1>2. \/ step' = "done" /\ Ruled' /\ gate' = gate
      \/ step' = "k16_refine" /\ Ruled' /\ \E k \in 0..K16Max :
            gate' = [gate EXCEPT !.first = gate.sign * k]
  <2>1. CASE Fail("k16_not_reached") /\ UNCHANGED gate
    BY <1>1, <2>1, FailKeeps
  <2>2. CASE \E k \in 0..K16Max : gate' = [gate EXCEPT !.first = gate.sign * k] /\ Go("k16_refine")
    BY <1>1, <2>2, GoKeeps
  <2> QED
    BY <2>1, <2>2 DEF K16Search
<1>3. Admitted'
  BY <1>1, <1>2 DEF Admitted, Opening, Gated, Placing
<1>4. Probed' /\ Sided'
  BY <1>1, <1>2, EarlyKeeps DEF Opening
<1>5. Referred'
  BY <1>1, <1>2, SceneKeeps
<1>6. Gates16'
  <2>1. gate.sign \in {-1, 1} /\ K16Max \in Nat
    BY <1>1, Reaches DEF Gates16
  <2>2. \A k \in 0..K16Max : gate.sign * k \in -K16Max..K16Max
    BY <2>1
  <2> QED
    BY <1>1, <1>2, <2>1, <2>2 DEF Gates16
<1>7. Ruled'
  BY <1>2
<1> QED
  BY <1>3, <1>4, <1>5, <1>6, <1>7 DEF Inv

(* There is a longest line of the fewest pieces, and it is no shorter than *)
(* that of the first hit.                                                  *)
LEMMA BestCrossline ==
    ASSUME NEW n \in Nat, NEW made \in SUBSET (0..n), 0 \in made,
           NEW len \in [made -> 1..2], NEW raw \in [made -> 1..2]
    PROVE  BestLine(made, len, raw) \in made /\ len[BestLine(made, len, raw)] >= len[0]
<1> DEFINE longest == {j \in made : \A i \in made : len[j] >= len[i]}
           fewest == {j \in longest : \A i \in longest : raw[j] <= raw[i]}
<1>1. \A j \in made : len[j] \in 1..2 /\ raw[j] \in 1..2 /\ j \in Int /\ 0 <= j
  OBVIOUS
<1>2. longest # {}
  <2>1. CASE \E j \in made : len[j] = 2
    <3>1. PICK j \in made : len[j] = 2
      BY <2>1
    <3>2. \A i \in made : len[j] >= len[i]
      BY <1>1, <3>1
    <3> QED
      BY <3>1, <3>2
  <2>2. CASE \A j \in made : len[j] = 1
    BY <1>1, <2>2
  <2> QED
    BY <1>1, <2>1, <2>2
<1>3. fewest # {}
  <2>0. longest \subseteq made
    OBVIOUS
  <2> HIDE DEF longest
  <2>1. CASE \E j \in longest : raw[j] = 1
    <3>1. PICK j \in longest : raw[j] = 1
      BY <2>1
    <3>2. \A i \in longest : raw[j] <= raw[i]
      BY <1>1, <2>0, <3>1
    <3> QED
      BY <3>1, <3>2
  <2>2. CASE \A j \in longest : raw[j] = 2
    BY <1>1, <1>2, <2>0, <2>2
  <2> QED
    BY <1>1, <2>0, <2>1, <2>2
<1>4. Min(fewest) \in fewest
  <2>1. \A x \in fewest : x \in Int /\ 0 <= x
    BY <1>1
  <2>2. 0 \in Int
    OBVIOUS
  <2> HIDE DEF fewest
  <2> QED
    BY <1>3, <2>1, <2>2, MinIsIn
<1>5. BestLine(made, len, raw) = Min(fewest)
  BY DEF BestLine
<1>6. \A j \in fewest : j \in made /\ len[j] >= len[0]
  OBVIOUS
<1> HIDE DEF fewest
<1> QED
  BY <1>4, <1>5, <1>6

LEMMA K16RefineStep == ASSUME WithinReach, Inv, K16Refine PROVE Inv'
<1>1. /\ Admitted /\ Referred /\ Probed /\ Gates16 /\ Ruled /\ step = "k16_refine" /\ step \in Opening
      /\ UNCHANGED <<node, scene, probing>>
  BY DEF Inv, K16Refine, Opening
<1>2. /\ gate \in [sign : -1..1, tangent : -1..1, first : -K16Max..K16Max, at : Int, gain : Nat]
      /\ K16Ahead \in Nat /\ node.known /\ node.kind = {"k16"}
  BY <1>1, Reaches DEF Gates16, Admitted, Gated
<1>3. \/ step' = "done" /\ Ruled' /\ gate' = gate
      \/ step' = "done" /\ Ruled' /\ \E at \in Int, gain \in Nat :
            gate' = [gate EXCEPT !.at = at, !.gain = gain]
  <2>1. CASE Fail("k16_first_hit") /\ UNCHANGED gate
    BY <1>1, <2>1, FailKeeps
  <2>2. ASSUME NEW made \in SUBSET (0..K16Ahead), 0 \in made,
               NEW len \in [made -> 1..2], NEW raw \in [made -> 1..2],
               gate' = [gate EXCEPT !.at = K16Positions[BestLine(made, len, raw)],
                                    !.gain = len[BestLine(made, len, raw)] - len[0]],
               verdict' = {Placed({})}, step' = "done"
        PROVE  step' = "done" /\ Ruled' /\ \E at \in Int, gain \in Nat :
                  gate' = [gate EXCEPT !.at = at, !.gain = gain]
    <3> DEFINE b == BestLine(made, len, raw)
    <3>1. b \in made /\ len[b] >= len[0]
      BY <1>2, <2>2, BestCrossline
    <3> HIDE DEF b
    <3>2. len[b] - len[0] \in Nat
      <4>1. len[b] \in 1..2 /\ len[0] \in 1..2
        BY <2>2, <3>1
      <4> QED
        BY <3>1, <4>1
    <3>3. K16Positions[b] \in Int
      <4>1. b \in 0..K16Ahead
        BY <3>1
      <4>2. K16Positions[b] = gate.first + gate.sign * b
        BY <4>1 DEF K16Positions
      <4>3. gate.first \in Int /\ b \in Int
        BY <1>2, <4>1, Reaches
      <4>4. gate.sign = -1 \/ gate.sign = 0 \/ gate.sign = 1
        BY <1>2
      <4> QED
        BY <4>2, <4>3, <4>4
    <3>4. gate' = [gate EXCEPT !.at = K16Positions[b], !.gain = len[b] - len[0]]
      BY <2>2 DEF b
    <3>5. Ruled'
      <4>1. Placed({}) \in Verdicts(IF node.known THEN node.kind ELSE {}, node.offset, node.required)
        BY <1>2 DEF Verdicts
      <4>2. node' = node
        BY <1>1
      <4> QED
        BY <2>2, <4>1, <4>2 DEF Ruled
    <3> QED
      BY <2>2, <3>2, <3>3, <3>4, <3>5
  <2> QED
    BY <2>1, <2>2 DEF K16Refine
<1>4. Admitted'
  BY <1>1, <1>3 DEF Admitted, Opening, Gated, Placing
<1>5. Probed' /\ Sided'
  BY <1>1, <1>3, EarlyKeeps DEF Opening
<1>6. Referred'
  BY <1>1, <1>3, SceneKeeps
<1>7. Gates16'
  BY <1>2, <1>3 DEF Gates16
<1>8. Ruled'
  BY <1>3
<1> QED
  BY <1>4, <1>5, <1>6, <1>7, <1>8 DEF Inv

LEMMA BranchesStep == ASSUME WithinReach, Inv, Branches PROVE Inv'
<1>1. /\ Admitted /\ Referred /\ Probed /\ Gates16 /\ Ruled /\ step = "branches" /\ step \in Opening
      /\ UNCHANGED <<node, gate, scene, probing>>
  BY DEF Inv, Branches, Opening
<1>2. step' \in {"stop", "done"} /\ Ruled'
  BY <1>1, GoKeeps, FailKeeps DEF Branches
<1>3. Admitted'
  BY <1>1, <1>2 DEF Admitted, Opening, Gated, Placing
<1>4. Probed' /\ Sided'
  BY <1>1, <1>2, EarlyKeeps DEF Opening
<1>5. Referred' /\ Gates16'
  BY <1>1, <1>2, SceneKeeps, GateKeeps
<1> QED
  BY <1>2, <1>3, <1>4, <1>5 DEF Inv

LEMMA StopBoundaryStep == ASSUME WithinReach, Inv, StopBoundary PROVE Inv'
<1>1. /\ Admitted /\ Referred /\ Probed /\ Gates16 /\ Ruled /\ step = "stop" /\ step \in Opening
      /\ UNCHANGED <<node, gate, strip, fwd, ref, reverse, probing>> /\ stop' \in 0..Stop
  BY DEF Inv, StopBoundary, Opening
<1>2. step' = "scan" /\ Ruled'
  BY <1>1, GoKeeps DEF StopBoundary
<1>3. Admitted'
  BY <1>1, <1>2 DEF Admitted, Opening, Gated, Placing
<1>4. Probed' /\ Sided'
  BY <1>1, <1>2, EarlyKeeps DEF Opening
<1>5. Referred'
  BY <1>1, <1>2 DEF Referred
<1>6. Gates16'
  BY <1>1, <1>2, GateKeeps
<1> QED
  BY <1>2, <1>3, <1>4, <1>5, <1>6 DEF Inv

-----------------------------------------------------------------------------
LEMMA ScanStep == ASSUME WithinReach, Inv, Scan PROVE Inv'
<1>1. /\ Admitted /\ Referred /\ Probed /\ Gates16 /\ Ruled /\ step = "scan" /\ step \in Opening
      /\ UNCHANGED <<node, gate, stop, ref, reverse, probing>>
  BY DEF Inv, Scan, Opening
<1>2. step' = "reference" /\ Ruled'
  BY <1>1, GoKeeps DEF Scan
<1>3. Admitted'
  BY <1>1, <1>2 DEF Admitted, Opening, Gated, Placing
<1>4. Probed' /\ Sided'
  BY <1>1, <1>2, EarlyKeeps DEF Opening
<1>5. Referred'
  <2>1. PICK s \in BOOLEAN, d \in DivstripRefs(0, stop), p \in Splits, near \in BOOLEAN :
          strip' = s /\ fwd' = Met(d, p, near)
    BY DEF Scan
  <2>2. stop \in 0..Stop /\ RevMax \in Nat /\ Stop \in Nat
    BY <1>1, Reaches DEF Referred
  <2>3. One(p.split, -RevMax, Stop)
    BY <2>1, <2>2, SplitsFit
  <2>4. One(d.div, 0, stop)
    BY <2>1, DivstripRefsFit
  <2>5. One(d.div, -RevMax, Stop) /\ d.div \subseteq 0..Stop
    BY <2>2, <2>4 DEF One
  <2>6. fwd'.div = d.div /\ fwd'.split = p.split
    BY <2>1 DEF Met
  <2>7. Fits(fwd') /\ fwd'.div \subseteq 0..Stop /\ strip' \in BOOLEAN
    BY <2>1, <2>3, <2>5, <2>6 DEF Fits
  <2> QED
    BY <1>1, <1>2, <2>7 DEF Referred, Fits
<1>6. Gates16'
  BY <1>1, <1>2, GateKeeps
<1> QED
  BY <1>2, <1>3, <1>4, <1>5, <1>6 DEF Inv

(* What is met in front of the node, or else behind it, becomes the        *)
(* reference.                                                              *)
LEMMA ReferenceStep == ASSUME WithinReach, Inv, Reference PROVE Inv'
<1>1. /\ Admitted /\ Referred /\ Probed /\ Gates16 /\ Ruled /\ step = "reference" /\ step \in Opening
      /\ UNCHANGED <<node, gate, stop, strip, probing>>
  BY DEF Inv, Reference, Opening
<1>2. step' = "window" /\ Ruled'
  BY <1>1, GoKeeps DEF Reference
<1>3. Admitted'
  BY <1>1, <1>2 DEF Admitted, Opening, Gated, Placing
<1>4. Probed' /\ Sided'
  BY <1>1, <1>2, EarlyKeeps DEF Opening
<1>5. RevMax \in Nat /\ Stop \in Nat /\ Fits(fwd) /\ fwd.div \subseteq 0..Stop
  BY <1>1, Reaches DEF Referred
<1>6. InReach(PickReference(fwd), FALSE)
  <2> DEFINE found == PickReference(fwd)
  <2>1. /\ found.s \in {fwd.div, fwd.split} /\ found.met = fwd
        /\ found.by = "divstrip_ref" => found.s = fwd.div
        /\ found.s = {} <=> found.by = "none"
    BY PickFits
  <2> HIDE DEF found
  <2>2. One(found.s, -RevMax, Stop)
    BY <1>5, <2>1 DEF Fits
  <2>3. found.by = "divstrip_ref" => found.s \subseteq 0..Stop /\ found.s = found.met.div
    BY <1>5, <2>1
  <2>4. InReach(found, FALSE)
    BY <2>1, <2>2, <2>3 DEF InReach
  <2> QED
    BY <2>4 DEF found
<1>7. ASSUME NEW d \in DivstripRefs(-RevMax, 0), NEW split, NEW s \in -RevMax..0, split.split \in {{}, {s}}
      PROVE  InReach(PickReference(Met(d, split, FALSE)), TRUE)
  <2> DEFINE m == Met(d, split, FALSE)
             found == PickReference(m)
  <2>1. m.div = d.div /\ m.split \in {{}, {s}}
    BY <1>7 DEF Met
  <2>2. One(d.div, -RevMax, 0)
    BY <1>7, DivstripRefsFit
  <2>3. One(m.div, -RevMax, 0) /\ One(m.split, -RevMax, 0)
    BY <2>1, <2>2 DEF One
  <2> HIDE DEF m
  <2>4. /\ found.s \in {m.div, m.split} /\ found.met = m
        /\ found.by = "divstrip_ref" => found.s = m.div
        /\ found.s = {} <=> found.by = "none"
    BY PickFits
  <2> HIDE DEF found
  <2>5. One(found.s, -RevMax, 0)
    BY <2>3, <2>4
  <2>6. One(found.s, -RevMax, Stop) /\ found.s \subseteq -RevMax..0
    BY <1>5, <2>5 DEF One
  <2>7. InReach(found, TRUE)
    BY <2>4, <2>6 DEF InReach
  <2> QED
    BY <2>7 DEF found, m
<1>8. Referred'
  <2>1. CASE reverse' = FALSE /\ ref' = PickReference(fwd)
    <3>1. InReach(ref', reverse')
      BY <1>6, <2>1
    <3> QED
      BY <1>1, <1>2, <2>1, <3>1 DEF Referred, InReach
  <2>2. CASE reverse' = TRUE /\ InReach(ref', TRUE)
    <3>1. InReach(ref', reverse')
      BY <2>2
    <3> QED
      BY <1>1, <1>2, <2>2, <3>1 DEF Referred, InReach
  <2>3. CASE WantsReverse
    <3>1. PICK d \in DivstripRefs(-RevMax, 0), p \in BOOLEAN, s \in -RevMax..0, b \in {"strict", "extended"} :
             LET split == [split |-> IF p THEN {s} ELSE {},
                           splitBy |-> IF p THEN b ELSE "none"]
                 found == PickReference(Met(d, split, FALSE))
             IN  \/ found.s = {} /\ reverse' = FALSE /\ ref' = PickReference(fwd)
                 \/ found.s # {} /\ reverse' = TRUE /\ ref' = found
      BY <2>3, Zenon DEF Reference
    <3> DEFINE split == [split |-> IF p THEN {s} ELSE {}, splitBy |-> IF p THEN b ELSE "none"]
    <3>2. \/ reverse' = FALSE /\ ref' = PickReference(fwd)
          \/ reverse' = TRUE /\ ref' = PickReference(Met(d, split, FALSE))
      BY <3>1, Zenon
    <3>3. split.split \in {{}, {s}}
      OBVIOUS
    <3> HIDE DEF split
    <3>4. InReach(PickReference(Met(d, split, FALSE)), TRUE)
      BY <1>7, <3>3
    <3> QED
      BY <2>1, <2>2, <3>2, <3>4
  <2>4. CASE ~WantsReverse
    BY <2>1, <2>4, Zenon DEF Reference
  <2> QED
    BY <2>3, <2>4
<1>9. Gates16'
  BY <1>1, <1>2, GateKeeps
<1> QED
  BY <1>2, <1>3, <1>4, <1>8, <1>9 DEF Inv

-----------------------------------------------------------------------------
(* The windows stay on the side of the reference.                          *)

LEMMA SeqWider == ASSUME NEW S, NEW T, S \subseteq T, NEW q \in Seq(S) PROVE q \in Seq(T)
OBVIOUS

LEMMA SideFits ==
    ASSUME WithinReach, NEW r \in -RevMax..Stop
    PROVE  /\ Side(r) \subseteq Positions /\ Side(r) \subseteq Int
           /\ r \in Side(r) /\ 0 \in Side(r)
           /\ Sign(r) \in {-1, 1} /\ Size(r) \in Nat
BY Reaches DEF Side, Positions, Sign, Size

LEMMA SideWalk ==
    ASSUME WithinReach, NEW r \in -RevMax..Stop, NEW a \in Side(r), NEW b \in Side(r)
    PROVE  Walk(a, b) \in Seq(Side(r))
<1>1. CASE r < 0
  <2>1. Side(r) = -Back..0 /\ -Back \in Int /\ 0 \in Int
    BY <1>1, Reaches DEF Side
  <2> QED
    BY <2>1, WalkFits
<1>2. CASE ~(r < 0)
  <2>1. Side(r) = 0..Ahead /\ Ahead \in Int /\ 0 \in Int
    BY <1>2, Reaches DEF Side
  <2> QED
    BY <2>1, WalkFits
<1> QED
  BY <1>1, <1>2

LEMMA WindowFits ==
    ASSUME WithinReach, NEW r \in -RevMax..Stop, NEW exact \in BOOLEAN, NEW away \in BOOLEAN,
           away => r <= 0
    PROVE  LET win == WindowOf(r, exact, away)
           IN  win.from \in Side(r) /\ win.to \in Side(r) /\ win.target \in Side(r)
<1> DEFINE far == r + Sign(r) * Window
           near == IF Size(r) <= Window THEN 0 ELSE r - Sign(r) * Window
<1>1. away => far \in Side(r)
  BY Reaches DEF Side, Sign
<1>2. near \in Side(r)
  BY Reaches DEF Side, Sign, Size
<1>3. r \in Side(r)
  BY SideFits
<1>4. \A t \in Side(r) :
        Between(r, t).from \in {r, t} /\ Between(r, t).to \in {r, t} /\ Between(r, t).target = t
  BY DEF Between
<1>5. WindowOf(r, exact, away) =
        IF exact THEN Between(r, r) ELSE IF away THEN Between(r, far) ELSE Between(r, near)
  BY DEF WindowOf
<1> HIDE DEF far, near
<1>6. CASE exact
  BY <1>3, <1>4, <1>5, <1>6
<1>7. CASE ~exact /\ away
  BY <1>1, <1>3, <1>4, <1>5, <1>7
<1>8. CASE ~exact /\ ~away
  BY <1>2, <1>3, <1>4, <1>5, <1>8
<1> QED
  BY <1>6, <1>7, <1>8

LEMMA MakeWindowStep == ASSUME WithinReach, Inv, MakeWindow PROVE Inv'
<1>1. /\ Admitted /\ Referred /\ Probed /\ Gates16 /\ Ruled /\ step = "window" /\ step \in Opening
      /\ UNCHANGED <<node, gate, scene, hits, first, passed, best, back>>
  BY DEF Inv, MakeWindow, Opening
<1>2. /\ ref' = ref /\ reverse' = reverse /\ strip' = strip /\ stop' = stop
      /\ node' = node /\ hits' = hits /\ first' = first /\ passed' = passed /\ best' = best /\ back' = back
  BY <1>1 DEF scene
<1>3. /\ hits = << >> /\ first = 0 /\ best = {} /\ passed \in BOOLEAN /\ back \in BOOLEAN
      /\ stop \in 0..Stop /\ strip \in BOOLEAN /\ reverse \in BOOLEAN /\ InReach(ref, reverse)
  BY <1>1 DEF Probed, Referred
<1>4. CASE ref.s = {}
  <2>1. step' = "done" /\ Ruled' /\ UNCHANGED <<node, probing>>
    BY <1>1, <1>2, <1>4, FailKeeps DEF MakeWindow, probing
  <2>2. Admitted'
    BY <1>1, <2>1 DEF Admitted, Opening, Gated, Placing
  <2>3. Probed' /\ Sided'
    BY <1>1, <2>1, EarlyKeeps
  <2>4. Referred' /\ Gates16'
    BY <1>1, <2>1, SceneKeeps, GateKeeps
  <2> QED
    BY <2>1, <2>2, <2>3, <2>4 DEF Inv
<1>5. CASE ref.s # {}
  <2>1. PICK r \in -RevMax..Stop : ref.s = {r}
    BY <1>3, <1>5 DEF InReach, One
  <2> DEFINE byZone == ref.by = "drivezone_split"
             exact == byZone /\ ref.met.splitBy = "extended" /\ Size(r) <= 1
             away == reverse /\ ~byZone
             win == WindowOf(r, exact, away)
             prefer == reverse /\ ref.met.split = {} /\ strip
             nearest == IF Size(r) = MinGuard THEN MinGuard + 1 ELSE MinGuard
             guard == IF Guarded(r) /\ nearest <= stop
                      THEN Walk(Sign(r) * nearest, Sign(r) * stop) ELSE << >>
             wide == IF prefer /\ Size(win.target) < RevMax
                     THEN Walk(win.target + Sign(r), Sign(r) * RevMax) ELSE << >>
  <2>2. /\ aim' = [target |-> win.target, guard |-> Guarded(r), prefer |-> prefer, exact |-> exact]
        /\ probes' = Walk(win.from, win.to) \o guard \o wide
        /\ Go("probe")
    BY <1>5, <2>1, Zenon DEF MakeWindow
  <2>3. exact \in BOOLEAN /\ away \in BOOLEAN /\ prefer \in BOOLEAN /\ Guarded(r) \in BOOLEAN
    BY Zenon, <1>3 DEF Guarded
  <2>4. reverse => r <= 0
    BY <1>3, <2>1, Reaches DEF InReach
  <2>5. win.from \in Side(r) /\ win.to \in Side(r) /\ win.target \in Side(r)
    BY <2>3, <2>4, WindowFits
  <2>6. guard \in Seq(Side(r))
    <3>1. ASSUME Guarded(r), nearest <= stop
          PROVE  Sign(r) * nearest \in Side(r) /\ Sign(r) * stop \in Side(r)
      <4>1. r >= 0
        BY <1>3, <2>1, <3>1, Reaches DEF Guarded, InReach
      <4>2. Sign(r) = 1 /\ Side(r) = 0..Ahead
        BY <4>1 DEF Sign, Side
      <4>3. nearest \in Nat /\ stop \in Nat /\ stop <= Ahead
        BY <1>3, Reaches
      <4> HIDE DEF nearest
      <4> QED
        BY <3>1, <4>2, <4>3, Reaches
    <3> HIDE DEF nearest
    <3> QED
      BY <3>1, SideWalk
  <2>7. wide \in Seq(Side(r))
    <3>1. ASSUME prefer, Size(win.target) < RevMax
          PROVE  win.target + Sign(r) \in Side(r) /\ Sign(r) * RevMax \in Side(r)
      <4>1. r <= 0
        BY <2>4, <3>1
      <4> DEFINE t == win.target
      <4>2. t \in Side(r) /\ Size(t) < RevMax
        BY <2>5, <3>1
      <4> HIDE DEF t, win
      <4>3. t + Sign(r) \in Side(r) /\ Sign(r) * RevMax \in Side(r)
        BY <4>1, <4>2, Reaches DEF Side, Sign, Size
      <4> QED
        BY <4>3 DEF t
    <3> HIDE DEF win, prefer
    <3> QED
      BY <3>1, SideWalk
  <2>8. Walk(win.from, win.to) \in Seq(Side(r))
    BY <2>5, SideWalk
  <2> HIDE DEF guard, wide, win, exact, away, prefer
  <2>9. probes' \in Seq(Side(r))
    BY <2>2, <2>6, <2>7, <2>8
  <2>10. step' = "probe" /\ Ruled'
    BY <1>1, <1>2, <2>2, GoKeeps
  <2>11. Admitted'
    BY <1>1, <1>2, <2>10 DEF Admitted, Opening, Gated, Placing
  <2>12. Referred' /\ Gates16'
    BY <1>1, <2>10, SceneKeeps, GateKeeps
  <2>13. /\ aim'.target \in Side(r) /\ aim'.guard \in BOOLEAN /\ aim'.prefer \in BOOLEAN
    <3>1. aim'.target = win.target /\ aim'.guard = Guarded(r) /\ aim'.prefer = prefer
      BY <2>2
    <3> QED
      BY <2>3, <2>5, <3>1, Zenon
  <2>14. Probed'
    <3>1. probes' \in Seq(Positions) /\ aim'.target \in Int
      BY <2>9, <2>13, SideFits, SeqWider
    <3>2. hits' = << >> /\ first' = 0 /\ best' = {} /\ passed' \in BOOLEAN /\ back' \in BOOLEAN
      BY <1>2, <1>3
    <3>3. /\ hits' \in Seq(ProbeHit) /\ first' \in 0..Len(hits')
          /\ \A i \in DOMAIN hits' : hits'[i].s \in Positions /\ FarEnough(hits[i].s)'
      BY <3>2
    <3>4. step' \notin Opening
      BY <2>10 DEF Opening
    <3> QED
      BY <2>13, <3>1, <3>2, <3>3, <3>4 DEF Probed
  <2>15. Sided'
    <3>1. ref'.s = {r} /\ hits' = << >>
      BY <1>2, <1>3, <2>1
    <3> QED
      BY <2>9, <2>10, <2>13, <3>1 DEF Sided
  <2> QED
    BY <2>10, <2>11, <2>12, <2>14, <2>15 DEF Inv
<1> QED
  BY <1>4, <1>5

-----------------------------------------------------------------------------
(* A probe that counts lies on the side of the reference, or the search    *)
(* has turned back, and beyond the predecessors.                           *)
LEMMA ProbeStep == ASSUME WithinReach, Inv, Probe PROVE Inv'
<1>1. /\ Admitted /\ Referred /\ Probed /\ Sided /\ Gates16 /\ Ruled /\ step \in {"probe", "return"}
      /\ UNCHANGED <<node, gate, step, scene, aim, first, best, back, breaks, verdict>> /\ probes # << >>
  BY DEF Inv, Probe
<1>2. /\ ref' = ref /\ reverse' = reverse /\ node' = node /\ first' = first /\ best' = best /\ back' = back
      /\ aim' = aim /\ step' = step /\ verdict' = verdict /\ gate' = gate
  BY <1>1 DEF scene
<1>3. /\ probes \in Seq(Positions) /\ hits \in Seq(ProbeHit) /\ first \in 0..Len(hits) /\ best = {}
      /\ \A i \in DOMAIN hits : hits[i].s \in Positions /\ FarEnough(hits[i].s)
  BY <1>1 DEF Probed
<1> DEFINE s == Head(probes)
<1>4. s \in Positions /\ probes' = Tail(probes) /\ probes' \in Seq(Positions)
  BY <1>1, <1>3 DEF Probe
<1>5. \/ hits' = hits
      \/ /\ FarEnough(s)
         /\ \E v \in Views : hits' = Append(hits, [s |-> s, raw |-> v.raw, center |-> v.center, clear |-> v.clear])
  BY Zenon DEF Probe
<1>6. /\ hits' \in Seq(ProbeHit) /\ Len(hits) <= Len(hits')
      /\ \A i \in DOMAIN hits : i \in DOMAIN hits' /\ hits'[i] = hits[i]
      /\ \A i \in DOMAIN hits' : i \in DOMAIN hits \/ hits'[i].s = s
      /\ \A i \in DOMAIN hits' : hits'[i].s \in Positions /\ FarEnough(hits'[i].s)
  <2>1. CASE hits' = hits
    BY <1>3, <2>1
  <2>2. CASE hits' # hits
    <3>1. FarEnough(s)
      BY <1>5, <2>2
    <3>2. PICK v \in Views : hits' = Append(hits, [s |-> s, raw |-> v.raw, center |-> v.center, clear |-> v.clear])
      BY <1>5, <2>2
    <3> DEFINE h == [s |-> s, raw |-> v.raw, center |-> v.center, clear |-> v.clear]
    <3>3. h \in ProbeHit /\ h.s = s
      <4>1. s \in Int
        BY <1>4, Reaches DEF Positions
      <4>2. v.raw \in 1..3 /\ v.center \in BOOLEAN /\ v.clear \in BOOLEAN
        BY DEF Views
      <4> HIDE DEF s
      <4> QED
        BY <4>1, <4>2 DEF ProbeHit
    <3> HIDE DEF h, s
    <3>4. hits' = Append(hits, h)
      BY <3>2 DEF h
    <3>5. /\ hits' \in Seq(ProbeHit) /\ Len(hits') = Len(hits) + 1 /\ hits'[Len(hits) + 1] = h
          /\ \A i \in 1..Len(hits) : hits'[i] = hits[i]
          /\ DOMAIN hits' = 1..(Len(hits) + 1) /\ DOMAIN hits = 1..Len(hits) /\ Len(hits) \in Nat
      BY <1>3, <3>3, <3>4
    <3>6. \A i \in DOMAIN hits' : i \in DOMAIN hits \/ i = Len(hits) + 1
      BY <3>5
    <3>7. \A i \in DOMAIN hits' : hits'[i].s \in Positions /\ FarEnough(hits'[i].s)
      BY <1>3, <1>4, <3>1, <3>3, <3>5, <3>6
    <3> QED
      BY <3>3, <3>5, <3>6, <3>7
  <2> QED
    BY <2>1, <2>2
<1> HIDE DEF s
<1>7. Probed'
  <2>1. first' \in 0..Len(hits')
    BY <1>2, <1>3, <1>6
  <2>2. \A i \in DOMAIN hits' : hits'[i].s \in Positions /\ FarEnough(hits[i].s)'
    BY <1>2, <1>6 DEF FarEnough
  <2>3. step' \notin Opening /\ (step' = "probe" => first' = 0)
    BY <1>1, <1>2 DEF Probed, Opening
  <2>4. aim'.target \in Int /\ aim'.guard \in BOOLEAN /\ aim'.prefer \in BOOLEAN
    BY <1>1, <1>2, Zenon DEF Probed
  <2>5. passed' \in BOOLEAN /\ back' \in BOOLEAN
    <3>1. passed' = passed \/ passed' = TRUE
      BY Zenon DEF Probe
    <3> QED
      BY <1>1, <1>2, <3>1 DEF Probed
  <2> QED
    BY <1>2, <1>3, <1>4, <1>6, <2>1, <2>2, <2>3, <2>4, <2>5 DEF Probed
<1>8. Sided'
  <2> SUFFICES ASSUME NEW r \in ref.s
               PROVE  /\ step = "probe" => /\ probes' \in Seq(Side(r)) /\ aim.target \in Side(r)
                                         /\ \A i \in DOMAIN hits' : hits'[i].s \in Side(r)
                      /\ step = "return" =>
                            /\ \A i \in 1..first : hits'[i].s \in Side(r)
                            /\ Turned'
    BY <1>1, <1>2 DEF Sided
  <2>1. CASE step = "probe"
    <3>1. /\ probes \in Seq(Side(r)) /\ aim.target \in Side(r)
          /\ \A i \in DOMAIN hits : hits[i].s \in Side(r)
      BY <1>1, <2>1 DEF Sided
    <3>2. s \in Side(r) /\ probes' \in Seq(Side(r))
      BY <1>1, <1>4, <3>1 DEF s
    <3>3. \A i \in DOMAIN hits' : hits'[i].s \in Side(r)
      BY <1>6, <3>1, <3>2
    <3> QED
      BY <2>1, <3>1, <3>2, <3>3
  <2>2. CASE step = "return"
    <3>1. Turned /\ \A i \in 1..first : hits[i].s \in Side(r)
      BY <1>1, <2>2 DEF Sided
    <3>2. \A i \in 1..first : i \in DOMAIN hits /\ hits'[i] = hits[i]
      BY <1>3, <1>6
    <3>3. Turned'
      BY <1>2, <3>1, <3>2 DEF Turned
    <3> QED
      BY <2>2, <3>1, <3>2, <3>3
  <2> QED
    BY <1>1, <2>1, <2>2
<1>9. Admitted' /\ Ruled'
  BY <1>1, <1>2 DEF Admitted, Ruled
<1>10. Referred' /\ Gates16'
  BY <1>1, <1>2, SceneKeeps, GateKeeps
<1> QED
  BY <1>7, <1>8, <1>9, <1>10 DEF Inv

LEMMA WayBackFits ==
    ASSUME WithinReach, NEW r \in -RevMax..Stop, aim.target \in Side(r)
    PROVE  WayBack(r) \in Seq(Positions)
<1> DEFINE t == aim.target
           toNode == IF Sign(r) * t > 0 THEN Walk(t - Sign(r), 0) ELSE << >>
           beyond == IF Past > 0 THEN Walk(-Sign(r), -Sign(r) * Past) ELSE << >>
<1>1. -Back \in Int /\ Ahead \in Int /\ 0 \in -Back..Ahead /\ t \in Side(r)
  BY Reaches
<1>2. WayBack(r) = toNode \o beyond
  BY DEF WayBack
<1> HIDE DEF t
<1>3. toNode \in Seq(Positions)
  <2>1. ASSUME Sign(r) * t > 0 PROVE t - Sign(r) \in -Back..Ahead
    BY <1>1, <2>1, Reaches DEF Side, Sign
  <2>2. ASSUME Sign(r) * t > 0 PROVE Walk(t - Sign(r), 0) \in Seq(-Back..Ahead)
    BY <1>1, <2>1, <2>2, WalkFits
  <2>3. CASE Sign(r) * t > 0
    BY <2>2, <2>3 DEF Positions
  <2>4. CASE ~(Sign(r) * t > 0)
    BY <2>4
  <2> QED
    BY <2>3, <2>4
<1>4. beyond \in Seq(Positions)
  <2>1. ASSUME Past > 0 PROVE -Sign(r) \in -Back..Ahead /\ -Sign(r) * Past \in -Back..Ahead
    BY <2>1, Reaches DEF Sign
  <2>2. ASSUME Past > 0 PROVE Walk(-Sign(r), -Sign(r) * Past) \in Seq(-Back..Ahead)
    BY <1>1, <2>1, <2>2, WalkFits
  <2>3. CASE Past > 0
    BY <2>2, <2>3 DEF Positions
  <2>4. CASE ~(Past > 0)
    BY <2>4
  <2> QED
    BY <2>3, <2>4
<1> HIDE DEF toNode, beyond
<1> QED
  BY <1>2, <1>3, <1>4

(* The search turns back only where the window showed no single piece.     *)
LEMMA TurnBackStep == ASSUME WithinReach, Inv, TurnBack PROVE Inv'
<1>1. /\ Admitted /\ Referred /\ Probed /\ Sided /\ Gates16 /\ Ruled /\ step = "probe" /\ probes = << >>
      /\ UNCHANGED <<node, gate, scene, aim, hits, passed, best, back>> /\ first' = Len(hits)
  BY DEF Inv, TurnBack
<1>2. /\ ref' = ref /\ reverse' = reverse /\ node' = node /\ hits' = hits /\ best' = best /\ back' = back
      /\ aim' = aim /\ passed' = passed /\ gate' = gate
  BY <1>1 DEF scene
<1>3. /\ hits \in Seq(ProbeHit) /\ best = {} /\ InReach(ref, reverse)
      /\ \A i \in DOMAIN hits : hits[i].s \in Positions /\ FarEnough(hits[i].s)
  BY <1>1 DEF Probed, Referred
<1>4. \/ step' = "done" /\ Ruled' /\ probes' = << >>
      \/ step' = "return" /\ Ruled' /\ probes' = << >>
      \/ /\ step' = "return" /\ Ruled' /\ probes' = WayBack(CHOOSE r \in ref.s : TRUE)
         /\ ref.by = "drivezone_split" /\ ~reverse /\ ~Single
  <2>1. CASE aim.guard /\ hits = << >>
    BY <1>1, <1>2, <2>1, FailKeeps DEF TurnBack
  <2>2. CASE ~(aim.guard /\ hits = << >>)
    <3>1. step' = "return" /\ Ruled'
      BY <1>1, <1>2, <2>2, GoKeeps DEF TurnBack
    <3> QED
      BY <2>2, <3>1, Zenon DEF TurnBack
  <2> QED
    BY <2>1, <2>2
<1>5. ASSUME ref.by = "drivezone_split"
      PROVE  WayBack(CHOOSE r \in ref.s : TRUE) \in Seq(Positions)
  <2>1. PICK r \in -RevMax..Stop : ref.s = {r}
    BY <1>3, <1>5 DEF InReach, One
  <2>2. (CHOOSE x \in ref.s : TRUE) = r
    BY <2>1
  <2>3. aim.target \in Side(r)
    BY <1>1, <2>1 DEF Sided
  <2>4. WayBack(r) \in Seq(Positions)
    BY <2>3, WayBackFits
  <2> QED
    BY <2>2, <2>4
<1>6. Probed'
  <2>1. probes' \in Seq(Positions)
    <3>1. CASE probes' = << >>
      BY <3>1
    <3>2. CASE ref.by = "drivezone_split" /\ probes' = WayBack(CHOOSE r \in ref.s : TRUE)
      BY <1>5, <3>2
    <3> QED
      BY <1>4, <3>1, <3>2, Zenon
  <2>2. hits' \in Seq(ProbeHit) /\ first' \in 0..Len(hits')
    BY <1>1, <1>2, <1>3
  <2>3. \A i \in DOMAIN hits' : hits'[i].s \in Positions /\ FarEnough(hits[i].s)'
    BY <1>2, <1>3 DEF FarEnough
  <2>4. step' \notin Opening \cup {"probe"}
    BY <1>4 DEF Opening
  <2>5. /\ aim'.target \in Int /\ aim'.guard \in BOOLEAN /\ aim'.prefer \in BOOLEAN
        /\ passed' \in BOOLEAN /\ back' \in BOOLEAN
    BY <1>1, <1>2, Zenon DEF Probed
  <2> QED
    BY <1>2, <1>3, <2>1, <2>2, <2>3, <2>4, <2>5 DEF Probed
<1>7. Sided'
  <2> SUFFICES ASSUME NEW r \in ref.s
               PROVE  /\ \A i \in 1..first' : hits'[i].s \in Side(r)
                      /\ probes' # << >> \/ Len(hits') > first' => Turned'
    BY <1>2, <1>4 DEF Sided
  <2>1. \A i \in 1..first' : i \in DOMAIN hits /\ hits'[i] = hits[i]
    BY <1>1, <1>2, <1>3
  <2>2. \A i \in DOMAIN hits : hits[i].s \in Side(r)
    BY <1>1 DEF Sided
  <2>3. Len(hits') = first' /\ Len(hits') \in Nat
    BY <1>1, <1>2, <1>3
  <2>4. ASSUME probes' # << >> PROVE Turned'
    <3>1. ref.by = "drivezone_split" /\ ~reverse /\ ~Single
      BY <1>4, <2>4
    <3>2. \A i \in DOMAIN hits : hits[i].raw > 1
      <4>1. \A i \in DOMAIN hits : hits[i] \in ProbeHit /\ hits[i].raw # 1
        BY <1>3, <3>1 DEF Single
      <4>2. \A h \in ProbeHit : h.raw \in 1..3
        BY DEF ProbeHit
      <4> QED
        BY <4>1, <4>2
    <3> QED
      BY <1>2, <2>1, <3>1, <3>2 DEF Turned
  <2> QED
    BY <2>1, <2>2, <2>3, <2>4
<1>8. Admitted'
  BY <1>1, <1>2, <1>4 DEF Admitted, Gated, Placing
<1>9. Referred' /\ Gates16'
  BY <1>1, <1>4, SceneKeeps, GateKeeps
<1> QED
  BY <1>4, <1>6, <1>7, <1>8, <1>9 DEF Inv

-----------------------------------------------------------------------------
LEMMA LeastHas ==
    ASSUME NEW S, S # {}, NEW f, \A x \in S : f[x] \in Nat
    PROVE  Least(S, f) # {} /\ Least(S, f) \subseteq S
<1> DEFINE V == {f[x] : x \in S}
<1>1. V \subseteq Nat /\ V # {}
  OBVIOUS
<1>2. PICK p \in V : \A q \in V : p <= q
  <2> HIDE DEF V
  <2> QED
    BY <1>1, LeastOfSome
<1>3. PICK x \in S : p = f[x]
  BY <1>2
<1>4. \A y \in S : f[x] <= f[y]
  BY <1>2, <1>3
<1> QED
  BY <1>3, <1>4 DEF Least

LEMMA BestHitFits ==
    ASSUME NEW H, H # {}, H \subseteq Nat, aim.target \in Int,
           \A i \in H : hits[i].raw \in Nat /\ hits[i].s \in Int
    PROVE  BestHit(H) \in H
<1> DEFINE a == IF aim.prefer THEN Least(H, [i \in H |-> Rank(hits[i].clear)]) ELSE H
           b == Least(a, [i \in H |-> Rank(hits[i].center)])
           c == Least(b, [i \in H |-> hits[i].raw])
           d == Least(c, [i \in H |-> Size(hits[i].s - aim.target)])
<1>1. BestHit(H) = Min(d)
  BY DEF BestHit
<1>2. /\ \A i \in H : [k \in H |-> Rank(hits[k].clear)][i] \in Nat
      /\ \A i \in H : [k \in H |-> Rank(hits[k].center)][i] \in Nat
      /\ \A i \in H : [k \in H |-> hits[k].raw][i] \in Nat
      /\ \A i \in H : [k \in H |-> Size(hits[k].s - aim.target)][i] \in Nat
  BY DEF Rank, Size
<1>3. a # {} /\ a \subseteq H
  BY <1>2, LeastHas
<1> HIDE DEF a
<1>4. b # {} /\ b \subseteq a
  <2>1. \A i \in a : [k \in H |-> Rank(hits[k].center)][i] \in Nat
    BY <1>2, <1>3
  <2> QED
    BY <1>3, <2>1, LeastHas
<1> HIDE DEF b
<1>5. c # {} /\ c \subseteq b
  <2>1. \A i \in b : [k \in H |-> hits[k].raw][i] \in Nat
    BY <1>2, <1>3, <1>4
  <2> QED
    BY <1>4, <2>1, LeastHas
<1> HIDE DEF c
<1>6. d # {} /\ d \subseteq c
  <2>1. \A i \in c : [k \in H |-> Size(hits[k].s - aim.target)][i] \in Nat
    BY <1>2, <1>3, <1>4, <1>5
  <2> QED
    BY <1>5, <2>1, LeastHas
<1> HIDE DEF d
<1>7. d \subseteq H
  BY <1>3, <1>4, <1>5, <1>6
<1>8. Min(d) \in d
  <2>1. \A x \in d : x \in Int /\ 0 <= x
    BY <1>7
  <2>2. 0 \in Int
    OBVIOUS
  <2> QED
    BY <1>6, <2>1, <2>2, MinIsIn
<1> QED
  BY <1>1, <1>7, <1>8

LEMMA PickStep == ASSUME WithinReach, Inv, Pick PROVE Inv'
<1>1. /\ Admitted /\ Referred /\ Probed /\ Sided /\ Gates16 /\ Ruled /\ step = "return" /\ probes = << >>
      /\ UNCHANGED <<node, gate, scene, aim, probes, hits, first, passed>>
  BY DEF Inv, Pick
<1>2. /\ ref' = ref /\ reverse' = reverse /\ node' = node /\ hits' = hits /\ first' = first
      /\ aim' = aim /\ passed' = passed /\ probes' = probes
  BY <1>1 DEF scene
<1>3. /\ hits \in Seq(ProbeHit) /\ best = {} /\ aim.target \in Int /\ first \in 0..Len(hits)
      /\ \A i \in DOMAIN hits : hits[i].s \in Positions /\ FarEnough(hits[i].s)
  BY <1>1 DEF Probed
<1>4. /\ step' \in {"place", "done"} /\ Ruled'
      /\ best' = {} \/ \E i \in DOMAIN hits : best' = {i}
      /\ step' = "place" => best' # {}
      /\ back' \in BOOLEAN
  <2> DEFINE backHits == {i \in DOMAIN hits : i > first /\ hits[i].raw = 1}
             centered == {i \in backHits : hits[i].center}
             taken == IF centered # {} THEN Min(centered)
                       ELSE IF backHits # {} THEN Min(backHits)
                       ELSE BestHit(DOMAIN hits)
  <2>1. CASE hits = << >>
    <3>1. Fail(IF passed THEN "sequential_order" ELSE "no_piece_in_window") /\ UNCHANGED <<best, back>>
      BY <2>1, Zenon DEF Pick
    <3> QED
      BY <1>1, <1>3, <3>1, FailKeeps DEF Probed
  <2>2. CASE hits # << >>
    <3>1. best' = {taken} /\ back' = (backHits # {}) /\ Go("place")
      BY <2>2, Zenon DEF Pick
    <3>2. step' = "place" /\ Ruled'
      BY <1>1, <3>1, GoKeeps
    <3>3. DOMAIN hits \subseteq Nat /\ DOMAIN hits # {}
      BY <1>3, <2>2
    <3>4. backHits \subseteq DOMAIN hits /\ centered \subseteq backHits
      OBVIOUS
    <3>5. \A i \in DOMAIN hits : hits[i].raw \in Nat /\ hits[i].s \in Int
      <4>1. \A h \in ProbeHit : h.raw \in Nat /\ h.s \in Int
        BY DEF ProbeHit
      <4> QED
        BY <1>3, <4>1
    <3>6. back' \in BOOLEAN
      BY <3>1
    <3> HIDE DEF backHits, centered
    <3>7. BestHit(DOMAIN hits) \in DOMAIN hits
      BY <1>3, <3>3, <3>5, BestHitFits
    <3>8. \A S \in SUBSET DOMAIN hits : S # {} => Min(S) \in S
      <4> SUFFICES ASSUME NEW S \in SUBSET DOMAIN hits, S # {} PROVE Min(S) \in S
        OBVIOUS
      <4>1. (\A x \in S : x \in Int /\ 0 <= x) /\ 0 \in Int
        BY <3>3
      <4> QED
        BY <4>1, MinIsIn
    <3>9. taken \in DOMAIN hits
      BY <3>4, <3>7, <3>8
    <3> HIDE DEF taken
    <3> QED
      BY <3>1, <3>2, <3>6, <3>9
  <2> QED
    BY <2>1, <2>2
<1>5. Probed'
  <2>1. \A i \in DOMAIN hits' : hits'[i].s \in Positions /\ FarEnough(hits[i].s)'
    BY <1>2, <1>3 DEF FarEnough
  <2>2. step' \notin Opening \cup {"probe", "return"}
    BY <1>4 DEF Opening
  <2>3. /\ aim'.target \in Int /\ aim'.guard \in BOOLEAN /\ aim'.prefer \in BOOLEAN
        /\ passed' \in BOOLEAN
    BY <1>1, <1>2, Zenon DEF Probed
  <2>4. probes' = << >> /\ probes' \in Seq(Positions) /\ first' \in 0..Len(hits') /\ hits' \in Seq(ProbeHit)
    BY <1>1, <1>2, <1>3
  <2>5. best' = {} \/ \E i \in DOMAIN hits' : best' = {i}
    BY <1>2, <1>4
  <2> QED
    BY <1>4, <2>1, <2>2, <2>3, <2>4, <2>5 DEF Probed
<1>6. Sided'
  <2> SUFFICES ASSUME NEW r \in ref.s
               PROVE  /\ \A i \in 1..first' : hits'[i].s \in Side(r)
                      /\ probes' # << >> \/ Len(hits') > first' => Turned'
    BY <1>2, <1>4 DEF Sided
  <2>1. /\ \A i \in 1..first : hits[i].s \in Side(r)
        /\ probes # << >> \/ Len(hits) > first => Turned
    BY <1>1 DEF Sided
  <2>2. Turned => Turned'
    BY <1>2 DEF Turned
  <2> QED
    BY <1>2, <2>1, <2>2
<1>7. Admitted'
  BY <1>1, <1>2, <1>4 DEF Admitted, Gated, Placing
<1>8. Referred' /\ Gates16'
  <2>1. step' \notin {"reference", "k16_search", "k16_refine"}
    BY <1>4
  <2> QED
    BY <1>1, <2>1, SceneKeeps, GateKeeps
<1> QED
  BY <1>4, <1>5, <1>6, <1>7, <1>8 DEF Inv

(* A line that is placed lies where a probe counted, so beyond the         *)
(* predecessors of its node.                                               *)
LEMMA PlaceStep == ASSUME WithinReach, Inv, Place PROVE Inv'
<1>1. /\ Admitted /\ Referred /\ Probed /\ Sided /\ Gates16 /\ Ruled /\ step = "place"
      /\ UNCHANGED <<node, gate, scene, probing>>
  BY DEF Inv, Place
<1>2. /\ ref' = ref /\ reverse' = reverse /\ node' = node /\ hits' = hits /\ first' = first
      /\ aim' = aim /\ passed' = passed /\ probes' = probes /\ best' = best /\ back' = back
  BY <1>1 DEF scene, probing
<1>3. /\ hits \in Seq(ProbeHit)
      /\ best = {} \/ \E i \in DOMAIN hits : best = {i}
      /\ \A i \in DOMAIN hits : hits[i].s \in Positions /\ FarEnough(hits[i].s)
  BY <1>1 DEF Probed
<1>4. step' = "done" /\ Ruled'
  <2>1. PICK i \in best, nearby \in BOOLEAN :
          LET h == hits[i]
              split == ref.met.split # {} \/ (aim.guard /\ h.raw >= 2)
          IN  \/ Fail("span_empty")
              \/ /\ LET bad == (IF reverse /\ ~split /\ nearby
                                THEN {"divstrip_not_left"} ELSE {})
                               \cup (IF Unstable(h, nearby) THEN {"gap_unstable"} ELSE {})
                    IN  /\ breaks' = breaks \cup bad
                        /\ verdict' = {IF bad # {} THEN Failed
                                       ELSE Placed(AbsS(node.kind, node.offset, h.s))}
                 /\ step' = "done"
    BY Zenon DEF Place
  <2>2. CASE Fail("span_empty")
    BY <1>1, <1>2, <2>2, FailKeeps
  <2>3. CASE step' = "done" /\ verdict' \subseteq {Failed, Placed(AbsS(node.kind, node.offset, hits[i].s))}
                         /\ \E v : verdict' = {v}
    <3>1. i \in DOMAIN hits /\ hits[i].s \in Positions /\ FarEnough(hits[i].s)
      BY <1>3
    <3>2. node.known /\ node.kind \in {{"merge"}, {"diverge"}}
      BY <1>1 DEF Admitted, Placing
    <3>3. Exceeds(AbsS(node.kind, node.offset, hits[i].s), node.required)
      BY <3>1 DEF FarEnough
    <3>4. {Failed, Placed(AbsS(node.kind, node.offset, hits[i].s))}
            \subseteq Verdicts(IF node.known THEN node.kind ELSE {}, node.offset, node.required)
      BY <3>1, <3>2, <3>3 DEF Verdicts
    <3>5. verdict' # {}
      BY <2>3
    <3> QED
      BY <1>2, <2>3, <3>4, <3>5 DEF Ruled
  <2> QED
    BY <2>1, <2>2, <2>3, Zenon
<1>5. Probed'
  <2>1. \A i \in DOMAIN hits' : hits'[i].s \in Positions /\ FarEnough(hits[i].s)'
    BY <1>2, <1>3 DEF FarEnough
  <2>2. step' \notin Opening \cup {"probe", "return"}
    BY <1>4 DEF Opening
  <2>3. /\ aim'.target \in Int /\ aim'.guard \in BOOLEAN /\ aim'.prefer \in BOOLEAN
        /\ passed' \in BOOLEAN /\ back' \in BOOLEAN
    BY <1>1, <1>2, Zenon DEF Probed
  <2>4. /\ probes' \in Seq(Positions) /\ first' \in 0..Len(hits') /\ hits' \in Seq(ProbeHit)
        /\ best' = {} \/ \E i \in DOMAIN hits' : best' = {i}
    BY <1>1, <1>2 DEF Probed
  <2> QED
    BY <2>1, <2>2, <2>3, <2>4 DEF Probed
<1>6. Sided'
  <2> SUFFICES ASSUME NEW r \in ref.s
               PROVE  /\ \A i \in 1..first' : hits'[i].s \in Side(r)
                      /\ probes' # << >> \/ Len(hits') > first' => Turned'
    BY <1>2, <1>4 DEF Sided
  <2>1. /\ \A i \in 1..first : hits[i].s \in Side(r)
        /\ probes # << >> \/ Len(hits) > first => Turned
    BY <1>1 DEF Sided
  <2>2. Turned => Turned'
    BY <1>2 DEF Turned
  <2> QED
    BY <1>2, <2>1, <2>2
<1>7. Admitted'
  BY <1>1, <1>2, <1>4 DEF Admitted, Gated, Placing
<1>8. Referred' /\ Gates16'
  BY <1>1, <1>4, SceneKeeps, GateKeeps
<1> QED
  BY <1>4, <1>5, <1>6, <1>7, <1>8 DEF Inv

-----------------------------------------------------------------------------
LEMMA InvNext == WithinReach /\ Inv /\ [EvaluationNext]_nodeVars => Inv'
<1> SUFFICES ASSUME WithinReach, Inv, [EvaluationNext]_nodeVars PROVE Inv'
  OBVIOUS
<1>1. CASE UNCHANGED nodeVars
  <2>1. /\ node' = node /\ step' = step /\ gate' = gate /\ verdict' = verdict /\ stop' = stop
        /\ strip' = strip /\ fwd' = fwd /\ ref' = ref /\ reverse' = reverse
        /\ aim' = aim /\ probes' = probes /\ hits' = hits /\ first' = first /\ passed' = passed
        /\ best' = best /\ back' = back
    BY <1>1 DEF nodeVars, scene, probing
  <2>2. Admitted' = Admitted
    BY <2>1 DEF Admitted
  <2>3. Referred' = Referred
    BY <2>1 DEF Referred
  <2>4. Probed' = Probed
    BY <2>1 DEF Probed, FarEnough
  <2>5. Sided' = Sided
    BY <2>1 DEF Sided, Turned
  <2>6. Gates16' = Gates16 /\ Ruled' = Ruled
    BY <2>1 DEF Gates16, Ruled
  <2> QED
    BY <2>2, <2>3, <2>4, <2>5, <2>6 DEF Inv
<1> QED
  BY <1>1, CheckKindStep, K16RoadStep, K16SearchStep, K16RefineStep, BranchesStep, StopBoundaryStep,
     ScanStep, ReferenceStep, MakeWindowStep, ProbeStep, TurnBackStep, PickStep, PlaceStep DEF EvaluationNext

LEMMA InvTypes == WithinReach /\ Inv => EvaluationTypes
<1> SUFFICES ASSUME WithinReach, Inv PROVE EvaluationTypes
  OBVIOUS
<1>1. Admitted /\ Referred /\ Probed /\ Gates16 /\ Ruled
  BY DEF Inv
<1>2. \A S : S = {} \/ (\E x : S = {x}) => Cardinality(S) <= 1
  <2>1. Cardinality({}) = 0 /\ \A x : Cardinality({x}) = 1
    BY FS_EmptySet, FS_Singleton
  <2>2. 0 <= 1 /\ 1 <= 1
    OBVIOUS
  <2> QED
    BY <2>1, <2>2, Zenon
<1>3. ref.s \subseteq -RevMax..Stop /\ Cardinality(ref.s) <= 1 /\ (ref.s = {}) = (ref.by = "none")
  BY <1>1, <1>2 DEF Referred, InReach, One
<1>4. best \subseteq DOMAIN hits /\ Cardinality(best) <= 1
  BY <1>1, <1>2 DEF Probed
<1>5. Cardinality(verdict) <= 1 /\ (verdict = {}) = (step # "done")
  BY <1>1, <1>2 DEF Ruled
<1>6. (\A i \in DOMAIN probes : probes[i] \in Int) /\ (\A i \in DOMAIN hits : hits[i] \in ProbeHit)
  <2>1. probes \in Seq(Positions) /\ hits \in Seq(ProbeHit) /\ Positions \subseteq Int
    BY <1>1, Reaches DEF Probed, Positions
  <2>2. \A i \in DOMAIN probes : probes[i] \in Positions
    BY <2>1
  <2>3. \A i \in DOMAIN hits : hits[i] \in ProbeHit
    BY <2>1
  <2> QED
    BY <2>1, <2>2, <2>3
<1>7. /\ aim.target \in Int /\ aim.guard \in BOOLEAN /\ aim.prefer \in BOOLEAN
      /\ first \in 0..Len(hits) /\ passed \in BOOLEAN /\ back \in BOOLEAN
  BY <1>1, Zenon DEF Probed
<1>8. gate.sign \in -1..1 /\ gate.first \in -K16Max..K16Max /\ gate.gain \in Nat
  BY <1>1 DEF Gates16
<1>9. node \in Nodes /\ stop \in 0..Stop /\ strip \in BOOLEAN /\ reverse \in BOOLEAN
  BY <1>1 DEF Admitted, Referred
<1>10. step \in {"kind", "k16", "k16_search", "k16_refine", "branches", "stop", "scan", "reference", "window",
               "probe", "return", "place", "done"}
  BY <1>1 DEF Admitted, Opening, Placing
<1> QED
  BY <1>3, <1>4, <1>5, <1>6, <1>7, <1>8, <1>9, <1>10 DEF EvaluationTypes

(* A hit from the window lies on the side of the reference; any other was  *)
(* found by turning back.                                                  *)
LEMMA InvNeverPast == WithinReach /\ Inv => NeverPastNode
<1> SUFFICES ASSUME WithinReach, Inv, HasLine, NEW r \in ref.s, Chosen.s * Sign(r) < 0
             PROVE  Turned
  BY DEF NeverPastNode, Turned
<1>1. Referred /\ Probed /\ Sided /\ step = "done"
  BY DEF Inv, HasLine
<1>2. r \in -RevMax..Stop
  BY <1>1 DEF Referred, InReach, One
<1>3. PICK i \in DOMAIN hits : best = {i}
  BY <1>1 DEF Probed, HasLine
<1>4. Chosen = hits[i]
  BY <1>3 DEF Chosen
<1>5. hits[i].s \notin Side(r)
  <2>1. \A x \in Side(r) : ~(x * Sign(r) < 0)
    BY <1>2, Reaches DEF Side, Sign
  <2> QED
    BY <1>4, <2>1
<1>6. hits \in Seq(ProbeHit) /\ first \in 0..Len(hits)
  BY <1>1 DEF Probed
<1>7. i > first
  <2>1. \A j \in 1..first : hits[j].s \in Side(r)
    BY <1>1 DEF Sided
  <2> QED
    BY <1>5, <1>6, <2>1
<1>8. Len(hits) > first
  BY <1>6, <1>7
<1> QED
  BY <1>1, <1>8 DEF Sided

(* Whatever the scans meet, however far the windows and the searches reach *)
(* and however the probes come out, _evaluate_node gives the run a verdict *)
(* its contract allows: no line for a node without exactly one usable      *)
(* kind, none that is not beyond the predecessors, and none across the     *)
(* node but for a split in whose window nothing was one piece.             *)
THEOREM EvaluationKeepsContract == EvaluationSpec => []VerdictIsSound
<1>1. EvaluationInit => Inv
  BY InvInit, EvaluationAssumption
<1>2. Inv /\ [EvaluationNext]_nodeVars => Inv'
  BY InvNext, EvaluationAssumption
<1>3. Inv => VerdictIsSound
  BY InvTypes, InvNeverPast, EvaluationAssumption DEF VerdictIsSound, VerdictIsContract, Inv, Ruled
<1> QED
  BY <1>1, <1>2, <1>3, PTL DEF EvaluationSpec
=============================================================================
