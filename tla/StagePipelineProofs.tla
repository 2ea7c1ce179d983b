------------------------ MODULE StagePipelineProofs ------------------------
(***************************************************************************)
(* Theorems about StagePipeline, for every number of stages, every reading *)
(* relation that only looks back, every function the stages may compute    *)
(* and every number of launches.                                           *)
(***************************************************************************)
EXTENDS StagePipeline, WellFoundedInduction, TLAPS

(* What the type invariant needs to be inductive: a process never goes     *)
(* beyond the stage it stops after, and one that writes has loaded all its *)
(* stage reads and is at a file of its stage.                              *)
InRange(p) == stage[p] <= last[p]
Writing(p) ==
    pc[p] \in {"open", "fill"} =>
        Missing(p) = {} /\ target[p] \in stage[p]..LastWrite(stage[p])
Shape == TypeOK /\ \A p \in Procs : InRange(p) /\ Writing(p)

LEMMA ConstantFacts ==
    /\ NStages \in Nat \ {0}
    /\ \A s \in Stages : Reads(s) \subseteq Stages
    /\ \A s \in Stages : s \in Files /\ LastWrite(s) \in Files
                         /\ s <= LastWrite(s)
    /\ Absent \notin Value /\ Torn \notin Value /\ Absent # Torn
BY StagesAssumption, ReadsAssumption, FileAssumption
   DEF Stages, Files, LastWrite, GateFile

(* What a process that has loaded everything computes is a value.          *)
LEMMA ResultIsValue ==
    ASSUME TypeOK, NEW p \in Procs, Missing(p) = {}
    PROVE  Result(p) \in Value
<1>1. stage[p] \in Stages /\ job[p].cfg \in Configs
  BY DEF TypeOK
<1>2. \A r \in Reads(stage[p]) : seen[p][r] \in Value
  BY <1>1, ConstantFacts DEF TypeOK, Missing
<1>3. [r \in Reads(stage[p]) |-> seen[p][r]] \in [Reads(stage[p]) -> Value]
  BY <1>2
<1> QED
  BY <1>1, <1>3, BuildAssumption DEF Result

LEMMA ShapeInit == Init => Shape
<1> SUFFICES ASSUME Init PROVE Shape
  OBVIOUS
<1>1. TypeOK
  <2>1. forced \in BOOLEAN
    BY DEF Init
  <2>2. job \in [Procs -> [mode : {"full", "stage", "resume"},
                           force : BOOLEAN, cfg : Configs]]
    BY DEF Init
  <2> QED
    BY <2>1, <2>2, ConstantFacts DEF Init, TypeOK, Stages, Files, Ended, Nothing
<1> QED
  BY <1>1, ConstantFacts DEF Init, Shape, InRange, Writing, Stages

LEMMA ShapeNext == Shape /\ [Next]_vars => Shape'
<1> SUFFICES ASSUME Shape, [Next]_vars PROVE Shape'
  OBVIOUS
<1> USE DEF Shape, InRange, Writing
<1>1. CASE UNCHANGED vars
  BY <1>1 DEF vars, TypeOK, Missing, LastWrite
<1>2. ASSUME NEW p \in Procs, Launch(p) PROVE Shape'
  BY <1>2, ConstantFacts, LaunchAssumption
     DEF Launch, TypeOK, disk, EntryPc, Working, Nothing, Missing, Stages
<1>3. ASSUME NEW p \in Procs, Advance(p), file' \in [Files -> Value \cup {Absent, Torn}],
             state' \in [Stages -> {"absent", "torn", "failed", "ok"}]
      PROVE Shape'
  BY <1>3, ConstantFacts
     DEF Advance, TypeOK, EntryPc, Working, Ended, Nothing, Missing, Stages
<1>4. ASSUME NEW p \in Procs, Probe(p) PROVE Shape'
  <2>1. CASE state[stage[p]] = "ok" /\ Advance(p)
    BY <1>3, <1>4, <2>1 DEF Probe, TypeOK, disk
  <2>2. CASE Goto(p, "check") /\ UNCHANGED <<seen, target>>
    BY <1>4, <2>2 DEF Probe, Goto, TypeOK, disk, Working, Missing
  <2> QED
    BY <1>4, <2>1, <2>2 DEF Probe
<1>5. ASSUME NEW p \in Procs, Check(p) PROVE Shape'
  <2>1. CASE Advance(p)
    BY <1>3, <1>5, <2>1 DEF Check, TypeOK, disk
  <2>2. CASE /\ Goto(p, "state_error") \/ Goto(p, "require")
             /\ UNCHANGED <<seen, target>>
    BY <1>5, <2>2 DEF Check, Goto, TypeOK, disk, Working, Ended, Missing
  <2> QED
    BY <1>5, <2>1, <2>2 DEF Check
<1>6. ASSUME NEW p \in Procs, Require(p) PROVE Shape'
  BY <1>6 DEF Require, Goto, TypeOK, disk, Working, Ended, Missing
<1>7. ASSUME NEW p \in Procs, Load(p) PROVE Shape'
  <2>1. PICK r \in Missing(p) :
           \/ file[r] \in Value /\ seen' = [seen EXCEPT ![p][r] = file[r]]
              /\ Goto(p, "run") /\ UNCHANGED target
           \/ Goto(p, "raise") /\ UNCHANGED <<seen, target>>
    BY <1>7 DEF Load
  <2>2. r \in Stages
    BY ConstantFacts DEF Missing, TypeOK
  <2>3. seen' \in [Procs -> [Stages -> Value \cup {Absent}]]
    <3>1. CASE UNCHANGED seen
      BY <3>1 DEF TypeOK
    <3>2. CASE file[r] \in Value /\ seen' = [seen EXCEPT ![p][r] = file[r]]
      <4>1. [seen[p] EXCEPT ![r] = file[r]] \in [Stages -> Value \cup {Absent}]
        BY <2>2, <3>2 DEF TypeOK
      <4> QED
        BY <3>2, <4>1 DEF TypeOK
    <3> QED
      BY <2>1, <3>1, <3>2
  <2>6. TypeOK'
    BY <1>7, <2>1, <2>3 DEF Load, Goto, TypeOK, disk, Working
  <2>4. \A q \in Procs \ {p} : seen'[q] = seen[q] /\ pc'[q] = pc[q]
    BY <2>1 DEF Goto, TypeOK
  <2>5. pc'[p] \notin {"open", "fill"} /\ UNCHANGED <<stage, last, target>>
    BY <2>1 DEF Goto, TypeOK
  <2> QED
    BY <2>6, <2>4, <2>5 DEF Missing
<1>8. ASSUME NEW p \in Procs, Computed(p) PROVE Shape'
  <2>1. stage[p] \in Files /\ stage[p] \in stage[p]..LastWrite(stage[p])
    BY ConstantFacts DEF TypeOK, Stages, Files
  <2>2. TypeOK'
    BY <1>8, <2>1 DEF Computed, Goto, TypeOK, disk, Working
  <2> QED
    BY <1>8, <2>1, <2>2 DEF Computed, Goto, TypeOK, Missing
<1>9. ASSUME NEW p \in Procs, OpenFile(p) PROVE Shape'
  BY <1>9 DEF OpenFile, Goto, TypeOK, Working, Missing
<1>10. ASSUME NEW p \in Procs, FillFile(p) PROVE Shape'
  <2>1. Result(p) \in Value
    BY <1>10, ResultIsValue DEF FillFile
  <2>2. file' \in [Files -> Value \cup {Absent, Torn}] /\ UNCHANGED <<state, seen>>
    BY <1>10, <2>1 DEF FillFile, TypeOK
  <2>3. target[p] \in stage[p]..LastWrite(stage[p]) /\ Missing(p) = {}
    BY <1>10 DEF FillFile
  <2>4. CASE target[p] = LastWrite(stage[p]) /\ Goto(p, "commit") /\ UNCHANGED target
    BY <2>2, <2>4 DEF Goto, TypeOK, Working, Missing
  <2>5. CASE /\ target[p] # LastWrite(stage[p])
             /\ Goto(p, "open") /\ target' = [target EXCEPT ![p] = @ + 1]
    <3>1. target[p] + 1 \in stage[p]..LastWrite(stage[p]) /\ target[p] + 1 \in Files
      BY <2>3, <2>5, ConstantFacts DEF TypeOK, Stages, Files, LastWrite, GateFile
    <3>2. TypeOK'
      BY <2>2, <2>5, <3>1 DEF Goto, TypeOK, Working
    <3> QED
      BY <2>2, <2>3, <2>5, <3>1, <3>2 DEF Goto, TypeOK, Missing
  <2> QED
    BY <1>10, <2>4, <2>5 DEF FillFile
<1>11. ASSUME NEW p \in Procs, StageRaises(p) PROVE Shape'
  BY <1>11 DEF StageRaises, Goto, TypeOK, disk, Working, Missing
<1>12. ASSUME NEW p \in Procs, OpenState(p) PROVE Shape'
  BY <1>12 DEF OpenState, Goto, TypeOK, Working, Missing
<1>13. ASSUME NEW p \in Procs, CommitOk(p) PROVE Shape'
  BY <1>3, <1>13 DEF CommitOk, WriteState, TypeOK
<1>14. ASSUME NEW p \in Procs, CommitFailed(p) PROVE Shape'
  <2>1. state' \in [Stages -> {"absent", "torn", "failed", "ok"}]
    BY <1>14 DEF CommitFailed, WriteState, TypeOK
  <2> QED
    BY <1>14, <2>1 DEF CommitFailed, Goto, TypeOK, Ended, Missing
<1>15. ASSUME NEW p \in Procs, Crash(p) PROVE Shape'
  BY <1>15 DEF Crash, Goto, TypeOK, disk, Ended, Missing
<1> QED
  BY <1>1, <1>2, <1>4, <1>5, <1>6, <1>7, <1>8, <1>9, <1>10, <1>11, <1>12,
     <1>13, <1>14, <1>15 DEF Next, Step, RunStep

(* Type correctness: whatever processes run, crash and overlap.            *)
THEOREM TypeCorrect == Spec => []TypeOK
<1>1. Spec => []Shape
  BY ShapeInit, ShapeNext, PTL DEF Spec
<1>2. Shape => TypeOK
  BY DEF Shape
<1> QED
  BY <1>1, <1>2, PTL

-----------------------------------------------------------------------------
(* From here on: one process at a time, first as long as nobody gave       *)
(* --force.                                                                *)
SingleWriter == \E q \in Procs : Procs = {q}

LEMMA SettledInit == Init => Settled
<1> SUFFICES ASSUME Init PROVE Settled
  OBVIOUS
<1>1. \A s \in Stages : state[s] # "ok"
  BY DEF Init
<1>2. \A p \in Procs : pc[p] = "idle" /\ ~job[p].force /\ last[p] = NStages
  BY DEF Init
<1> QED
  BY <1>1, <1>2
     DEF Settled, OkIsWhole, OkIsPrefix, ArtifactsAreCurrent, Attempt, Inside

(* A step that writes no file of an ok stage keeps what Settled says of   *)
(* the directory.                                                          *)
LEMMA DirectoryKept ==
    ASSUME TypeOK, Settled, NEW s \in Stages, state[s] # "ok",
           \A t \in Stages : state[t] = "ok" => state'[t] = "ok" /\ file'[t] = file[t],
           \A t \in Stages : state'[t] = "ok" => state[t] = "ok"
    PROVE  (OkIsWhole /\ OkIsPrefix /\ ArtifactsAreCurrent)'
<1>1. state[NStages] # "ok"
  BY StagesAssumption DEF Settled, OkIsPrefix, Stages
<1>2. \A t \in Stages, r \in Stages :
         state[t] = "ok" /\ r \in Reads(t) => state[r] = "ok"
  BY ReadsAssumption DEF Settled, OkIsPrefix, Stages
<1>3. \A t \in Stages : state[t] = "ok" =>
         [r \in Reads(t) |-> file'[r]] = [r \in Reads(t) |-> file[r]]
  BY <1>2, ConstantFacts
<1>4. ArtifactsAreCurrent'
  BY <1>1, <1>3 DEF Settled, ArtifactsAreCurrent
<1> QED
  BY <1>4 DEF Settled, OkIsWhole, OkIsPrefix

(* What an attempt has computed when all its inputs are loaded is what     *)
(* Build makes of the artifacts that lie in the directory.                 *)
LEMMA ResultIsCurrent ==
    ASSUME TypeOK, NEW p \in Procs, Attempt(p), pc[p] \in Inside, Missing(p) = {}
    PROVE  Result(p) = Build(stage[p], job[p].cfg,
                             [r \in Reads(stage[p]) |-> file[r]])
<1>1. \A r \in Reads(stage[p]) : seen[p][r] = file[r]
  BY DEF Attempt, Missing
<1> QED
  BY <1>1, Zenon DEF Result

(* Steps that write nothing.                                               *)
LEMMA QuietSteps ==
    ASSUME Shape, Settled, ~forced', NEW p \in Procs, Procs = {p}, UNCHANGED disk,
           \/ Launch(p) \/ Probe(p) \/ Check(p) \/ Require(p)
           \/ Load(p) \/ Computed(p) \/ StageRaises(p) \/ Crash(p)
    PROVE  Settled'
<1> USE DEF Shape, disk
<1>1. (OkIsWhole /\ OkIsPrefix /\ ArtifactsAreCurrent)'
  BY DEF Settled, OkIsWhole, OkIsPrefix, ArtifactsAreCurrent
<1>2. SUFFICES Attempt(p)'
  BY <1>1 DEF Settled
<1>3. Attempt(p)
  BY DEF Settled
<1>4. stage[p] \in Stages /\ last[p] \in Stages
  BY DEF TypeOK
<1>5. CASE Launch(p)
  <2>1. PICK m \in Modes, force \in Forces, c \in Configs, s \in Stages :
           /\ m # "stage" => s = 1
           /\ job'[p] = [mode |-> m, force |-> force, cfg |-> c]
           /\ stage'[p] = s
           /\ last'[p] = IF m = "stage" THEN s ELSE NStages
           /\ pc'[p] = EntryPc(m)
           /\ forced' = (forced \/ force)
    BY <1>5 DEF Launch, TypeOK
  <2>2. ~job'[p].force
    <3>1. force = FALSE
      BY <2>1, LaunchAssumption
    <3> QED
      BY <2>1, <3>1
  <2>4. pc'[p] \in {"probe", "check"} /\ seen'[p] = Nothing
    BY <1>5, <2>1 DEF Launch, TypeOK, EntryPc
  <2>3. job'[p].mode # "stage" => last'[p] = NStages /\ stage'[p] = 1
    BY <2>1
  <2> QED
    BY <2>2, <2>3, <2>4 DEF Attempt, Inside, AllOkBelow
<1>6. ASSUME Advance(p), state[stage[p]] = "ok" PROVE Attempt(p)'
  <2>1. \A t \in 1..stage[p] : state[t] = "ok"
    BY <1>4, <1>6, StagesAssumption DEF Settled, OkIsPrefix, Stages
  <2>2. /\ pc'[p] \in {"done", "probe", "check"} /\ job' = job /\ last' = last
        /\ seen'[p] = Nothing
    BY <1>6 DEF Advance, TypeOK, EntryPc
  <2>3. CASE stage[p] = last[p]
    <3>1. stage'[p] = stage[p] /\ pc'[p] = "done"
      BY <1>6, <2>3 DEF Advance, TypeOK
    <3> QED
      BY <1>3, <2>1, <2>2, <2>3, <3>1 DEF Attempt, Inside, Stages
  <2>4. CASE stage[p] # last[p]
    <3>1. stage'[p] = stage[p] + 1 /\ pc'[p] # "done"
      BY <1>6, <2>4 DEF Advance, TypeOK, EntryPc
    <3>2. AllOkBelow(stage'[p])
      BY <1>4, <2>1, <3>1 DEF AllOkBelow, Stages
    <3>3. state' = state
      OBVIOUS
    <3> QED
      BY <1>3, <2>2, <3>1, <3>2, <3>3 DEF Attempt, Inside, AllOkBelow
  <2> QED
    BY <2>3, <2>4
<1>7. CASE Probe(p)
  <2>1. CASE Goto(p, "check") /\ UNCHANGED <<seen, target>>
    BY <1>3, <1>7, <2>1
       DEF Probe, Goto, TypeOK, Attempt, Inside, AllOkBelow
  <2> QED
    BY <1>6, <1>7, <2>1 DEF Probe
<1>8. CASE Check(p)
  <2>1. CASE /\ state[stage[p]] # "ok" /\ UNCHANGED <<seen, target>>
             /\ Goto(p, "state_error") \/ Goto(p, "require")
    BY <1>3, <1>8, <2>1
       DEF Check, Goto, TypeOK, Attempt, Inside, AllOkBelow
  <2> QED
    BY <1>3, <1>6, <1>8, <2>1 DEF Check, Attempt
<1>9. CASE Require(p)
  <2>1. CASE PreviousReady(stage[p]) /\ Goto(p, "run")
    <3>1. AllOkBelow(stage[p])
      <4>1. ASSUME NEW t \in 1..(stage[p] - 1) PROVE state[t] = "ok"
        <5>1. state[stage[p] - 1] = "ok" /\ stage[p] - 1 \in Stages
          BY <1>4, <2>1, StagesAssumption DEF PreviousReady, Stages
        <5> QED
          BY <1>4, <5>1, StagesAssumption DEF Settled, OkIsPrefix, Stages
      <4> QED
        BY <4>1 DEF AllOkBelow
    <3>2. \A r \in Reads(stage[p]) : seen[p][r] = Absent
      BY <1>3, <1>4, <1>9, ConstantFacts DEF Require, Attempt, Nothing
    <3> QED
      BY <1>3, <1>9, <2>1, <3>1, <3>2
         DEF Require, Goto, TypeOK, Attempt, Inside, AllOkBelow
  <2>2. CASE Goto(p, "state_error")
    BY <1>3, <1>9, <2>2
       DEF Require, Goto, TypeOK, Attempt, Inside, AllOkBelow
  <2>3. CASE ~PreviousReady(stage[p]) /\ Goto(p, "require_error")
    <3>1. ~AllOkBelow(stage[p])
      BY <1>4, <2>3, ConstantFacts
         DEF PreviousReady, AllOkBelow, Settled, OkIsWhole, Stages
    <3> QED
      BY <1>3, <1>9, <2>3, <3>1 DEF Require, Goto, TypeOK, Attempt, Inside
  <2> QED
    BY <1>9, <2>1, <2>2, <2>3 DEF Require
<1>10. CASE Load(p)
  <2>1. PICK r \in Missing(p) :
           \/ file[r] \in Value /\ seen' = [seen EXCEPT ![p][r] = file[r]]
              /\ Goto(p, "run") /\ UNCHANGED target
           \/ Goto(p, "raise") /\ UNCHANGED <<seen, target>>
    BY <1>10 DEF Load
  <2>2. r \in Stages
    BY ConstantFacts DEF Missing, TypeOK
  <2>3. \A x \in Reads(stage[p]) : seen'[p][x] # Absent => seen'[p][x] = file[x]
    BY <1>3, <1>4, <1>10, <2>1, <2>2, ConstantFacts DEF Attempt, Inside, TypeOK, Load
  <2>4. pc'[p] \in {"run", "raise"} /\ UNCHANGED <<job, stage, last>>
    BY <2>1 DEF Goto, TypeOK
  <2> QED
    BY <1>3, <1>10, <2>3, <2>4 DEF Load, Attempt, Inside, AllOkBelow
<1>11. CASE Computed(p)
  <2>1. /\ pc'[p] = "open" /\ target'[p] = stage[p]
        /\ UNCHANGED <<job, stage, last, seen>>
    BY <1>11 DEF Computed, Goto, TypeOK
  <2>2. stage[p]..(stage[p] - 1) = {}
    BY <1>4 DEF Stages
  <2> QED
    BY <1>3, <1>11, <2>1, <2>2 DEF Computed, Attempt, Inside, AllOkBelow
<1>12. CASE StageRaises(p) \/ Crash(p)
  <2>1. /\ pc'[p] \in {"raise", "crashed"}
        /\ pc'[p] = "raise" => pc[p] \in Inside
        /\ UNCHANGED <<job, stage, last, seen>>
    BY <1>12 DEF StageRaises, Crash, Goto, TypeOK, Inside
  <2> QED
    BY <1>3, <2>1 DEF Attempt, Inside, AllOkBelow
<1> QED
  BY <1>5, <1>7, <1>8, <1>9, <1>10, <1>11, <1>12

(* While a stage is written, no ok stage has its artifact at or after it.  *)
LEMMA WriteFile ==
    ASSUME Shape, Settled, NEW p \in Procs, Procs = {p}, OpenFile(p) \/ FillFile(p)
    PROVE  Settled'
<1> USE DEF Shape
<1> DEFINE s == stage[p]
<1>1. /\ s \in Stages /\ Attempt(p) /\ pc[p] \in {"open", "fill"}
      /\ Missing(p) = {} /\ target[p] \in s..LastWrite(s)
  BY DEF TypeOK, Settled, OpenFile, FillFile, Writing
<1>2. /\ \A f \in Files : f # target[p] => file'[f] = file[f]
      /\ UNCHANGED <<state, seen, job, stage, last>>
  BY DEF OpenFile, FillFile, Goto, TypeOK
<1>3. \A t \in Stages : state[t] = "ok" => t < s
  BY <1>1, StagesAssumption DEF Settled, OkIsPrefix, Attempt, Inside, Stages
<1>4. \A t \in Stages : state[t] = "ok" => file'[t] = file[t]
  BY <1>1, <1>2, <1>3, ConstantFacts DEF Stages, Files
<1>5. (OkIsWhole /\ OkIsPrefix /\ ArtifactsAreCurrent)'
  BY <1>1, <1>2, <1>4, DirectoryKept DEF Attempt, Inside
<1>6. UNCHANGED <<Result(p), Missing(p)>>
  BY <1>2 DEF Result, Missing
<1>7. \A r \in Reads(s) : file'[r] = file[r]
  <2> SUFFICES ASSUME NEW r \in Reads(s) PROVE file'[r] = file[r]
    OBVIOUS
  <2>1. r \in 1..(s - 1) /\ r \in Stages
    BY <1>1, ReadsAssumption, ConstantFacts
  <2>2. state[r] = "ok"
    BY <1>1, <2>1 DEF Attempt, Inside, AllOkBelow
  <2> QED
    BY <1>4, <2>1, <2>2
<1>8. CASE OpenFile(p)
  <2>1. /\ pc'[p] = "fill" /\ target' = target /\ file'[target[p]] = Torn
    BY <1>8 DEF OpenFile, Goto, TypeOK
  <2>2. \A f \in s..(target'[p] - 1) : file'[f] = Result(p)'
    BY <1>1, <1>2, <1>6, <2>1, ConstantFacts
       DEF Attempt, Stages, Files, LastWrite, GateFile
  <2>3. Attempt(p)'
    BY <1>1, <1>2, <1>7, <2>1, <2>2 DEF Attempt, Inside, AllOkBelow
  <2> QED
    BY <1>1, <1>2, <1>5, <2>1, <2>3 DEF Settled
<1>9. CASE FillFile(p)
  <2>1. file'[target[p]] = Result(p)
    BY <1>1, <1>9 DEF FillFile, Attempt, TypeOK
  <2>2. \A f \in s..target[p] : file'[f] = Result(p)'
    BY <1>1, <1>2, <1>6, <1>9, <2>1, ConstantFacts
       DEF FillFile, Attempt, Stages, Files, LastWrite, GateFile
  <2>3. CASE target[p] = LastWrite(s) /\ pc'[p] = "commit"
    BY <1>1, <1>2, <1>5, <1>6, <1>7, <2>2, <2>3
       DEF Settled, Attempt, Inside, AllOkBelow
  <2>4. CASE target'[p] = target[p] + 1 /\ pc'[p] = "open"
    <3>1. \A f \in s..(target'[p] - 1) : file'[f] = Result(p)'
      BY <1>1, <2>2, <2>4, ConstantFacts DEF TypeOK, Files, Stages
    <3> QED
      BY <1>1, <1>2, <1>5, <1>7, <2>4, <3>1
         DEF Settled, Attempt, Inside, AllOkBelow
  <2> QED
    BY <1>9, <2>3, <2>4 DEF FillFile, Goto, TypeOK
<1> QED
  BY <1>8, <1>9

(* A state file that is being written, or that records a failure, is that  *)
(* of the first stage not ok.                                              *)
LEMMA WriteStateNotOk ==
    ASSUME Shape, Settled, NEW p \in Procs, Procs = {p},
           OpenState(p) \/ CommitFailed(p)
    PROVE  Settled'
<1> USE DEF Shape
<1>1. /\ stage[p] \in Stages /\ Attempt(p)
      /\ pc[p] \in {"commit", "raise", "raise_fill"}
      /\ state[stage[p]] # "ok" /\ AllOkBelow(stage[p])
  BY DEF TypeOK, Settled, OpenState, CommitFailed, Attempt, Inside
<1>2. /\ UNCHANGED <<file, seen, job, stage, last>>
      /\ \A t \in Stages : t # stage[p] => state'[t] = state[t]
      /\ state'[stage[p]] # "ok"
      /\ UNCHANGED <<Result(p), Missing(p)>>
  BY <1>1 DEF OpenState, CommitFailed, WriteState, Goto, TypeOK, Result, Missing
<1>3. (OkIsWhole /\ OkIsPrefix /\ ArtifactsAreCurrent)'
  BY <1>1, <1>2, DirectoryKept
<1>4. AllOkBelow(stage[p])'
  BY <1>1, <1>2, StagesAssumption DEF AllOkBelow, Stages
<1>5. \/ pc[p] = "commit" /\ pc'[p] = "commit_fill" /\ state'[stage[p]] = "torn"
      \/ pc'[p] = "raise_fill" /\ state'[stage[p]] = "torn"
      \/ pc'[p] = "stage_error"
  BY <1>1 DEF OpenState, CommitFailed, Goto, TypeOK
<1> QED
  BY <1>1, <1>2, <1>3, <1>4, <1>5 DEF Settled, Attempt, Inside

(* The stage at hand becomes ok: its files hold what Build makes of the    *)
(* complete stages below it.                                               *)
LEMMA Commit ==
    ASSUME Shape, Settled, NEW p \in Procs, Procs = {p}, CommitOk(p)
    PROVE  /\ Settled'
           /\ state' = [state EXCEPT ![stage[p]] = "ok"]
           /\ file[stage[p]] = Build(stage[p], job[p].cfg,
                                     [r \in Reads(stage[p]) |-> file[r]])
<1> USE DEF Shape
<1> DEFINE s == stage[p]
<1>1. /\ s \in Stages /\ last[p] \in Stages /\ Attempt(p)
      /\ pc[p] = "commit_fill" /\ AllOkBelow(s) /\ Missing(p) = {}
      /\ \A f \in s..LastWrite(s) : file[f] = Result(p)
  BY DEF TypeOK, Settled, CommitOk, Attempt, Inside
<1>2. state' = [state EXCEPT ![s] = "ok"] /\ file' = file
  BY <1>1 DEF CommitOk, WriteState, Attempt
<1>3. Result(p) = Build(s, job[p].cfg, [r \in Reads(s) |-> file[r]])
  BY <1>1, ResultIsCurrent DEF Inside
<1>4. file[s] = Result(p) /\ Result(p) \in Value /\ job[p].cfg \in Configs
  BY <1>1, ConstantFacts, ResultIsValue DEF TypeOK, Stages
<1>5. s = NStages => file[RoadFile] = file[s] /\ file[GateFile] = file[s]
  BY <1>1, StagesAssumption DEF LastWrite, RoadFile, GateFile
<1>6. OkIsWhole'
  BY <1>2, <1>4 DEF Settled, OkIsWhole, TypeOK
<1>7. ArtifactsAreCurrent'
  BY <1>2, <1>3, <1>4, <1>5 DEF Settled, ArtifactsAreCurrent, TypeOK
<1>8. \A t \in 1..s : state'[t] = "ok"
  BY <1>1, <1>2, StagesAssumption DEF AllOkBelow, Stages, TypeOK
<1>9. OkIsPrefix'
  BY <1>1, <1>2, <1>8, StagesAssumption DEF Settled, OkIsPrefix, Stages, TypeOK
<1>10. /\ pc'[p] \in {"done", "probe", "check"} /\ seen'[p] = Nothing
       /\ UNCHANGED <<job, last>>
       /\ \/ s = last[p] /\ stage'[p] = s /\ pc'[p] = "done"
          \/ stage'[p] = s + 1 /\ pc'[p] # "done"
  BY DEF CommitOk, Advance, TypeOK, EntryPc
<1>11. Attempt(p)'
  BY <1>1, <1>10 DEF Attempt, Inside
<1> QED
  BY <1>2, <1>3, <1>4, <1>6, <1>7, <1>9, <1>11 DEF Settled

LEMMA SettledNext ==
    ASSUME SingleWriter, Shape, Settled, [Next]_vars, ~forced'
    PROVE  Settled'
<1>1. CASE UNCHANGED vars
  <2>1. (OkIsWhole /\ OkIsPrefix /\ ArtifactsAreCurrent)'
    BY <1>1 DEF vars, Settled, OkIsWhole, OkIsPrefix, ArtifactsAreCurrent
  <2>2. ASSUME NEW p \in Procs PROVE Attempt(p)'
    BY <1>1, <2>2
       DEF vars, Settled, Attempt, AllOkBelow, Missing, Result
  <2> QED
    BY <2>1, <2>2 DEF Settled
<1>2. ASSUME NEW p \in Procs, Step(p) PROVE Settled'
  <2>1. Procs = {p}
    BY DEF SingleWriter
  <2>2. CASE \/ Launch(p) \/ Probe(p) \/ Check(p) \/ Require(p)
             \/ Load(p) \/ Computed(p) \/ StageRaises(p) \/ Crash(p)
    <3>1. UNCHANGED disk
      BY <2>2 DEF Launch, Probe, Check, Require, Load, Computed, StageRaises, Crash
    <3> QED
      BY <2>1, <2>2, <3>1, QuietSteps
  <2> QED
    BY <1>2, <2>1, <2>2, WriteFile, WriteStateNotOk, Commit DEF Step, RunStep
<1> QED
  BY <1>1, <1>2 DEF Next

LEMMA ForcedStays == Shape /\ [Next]_vars /\ forced => forced'
<1> SUFFICES ASSUME Shape, [Next]_vars, forced PROVE forced'
  OBVIOUS
<1>1. CASE UNCHANGED vars
  BY <1>1 DEF vars
<1>2. ASSUME NEW p \in Procs, Step(p) PROVE forced'
  BY <1>2 DEF Step, RunStep, Launch, Probe, Check, Require, Load, Computed, OpenFile,
              FillFile, StageRaises, OpenState, CommitOk, CommitFailed, Crash, Advance, Goto
<1> QED
  BY <1>1, <1>2 DEF Next

(* With one process at a time, through any number of crashes, failures and *)
(* launches without --force: the invariant the next theorems rest on.      *)
THEOREM CoherentAlways ==
    ASSUME SingleWriter
    PROVE  Spec => [](Shape /\ Coherent)
<1>1. Init => Shape /\ Coherent
  BY ShapeInit, SettledInit DEF Coherent
<1>2. Shape /\ Coherent /\ [Next]_vars => Shape' /\ Coherent'
  BY ShapeNext, SettledNext, ForcedStays DEF Coherent
<1> QED
  BY <1>1, <1>2, PTL DEF Spec

(* Without --force every stage recorded as ok left a whole artifact        *)
(* computed from what now lies in the directory, and the published files   *)
(* of an ok last stage are its result.                                     *)
THEOREM OkStagesAreCurrent ==
    ASSUME SingleWriter
    PROVE  Spec => []OkIsCurrent
<1>1. Coherent => OkIsCurrent
  BY DEF Coherent, Settled, OkIsCurrent
<1> QED
  BY <1>1, CoherentAlways, PTL

(* What a step may do to the stages that are ok: nothing, but add one.     *)
LEMMA OneStageAtATime ==
    ASSUME Shape, Settled, SingleWriter, [Next]_vars, ~forced'
    PROVE  \/ \A t \in Stages : /\ (state'[t] = "ok") <=> (state[t] = "ok")
                                /\ state[t] = "ok" => file'[t] = file[t]
           \/ \E s \in Stages, c \in Configs :
                 /\ state[s] # "ok" /\ AllOkBelow(s) /\ file' = file
                 /\ state' = [state EXCEPT ![s] = "ok"]
                 /\ file[s] = Build(s, c, [r \in Reads(s) |-> file[r]])
<1> USE DEF Shape
<1>1. CASE UNCHANGED disk
  BY <1>1 DEF disk
<1>2. ASSUME NEW p \in Procs, OpenFile(p) \/ FillFile(p)
      PROVE  /\ state' = state
             /\ \A t \in Stages : state[t] = "ok" => file'[t] = file[t]
  <2>1. /\ stage[p] \in Stages /\ state[stage[p]] # "ok"
        /\ target[p] \in stage[p]..LastWrite(stage[p])
    BY <1>2 DEF Settled, Attempt, Inside, TypeOK, OpenFile, FillFile, Writing
  <2>2. \A t \in Stages : state[t] = "ok" => t < stage[p]
    BY <2>1, StagesAssumption DEF Settled, OkIsPrefix, Stages
  <2> QED
    BY <1>2, <2>1, <2>2, ConstantFacts
       DEF OpenFile, FillFile, TypeOK, Stages, Files
<1>3. ASSUME NEW p \in Procs, OpenState(p) \/ CommitFailed(p)
      PROVE  /\ file' = file
             /\ \A t \in Stages : (state'[t] = "ok") <=> (state[t] = "ok")
  <2>1. stage[p] \in Stages /\ state[stage[p]] # "ok"
    BY <1>3 DEF Settled, Attempt, Inside, TypeOK, OpenState, CommitFailed
  <2> QED
    BY <1>3, <2>1 DEF OpenState, CommitFailed, WriteState, TypeOK
<1>4. ASSUME NEW p \in Procs, CommitOk(p)
      PROVE  \E s \in Stages, c \in Configs :
                 /\ state[s] # "ok" /\ AllOkBelow(s) /\ file' = file
                 /\ state' = [state EXCEPT ![s] = "ok"]
                 /\ file[s] = Build(s, c, [r \in Reads(s) |-> file[r]])
  <2>1. Procs = {p}
    BY DEF SingleWriter
  <2>2. stage[p] \in Stages /\ job[p].cfg \in Configs /\ file' = file
    BY <1>4 DEF TypeOK, CommitOk
  <2>3. state[stage[p]] # "ok" /\ AllOkBelow(stage[p])
    BY <1>4 DEF Settled, Attempt, Inside, CommitOk
  <2> QED
    BY <1>4, <2>1, <2>2, <2>3, Commit
<1>5. ASSUME NEW p \in Procs, Step(p), ~UNCHANGED disk
      PROVE  OpenFile(p) \/ FillFile(p) \/ OpenState(p) \/ CommitFailed(p) \/ CommitOk(p)
  BY <1>5 DEF Step, RunStep, Launch, Probe, Check, Require, Load, Computed,
              StageRaises, Crash
<1> QED
  BY <1>1, <1>2, <1>3, <1>4, <1>5 DEF Next, vars, disk

(* Without --force a completed stage is final.                             *)
THEOREM CompletedStaysFinal ==
    ASSUME SingleWriter
    PROVE  Spec => CompletedIsFinal
<1>1. Shape /\ Coherent /\ [Next]_vars =>
        [~forced' => \A s \in Stages : state[s] = "ok" =>
            state'[s] = "ok" /\ file'[s] = file[s]]_vars
  BY OneStageAtATime, ForcedStays DEF Shape, TypeOK, Coherent
<1> QED
  BY <1>1, CoherentAlways, PTL DEF Spec, CompletedIsFinal

(* Until --force is given the directory is a write-once ledger: hidden     *)
(* in the files are the steps of StageLedger and nothing else.             *)
THEOREM DirectoryIsLedger ==
    ASSUME SingleWriter
    PROVE  Spec => ImplementsLedger
<1>1. Init => Ledger!Init
  BY DEF Init, Ledger!Init, Ledger!Stages, Stages, Recorded
<1>2. ASSUME Shape, [Next]_vars, forced' PROVE Ledger!Next
  <2>1. Shape'
    BY <1>2, ShapeNext
  <2>2. \A s \in Stages : Recorded'[s] \in Value \cup {Absent, Torn}
    BY <2>1, ConstantFacts DEF Shape, TypeOK, Recorded
  <2>3. Recorded' = [s \in Stages |-> Recorded'[s]]
    BY DEF Recorded
  <2>4. Recorded' \in Ledger!Contents
    BY <2>2, <2>3 DEF Ledger!Contents, Ledger!Stages, Stages
  <2>5. forced' = TRUE
    BY <1>2, <2>1 DEF Shape, TypeOK
  <2> QED
    BY <2>4, <2>5 DEF Ledger!Next, Ledger!Force
<1>3. ASSUME Shape, Settled, [Next]_vars, ~forced', UNCHANGED forced
      PROVE  [Ledger!Next]_<<Recorded, forced>>
  <2> USE <1>3
  <2>1. CASE \A t \in Stages : /\ (state'[t] = "ok") <=> (state[t] = "ok")
                               /\ state[t] = "ok" => file'[t] = file[t]
    BY <2>1 DEF Recorded
  <2>2. CASE \E s \in Stages, c \in Configs :
                 /\ state[s] # "ok" /\ AllOkBelow(s) /\ file' = file
                 /\ state' = [state EXCEPT ![s] = "ok"]
                 /\ file[s] = Build(s, c, [r \in Reads(s) |-> file[r]])
    <3>1. PICK s \in Stages, c \in Configs :
                 /\ state[s] # "ok" /\ AllOkBelow(s) /\ file' = file
                 /\ state' = [state EXCEPT ![s] = "ok"]
                 /\ file[s] = Build(s, c, [r \in Reads(s) |-> file[r]])
      BY <2>2
    <3>2. Recorded[s] = Absent
      BY <3>1 DEF Recorded
    <3>3. \A t \in 1..(s - 1) :
             t \in Stages /\ Recorded[t] = file[t] /\ Recorded[t] # Absent
      BY <3>1, StagesAssumption, FileAssumption
         DEF Recorded, AllOkBelow, Stages, Settled, OkIsWhole
    <3>4. [r \in Reads(s) |-> Recorded[r]] = [r \in Reads(s) |-> file[r]]
      BY <3>3, ReadsAssumption
    <3>5. Recorded' = [Recorded EXCEPT ![s] =
                          Build(s, c, [r \in Reads(s) |-> Recorded[r]])]
      <4>1. \A t \in Stages : Recorded'[t] = IF t = s THEN file[s] ELSE Recorded[t]
        BY <3>1 DEF Recorded, Shape, TypeOK
      <4> QED
        BY <3>1, <3>4, <4>1 DEF Recorded
    <3>6. Ledger!Enter(s)
      BY <3>2, <3>3, <3>5 DEF Ledger!Enter
    <3> QED
      BY <3>6 DEF Ledger!Next, Ledger!Stages, Stages
  <2> QED
    BY <2>1, <2>2, OneStageAtATime
<1>4. Shape /\ Coherent /\ [Next]_vars => [Ledger!Next]_<<Recorded, forced>>
  <2> SUFFICES ASSUME Shape, Coherent, [Next]_vars, ~forced'
               PROVE  [Ledger!Next]_<<Recorded, forced>>
    BY <1>2
  <2>1. ~forced /\ Settled
    BY ForcedStays DEF Coherent
  <2>2. forced \in BOOLEAN /\ forced' \in BOOLEAN
    BY ShapeNext DEF Shape, TypeOK
  <2>3. UNCHANGED forced
    BY <2>1, <2>2
  <2> QED
    BY <1>3, <2>1, <2>3
<1> QED
  BY <1>1, <1>4, CoherentAlways, PTL DEF Spec, ImplementsLedger, Ledger!Spec

-----------------------------------------------------------------------------
(* Now with --force or without it.  An entry point that goes through the   *)
(* stages in order has every earlier stage behind it, and all of them when *)
(* it is done; and what is ok, or about to be, has a file.                 *)
InOrder(p) ==
    job[p].mode # "stage" =>
        /\ last[p] = NStages
        /\ pc[p] \in {"probe", "check", "require"} \cup Inside => AllOkBelow(stage[p])
        /\ pc[p] # "require_error"
        /\ pc[p] = "done" => \A s \in Stages : state[s] = "ok"

HasFile(p) ==
    \/ pc[p] \in {"fill", "commit", "commit_fill"}
    \/ pc[p] = "open" /\ target[p] > stage[p]
    => file[stage[p]] # Absent

Marked(p) == pc[p] = "commit_fill" => state[stage[p]] = "torn"

OkHasFile == \A s \in Stages : state[s] = "ok" => file[s] # Absent

Orderly == OkHasFile /\ \A p \in Procs : InOrder(p) /\ HasFile(p) /\ Marked(p)

LEMMA OrderlyInit == Init => Orderly
BY DEF Init, Orderly, OkHasFile, InOrder, HasFile, Marked, Inside

(* Going on from a stage that is ok.                                       *)
LEMMA AdvanceInOrder ==
    ASSUME Shape, Orderly, NEW p \in Procs, Advance(p),
           state' = [state EXCEPT ![stage[p]] = "ok"],
           pc[p] \in {"probe", "check", "require"} \cup Inside
    PROVE  InOrder(p)' /\ HasFile(p)' /\ Marked(p)'
<1>1. stage[p] \in Stages /\ last[p] \in Stages /\ InOrder(p) /\ NStages \in Nat
  BY StagesAssumption DEF Shape, TypeOK, Orderly
<1>2. /\ pc'[p] \in {"done", "probe", "check"} /\ UNCHANGED <<job, last>>
      /\ \/ stage[p] = last[p] /\ stage'[p] = stage[p] /\ pc'[p] = "done"
         \/ stage'[p] = stage[p] + 1 /\ pc'[p] # "done"
  BY DEF Advance, Shape, TypeOK, EntryPc
<1>3. job[p].mode # "stage" => \A t \in 1..stage[p] : state'[t] = "ok"
  BY <1>1 DEF InOrder, AllOkBelow, Shape, TypeOK, Stages
<1>4. HasFile(p)' /\ Marked(p)'
  BY <1>2 DEF HasFile, Marked
<1>5. CASE stage[p] = last[p] /\ stage'[p] = stage[p] /\ pc'[p] = "done"
  BY <1>1, <1>2, <1>3, <1>4, <1>5 DEF InOrder, Inside, Stages
<1>6. CASE stage'[p] = stage[p] + 1 /\ pc'[p] # "done"
  <2>1. job[p].mode # "stage" => AllOkBelow(stage[p])'
    BY <1>1, <1>3, <1>6 DEF AllOkBelow, Stages
  <2> QED
    BY <1>1, <1>2, <1>4, <1>6, <2>1 DEF InOrder, Inside
<1> QED
  BY <1>2, <1>5, <1>6

(* Steps that leave the state files alone and take no file away.           *)
LEMMA OrderlyKept ==
    ASSUME Shape, Orderly, NEW p \in Procs, Procs = {p}, UNCHANGED <<state, job, stage, last>>,
           \A f \in Files : file'[f] = Absent => file[f] = Absent,
           pc'[p] \notin {"done", "require_error", "commit_fill"},
           pc'[p] \in {"probe", "check", "require"} \cup Inside =>
               pc[p] \in {"probe", "check", "require"} \cup Inside,
           HasFile(p)'
    PROVE  Orderly'
<1>1. AllOkBelow(stage[p])' = AllOkBelow(stage[p])
  BY DEF AllOkBelow
<1>2. OkHasFile'
  BY ConstantFacts DEF Orderly, OkHasFile
<1>3. InOrder(p)' /\ Marked(p)'
  BY <1>1 DEF Orderly, InOrder, Marked
<1> QED
  BY <1>2, <1>3 DEF Orderly

LEMMA OrderlyStep ==
    ASSUME Shape, Orderly, NEW p \in Procs, Procs = {p}, Step(p)
    PROVE  Orderly'
<1> USE DEF Shape
<1>1. /\ OkHasFile /\ InOrder(p) /\ HasFile(p) /\ Marked(p)
      /\ stage[p] \in Stages /\ NStages \in Nat
  BY StagesAssumption DEF Orderly, TypeOK
<1>2. SUFFICES ASSUME ~(/\ OkHasFile' /\ InOrder(p)' /\ HasFile(p)' /\ Marked(p)')
               PROVE  Orderly'
  BY DEF Orderly
<1>3. CASE Launch(p)
  <2>1. PICK m \in Modes, s \in Stages :
           /\ m # "stage" => s = 1
           /\ job'[p].mode = m /\ stage'[p] = s /\ pc'[p] = EntryPc(m)
           /\ last'[p] = IF m = "stage" THEN s ELSE NStages
    BY <1>3 DEF Launch, TypeOK
  <2>2. AllOkBelow(1)
    BY DEF AllOkBelow
  <2>3. InOrder(p)' /\ HasFile(p)' /\ Marked(p)'
    BY <1>3, <2>1 DEF InOrder, HasFile, Marked, Inside, AllOkBelow, EntryPc
  <2>4. OkHasFile'
    BY <1>1, <1>3 DEF Launch, OkHasFile, disk
  <2> QED
    BY <1>2, <2>3, <2>4
<1>4. ASSUME Advance(p), file' = file, state' = [state EXCEPT ![stage[p]] = "ok"],
             pc[p] \in {"probe", "check", "require"} \cup Inside, file[stage[p]] # Absent
      PROVE  Orderly'
  <2>1. OkHasFile'
    BY <1>1, <1>4 DEF OkHasFile, TypeOK
  <2> QED
    BY <1>2, <1>4, <2>1, AdvanceInOrder
<1>5. CASE Probe(p) \/ Check(p)
  <2>1. CASE Advance(p) /\ state[stage[p]] = "ok"
    <3>1. state' = [state EXCEPT ![stage[p]] = "ok"] /\ file' = file
      BY <1>1, <1>5, <2>1 DEF Probe, Check, disk, TypeOK
    <3>2. pc[p] \in {"probe", "check"} /\ file[stage[p]] # Absent
      BY <1>1, <1>5, <2>1 DEF Probe, Check, OkHasFile
    <3> QED
      BY <1>4, <2>1, <3>1, <3>2
  <2>2. CASE Goto(p, "check") \/ Goto(p, "require") \/ Goto(p, "state_error")
    BY <1>5, <2>2, OrderlyKept DEF Probe, Check, Goto, disk, TypeOK, HasFile, Inside
  <2> QED
    BY <1>5, <2>1, <2>2 DEF Probe, Check
<1>6. CASE Require(p)
  <2>1. CASE Goto(p, "require_error") /\ ~PreviousReady(stage[p])
    <3>1. job[p].mode = "stage"
      BY <1>1, <1>6, <2>1, ConstantFacts
         DEF Require, InOrder, OkHasFile, PreviousReady, AllOkBelow, Stages
    <3>2. /\ UNCHANGED <<file, state, job, stage>> /\ pc'[p] = "require_error"
      BY <1>6, <2>1 DEF Require, Goto, disk, TypeOK
    <3>3. InOrder(p)' /\ HasFile(p)' /\ Marked(p)'
      BY <3>1, <3>2 DEF InOrder, HasFile, Marked
    <3>4. OkHasFile'
      BY <1>1, <3>2 DEF OkHasFile
    <3> QED
      BY <1>2, <3>3, <3>4
  <2>2. CASE Goto(p, "run") \/ Goto(p, "state_error")
    BY <1>6, <2>2, OrderlyKept DEF Require, Goto, disk, TypeOK, HasFile, Inside
  <2> QED
    BY <1>6, <2>1, <2>2 DEF Require
<1>7. CASE Load(p) \/ StageRaises(p) \/ Crash(p)
  <2>1. /\ pc'[p] \in {"run", "raise", "crashed"}
        /\ pc'[p] # "crashed" => pc[p] \in Inside
        /\ UNCHANGED <<file, state, job, stage, last>>
    BY <1>7 DEF Load, StageRaises, Crash, Goto, disk, TypeOK, Inside
  <2>2. HasFile(p)'
    BY <2>1 DEF HasFile
  <2> QED
    BY <2>1, <2>2, OrderlyKept DEF Inside
<1>8. CASE Computed(p)
  <2>1. /\ pc[p] = "run" /\ pc'[p] = "open" /\ target'[p] = stage[p]
        /\ UNCHANGED <<file, state, job, stage, last>>
    BY <1>8 DEF Computed, Goto, disk, TypeOK
  <2>2. HasFile(p)'
    BY <1>1, <2>1 DEF HasFile, Stages
  <2> QED
    BY <2>1, <2>2, OrderlyKept DEF Inside
<1>9. CASE OpenFile(p)
  <2>1. /\ file' = [file EXCEPT ![target[p]] = Torn] /\ pc'[p] = "fill" /\ pc[p] = "open"
        /\ UNCHANGED <<state, job, stage, last, target>>
        /\ target[p] \in stage[p]..LastWrite(stage[p])
    BY <1>9 DEF OpenFile, Goto, TypeOK, Writing
  <2>2. \A f \in Files : file'[f] = Absent => file[f] = Absent
    BY <2>1, FileAssumption DEF TypeOK
  <2>3. file'[stage[p]] # Absent
    <3>1. CASE target[p] = stage[p]
      BY <2>1, <3>1, FileAssumption, ConstantFacts, <1>1 DEF TypeOK
    <3>2. CASE target[p] > stage[p]
      BY <1>1, <2>1, <2>2, <3>2, ConstantFacts DEF HasFile
    <3> QED
      BY <1>1, <2>1, <3>1, <3>2, ConstantFacts DEF Stages, Files
  <2> QED
    BY <2>1, <2>2, <2>3, OrderlyKept DEF HasFile, Inside
<1>10. CASE FillFile(p)
  <2>1. /\ pc'[p] \in {"open", "commit"} /\ pc[p] = "fill"
        /\ UNCHANGED <<state, job, stage, last>>
    BY <1>10 DEF FillFile, Goto, TypeOK
  <2>2. \A f \in Files : file'[f] = Absent => file[f] = Absent
    <3>1. Result(p) # Absent
      BY <2>1, ResultIsValue, FileAssumption DEF Writing
    <3> QED
      BY <1>10, <3>1, FileAssumption DEF FillFile, TypeOK
  <2>3. file'[stage[p]] # Absent
    BY <1>1, <2>1, <2>2, ConstantFacts DEF HasFile
  <2> QED
    BY <2>1, <2>2, <2>3, OrderlyKept DEF HasFile, Inside
<1>11. CASE OpenState(p) \/ CommitFailed(p)
  <2>1. /\ pc'[p] \in {"commit_fill", "raise_fill", "stage_error"} /\ pc[p] \in Inside
        /\ pc'[p] = "commit_fill" => pc[p] = "commit" /\ state'[stage[p]] = "torn"
        /\ state'[stage[p]] # "ok" /\ UNCHANGED <<file, job, stage, last>>
        /\ \A s \in Stages : s # stage[p] => state'[s] = state[s]
    BY <1>1, <1>11 DEF OpenState, CommitFailed, WriteState, Goto, TypeOK, Inside
  <2>2. AllOkBelow(stage[p]) => AllOkBelow(stage[p])'
    BY <1>1, <2>1 DEF AllOkBelow, Stages
  <2>3. OkHasFile' /\ HasFile(p)' /\ Marked(p)'
    BY <1>1, <2>1 DEF OkHasFile, HasFile, Marked
  <2>4. InOrder(p)'
    BY <1>1, <2>1, <2>2 DEF InOrder, Inside
  <2> QED
    BY <1>2, <2>3, <2>4
<1>12. CASE CommitOk(p)
  <2>1. pc[p] = "commit_fill" /\ state[stage[p]] = "torn" /\ file[stage[p]] # Absent
    BY <1>1, <1>12 DEF CommitOk, Marked, HasFile
  <2>2. state' = [state EXCEPT ![stage[p]] = "ok"] /\ file' = file /\ Advance(p)
    BY <1>12, <2>1 DEF CommitOk, WriteState
  <2> QED
    BY <1>4, <2>1, <2>2 DEF Inside
<1> QED
  BY <1>3, <1>5, <1>6, <1>7, <1>8, <1>9, <1>10, <1>11, <1>12 DEF Step, RunStep

LEMMA OrderlyNext ==
    ASSUME SingleWriter, Shape, Orderly, [Next]_vars
    PROVE  Orderly'
<1>1. CASE UNCHANGED vars
  BY <1>1 DEF vars, Orderly, OkHasFile, InOrder, HasFile, Marked, AllOkBelow
<1>2. ASSUME NEW p \in Procs, Step(p) PROVE Orderly'
  BY <1>2, OrderlyStep DEF SingleWriter
<1> QED
  BY <1>1, <1>2 DEF Next

(* Exit status 0 of a full run or a resume means that all stages are ok,   *)
(* and neither ever finds a predecessor missing: with --force or without.  *)
THEOREM SuccessMeansComplete ==
    ASSUME SingleWriter
    PROVE  Spec => [](SuccessIsComplete /\ OrderedEntryNeverLacksPredecessor)
<1>1. Init => Shape /\ Orderly
  BY ShapeInit, OrderlyInit
<1>2. Shape /\ Orderly /\ [Next]_vars => Shape' /\ Orderly'
  BY ShapeNext, OrderlyNext
<1>3. Orderly => SuccessIsComplete /\ OrderedEntryNeverLacksPredecessor
  BY DEF Orderly, InOrder, SuccessIsComplete, OrderedEntryNeverLacksPredecessor
<1> QED
  BY <1>1, <1>2, <1>3, PTL DEF Spec

-----------------------------------------------------------------------------
(* From here on: any number of processes at once, --force or not.  F is    *)
(* what a clean run leaves; every file and every loaded artifact is of F.  *)
FilesOf(F) == \A s \in Stages : file[s] \in Value => file[s] = F[s]
InputsOf(F) ==
    \A p \in Procs, s \in Stages : seen[p][s] # Absent => seen[p][s] = F[s]

LEMMA OfNext ==
    ASSUME NEW c, Configs = {c}, NEW F,
           \A s \in Stages : F[s] = Build(s, c, [r \in Reads(s) |-> F[r]]),
           Shape, FilesOf(F), InputsOf(F), [Next]_vars
    PROVE  FilesOf(F)' /\ InputsOf(F)'
<1> USE DEF Shape
<1>1. CASE UNCHANGED <<file, seen>>
  BY <1>1 DEF FilesOf, InputsOf
<1>2. ASSUME NEW p \in Procs, Load(p), seen' # seen PROVE FilesOf(F)' /\ InputsOf(F)'
  <2>1. PICK r \in Missing(p) :
           file[r] \in Value /\ seen' = [seen EXCEPT ![p][r] = file[r]]
    BY <1>2 DEF Load
  <2>2. r \in Stages /\ file[r] = F[r]
    BY <2>1, ConstantFacts DEF Missing, TypeOK, FilesOf
  <2>3. \A q \in Procs, s \in Stages :
           seen'[q][s] = IF q = p /\ s = r THEN F[r] ELSE seen[q][s]
    BY <2>1, <2>2 DEF TypeOK
  <2> QED
    BY <1>2, <2>3 DEF FilesOf, InputsOf, Load, disk
<1>3. ASSUME NEW p \in Procs, seen' = [seen EXCEPT ![p] = Nothing], file' = file
      PROVE  FilesOf(F)' /\ InputsOf(F)'
  BY <1>3 DEF FilesOf, InputsOf, Nothing, TypeOK
<1>4. ASSUME NEW p \in Procs, OpenFile(p) PROVE FilesOf(F)' /\ InputsOf(F)'
  BY <1>4, ConstantFacts DEF OpenFile, FilesOf, InputsOf, TypeOK
<1>5. ASSUME NEW p \in Procs, FillFile(p) PROVE FilesOf(F)' /\ InputsOf(F)'
  <2>1. /\ stage[p] \in Stages /\ job[p].cfg = c /\ Missing(p) = {}
        /\ target[p] \in stage[p]..LastWrite(stage[p])
    BY <1>5 DEF FillFile, TypeOK, Writing
  <2>2. \A r \in Reads(stage[p]) : seen[p][r] = F[r]
    BY <2>1, ConstantFacts DEF Missing, InputsOf
  <2>3. [r \in Reads(stage[p]) |-> seen[p][r]] = [r \in Reads(stage[p]) |-> F[r]]
    BY <2>2
  <2>4. Result(p) = F[stage[p]]
    BY <2>1, <2>3 DEF Result
  <2>5. target[p] \in Stages => target[p] = stage[p]
    BY <2>1, StagesAssumption DEF LastWrite, GateFile, Stages
  <2>6. \A s \in Stages :
           \/ file'[s] = file[s]
           \/ file'[s] = Torn
           \/ s = stage[p] /\ file'[s] = F[s]
    <3>1. \A s \in Stages : s # target[p] => file'[s] = file[s]
      BY <1>5, ConstantFacts DEF FillFile, TypeOK
    <3>2. target[p] \in Files /\ file'[target[p]] \in {Result(p), Torn}
      BY <1>5 DEF FillFile, TypeOK
    <3> QED
      BY <2>4, <2>5, <3>1, <3>2
  <2> QED
    BY <1>5, <2>6, ConstantFacts DEF FillFile, FilesOf, InputsOf
<1>6. ASSUME NEW p \in Procs, Step(p)
      PROVE  \/ UNCHANGED <<file, seen>> \/ OpenFile(p) \/ FillFile(p)
             \/ Load(p) /\ seen' # seen
             \/ seen' = [seen EXCEPT ![p] = Nothing] /\ file' = file
  BY <1>6 DEF Step, RunStep, Launch, Probe, Check, Require, Load, Computed,
              StageRaises, OpenState, CommitOk, CommitFailed, Crash, Advance, disk
<1> QED
  BY <1>1, <1>2, <1>3, <1>4, <1>5, <1>6 DEF Next, vars

(* However many processes share the directory, with one configuration a    *)
(* file that parses is the file of a clean run.                            *)
THEOREM WholeFilesAreClean ==
    ASSUME NEW c, Configs = {c}, NEW F,
           \A s \in Stages : F[s] = Build(s, c, [r \in Reads(s) |-> F[r]])
    PROVE  Spec => []FilesOf(F)
<1>1. Init => Shape /\ FilesOf(F) /\ InputsOf(F)
  BY ShapeInit, ConstantFacts DEF Init, FilesOf, InputsOf, Nothing
<1>2. Shape /\ FilesOf(F) /\ InputsOf(F) /\ [Next]_vars
        => Shape' /\ FilesOf(F)' /\ InputsOf(F)'
  BY ShapeNext, OfNext
<1> QED
  BY <1>1, <1>2, PTL DEF Spec

-----------------------------------------------------------------------------
(* Fresh is well defined: every stage of a clean run is what Build makes   *)
(* of the clean artifacts it reads.  CHOOSE gives a recursive function its *)
(* equation only if some function satisfies it; that one does is shown by  *)
(* taking the least number of stages for which none would.                 *)
CleanRun(c, n, g) == g = [s \in 1..n |-> Build(s, c, [r \in Reads(s) |-> g[r]])]

LEMMA CleanRunExtends ==
    ASSUME NEW c, NEW n \in 1..NStages, NEW g, CleanRun(c, n - 1, g)
    PROVE  \E h : CleanRun(c, n, h)
<1> DEFINE h == [s \in 1..n |-> IF s = n THEN Build(n, c, [r \in Reads(n) |-> g[r]])
                                         ELSE g[s]]
<1>1. n \in Stages /\ \A s \in 1..n : Reads(s) \subseteq 1..(s - 1)
  BY StagesAssumption, ReadsAssumption DEF Stages
<1>2. \A s \in 1..n : [r \in Reads(s) |-> h[r]] = [r \in Reads(s) |-> g[r]]
  BY <1>1, StagesAssumption
<1>3. \A s \in 1..(n - 1) : g[s] = Build(s, c, [r \in Reads(s) |-> g[r]])
  BY DEF CleanRun
<1>4. \A s \in 1..n : h[s] = Build(s, c, [r \in Reads(s) |-> h[r]])
  <2>1. ASSUME NEW s \in 1..n PROVE h[s] = Build(s, c, [r \in Reads(s) |-> g[r]])
    <3>1. CASE s = n
      BY <3>1
    <3>2. CASE s # n
      <4>1. s \in 1..(n - 1)
        BY <3>2, StagesAssumption
      <4> QED
        BY <1>3, <3>2, <4>1
    <3> QED
      BY <3>1, <3>2
  <2> QED
    BY <1>2, <2>1
<1>5. h = [s \in 1..n |-> h[s]]
  OBVIOUS
<1> HIDE DEF h
<1>6. CleanRun(c, n, h)
  BY <1>4, <1>5 DEF CleanRun
<1> QED
  BY <1>6

LEMMA CleanRunExists ==
    ASSUME NEW c
    PROVE  \E g : CleanRun(c, NStages, g)
<1> DEFINE Stuck == {n \in 0..NStages : ~\E g : CleanRun(c, n, g)}
<1>1. SUFFICES ASSUME Stuck # {} PROVE FALSE
  <2>1. NStages \in 0..NStages
    BY StagesAssumption
  <2> QED
    BY <2>1
<1>2. PICK n \in Stuck : \A m \in Stuck : <<m, n>> \notin OpToRel(<, Nat)
  <2>1. Stuck \subseteq Nat
    BY StagesAssumption
  <2> HIDE DEF Stuck
  <2> QED
    BY <1>1, <2>1, NatLessThanWellFounded, WFMin
<1>3. n # 0
  <2>1. CleanRun(c, 0, [s \in 1..0 |-> 0])
    BY DEF CleanRun
  <2> QED
    BY <1>2, <2>1
<1>4. n \in 1..NStages /\ n - 1 \in 0..NStages /\ n - 1 < n /\ n \in Nat /\ n - 1 \in Nat
  BY <1>3, StagesAssumption
<1>5. <<n - 1, n>> \in OpToRel(<, Nat)
  BY <1>4 DEF OpToRel
<1>6. PICK g : CleanRun(c, n - 1, g)
  BY <1>2, <1>4, <1>5
<1>7. \E h : CleanRun(c, n, h)
  BY <1>4, <1>6, CleanRunExtends
<1> QED
  BY <1>7

LEMMA FreshRecursion ==
    ASSUME NEW c
    PROVE  \A s \in Stages : Fresh(c)[s] = Build(s, c, [r \in Reads(s) |-> Fresh(c)[r]])
<1>1. PICK g : g = [s \in Stages |-> Build(s, c, [r \in Reads(s) |-> g[r]])]
  BY CleanRunExists DEF CleanRun, Stages
<1>2. Fresh(c) = CHOOSE f : f = [s \in Stages |-> Build(s, c, [r \in Reads(s) |-> f[r]])]
  BY Zenon DEF Fresh
<1>3. Fresh(c) = [s \in Stages |-> Build(s, c, [r \in Reads(s) |-> Fresh(c)[r]])]
  BY <1>1, <1>2, Zenon
<1> QED
  BY <1>3, Zenon

(* One configuration, any number of processes.                             *)
THEOREM WholeFilesAreFresh == Spec => []WholeIsFresh
<1>1. CASE \E c : Configs = {c}
  <2>1. PICK c : Configs = {c}
    BY <1>1
  <2>2. \A s \in Stages : Fresh(c)[s] = Build(s, c, [r \in Reads(s) |-> Fresh(c)[r]])
    BY FreshRecursion
  <2>3. PICK F : F = Fresh(c)
    OBVIOUS
  <2>4. \A s \in Stages : F[s] = Build(s, c, [r \in Reads(s) |-> F[r]])
    BY <2>2, <2>3
  <2>5. Spec => []FilesOf(F)
    BY <2>1, <2>4, WholeFilesAreClean
  <2>6. FilesOf(F) => WholeIsFresh
    BY <2>1, <2>3 DEF FilesOf, WholeIsFresh
  <2> QED
    BY <2>5, <2>6, PTL
<1>2. CASE ~\E c : Configs = {c}
  <2>1. WholeIsFresh
    BY <1>2 DEF WholeIsFresh
  <2> QED
    BY <2>1, PTL
<1> QED
  BY <1>1, <1>2

-----------------------------------------------------------------------------
(* One process at a time, --force or not.  A full run with --force has     *)
(* renewed every stage it has passed: the directory may hold anything      *)
(* beyond, but nothing of it is read before it is written anew.            *)
Renewed(p, n) == \A t \in 1..n : file[t] = Fresh(job[p].cfg)[t]

Renewing(p) ==
    job[p].mode = "full" /\ job[p].force =>
        LET s == stage[p]
            F == Fresh(job[p].cfg)
        IN  /\ pc[p] # "probe"
            /\ pc[p] \in {"check", "require"} => seen[p] = Nothing
            /\ pc[p] \in {"check", "require"} \cup Inside => Renewed(p, s - 1)
            /\ pc[p] \in Inside =>
                  \A r \in Reads(s) : seen[p][r] # Absent => seen[p][r] = F[r]
            /\ pc[p] = "fill" => file[target[p]] = Torn
            /\ pc[p] \in {"open", "fill"} =>
                  \A f \in s..(target[p] - 1) : file[f] = F[s]
            /\ pc[p] \in {"commit", "commit_fill"} =>
                  \A f \in s..LastWrite(s) : file[f] = F[s]
            /\ pc[p] = "done" =>
                  /\ Renewed(p, NStages)
                  /\ file[RoadFile] = F[NStages] /\ file[GateFile] = F[NStages]

(* What a process computes from fresh artifacts is fresh.                  *)
LEMMA ResultIsFresh ==
    ASSUME TypeOK, NEW p \in Procs, Missing(p) = {},
           \A r \in Reads(stage[p]) : seen[p][r] # Absent =>
               seen[p][r] = Fresh(job[p].cfg)[r]
    PROVE  Result(p) = Fresh(job[p].cfg)[stage[p]]
<1>1. \A r \in Reads(stage[p]) : seen[p][r] = Fresh(job[p].cfg)[r]
  BY DEF Missing
<1>2. [r \in Reads(stage[p]) |-> seen[p][r]]
         = [r \in Reads(stage[p]) |-> Fresh(job[p].cfg)[r]]
  BY <1>1
<1>3. stage[p] \in Stages
  BY DEF TypeOK
<1> QED
  BY <1>2, <1>3, FreshRecursion, Zenon DEF Result

(* Every step of a forced full run, and every launch of one.               *)
LEMMA RenewingStep ==
    ASSUME Shape, Orderly, NEW p \in Procs, Renewing(p), Step(p)
    PROVE  Renewing(p)'
<1> USE DEF Shape
<1> DEFINE s == stage[p]
           F == Fresh(job[p].cfg)
<1>1. s \in Stages /\ last[p] \in Stages /\ NStages \in Nat \ {0} /\ s \in Nat
  BY StagesAssumption DEF TypeOK, Stages
<1>2. CASE Launch(p)
  <2>1. PICK m \in Modes, s0 \in Stages :
           /\ m # "stage" => s0 = 1
           /\ job'[p].mode = m /\ stage'[p] = s0 /\ pc'[p] = EntryPc(m)
    BY <1>2 DEF Launch, TypeOK
  <2>2. seen'[p] = Nothing
    BY <1>2 DEF Launch, TypeOK
  <2>3. job'[p].mode = "full" => pc'[p] = "check" /\ stage'[p] = 1
    BY <2>1 DEF EntryPc
  <2>4. job'[p].mode = "full" => Renewed(p, stage[p] - 1)'
    BY <2>3 DEF Renewed
  <2> QED
    BY <2>2, <2>3, <2>4 DEF Renewing, Inside
<1>3. SUFFICES ASSUME ~Launch(p), UNCHANGED job, job[p].mode = "full", job[p].force
               PROVE  Renewing(p)'
  <2>1. ~Launch(p) => UNCHANGED job
    BY DEF Step, RunStep, Probe, Check, Require, Load, Computed, OpenFile, FillFile,
           StageRaises, OpenState, CommitOk, CommitFailed, Crash, Goto, Advance
  <2> QED
    BY <1>2, <2>1 DEF Renewing
<1>4. /\ pc[p] # "probe"
      /\ pc[p] \in {"check", "require"} => seen[p] = Nothing
      /\ pc[p] \in {"check", "require"} \cup Inside => Renewed(p, s - 1)
      /\ pc[p] \in Inside => \A r \in Reads(s) : seen[p][r] # Absent => seen[p][r] = F[r]
      /\ pc[p] = "fill" => file[target[p]] = Torn
      /\ pc[p] \in {"open", "fill"} => \A f \in s..(target[p] - 1) : file[f] = F[s]
      /\ pc[p] \in {"commit", "commit_fill"} => \A f \in s..LastWrite(s) : file[f] = F[s]
  BY <1>3 DEF Renewing
<1>5. ASSUME UNCHANGED <<file, stage, seen>>,
             \/ pc'[p] \in {"state_error", "stage_error", "require_error", "crashed"}
             \/ pc[p] \in Inside /\ pc'[p] = "raise"
             \/ pc[p] = "check" /\ pc'[p] = "require"
             \/ pc[p] = "raise" /\ pc'[p] = "raise_fill"
             \/ pc[p] = "commit" /\ pc'[p] = "commit_fill"
      PROVE  Renewing(p)'
  <2>1. Renewed(p, s - 1) => Renewed(p, s - 1)'
    BY <1>3, <1>5 DEF Renewed
  <2> QED
    BY <1>3, <1>4, <1>5, <2>1 DEF Renewing, Inside
<1>6. CASE Probe(p)
  BY <1>4, <1>6 DEF Probe
<1>7. CASE Check(p)
  <2>1. (Goto(p, "state_error") \/ Goto(p, "require")) /\ UNCHANGED <<disk, seen>>
    BY <1>3, <1>7 DEF Check
  <2> QED
    BY <1>5, <1>7, <2>1 DEF Check, Goto, disk, TypeOK
<1>8. CASE Require(p)
  <2>1. CASE Goto(p, "run")
    <3>1. pc'[p] = "run" /\ UNCHANGED <<file, stage, seen>> /\ pc[p] = "require"
      BY <1>8, <2>1 DEF Require, Goto, disk, TypeOK
    <3>2. \A r \in Reads(s) : seen[p][r] = Absent
      BY <1>1, <1>4, <3>1, ConstantFacts DEF Nothing
    <3>3. Renewed(p, s - 1)'
      BY <1>3, <1>4, <3>1 DEF Renewed
    <3> QED
      BY <1>3, <3>1, <3>2, <3>3 DEF Renewing
  <2>2. CASE Goto(p, "state_error") \/ Goto(p, "require_error")
    BY <1>5, <1>8, <2>2 DEF Require, Goto, disk, TypeOK
  <2> QED
    BY <1>8, <2>1, <2>2 DEF Require
<1>9. CASE Load(p)
  <2>1. PICK r \in Missing(p) :
           \/ file[r] \in Value /\ seen' = [seen EXCEPT ![p][r] = file[r]]
              /\ Goto(p, "run") /\ UNCHANGED target
           \/ Goto(p, "raise") /\ UNCHANGED <<seen, target>>
    BY <1>9 DEF Load
  <2>2. pc[p] = "run" /\ UNCHANGED <<file, stage>>
    BY <1>9, <2>1 DEF Load, Goto, disk
  <2>3. CASE Goto(p, "raise") /\ UNCHANGED <<seen, target>>
    BY <1>5, <2>2, <2>3 DEF Goto, TypeOK, Inside
  <2>4. CASE seen' = [seen EXCEPT ![p][r] = file[r]] /\ Goto(p, "run")
    <3>1. r \in Stages /\ r \in 1..(s - 1) /\ r \in Reads(s)
      BY <1>1, ReadsAssumption, ConstantFacts DEF Missing
    <3>2. file[r] = F[r]
      BY <1>4, <2>2, <3>1 DEF Renewed, Inside
    <3>3. \A x \in Reads(s) : seen'[p][x] # Absent => seen'[p][x] = F[x]
      BY <1>1, <1>4, <2>2, <2>4, <3>1, <3>2, ConstantFacts DEF TypeOK, Inside
    <3>4. Renewed(p, s - 1)'
      BY <1>3, <1>4, <2>2 DEF Renewed, Inside
    <3>5. pc'[p] = "run"
      BY <2>4 DEF Goto, TypeOK
    <3> QED
      BY <1>3, <2>2, <3>3, <3>4, <3>5 DEF Renewing
  <2> QED
    BY <2>1, <2>3, <2>4
<1>10. CASE Computed(p)
  <2>1. /\ pc'[p] = "open" /\ target'[p] = s /\ pc[p] = "run"
        /\ UNCHANGED <<file, stage, seen>>
    BY <1>10 DEF Computed, Goto, disk, TypeOK
  <2>2. s..(s - 1) = {}
    BY <1>1
  <2>3. Renewed(p, s - 1)'
    BY <1>3, <1>4, <2>1 DEF Renewed, Inside
  <2> QED
    BY <1>3, <1>4, <2>1, <2>2, <2>3 DEF Renewing, Inside
<1>11. ASSUME pc[p] \in {"open", "fill"}, UNCHANGED <<stage, seen>>,
              \A f \in Files : f # target[p] => file'[f] = file[f]
       PROVE  /\ Renewed(p, s - 1)'
              /\ \A f \in s..(target[p] - 1) : file'[f] = F[s]
  <2>1. target[p] \in s..LastWrite(s) /\ target[p] \in Files
    BY <1>11 DEF Writing, TypeOK
  <2>2. \A f \in 1..(target[p] - 1) : f \in Files /\ f # target[p]
    BY <1>1, <2>1 DEF Files
  <2>3. \A t \in 1..(s - 1) : t \in 1..(target[p] - 1)
    BY <1>1, <2>1 DEF Files
  <2>4. \A t \in s..(target[p] - 1) : t \in 1..(target[p] - 1)
    BY <1>1, <2>1 DEF Files, Stages
  <2> QED
    BY <1>3, <1>4, <1>11, <2>2, <2>3, <2>4 DEF Renewed, Inside
<1>12. CASE OpenFile(p)
  <2>1. /\ pc[p] = "open" /\ pc'[p] = "fill" /\ UNCHANGED <<stage, seen, target>>
        /\ file' = [file EXCEPT ![target[p]] = Torn] /\ target[p] \in Files
    BY <1>12 DEF OpenFile, Goto, TypeOK
  <2>2. file'[target[p]] = Torn /\ \A f \in Files : f # target[p] => file'[f] = file[f]
    BY <2>1 DEF TypeOK
  <2> QED
    BY <1>3, <1>4, <1>11, <2>1, <2>2 DEF Renewing, Inside
<1>13. CASE FillFile(p)
  <2>1. /\ pc[p] = "fill" /\ UNCHANGED <<stage, seen>> /\ target[p] \in Files
        /\ file' = [file EXCEPT ![target[p]] = Result(p)]
        /\ target[p] \in s..LastWrite(s) /\ Missing(p) = {}
    BY <1>4, <1>13 DEF FillFile, Goto, TypeOK, Writing
  <2>2. Result(p) = F[s]
    BY <1>4, <2>1, ResultIsFresh DEF Inside
  <2>3. /\ \A f \in Files : f # target[p] => file'[f] = file[f]
        /\ file'[target[p]] = F[s]
    BY <2>1, <2>2 DEF TypeOK
  <2>4. \A f \in s..target[p] : f = target[p] \/ f \in s..(target[p] - 1)
    BY <1>1, <2>1 DEF Files
  <2>5. Renewed(p, s - 1)' /\ \A f \in s..target[p] : file'[f] = F[s]
    BY <1>11, <2>1, <2>3, <2>4
  <2>6. CASE target[p] = LastWrite(s) /\ Goto(p, "commit")
    <3>1. pc'[p] = "commit"
      BY <2>6 DEF Goto, TypeOK
    <3> QED
      BY <1>3, <1>4, <2>1, <2>5, <2>6, <3>1 DEF Renewing, Inside
  <2>7. CASE Goto(p, "open") /\ target' = [target EXCEPT ![p] = @ + 1]
    <3>1. pc'[p] = "open" /\ target'[p] - 1 = target[p]
      BY <2>1, <2>7 DEF Goto, TypeOK, Files
    <3> QED
      BY <1>3, <1>4, <2>1, <2>5, <3>1 DEF Renewing, Inside
  <2> QED
    BY <1>13, <2>6, <2>7 DEF FillFile
<1>14. CASE StageRaises(p) \/ Crash(p) \/ CommitFailed(p)
  BY <1>5, <1>14 DEF StageRaises, Crash, CommitFailed, Goto, TypeOK, disk, Inside
<1>15. CASE OpenState(p)
  BY <1>5, <1>15 DEF OpenState, Goto, TypeOK
<1>16. CASE CommitOk(p)
  <2>1. pc[p] = "commit_fill" /\ Advance(p) /\ UNCHANGED file
    BY <1>16 DEF CommitOk
  <2>2. s \in s..LastWrite(s) /\ \A f \in s..LastWrite(s) : file[f] = F[s]
    BY <1>1, <1>4, <2>1, ConstantFacts DEF LastWrite, GateFile
  <2>3. \A t \in 1..s : file[t] = F[t]
    <3>1. \A t \in 1..s : t \in 1..(s - 1) \/ t = s
      BY <1>1
    <3> QED
      BY <1>4, <2>1, <2>2, <3>1 DEF Renewed, Inside
  <2>4. last[p] = NStages
    BY <1>3 DEF Orderly, InOrder
  <2>5. CASE s = NStages
    <3>1. pc'[p] = "done" /\ stage'[p] = s
      BY <2>1, <2>4, <2>5 DEF Advance, TypeOK
    <3>2. RoadFile \in s..LastWrite(s) /\ GateFile \in s..LastWrite(s)
      BY <1>1, <2>5 DEF LastWrite, RoadFile, GateFile
    <3> QED
      BY <1>3, <2>1, <2>2, <2>3, <2>5, <3>1, <3>2 DEF Renewing, Renewed, Inside
  <2>6. CASE s # NStages
    <3>1. pc'[p] = "check" /\ stage'[p] = s + 1 /\ seen'[p] = Nothing
      BY <1>3, <2>1, <2>4, <2>6 DEF Advance, TypeOK, EntryPc
    <3>2. stage'[p] - 1 = s
      BY <1>1, <3>1
    <3>3. Renewed(p, stage[p] - 1)'
      BY <1>3, <2>1, <2>3, <3>2 DEF Renewed
    <3> QED
      BY <1>3, <3>1, <3>3 DEF Renewing, Inside
  <2> QED
    BY <2>5, <2>6
<1> QED
  BY <1>2, <1>6, <1>7, <1>8, <1>9, <1>10, <1>12, <1>13, <1>14, <1>15, <1>16
     DEF Step, RunStep

(* A full run with --force that exits 0 leaves what a clean run leaves,    *)
(* whatever earlier invocations, also crashed ones, had left.              *)
THEOREM ForcedRunIsFresh ==
    ASSUME SingleWriter
    PROVE  Spec => []ForcedFullIsFresh
<1> DEFINE Inv == Shape /\ Orderly /\ \A p \in Procs : Renewing(p)
<1>1. Init => Inv
  <2>1. Init => \A p \in Procs : pc[p] = "idle" /\ ~job[p].force
    BY DEF Init
  <2> QED
    BY <2>1, ShapeInit, OrderlyInit DEF Renewing, Inside
<1>2. Inv /\ [Next]_vars => Inv'
  <2> SUFFICES ASSUME Inv, [Next]_vars PROVE Inv'
    OBVIOUS
  <2>1. Shape' /\ Orderly'
    BY ShapeNext, OrderlyNext
  <2>2. ASSUME NEW p \in Procs PROVE Renewing(p)'
    <3>1. CASE UNCHANGED vars
      BY <2>2, <3>1 DEF vars, Renewing, Renewed
    <3>2. ASSUME NEW q \in Procs, Step(q) PROVE Renewing(p)'
      BY <2>2, <3>2, RenewingStep DEF SingleWriter
    <3> QED
      BY <3>1, <3>2 DEF Next
  <2> QED
    BY <2>1, <2>2
<1>3. Inv => ForcedFullIsFresh
  <2> SUFFICES ASSUME Inv, NEW p \in Procs, pc[p] = "done",
                      job[p].mode = "full", job[p].force
               PROVE  /\ \A s \in Stages : state[s] = "ok" /\ file[s] = Fresh(job[p].cfg)[s]
                      /\ file[RoadFile] = file[NStages] /\ file[GateFile] = file[NStages]
    BY DEF ForcedFullIsFresh
  <2>1. \A s \in Stages : state[s] = "ok"
    BY DEF Orderly, InOrder
  <2>2. /\ \A t \in 1..NStages : file[t] = Fresh(job[p].cfg)[t]
        /\ file[RoadFile] = Fresh(job[p].cfg)[NStages]
        /\ file[GateFile] = Fresh(job[p].cfg)[NStages]
    BY DEF Renewing, Renewed
  <2> QED
    BY <2>1, <2>2, StagesAssumption DEF Stages
<1> HIDE DEF Inv
<1> QED
  BY <1>1, <1>2, <1>3, PTL DEF Spec
=============================================================================
