--------------------------- MODULE StagePipeline ---------------------------
(***************************************************************************)
(* The stage runner of t05_topology_between_rc_v2: run_stage and           *)
(* run_full_pipeline (runner.py), the file helpers they use (io.py and     *)
(* pipeline.py) and the shell script that resumes an interrupted patch.    *)
(*                                                                         *)
(* One patch directory is modelled.  Every stage leaves an artifact and a  *)
(* step_state.json; the last one also Road.geojson and gate.json.  A file  *)
(* is written in place: it is truncated first and filled afterwards, so a  *)
(* process that dies in between leaves text that no JSON parser accepts    *)
(* ("Torn").  Nothing is ever locked, renamed or deleted.                  *)
(*                                                                         *)
(* What a stage computes is abstracted to Build: a stage is a function of  *)
(* the configuration of the invocation (data_root and parameters) and of   *)
(* the artifacts it loads.                                                 *)
(***************************************************************************)
EXTENDS Integers

CONSTANTS
    NStages,        \* number of stages; the code has six
    Reads(_),       \* Reads(s): the earlier stages whose artifact s loads
    Configs,        \* what a launch may be given: data_root and parameters
    Value,          \* what a file may hold when it parses
    Build(_, _, _), \* Build(s, c, in): what stage s computes
    Absent, Torn,   \* a file that does not exist; one that does not parse
    Procs,          \* operating-system processes
    Modes,          \* the entry points in use, among "full", "stage", "resume"
    Forces,         \* the values of --force in use
    MaxLaunches     \* bound on the number of launches

Stages == 1..NStages

ASSUME StagesAssumption == NStages \in Nat \ {0}
ASSUME ReadsAssumption == \A s \in Stages : Reads(s) \subseteq 1..(s - 1)
ASSUME FileAssumption ==
    Absent # Torn /\ Absent \notin Value /\ Torn \notin Value
ASSUME BuildAssumption ==
    \A s \in Stages, c \in Configs :
        \A in \in [Reads(s) -> Value] : Build(s, c, in) \in Value
ASSUME LaunchAssumption ==
    /\ Modes \subseteq {"full", "stage", "resume"}
    /\ Forces \subseteq BOOLEAN
    /\ MaxLaunches \in Nat

(* Files 1..NStages are the artifacts, the two after them the published    *)
(* road outputs of the last stage.                                         *)
RoadFile == NStages + 1
GateFile == NStages + 2
Files == 1..(NStages + 2)
LastWriteNoGate(s) == IF s = NStages THEN RoadFile ELSE s     \* mutant
LastWrite(s) == IF s = NStages THEN GateFile ELSE s

VARIABLES
    file,       \* file[f]: Absent, Torn or a Value
    state,      \* state[s]: step_state.json, "absent", "torn", "failed", "ok"
    pc,         \* where a process is
    job,        \* what it was launched as: entry point, force, configuration
    stage,      \* the stage it is at
    last,       \* the stage it stops after
    seen,       \* the artifacts it has loaded for its stage
    target,     \* the file it writes next
    launches,   \* launches so far
    forced      \* whether --force was ever given

vars == <<file, state, pc, job, stage, last, seen, target, launches, forced>>
disk == <<file, state>>

Nothing == [r \in Stages |-> Absent]
Ended == {"idle", "done", "crashed", "stage_error", "state_error",
          "require_error"}
Working == {"probe", "check", "require", "run", "open", "fill",
            "commit", "commit_fill", "raise", "raise_fill"}

TypeOK ==
    /\ file \in [Files -> Value \cup {Absent, Torn}]
    /\ state \in [Stages -> {"absent", "torn", "failed", "ok"}]
    /\ pc \in [Procs -> Ended \cup Working]
    /\ job \in [Procs -> [mode : {"full", "stage", "resume"},
                          force : BOOLEAN, cfg : Configs]]
    /\ stage \in [Procs -> Stages]
    /\ last \in [Procs -> Stages]
    /\ seen \in [Procs -> [Stages -> Value \cup {Absent}]]
    /\ target \in [Procs -> Files]
    /\ launches \in Nat
    /\ forced \in BOOLEAN

Init ==
    /\ file = [f \in Files |-> Absent]
    /\ state = [s \in Stages |-> "absent"]
    /\ pc = [p \in Procs |-> "idle"]
    /\ \E c \in Configs :
          job = [p \in Procs |-> [mode |-> "full", force |-> FALSE, cfg |-> c]]
    /\ stage = [p \in Procs |-> 1]
    /\ last = [p \in Procs |-> NStages]
    /\ seen = [p \in Procs |-> Nothing]
    /\ target = [p \in Procs |-> 1]
    /\ launches = 0
    /\ forced = FALSE

-----------------------------------------------------------------------------
(* Launching.  "full" and "stage" enter run_stage at once; "resume" looks  *)
(* at step_state.json first and starts run.py only for a stage not ok.     *)

EntryPc(m) == IF m = "resume" THEN "probe" ELSE "check"

Launch(p) ==
    /\ pc[p] \in Ended
    /\ launches < MaxLaunches
    /\ launches' = launches + 1
    /\ \E m \in Modes, force \in Forces, c \in Configs, s \in Stages :
          /\ m # "stage" => s = 1
          /\ job' = [job EXCEPT ![p] = [mode |-> m, force |-> force, cfg |-> c]]
          /\ stage' = [stage EXCEPT ![p] = s]
          /\ last' = [last EXCEPT ![p] = IF m = "stage" THEN s ELSE NStages]
          /\ pc' = [pc EXCEPT ![p] = EntryPc(m)]
          /\ forced' = (forced \/ force)
    /\ seen' = [seen EXCEPT ![p] = Nothing]
    /\ target' = [target EXCEPT ![p] = 1]
    /\ UNCHANGED disk

(* The stage at hand is over: go on with the next one, or end.             *)
Advance(p) ==
    /\ pc' = [pc EXCEPT ![p] = IF stage[p] = last[p] THEN "done"
                                                     ELSE EntryPc(job[p].mode)]
    /\ stage' = [stage EXCEPT ![p] = IF @ = last[p] THEN @ ELSE @ + 1]
    /\ seen' = [seen EXCEPT ![p] = Nothing]
    /\ UNCHANGED <<job, last, target, launches, forced>>

Goto(p, l) ==
    /\ pc' = [pc EXCEPT ![p] = l]
    /\ UNCHANGED <<job, stage, last, launches, forced>>

(* run_if_needed: an unreadable state file counts as "not ok".             *)
Probe(p) ==
    /\ pc[p] = "probe"
    /\ UNCHANGED disk
    /\ \/ state[stage[p]] = "ok" /\ Advance(p)
       \/ state[stage[p]] # "ok" /\ Goto(p, "check") /\ UNCHANGED <<seen, target>>

-----------------------------------------------------------------------------
(* run_stage up to the call of the stage function.                         *)

CheckIgnoresForce(p) == \* mutant: --force is not handed down
    /\ pc[p] = "check"
    /\ UNCHANGED disk
    /\ \/ state[stage[p]] = "torn" /\ Goto(p, "state_error") /\ UNCHANGED <<seen, target>>
       \/ state[stage[p]] = "ok" /\ Advance(p)
       \/ /\ state[stage[p]] \in {"absent", "failed"}
          /\ Goto(p, "require") /\ UNCHANGED <<seen, target>>

(* The state of the stage itself is read before --force is looked at, and  *)
(* outside the try block: text that does not parse ends the process.       *)
Check(p) ==
    /\ pc[p] = "check"
    /\ UNCHANGED disk
    /\ \/ /\ state[stage[p]] = "torn"
          /\ Goto(p, "state_error") /\ UNCHANGED <<seen, target>>
       \/ /\ state[stage[p]] = "ok" /\ ~job[p].force
          /\ Advance(p)
       \/ /\ \/ state[stage[p]] \in {"absent", "failed"}
             \/ state[stage[p]] = "ok" /\ job[p].force
          /\ Goto(p, "require") /\ UNCHANGED <<seen, target>>

PreviousReadyNoState(s) == \* mutant: the artifact is enough
    s > 1 => file[s - 1] # Absent

(* _require_previous_stage.  The artifact is only tested for existence.    *)
PreviousReady(s) ==
    s > 1 => state[s - 1] = "ok" /\ file[s - 1] # Absent

Require(p) ==
    /\ pc[p] = "require"
    /\ LET s == stage[p] IN
       \/ PreviousReady(s) /\ Goto(p, "run")
       \/ s # 1 /\ state[s - 1] = "torn" /\ Goto(p, "state_error")
       \/ ~PreviousReady(s) /\ state[s - 1] # "torn" /\ Goto(p, "require_error")
    /\ UNCHANGED <<disk, seen, target>>

-----------------------------------------------------------------------------
(* The stage function: load the artifacts it reads in stage order, compute *)
(* and write its own files one after the other.                            *)

MissingReadable(p) == \* mutant: an unreadable artifact is passed over
    {r \in Reads(stage[p]) : seen[p][r] = Absent /\ file[r] \in Value}
Missing(p) == {r \in Reads(stage[p]) : seen[p][r] = Absent}

(* _load_stage_payload of the next artifact; one that is absent or torn    *)
(* raises.                                                                 *)
Load(p) ==
    /\ pc[p] = "run"
    /\ UNCHANGED disk
    /\ \E r \in Missing(p) :
          /\ \A q \in Missing(p) : r <= q
          /\ \/ /\ file[r] \in Value
                /\ seen' = [seen EXCEPT ![p][r] = file[r]]
                /\ Goto(p, "run") /\ UNCHANGED target
             \/ /\ file[r] \notin Value
                /\ Goto(p, "raise") /\ UNCHANGED <<seen, target>>

Computed(p) ==
    /\ pc[p] = "run"
    /\ Missing(p) = {}
    /\ target' = [target EXCEPT ![p] = stage[p]]
    /\ Goto(p, "open")
    /\ UNCHANGED <<disk, seen>>

Result(p) == Build(stage[p], job[p].cfg, [r \in Reads(stage[p]) |-> seen[p][r]])

(* write_json, first half: Path.write_text truncates the file.             *)
OpenFile(p) ==
    /\ pc[p] = "open"
    /\ file' = [file EXCEPT ![target[p]] = Torn]
    /\ Goto(p, "fill")
    /\ UNCHANGED <<state, seen, target>>

(* write_json, second half.  Where another process has filled the file     *)
(* since this one truncated it, the tail of the longer text may remain.    *)
FillFile(p) ==
    /\ pc[p] = "fill"
    /\ \/ file' = [file EXCEPT ![target[p]] = Result(p)]
       \/ file[target[p]] # Torn /\ file' = [file EXCEPT ![target[p]] = Torn]
    /\ IF target[p] = LastWrite(stage[p])
       THEN Goto(p, "commit") /\ UNCHANGED target
       ELSE Goto(p, "open") /\ target' = [target EXCEPT ![p] = @ + 1]
    /\ UNCHANGED <<state, seen>>

(* Any exception of the stage function: bad data, a lookup that fails, an  *)
(* I/O error in the middle of a file.                                      *)
StageRaises(p) ==
    /\ pc[p] \in {"run", "open", "fill"}
    /\ Goto(p, "raise")
    /\ UNCHANGED <<disk, seen, target>>

-----------------------------------------------------------------------------
(* write_step_state, and what run_stage does after it.                     *)

OpenState(p) ==
    /\ \/ pc[p] = "commit" /\ Goto(p, "commit_fill")
       \/ pc[p] = "raise" /\ Goto(p, "raise_fill")
    /\ state' = [state EXCEPT ![stage[p]] = "torn"]
    /\ UNCHANGED <<file, seen, target>>

WriteState(p, outcome) ==
    \/ state' = [state EXCEPT ![stage[p]] = outcome]
    \/ state[stage[p]] # "torn" /\ state' = [state EXCEPT ![stage[p]] = "torn"]

CommitOk(p) ==
    /\ pc[p] = "commit_fill"
    /\ WriteState(p, "ok")
    /\ Advance(p)
    /\ UNCHANGED file

CommitFailedRetries(p) == \* mutant: a failed stage is tried again at once
    /\ pc[p] = "raise_fill"
    /\ WriteState(p, "failed")
    /\ Goto(p, "check")
    /\ UNCHANGED <<file, seen, target>>

CommitFailed(p) ==
    /\ pc[p] = "raise_fill"
    /\ WriteState(p, "failed")
    /\ Goto(p, "stage_error")
    /\ UNCHANGED <<file, seen, target>>

(* The process dies: killed, out of memory, machine lost.                  *)
Crash(p) ==
    /\ pc[p] \in Working
    /\ Goto(p, "crashed")
    /\ UNCHANGED <<disk, seen, target>>

-----------------------------------------------------------------------------
RunStep(p) ==
    \/ Probe(p) \/ Check(p) \/ Require(p)
    \/ Load(p) \/ Computed(p) \/ OpenFile(p) \/ FillFile(p) \/ StageRaises(p)
    \/ OpenState(p) \/ CommitOk(p) \/ CommitFailed(p)

Step(p) == Launch(p) \/ RunStep(p) \/ Crash(p)

Next == \E p \in Procs : Step(p)

Spec == Init /\ [][Next]_vars

(* The operating system runs a process that has something to do.  Nobody   *)
(* is obliged to launch one, and no process is obliged to crash.           *)
Fairness == \A p \in Procs : WF_vars(RunStep(p))
FairSpec == Spec /\ Fairness

-----------------------------------------------------------------------------
(* What a patch directory promises its reader.                             *)

ArtifactsAreCurrent ==
    \A s \in Stages : state[s] = "ok" =>
        /\ \E c \in Configs :
              file[s] = Build(s, c, [r \in Reads(s) |-> file[r]])
        /\ s = NStages => file[RoadFile] = file[s] /\ file[GateFile] = file[s]

(* Without --force a stage recorded as ok left a whole artifact, computed  *)
(* from the artifacts that lie in the directory now; for the last stage    *)
(* the two published files hold that same result.                          *)
OkIsCurrent == ~forced => ArtifactsAreCurrent

(* Stages complete in order: no stage is ok before one it follows.         *)
OkIsPrefix ==
    \A s, t \in Stages : t < s /\ state[s] = "ok" => state[t] = "ok"

(* An invocation that goes through all stages and exits 0 leaves every     *)
(* stage ok, whatever crashes, failed and forced attempts came before it.  *)
SuccessIsComplete ==
    \A p \in Procs : pc[p] = "done" /\ job[p].mode # "stage" =>
        \A s \in Stages : state[s] = "ok"

(* Without --force a completed stage is final: neither its state nor its   *)
(* artifact is touched again.                                              *)
CompletedIsFinal ==
    [][~forced' => \A s \in Stages : state[s] = "ok" =>
          state'[s] = "ok" /\ file'[s] = file[s]]_vars

(* Only a single-stage invocation can find its predecessor missing or      *)
(* failed; "full" and "resume" never get that far out of order.            *)
OrderedEntryNeverLacksPredecessor ==
    \A p \in Procs : pc[p] = "require_error" => job[p].mode = "stage"

(* The artifacts of one clean run with configuration c.                    *)
Fresh(c) ==
    LET f[s \in Stages] == Build(s, c, [r \in Reads(s) |-> f[r]]) IN f

(* A full run with --force that exits 0 leaves what a clean run with its   *)
(* own configuration leaves, whatever mixture it found.                    *)
ForcedFullIsFresh ==
    \A p \in Procs : pc[p] = "done" /\ job[p].mode = "full" /\ job[p].force =>
        /\ \A s \in Stages : state[s] = "ok" /\ file[s] = Fresh(job[p].cfg)[s]
        /\ file[RoadFile] = file[NStages] /\ file[GateFile] = file[NStages]

(* Whatever processes run at the same time, with one configuration a file  *)
(* that parses is the file of a clean run: no stage ever computes from a   *)
(* half-written artifact.                                                  *)
WholeIsFresh ==
    \A c \in Configs, s \in Stages : Configs = {c} /\ file[s] \in Value =>
        file[s] = Fresh(c)[s]

(* No invocation runs, or waits, for ever.                                 *)
EveryLaunchEnds ==
    \A p \in Procs : (pc[p] \in Working) ~> (pc[p] \in Ended)

(* Stated by a document, not met by the code.                              *)

(* "t05v2_resume.sh must be able to continue from the existing stage       *)
(* states": a resume does not end because a state file is unreadable.      *)
ResumeContinues ==
    \A p \in Procs : job[p].mode = "resume" => pc[p] # "state_error"

-----------------------------------------------------------------------------
(* Why OkIsCurrent holds with one process at a time and without --force:   *)
(* the part of the directory below the stage at hand is complete and is    *)
(* not written to, and what the process has loaded is what lies there.     *)

Inside == {"run", "open", "fill", "commit", "commit_fill", "raise", "raise_fill"}

AllOkBelow(s) == \A t \in 1..(s - 1) : state[t] = "ok"

(* The stage at hand is not complete, all before it are; what was loaded   *)
(* is current, what was written is the result.                             *)
Attempt(p) ==
    LET s == stage[p] IN
    /\ ~job[p].force
    /\ pc[p] \in {"probe", "check", "require"} => seen[p] = Nothing
    /\ pc[p] = "require" => state[s] # "ok"
    /\ pc[p] \in Inside =>
          /\ state[s] # "ok" /\ AllOkBelow(s)
          /\ \A r \in Reads(s) : seen[p][r] # Absent => seen[p][r] = file[r]
    /\ pc[p] = "fill" => file[target[p]] = Torn
    /\ pc[p] \in {"open", "fill"} =>
          \A f \in s..(target[p] - 1) : file[f] = Result(p)
    /\ pc[p] \in {"commit", "commit_fill"} =>
          Missing(p) = {} /\ \A f \in s..LastWrite(s) : file[f] = Result(p)
    /\ pc[p] \in {"commit_fill", "raise_fill"} => state[s] = "torn"

OkIsWhole == \A s \in Stages : state[s] = "ok" => file[s] \in Value

Settled ==
    /\ OkIsWhole /\ OkIsPrefix /\ ArtifactsAreCurrent
    /\ \A p \in Procs : Attempt(p)

(* Nothing is claimed once --force was given.                              *)
Coherent == forced \/ Settled

-----------------------------------------------------------------------------
(* The ledger that the directory implements until --force is given.        *)
Recorded == [s \in Stages |-> IF state[s] = "ok" THEN file[s] ELSE Absent]
Ledger == INSTANCE StageLedger WITH ledger <- Recorded
ImplementsLedger == Ledger!Spec
=============================================================================
