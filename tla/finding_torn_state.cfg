SPECIFICATION Spec
CONSTANTS
    NStages = 6
    Reads <- StageReads
    Configs = {c1}
    Value <- MCValue
    Build <- MCBuild
    Absent = Absent
    Torn = Torn
    Procs = {p1}
    Modes = {"full", "resume"}
    Forces = {FALSE}
    MaxLaunches = 2
INVARIANTS ResumeContinues
CHECK_DEADLOCK FALSE
