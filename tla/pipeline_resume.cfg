SPECIFICATION Spec
CONSTANTS
    NStages = 6
    Reads <- StageReads
    Configs = {c1, c2}
    Value <- MCValue
    Build <- MCBuild
    Absent = Absent
    Torn = Torn
    Procs = {p1}
    Modes = {"full", "stage", "resume"}
    Forces = {FALSE, TRUE}
    MaxLaunches = 3
INVARIANTS OkIsCurrent ForcedFullIsFresh
PROPERTIES ImplementsLedger
CHECK_DEADLOCK FALSE
