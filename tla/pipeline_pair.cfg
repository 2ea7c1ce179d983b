SPECIFICATION FairSpec
CONSTANTS
    NStages = 3
    Reads <- AllBefore
    Configs = {c1}
    Value <- SignedValue
    Build <- SignedBuild
    Absent = Absent
    Torn = Torn
    Procs = {p1, p2}
    Modes = {"full", "stage", "resume"}
    Forces = {FALSE, TRUE}
    MaxLaunches = 2
INVARIANTS WholeIsFresh
PROPERTIES EveryLaunchEnds
CHECK_DEADLOCK FALSE
