SPECIFICATION BothSpec
CONSTANTS
    Patches = {1, 2, 3}
    Name <- MCName
    Rel <- MCRel
    Truth <- MCTruth
    Absent = Absent
    Torn = Torn
    Later = {1}
    Cfgs = {c1, c2}
    Resumes = {TRUE, FALSE}
    Verifies = {TRUE,FALSE}
    MaxLaunches = 1
    DirOrder <- DirsInOrder
    Worlds <- SomeWorlds
    MaxRuns = 1
    MaxFaults = 0
INVARIANT RollbackIsPossible
CHECK_DEADLOCK FALSE
