SPECIFICATION BothSpec
CONSTANTS
    Patches = {1, 2, 3}
    Name <- MCName
    Rel <- MCRel
    Truth <- MCTruth
    Absent = Absent
    Torn = Torn
    Later = {1}
    Cfgs = {c1, c2}
    Resumes = {TRUE, FALSE}
    Verifies = {TRUE,FALSE}
    MaxLaunches = 3
    DirOrder <- DirsInOrder
    Worlds <- SomeWorlds
    MaxRuns = 3
    MaxFaults = 2
INVARIANTS CacheIsWhole NothingLost ForcedBatchIsFresh ExportIsTruth
PROPERTIES LossIsReported SecondRunIsQuiet
CHECK_DEADLOCK FALSE
