CONSTANTS
    MinOpen = 3
    PerPair = 2
    Dense = 2
    FewOpen = 2
    ForceZero = TRUE
    Share = 60
    TopK = 2
    MultiHard = TRUE
    MainShare = 60
    Runs <- SomeRuns
    Results <- SomeResults
    Support <- SomeSupport
    Facts <- SomeFacts
    NearEnd = 2
    MinAdvance = 1
    MaxTurn = 1
    Penalty = 2
    Limit = 1
    Margin = 1
    Early = TRUE
    Single = FALSE
    Skip = FALSE
    Drives <- SomeDrives
    Passes <- TwoPasses
    Maps <- SomeMaps
    Sections = {1, 2, 3, 4}
    Budget = 7
    March = 8
    Slack = 2
    MidMargin = 1
    MinEvidence = 1
    MinSection = 4
SPECIFICATION BothSpec
INVARIANTS NoSourceLoses PairsAreAccounted CleanRoadsAreChecked PassIsHonest TopologyIsHonest
CHECK_DEADLOCK FALSE
