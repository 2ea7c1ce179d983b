CONSTANTS
    Near = 4
    Far = 5
    Hops = 3
    Back = 2
    Ahead = 2
    Worlds <- SomeWorlds
    Plans <- SomePlans
    DataSets <- SomeData
    Requests <- SomeRequests
    Radius = 1
    MaxSamples = 64
    MinTotal = 50
    MinSupport = 30
    MinCells = 4
    Stop = 2
    RevMax = 1
    Past = 1
    Window = 1
    MinGuard = 1
    MaxOffset = 1
    K16Max = 2
    K16Ahead = 1
    Nodes <- MCNodes
SPECIFICATION AnySpec
CHECK_DEADLOCK FALSE
INVARIANTS
    OrderHolds
    OnlyLateCausesDisorder
    ChainsAreCorridors
    VerdictIsSound
    RepairIsSound
    PublishedIsClosed
    RowsStandForWholeClouds
    LevelRoadIsFollowed
