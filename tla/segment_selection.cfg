SPECIFICATION SegmentSpec
CONSTANTS
    Cross = {3, 4, 5, 6}
    MaxExpansions = 3
    RoadSets <- Patches
    Drives <- SomeDrives
    Lines <- SomeLines
    TopK = 1
    MaxOther = 1
    Offset = 2
    Near = 1
    Support1 = 2
    Zone1 = 98
    Length1 = 115
INVARIANTS ArcsAreCorridors TracesAreTrue OwnersAgree EvidenceGetsASegment
CHECK_DEADLOCK FALSE
