CONSTANTS
    Arcs = {1, 2, 3}
    Src <- MCSrc
    Dst <- MCDst
    Scenes <- MCScenes
    Cells = 4
    Cell = 600
    SectionLength = 600
    Reach = 160
    Margin = 30
    MinCluster = 2
    TopK = 6
    Buffer = 80
    Width = 20
    Gap = 2
    Tolerance = 15
SPECIFICATION Spec
CHECK_DEADLOCK FALSE
INVARIANT SingleArcsFollowTheirOwn
