SPECIFICATION Spec
CONSTANTS
    Arcs = {a1, a2}
    Src <- RoadSrc
    Dst <- RoadDst
    Path <- RoadSrc
    Shares <- NoShares
    GapControlled = {a1}
    Supports <- RoadSupports
    BridgeAudits = {"", "truly_non_adjacent_reject", "topology_gap_unresolved"}
    Rejections = {TRUE, FALSE}
    OptionLists <- RoadOptions
    Priors = {TRUE, FALSE}
    PathFates = {TRUE}
    SlotFates <- AllSlotFates
    CandidateSets <- AllCandidateSets
INVARIANTS RefusedStaysOut
CHECK_DEADLOCK FALSE
