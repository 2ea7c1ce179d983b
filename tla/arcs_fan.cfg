SPECIFICATION Spec
CONSTANTS
    Arcs = {a1, a2, a3, a4}
    Src <- MixSrc
    Dst <- MixDst
    Path <- MixPath
    Shares <- MixShares
    GapControlled <- MixControlled
    Supports <- MixSupports
    BridgeAudits = {"", "topology_gap_unresolved"}
    Rejections = {FALSE}
    OptionLists <- MixOptions
    Priors = {FALSE}
    PathFates = {TRUE}
    SlotFates <- MixSlots
    CandidateSets <- MixCandidateSets
INVARIANTS EntryIsJustified SiblingsNeverShareSupport BuiltIsEarned AuditKnowsTheGate ReviewsAreTrue ObligationsAreKept
PROPERTIES ImplementsFunnel
CHECK_DEADLOCK FALSE
