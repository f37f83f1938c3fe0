CONSTANTS
    None = None
    MaxNode = 3
    Start <- Starts
    AsyncEnable = TRUE
    SimpleData = TRUE
    KeepParent = FALSE
    KeepLeaf = FALSE
    MaxRequests = 2
    FewNodes = 2
    MaxVersion = 2
    MaxCalls = 2
SPECIFICATION Spec
INVARIANTS
    TreeIsSound
    PageIsTrue
    LoadsHaveRequests
PROPERTIES
    NodesStay
    DropIsOneMove
    LoadsEnd
CHECK_DEADLOCK FALSE
