CONSTANTS
    Templates <- MCTemplates
    Ids <- MCIds
    RetLists <- MCRetLists
    InitialWires <- NoPeerBytes
    DstLens <- MCDstLens
    MaxCalls = 6
    ReuseSubAck = FALSE
SPECIFICATION Spec
PROPERTY ChannelRefinement
