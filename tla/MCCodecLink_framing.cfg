CONSTANTS
    Templates <- MCTemplates
    Ids <- MCIds
    RetLists <- MCRetLists
    InitialWires <- LongPubRel
    DstLens <- MCDstLens
    MaxCalls = 0
    ReuseSubAck = FALSE
SPECIFICATION Spec
INVARIANT FramingKept
