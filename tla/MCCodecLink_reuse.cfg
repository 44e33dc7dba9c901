CONSTANTS
    Templates <- SubAckTemplates
    Ids <- MCIds
    RetLists <- ShortRetLists
    InitialWires <- NoPeerBytes
    DstLens <- MCDstLens
    MaxCalls = 8
    ReuseSubAck = TRUE
SPECIFICATION Spec
INVARIANT RoundTrip
