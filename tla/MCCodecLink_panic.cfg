CONSTANTS
    Templates <- MCTemplates
    Ids <- MCIds
    RetLists <- MCRetLists
    InitialWires <- TruncatedPubRel
    DstLens <- MCDstLens
    MaxCalls = 0
    ReuseSubAck = FALSE
SPECIFICATION Spec
INVARIANT DecodeNeverPanics
