CONSTANTS
    Templates <- SubAckTemplates
    Ids = {7}
    RetLists <- FailureRetLists
    InitialWires <- FailureSubAck
    DstLens = {10}
    MaxCalls = 4
    ReuseSubAck = FALSE
SPECIFICATION Spec
INVARIANT ReturnCodesAccepted
