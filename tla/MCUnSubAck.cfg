CONSTANTS
    Ids <- MCIds
    Inputs <- MCInputs
    DstLens <- MCDstLens
    MaxCalls = 4
SPECIFICATION Spec
INVARIANT EncodingsAgree
