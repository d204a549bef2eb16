SPECIFICATION Spec
CONSTANTS
    NumBlocks = 3
    Keys <- MCKeys
    KeyTokens <- MCKeyTokens
    NoKey = NoKey
    Requests = {r1, r2}
    Outputs = 2
    Depth = 2
    MayReset = FALSE
INVARIANTS NoPendingWriteIsFree
