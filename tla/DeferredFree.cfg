SPECIFICATION FairSpec
CONSTANTS
    NumBlocks = 3
    Keys <- MCKeys
    KeyTokens <- MCKeyTokens
    NoKey = NoKey
    Requests = {r1, r2}
    Outputs = 3
    Depth = 2
    MayReset = TRUE
INVARIANTS BlocksAccounted FenceHoldsInSync
PROPERTIES DeferredReturn
