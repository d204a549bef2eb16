SPECIFICATION Spec
CONSTANTS
    NumBlocks = 3
    Keys <- MCKeys
    KeyTokens <- MCKeyTokens
    NoKey = NoKey
    two = two
    three = three
    Requests = {r1, r2}
    BlockSize = 3
    MaxTable = 2
    MaxCopies = 2
SYMMETRY Interchangeable
INVARIANTS TypeOK FreeIsUnreferenced IndexAgrees RefsAccounted
