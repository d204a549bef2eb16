SPECIFICATION FairSpec
CONSTANTS
    NoKey = NoKey
    r1 = r1
    r2 = r2
    r3 = r3
    common = common
    Requests = {r1, r2, r3}
    Shared = 2
    Prompts = 2
    LongPrompts = 4
    NumBlocks = 6
    Keys <- MCKeys
    KeyTokens <- MCKeyTokens
    Prefix <- MCPrefix
    BlockSize = 2
    MaxModelLen = 8
    Watermark = 0
    Reserve = 4
    ReserveAge = 1
    FullSequenceMustFit = TRUE
    Policy = "priority"
    Priority <- MCPriority
    PromptLen <- MCPromptLen
    MaxTokens <- MCMaxTokens
    Outputs = 3
    TokenBudget = 3
    InputBudget = 4
    DraftSlots = 0
    LongPrefill = 2
    NumSpec = 1
    Lookahead = 1
    MaxRunning = 3
    Interval = 2
    MaxResets = 0
INVARIANTS NeverRaises OneWriterPerSlot
PROPERTIES EveryRequestFinishes
