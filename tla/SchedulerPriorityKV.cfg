SPECIFICATION Spec
CONSTANTS
    NoKey = NoKey
    r1 = r1
    r2 = r2
    r3 = r3
    common = common
    Requests = {r1, r2}
    Shared = 0
    Prompts = 2
    LongPrompts = 7
    NumBlocks = 6
    Keys <- MCKeys
    KeyTokens <- MCKeyTokens
    Prefix <- MCPrefix
    BlockSize = 2
    MaxModelLen = 8
    Watermark = 0
    Reserve = 0
    ReserveAge = 0
    FullSequenceMustFit = TRUE
    Policy = "priority"
    Priority <- MCPriority
    PromptLen <- MCPromptLen
    MaxTokens <- MCMaxTokens
    Outputs = 3
    TokenBudget = 4
    InputBudget = 4
    DraftSlots = 0
    LongPrefill = 2
    NumSpec = 1
    Lookahead = 1
    MaxRunning = 2
    Interval = 1
    MaxResets = 0
INVARIANTS CachedKVWritten
