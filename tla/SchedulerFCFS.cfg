SPECIFICATION Spec
CONSTANTS
    NoKey = NoKey
    r1 = r1
    r2 = r2
    r3 = r3
    common = common
    Requests = {r1, r2, r3}
    Shared = 2
    Prompts = 3
    LongPrompts = 4
    Outputs = 2
    NumBlocks = 4
    Keys <- MCKeys
    KeyTokens <- MCKeyTokens
    Prefix <- MCPrefix
    BlockSize = 2
    MaxModelLen = 8
    Watermark = 0
    Reserve = 0
    ReserveAge = 0
    FullSequenceMustFit = TRUE
    Policy = "fcfs"
    Priority <- MCPriority
    PromptLen <- MCPromptLen
    MaxTokens <- MCMaxTokens
    TokenBudget = 3
    InputBudget = 4
    DraftSlots = 0
    LongPrefill = 0
    NumSpec = 1
    Lookahead = 1
    MaxRunning = 3
    Interval = 1
    MaxResets = 1
INVARIANTS
    RequestsAccounted CachedKVWritten ComputedKVWritten ChainsClosed
PROPERTIES NoOvertaking
