SPECIFICATION FairSpec
CONSTANTS
    NoKey = NoKey
    r1 = r1
    r2 = r2
    r3 = r3
    common = common
    Requests = {r1, r2}
    Shared = 2
    Prompts = 5
    Outputs = 2
    NumBlocks = 4
    Keys <- MCKeys
    KeyTokens <- MCKeyTokens
    Prefix <- MCPrefix
    BlockSize = 2
    MaxModelLen = 7
    Watermark = 0
    Reserve = 0
    ReserveAge = 0
    FullSequenceMustFit = FALSE
    Priority <- MCPriority
    PromptLen <- MCPromptLen
    MaxTokens <- MCMaxTokens
    Sends = {r1}
    TokenBudget = 4
    MaxRunning = 2
    Deployments <- MCDeployments
    MaxFailures = 1
    MaxAborts = 1
INVARIANTS LoadsAccounted CachedKVLoaded SampledUnlessAborted
PROPERTIES EverythingEnds
CHECK_DEADLOCK FALSE
