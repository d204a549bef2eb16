SPECIFICATION FairSpec
CONSTANTS
    None = None
    q1 = q1
    q2 = q2
    Ranks = {0, 1}
    Requests = {q1, q2}
    SyncEvery = 2
    MaxTokens = 1
    Pauses = 1
    BatchQueue = TRUE
    StrayResume = FALSE
    Scenarios <- MCScenarios
INVARIANTS RanksAgree ResumeSafe PauseStopsAllRanks NoneStrandedIfOrderly
PROPERTIES EveryoneServed
CHECK_DEADLOCK FALSE
