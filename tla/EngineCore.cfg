SPECIFICATION FairSpec
CONSTANTS
    None = None
    r1 = r1
    r2 = r2
    c1 = c1
    c2 = c2
    Requests = {r1, r2}
    Calls = {c1, c2}
    Scenarios <- MCScenarios
    BatchQueueSize = 2
    MaxTokens <- MCMaxTokens
    MaxPreemptions = 1
    Patient = TRUE
INVARIANTS NoAbortLost AnsweredOnce PauseHolds ResumedOnlyWhenResident
PROPERTIES EveryoneAnswered
CHECK_DEADLOCK FALSE
