SPECIFICATION FairPoolSpec
CONSTANTS
    Workers <- MCWorkers
    Domains <- MCDomains
    PipeCapacity = 1
    MaxJobs = 2
    MaxWorkerKills = 2
INVARIANTS QuietBetweenCalls
PROPERTIES EveryCallEnds
CHECK_DEADLOCK FALSE
