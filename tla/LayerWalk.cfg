SPECIFICATION FairSpec
CONSTANTS
    FirstLayer = 3
    LastLayer = 6
    Shards <- MCShards
    Pools <- MCPools
    Modes <- MCModes
    MaxKills = 3
    MaxReruns = 1
INVARIANTS RefusesOnlyRetired JournalBacked
PROPERTIES Completes
CHECK_DEADLOCK FALSE
