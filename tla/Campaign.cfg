SPECIFICATION FairSpec
CONSTANTS
    StageOrder <- PlanOrder
    Kind <- PlanKind
    Dependencies <- PlanDependencies
    FirstEncode <- PlanFirstEncode
    Policy = "rollback"
    Retention = TRUE
    MaxGenerations = 2
    NoStage = NoStage
    MaxCrashes = 1
    MaxFailures = 1
INVARIANTS AuditAccepts RunnerAgrees RetiredOnlyAfterTrigger
PROPERTIES AttemptsKept RefinesProgress Settles
