\* One task and one crash between two of its responses.
SPECIFICATION Spec
CONSTANTS
    t1 = t1
    t2 = t2
    s1 = s1
    DefaultPricing <- PriceTable
    Overrides <- OperatorPricing
    CacheMultipliers <- CacheTable
    Unit = 2
    Tasks <- OneTask
    Sessions <- NoSession
    Revisions = {}
    Work = 2
    Models <- KnownModels
    Usages <- Reports
    Limit = 2
    TaskBudget = 0
    Environment = {"crash"}
    MaxTurns = 0
    MaxCrashes = 1
PROPERTY CrashLosesNoSpend
\* The task may have ended and nothing be left to do.
CHECK_DEADLOCK FALSE
