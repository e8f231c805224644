\* Two tasks with work to do; no chat, no midnight, no crash.
SPECIFICATION Spec
CONSTANTS
    t1 = t1
    t2 = t2
    s1 = s1
    DefaultPricing <- PriceTable
    Overrides <- OperatorPricing
    CacheMultipliers <- CacheTable
    Unit = 2
    Tasks <- TwoTasks
    Sessions <- NoSession
    Revisions = {}
    Work = 2
    Models <- KnownModels
    Usages <- Reports
    Limit = 2
    TaskBudget = 0
    Environment = {}
    MaxTurns = 0
    MaxCrashes = 0
PROPERTY NoWorkPastCeiling
