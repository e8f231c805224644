\* One task that needs more than a day's cap and a chat session, across
\* midnights, with MaxTurns = 1 turn and MaxCrashes = 1 crash (bounds).
SPECIFICATION FairSpec
CONSTANTS
    t1 = t1
    t2 = t2
    s1 = s1
    DefaultPricing <- PriceTable
    Overrides <- OperatorPricing
    CacheMultipliers <- CacheTable
    Unit = 2
    Tasks <- OneTask
    Sessions <- OneSession
    Revisions = {}
    Work = 3
    Models <- KnownModels
    Usages <- Reports
    Limit = 3
    TaskBudget = 4
    Environment <- Everything
    MaxTurns = 1
    MaxCrashes = 1
INVARIANTS
    TypeOK
    LedgerExact
    TaskBudgetHolds
PROPERTIES
    ResponseIsBounded
    EveryTaskEnds
