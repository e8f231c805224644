\* Two tasks of a repository and two calls on a reference clone, each with the
\* housekeeping that deletes what they use, time, and a bounded number of faults.
SPECIFICATION Spec
CONSTANTS
    j1 = j1
    j2 = j2
    r1 = r1
    r2 = r2
    Jobs <- MCJobs
    MaxPolicy = 2
    IdleTTL = 1
    TaskTicks = 1
    MaxBoxFaults = 1
    Reads <- MCReads
    FetchTTL = 1
    Retention = 2
    MaxGitFaults = 2
INVARIANTS
    TypeOK
    UsesOwnPolicy
PROPERTIES
    HandsOutWholeTree
    ReapsOnlyIdle
    
    IdleIsReaped
    ServesFreshFiles
    EveryReadReturns
CHECK_DEADLOCK FALSE
