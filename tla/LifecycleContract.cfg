\* Three tasks, the second a revision of the first, through one slot, with every
\* checkpointer; crashes, days on which the cap is reached, and one reviewer; no
\* cancel, no graceful shutdown, no database error.
SPECIFICATION FairSpec
CONSTANTS
    r1 = r1
    N = 3
    Revisions = {2}
    ApprovalTasks = {1}
    MaxConcurrent = 1
    Retention = 1
    Savers <- AllSavers
    Environment <- OneReviewer
    Requests <- OneRequest
    MaxFaults = 2
INVARIANTS
    RunningRowHasRunner
    ConcurrencyCap
PROPERTIES
    ImplementsContract
    EveryTaskSettles
\* Every task may have ended and nothing be left to do.
CHECK_DEADLOCK FALSE
