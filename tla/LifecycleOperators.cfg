\* Two tasks, two slots, one clone retained; everything operators and the host do,
\* one request in flight and one fault at a time.
SPECIFICATION Spec
CONSTANTS
    r1 = r1
    N = 2
    Revisions = {}
    ApprovalTasks = {1}
    MaxConcurrent = 2
    Retention = 1
    Savers <- DurableOnly
    Environment <- Operators
    Requests <- OneRequest
    MaxFaults = 1
INVARIANTS
    TypeOK
    FreshStartsClean
PROPERTIES
    LaunchFindsIdle
    QueuedKeepsCheckpoint
    ShipsOnlyHeldWork
    HeldWorkSurvives
