\* A run is on the oldest clone while two younger ones end and sweep.
SPECIFICATION Spec
CONSTANTS
    r1 = r1
    N = 3
    Revisions = {}
    ApprovalTasks = {}
    MaxConcurrent = 2
    Retention = 2
    Savers <- DurableOnly
    Environment = {}
    Requests <- OneRequest
    MaxFaults = 0
INVARIANT RunningKeepsClone
CHECK_DEADLOCK FALSE
