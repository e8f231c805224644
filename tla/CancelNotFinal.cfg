\* An operator cancels a queued task while the dispatcher launches it.
SPECIFICATION Spec
CONSTANTS
    r1 = r1
    N = 1
    Revisions = {}
    ApprovalTasks = {}
    MaxConcurrent = 2
    Retention = 1
    Savers <- DurableOnly
    Environment = {"cancel"}
    Requests <- OneRequest
    MaxFaults = 1
PROPERTY CancelledStaysCancelled
CHECK_DEADLOCK FALSE
