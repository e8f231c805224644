\* A shutdown reaches a run that has just written completed.
SPECIFICATION Spec
CONSTANTS
    r1 = r1
    N = 1
    Revisions = {}
    ApprovalTasks = {}
    MaxConcurrent = 2
    Retention = 1
    Savers <- DurableOnly
    Environment = {"shutdown"}
    Requests <- OneRequest
    MaxFaults = 1
PROPERTY CompletedStaysCompleted
CHECK_DEADLOCK FALSE
