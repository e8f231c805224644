\* Three comments on one pull request, no fault and no operator.
SPECIFICATION ReviewSpec
CONSTANTS
    MaxComments = 3
    MaxSecond = 4
    MaxIncidents = 0
    PageSize = 3
    MaxHidden = 0
PROPERTY OneRevisionAtATime
CHECK_DEADLOCK FALSE
