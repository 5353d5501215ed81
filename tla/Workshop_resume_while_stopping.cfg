\* One suspend/resume cycle and nothing else.
CONSTANTS
    MaxGenerations = 2
    MaxIncidents = 0
SPECIFICATION Spec
CHECK_DEADLOCK FALSE
INVARIANT RunningMeansUsable
