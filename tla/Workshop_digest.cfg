\* Two suspensions and nothing else.
CONSTANTS
    MaxGenerations = 3
    MaxIncidents = 0
SPECIFICATION Spec
CHECK_DEADLOCK FALSE
INVARIANT DigestCleared
