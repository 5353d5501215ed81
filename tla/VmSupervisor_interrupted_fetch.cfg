CONSTANTS
    Configurations <- MC_S3
    MaxRequests = 1
    MaxPods = 3
SPECIFICATION Spec
CHECK_DEADLOCK FALSE
INVARIANT RestoreCoherent
