CONSTANTS
    Configurations <- MC_LocalOnly
    MaxRequests = 1
    MaxPods = 1
SPECIFICATION Spec
CHECK_DEADLOCK FALSE
INVARIANT LockdownFreezesVm
