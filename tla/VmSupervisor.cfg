CONSTANTS
    Configurations <- MC_All
    MaxRequests = 2
    MaxPods = 2
SPECIFICATION Spec
CHECK_DEADLOCK FALSE
INVARIANT TypeOK
INVARIANT LocalCoherent
INVARIANT S3Coherent
INVARIANT AcknowledgedIsDurable
PROPERTY ResumesAcknowledged
PROPERTY FetchCoherent
PROPERTY PausedIsTransient
PROPERTY FrozenUntilTeardown
PROPERTY ImplementsSuspension
