\* Two changes of the desired state make a suspend/resume cycle; one incident
\* falls anywhere in it.
CONSTANTS
    MaxGenerations = 2
    MaxIncidents = 1
SPECIFICATION Spec
\* A deleted Workshop is done.
CHECK_DEADLOCK FALSE
INVARIANTS
    RoleGoneWithWorkshop
    AcknowledgedDigest
PROPERTIES
    ImageKept
    StopsOnlySuspended
    AnnouncedAfterAnswer
    SuspendConverges
    ResumeConverges
    DeleteConverges
