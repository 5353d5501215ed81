SPECIFICATION Spec
CONSTANTS
    w1 = w1
    w2 = w2
    Workshops <- MCWorkshops
    Scenarios <- MCScenarios
    BackoffLimit = 2
    MaxImages = 4
    Threshold = 1
    MaxFaults = 2
INVARIANTS
    ReportedIsKept
    AnnouncedIsServed
PROPERTIES
    BuildSettles
