SPECIFICATION Spec
CHECK_DEADLOCK FALSE
SYMMETRY Symmetry
CONSTANTS
    i1 = i1
    i2 = i2
    Invocations <- MC_Invocations
    Tickets <- MC_Tickets
    Single <- MC_Single
    Everything = "**"
    None = "none"
    RecursionLimit = 150
INVARIANTS
    RejectionEndsGraph
