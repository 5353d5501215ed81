SPECIFICATION Spec
CHECK_DEADLOCK FALSE
CONSTANTS
    Kinds <- MC_Kinds
    Tries = 1
    MaxCredential = 2
    MaxOutput = 1
    MaxOut = 2
    MaxErr = 1
    MaxWire = 2
    Requests = {1, 2}
    Pipe = 1
    Deciders = {"p1", "p2"}
    Slack = "slack"
INVARIANTS
    StreamComplete
    ToldIsKept
PROPERTIES
    CommandSettles
    EditorRecovers
