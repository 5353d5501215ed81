SPECIFICATION Spec
CHECK_DEADLOCK FALSE
CONSTANTS
    Members = {"a", "b"}
    Squads <- MC_Squads
    Hosts = {"h1", "h2"}
    Aliases = {"llm-proxy"}
    SquadTargets = {"peer"}
    Simulator = "simulator"
    Configurations <- MC_Configurations
    TokenTTL = 1
    Threshold = 2
    Window = 1
    Exchanges = {1, 2}
    Links = {1, 2}
    MaxRequests = 2
    RuleSets <- MC_RuleSets
    Secrets = {"s1", "s2"}
    MaxChanges = 2
    MaxInjected = 2
INVARIANTS
    BurstTriggers
PROPERTIES
    ListFollowsFile
    InjectsCurrentCredential
    ConfigurationConverges
    SquadConverges
