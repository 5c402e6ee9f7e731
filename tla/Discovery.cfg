CONSTANTS
    sw = sw
    dim = dim
    fb = fb
    Modules <- MCModules
    NonOutput = {fb}
    Gateways = {}
    Records = 2
    Filler = 1
    QueueSize = 2
    Users = 1
    MaxRuns = 2
    MaxLost = 1
    Failures = TRUE
    Cancels = TRUE
    MaxForeign = 1
SPECIFICATION FairSpec
INVARIANTS
    TypeOK
    ToldOnce
    
    RegistryWhole
    UserKept
    CleanAfterwards
PROPERTIES
    EveryRunEnds
CHECK_DEADLOCK FALSE
