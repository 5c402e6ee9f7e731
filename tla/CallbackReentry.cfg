CONSTANTS
    sw = sw
    dim = dim
    fb = fb
    Modules <- MCModules
    NonOutput = {fb}
    Gateways = {}
    Records = 2
    Filler = 1
    QueueSize = 2
    Users = 0
    MaxRuns = 2
    MaxLost = 0
    Failures = FALSE
    Cancels = FALSE
    MaxForeign = 0
SPECIFICATION Spec
INVARIANT
    ReentrySafe
CHECK_DEADLOCK FALSE
