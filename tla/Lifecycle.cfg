CONSTANTS
    Call = {c1, c2, c3}
    Key = {g1, g2}
    Chan = {o1}
    Val = {off}
    Off = off
    NoCall = NoCall
    NoKey = NoKey
    NoVal = NoVal
    NoImage = NoImage
    QueueMax = 2
    LineMax = 1
    HasFeedback = FALSE
    ApiOps = {"get", "set", "query", "press"}
    HostOps = {"stop", "reset", "abandon"}
SYMMETRY Symmetry
SPECIFICATION Spec
INVARIANTS
    StopReleasesWaiters
    NothingStaleSent
CHECK_DEADLOCK FALSE
