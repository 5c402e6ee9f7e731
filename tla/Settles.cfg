CONSTANTS
    Call = {c1, c2, c3}
    Key = {g1}
    Chan = {o1}
    Val = {off}
    Off = off
    NoCall = NoCall
    NoKey = NoKey
    NoVal = NoVal
    NoImage = NoImage
    QueueMax = 1
    LineMax = 1
    HasFeedback = FALSE
    ApiOps = {"get", "set"}
    HostOps = {"abandon", "scan"}
SPECIFICATION FairSpec
INVARIANTS
    FoldedCallerServed
PROPERTIES
    EveryCallSettles
CHECK_DEADLOCK FALSE
