CONSTANTS
    Call = {c1, c2, c3}
    Key = {g1}
    Chan = {o1}
    Val = {off}
    Off = off
    NoCall = NoCall
    NoKey = NoKey
    NoVal = NoVal
    NoImage = NoImage
    QueueMax = 1
    LineMax = 1
    HasFeedback = TRUE
    ApiOps = {"get", "set"}
    HostOps = {"cancelput"}
SYMMETRY Symmetry
SPECIFICATION Spec
INVARIANTS
    JoinableItemComing
CHECK_DEADLOCK FALSE
