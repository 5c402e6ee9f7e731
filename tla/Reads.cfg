CONSTANTS
    Call = {c1, c2, c3, c4}
    Key = {g1}
    Chan = {o1}
    Val = {off}
    Off = off
    NoCall = NoCall
    NoKey = NoKey
    NoVal = NoVal
    NoImage = NoImage
    QueueMax = 2
    LineMax = 1
    HasFeedback = TRUE
    ApiOps = {"get", "set"}
    HostOps = {"abandon", "cancelput", "push", "scan"}
SYMMETRY Symmetry
SPECIFICATION Spec
INVARIANTS
    TypeOK
    OneLiveRead
    GetKeyOwnerQueued
    WriteNotCancelled
CHECK_DEADLOCK FALSE
