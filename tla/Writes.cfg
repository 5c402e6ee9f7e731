CONSTANTS
    Call = {c1, c2, c3}
    Key = {g1}
    Chan = {o1, o2}
    Val = {off, on}
    Off = off
    NoCall = NoCall
    NoKey = NoKey
    NoVal = NoVal
    NoImage = NoImage
    QueueMax = 2
    LineMax = 1
    HasFeedback = TRUE
    ApiOps = {"get", "set"}
    HostOps = {"wall", "age"}
SYMMETRY Symmetry
SPECIFICATION Spec
INVARIANTS
    JoinableItemComing
    AckedWriteInEffect
    BufferShowsSent
PROPERTIES
    WriteKeepsReported
CHECK_DEADLOCK FALSE
