SPECIFICATION FairSpec
CONSTANTS
    Nothing = Nothing
    Failed = Failed
    Attempts = 3
    MaxCommands = 3
    QueueMax = 6
    Buses <- MCBuses
INVARIANTS
    OwnAnswerFiled
    AckedWriteTaken
    RetryMeansLoss
PROPERTIES
    ImplementsExchange
CHECK_DEADLOCK FALSE
