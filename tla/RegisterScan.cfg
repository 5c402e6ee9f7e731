CONSTANTS
    Tables <- MCTables
    FixedBand = 2
    RetryLimit = 1
    GiveUpLimit = 2
    StreakLimit = 2
    Rounds = 2
    LateKinds = {"dimmer"}
    MaxLost = 1
SPECIFICATION FairSpec
INVARIANTS
    TypeOK
    RebuildSound
    
    FrameOfItsBlock
PROPERTIES
    ScanEnds
CHECK_DEADLOCK FALSE
