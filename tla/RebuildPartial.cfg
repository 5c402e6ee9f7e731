CONSTANTS
    Tables <- MCTables
    FixedBand = 2
    RetryLimit = 1
    GiveUpLimit = 2
    StreakLimit = 2
    Rounds = 2
    LateKinds = {}
    MaxLost = 1
SPECIFICATION Spec
INVARIANT
    RebuildNeedsWholeTable
CHECK_DEADLOCK FALSE
