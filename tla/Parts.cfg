CONSTANTS
    MaxDrops = 3
    MaxOpens = 5
    MaxSends = 2
    Patience = 1
    Cadence = 2
    Release = 5
    MaxRelease = 8
    BurstGap = 1
    GapWindow = 4
    BurstCount = 3
    Gaps = {1, 2, 5, 8}
    MaxFrames = 6
    MaxPresses = 2
    TimeUp = 4
    TimeDown = 5
    MaxLatency = 2
    MaxTime = 9
    Dimmable = {TRUE, FALSE}
    KeyCalls = {1, 2}
    MaxWall = 1
    MaxMiss = 2
    u1 = u1
    u2 = u2
    u3 = u3
    lg = lg
    s1 = s1
    s2 = s2
    b1 = b1
    b2 = b2
    Installed = {u1, u2, u3, lg}
    DeviceType <- MCDeviceType
    Channels <- MCChannels
    Senders = {s1, s2}
    SenderKeys <- MCSenderKeys
    LowBytes <- MCLowBytes
    Memories <- MCMemories
    MaxReads = 2
    MaxRepeats = 1
    MaxGone = 1
    Outputs = {o1, o2}
    Logics = {l1}
    Buttons = {b1, b2}
    Sort <- MCSort
    Passes = 2
    MaxJams = 1
    MaxTurns = 3
    o1 = o1
    o2 = o2
    l1 = l1
    SizedTables <- MCSizedTables
    Capacity = 30
    AudioBand = 2
    Before = 3
    Page = 6
    ErasedRun = 3
    GivenUp = 2
    ExtensionRounds = 4
    MaxFaults = 2
SPECIFICATION Spec
INVARIANTS
    OneTransport
    EndsOwnPress
    PositionTrue
    LedFollows
    
    
    SizedTablesTrue
PROPERTIES
    ComesBack
    ResidueSound
CHECK_DEADLOCK FALSE
