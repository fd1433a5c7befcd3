CONSTANTS
    Sticks = 1
    MaxSessions = 2
    MaxLines = 4
    MovingAverageDepth = 2
    BaselineSamples = 2
    ButtonDebounceSamples = 2
    Readings = {0, 3}
    Half = 2
    InvertX = TRUE
SPECIFICATION FairJoystickSpec
INVARIANTS
    ExclusiveUse
    NoStaleSession
    SnapshotSkew
    SignalsFollowLines
PROPERTY
    OperationsReturn
