CONSTANTS
    Arms = {"Left"}
    Motors = {"XLeft"}
    Axes = {"leftX"}
    ArmOf <- MCArmOf
    AxisOf <- MCAxisOf
    Rank <- MCRank
    MaxAxis = 1
    Threshold = 1
    Delta = 1
    AutoLock = 2
    MaxStep = 1
    None = None
    MayRestart = TRUE
SPECIFICATION MotionSpec
INVARIANTS
    OneDirection
    DriversFollowPolicy
    RecoveryIsSafe
    LockedMeansStopped
    MemoryIsWhatWasTold
    IdleArmLocks
PROPERTIES
    QuietInError
    IntentsArePaired
