CONSTANTS
    Arms = {"Left"}
    Motors = {"XLeft", "YLeft"}
    Axes = {"leftX", "leftY"}
    ArmOf <- MCArmOf
    AxisOf <- MCAxisOf
    Rank <- MCRank
    MaxAxis = 1
    Threshold = 1
    Delta = 1
    AutoLock = 1
    MaxStep = 0
    None = None
    MayRestart = FALSE
SPECIFICATION MotionSpec
INVARIANT AlarmStopsMotion
