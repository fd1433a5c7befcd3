CONSTANTS
    Arms = {"Right", "Gantry"}
    Motors = {"YRight", "ZLeft"}
    Axes = {"rightY"}
    ArmOf <- MCArmOf
    AxisOf <- MCAxisOf
    MaxAxis = 2
    Threshold = 1
    Delta = 2
    AutoLock = 3
    MaxStep = 2
    None = None
SPECIFICATION Spec
PROPERTY UnlockTakesEffect
