CONSTANTS
    LoopInterval = 2
    UpdateInterval = 5
    MaxTime = 16
SPECIFICATION TimingSpec
INVARIANT NothingSkipped
PROPERTY NoCatchUp
CHECK_DEADLOCK FALSE
