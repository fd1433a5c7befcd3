CONSTANTS
    Slaves = {1, 2}
    Writing = {6}
    Counts = {1, 2}
    MaxRequests = 3
    ByteCounts = {0, 4}
    None = None
SPECIFICATION FairSpec
INVARIANTS
    InStep
    AcceptedFits
PROPERTIES
    AcceptedInOrder
    ExchangeEnds
CHECK_DEADLOCK FALSE
