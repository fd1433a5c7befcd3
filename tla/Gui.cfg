SPECIFICATION FairSpec
CONSTANTS
 Motors = {m1, m2}
 Ids = {1, 2}
 MaxEvents = 1
INVARIANT DisplayIsCurrent
PROPERTIES LedgerSpec RequestsEnd StopReturns LossIsNoticed
