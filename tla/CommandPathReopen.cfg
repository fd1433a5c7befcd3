CONSTANTS
    r1 = r1
    r2 = r2
    r3 = r3
    r4 = r4
    NoRequest = NoRequest
    Undecodable <- MCNone
    Requests <- MCRequests
    Malformed <- MCMalformed
    Diagnostics <- MCDiagnostics
    MaxQueue = 1
    MaxInits = 1
SPECIFICATION Spec
INVARIANT FullMeansFull
