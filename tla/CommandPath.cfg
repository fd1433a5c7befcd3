CONSTANTS
    r1 = r1
    r2 = r2
    r3 = r3
    r4 = r4
    NoRequest = NoRequest
    Undecodable <- MCUndecodable
    Requests <- MCRequests
    Malformed <- MCNone
    Diagnostics <- MCDiagnostics
    MaxQueue = 2
    MaxInits = 2
SPECIFICATION FairSpec
INVARIANTS
    NoCommandLost
    AnswersAreTrue
    ServedInOrder
    ShutdownLeavesNothing
PROPERTIES
    ServiceSpec
    ReceivedIsAnswered
    QueuedIsReplied
    ShutdownReturns
