CONSTANTS
    Sticks = 1
    MaxSessions = 1
    MaxLines = 1
SPECIFICATION Spec
INVARIANT ReadFailureIsError
