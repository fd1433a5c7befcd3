CONSTANTS
    Arms = {"Left", "Right"}
    None = None
    Invalid = Invalid
SPECIFICATION IoSpec
INVARIANTS
    AnsweredMeansMoved
    StatusIsTrue
PROPERTIES
    ValvesObeyCommands
    ErrorNeedsOperator
