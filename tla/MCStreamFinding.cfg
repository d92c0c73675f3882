CONSTANTS
    Turns <- MCTurns
    Limit = 4
    MaxText = 6
    MaxChunk = 3
SPECIFICATION Spec
INVARIANTS ArgumentsAreComplete
CHECK_DEADLOCK FALSE
