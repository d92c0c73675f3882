CONSTANTS
    Turns <- MCTurns
    Limit = 4
    MaxText = 6
    MaxChunk = 3
SPECIFICATION Spec
INVARIANTS EventsAreThePayloads TurnIsWhole
CHECK_DEADLOCK FALSE
