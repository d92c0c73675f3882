CONSTANTS
    Calls = {c1, c2}
    Tools = {"read", "write", "full", "bounded"}
    Old = old
SPECIFICATION Spec
INVARIANTS FilesAreWhole ReportsAreTrue NothingIsLeftRunning
PROPERTIES CommandsEnd
