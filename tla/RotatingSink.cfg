SPECIFICATION Spec
CONSTANTS
    MaxBytes = 3
    FileCounts = {1, 2, 3}
    Lengths = {1, 4}
    MaxLines = 4
    Incidents = {"short", "writev", "unlink", "rename", "open", "crash", "restart", "foreign"}
    MaxIncidents = 3
    NONE = NONE
INVARIANTS
    TypeOK
    GrowthBound
    CounterCoversFile
    LinesInOrder
    NoPrematureEviction
PROPERTIES
    TailSpec
