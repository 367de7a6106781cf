SPECIFICATION Spec
CONSTANTS
    Cap = 4
    Lengths = {1, 3, 5}
    Owners = {"scoped", "leaked"}
    MaxLines = 4
    MaxFlushes = 1
    MaxShort = 1
    MaxErrors = 2
INVARIANTS
    TypeOK
    SettledIsDurable
    TornLines
    ScopedShutdownKeepsLines
PROPERTIES
    LogSpec
