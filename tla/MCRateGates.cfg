SPECIFICATION Spec
CONSTANTS
    Threads = {t1, t2}
    Gates <- MCGates
    Width = 2
    Token = 3
    MaxCalls = 5
    MaxClock = 5
INVARIANTS
    TypeOK
    DecisionsAsPromised
