SPECIFICATION FairSpec
CONSTANTS
    Threads = {t1, t2}
    Loggers = {a, b, c}
    MaxChains = 2
    MaxConfig = 5
    MaxShared = 2
    NULL = NULL
INVARIANTS
    TypeOK
    GuardsMatchStack
PROPERTIES
    ExactCopies
    StableReach
    ChainsEnd
