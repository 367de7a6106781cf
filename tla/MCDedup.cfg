SPECIFICATION FairSpec
CONSTANTS
    Threads = {t1, t2}
    A = A
    B = B
    Sites = {A, B}
    Loggers = {l1}
    Severity <- MCSeverity
    Levels = {1, 2}
    MaxOps = 5
    NULL = NULL
INVARIANTS
    TypeOK
    Accounting
    ExitReports
    HiddenBehindLine
PROPERTIES
    DropsExplained
    LedgerSpec
    OperationsReturn
    SettledInTheEnd
