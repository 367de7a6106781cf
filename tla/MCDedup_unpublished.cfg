SPECIFICATION Spec
CONSTANTS
    Threads = {t1, t2}
    A = A
    B = B
    Sites = {A, B}
    Loggers = {l1}
    Severity <- MCSeverityHigh
    Levels = {1}
    MaxOps = 4
    NULL = NULL
INVARIANTS
    SummaryEmitted
