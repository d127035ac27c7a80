\* Two restarts, within and between appends, and two evictions under appends.
SPECIFICATION Spec
CHECK_DEADLOCK FALSE
CONSTANTS
    Appenders = {p1, p2}
    MaxPos = 1
    MaxBatch = 2
    MaxAppends = 7
    MaxCrashes = 2
    MaxEvicts = 2
    NoJob = NoJob
INVARIANTS
    AckedStored
    ReadsBack
    SeqIncreasing
PROPERTIES
    RefinesLog
