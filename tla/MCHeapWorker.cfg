CONSTANTS
    DRAIN_LIMIT = 0
    MaxRecords = 2
    MaxFlushes = 2
SPECIFICATION Spec
INVARIANTS WorkerSafe
PROPERTIES StopAckedLast WorkerAnswers
CHECK_DEADLOCK FALSE
