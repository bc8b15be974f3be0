CONSTANTS
    Threads = {t1}
    FREE_BATCH_CAP = 2
    MaxSessions = 3
    MaxCalls = 4
SPECIFICATION Spec
INVARIANT FreesOfOwnSession
CHECK_DEADLOCK FALSE
