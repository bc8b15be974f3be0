CONSTANTS
    Callers = {t1}
    Addrs = {a1, a2}
    Sites = {s1}
    SampleSizes = {1}
    FREE_BATCH_CAP = 2
    RingCap = 2
    MaxAllocs = 3
SPECIFICATION TrackSpec
INVARIANT ReallocNetsOut
CHECK_DEADLOCK FALSE
