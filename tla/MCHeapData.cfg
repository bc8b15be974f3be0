CONSTANTS
    Callers = {t1, t2}
    Addrs = {a1, a2}
    Sites = {s1, s2}
    SampleSizes = {2}
    FREE_BATCH_CAP = 2
    RingCap = 2
    MaxAllocs = 3
    Block = 2
    Lens = {0, 1, 2, 3}
    MaxMember = 2
    NChunks = 2
    MaxExtra = 2
    MaxPolls = 2
    Bases = {2, 4}
    Pcs = {1, 2, 5}
    Resolvable = {2, 5}
    MaxStack = 2
    MaxSites = 2
SPECIFICATION DataSpec
SYMMETRY Symmetry
INVARIANTS BookFaithful DumpWhole BundleWhole ProfileDecodes
CHECK_DEADLOCK FALSE
