CONSTANTS
  Cpus = {c1, c2}
  Tids = {d1, d2, d3}
  Pids = {p1, p2}
  None = None
  StateBits = {{}, {"WAIT"}}
  MAX_NEW_THREADS = 3
  MAX_NEW_PROCESSES = 3
  DRAIN_CAPACITY = 2
  MaxEvents = 4
  FewEvents = 2
  MaxTurnover = 2
  t1 = t1
  t2 = t2
  s1 = s1
  s2 = s2
  p2 = p2
  Threads = {t1, t2}
  Wanted = {"on", "off"}
  Slots = {s1, s2}
  UserLens = {0, 4}
  KernLens = {0, 1}
  MAX_FRAMES = 3
  PcsPerEvent = 2
  ReloadEvery = 1
  EmptyRetry = 0
  Followed = "on"
  MaxGroups = 2
  MaxLost = 1
  MaxImages = 2
SPECIFICATION KdSpec
INVARIANTS TimelineExact SamplingFiltered DropsBounded
PROPERTIES SeenAnnounced WholeExact DemuxClean
SYMMETRY Symmetry
CHECK_DEADLOCK FALSE
