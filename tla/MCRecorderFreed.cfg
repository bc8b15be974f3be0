CONSTANTS
  r1 = r1
  Recorders = {r1}
  Snapshots = {s1}
  Platforms = {"macos", "linux"}
  Args <- MCArgs
  Chunks = 1
  MaxSigs = 1
  MaxKills = 1
SPECIFICATION Spec
PROPERTIES FlushReachesCapture
CHECK_DEADLOCK FALSE
