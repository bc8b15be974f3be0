CONSTANTS
  r1 = r1
  Recorders = {r1}
  Snapshots = {s1}
  Platforms = {"macos", "linux"}
  Args <- MCArgs
  Chunks = 1
  MaxSigs = 2
  MaxKills = 1
SPECIFICATION Spec
PROPERTIES RecordingEnds
CHECK_DEADLOCK FALSE
