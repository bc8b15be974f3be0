CONSTANTS
  r1 = r1
  Recorders = {r1, r2}
  Snapshots = {s1}
  Platforms = {"macos", "linux"}
  Args <- MCArgs
  Chunks = 1
  MaxSigs = 1
  MaxKills = 1
  Users = {0, 1}
  MaxRuns = 2
SPECIFICATION CmdSpec
INVARIANTS SavedComplete OutputWhole FixHolds
PROPERTIES OthersUntouched DumpBeforeTerm
CHECK_DEADLOCK FALSE
