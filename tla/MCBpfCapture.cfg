CONSTANTS
  Inodes = {1, 2}
  ElfId <- MCElfId
  PathOf <- MCPathOf
  Unstable = {"p"}
  Policy = "auto"
  FdCap = 1
  Slots = {1}
  Paths = {"p"}
  MaxEvents = 2
  MaxFlushes = 1
  MaxTurns = 2
  NCpu = 2
  Models <- MCModels
  Setups <- MCSetups
  MaxCounters = 3
  Loads <- MCLoads
  Junk = {0, 100}
  Refusals <- MCRefusals
  MaxActs = 2
SPECIFICATION CapSpec
INVARIANTS HeldIsExact SampledServed ArmedTrue CountsOwn BlockNamed
PROPERTIES PacketsDecode AckCovers
CHECK_DEADLOCK FALSE
