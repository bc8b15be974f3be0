CONSTANTS
  NCpu = 2
  Models <- MCModels
  Setups <- MCSetups
  MaxCounters = 3
  Loads <- MCLoads
  Junk = {0, 100}
  Refusals <- MCRefusals
  MaxActs = 2
SPECIFICATION ArmSpec
INVARIANT AnnouncedRead
CHECK_DEADLOCK FALSE
