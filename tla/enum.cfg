CONSTANTS
  Devices <- MCDevices
  Machines <- MCMachines
  Changing = TRUE
SPECIFICATION FairSpec
INVARIANTS
  AmountBacked
  RegionsShown
  
PROPERTY ToolEnds
CHECK_DEADLOCK FALSE
