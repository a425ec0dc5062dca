CONSTANTS
  d1 = d1
  d2 = d2
  Devices <- TwoDevices
  UserMax = 0
  MaxIdx = 4
  Modes <- AllModes
  MsixCapable = {d2}
  MsiCapable = {d1, d2}
  HasPin = {d1}
  BarPresent <- MixedBars
SPECIFICATION FairSpec
INVARIANTS
  TypeOK
  HandlersSafe
  ClosedHoldsNothing
  OpenHoldsAll
  ListInOrder
PROPERTIES
  RegistrySpec
  ContractSpec
  CallsReturn
