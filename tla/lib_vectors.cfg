CONSTANTS
  d1 = d1
  d2 = d2
  Devices <- OneDevice
  UserMax = 2
  MaxIdx = 4
  Modes <- AllModes
  MsixCapable = {d1}
  MsiCapable = {d1}
  HasPin = {d1}
  BarPresent <- MixedBars
SPECIFICATION Spec
INVARIANTS
  VectorsBacked
  FreesOwnIrq
  IInv
CHECK_DEADLOCK FALSE
