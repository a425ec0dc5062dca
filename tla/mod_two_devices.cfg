CONSTANTS
  d1 = d1
  d2 = d2
  Devices <- TwoDevices
  MsixCapable = {}
  MsiCapable <- TwoDevices
  HasPin <- TwoDevices
  Majors = {1, 2}
  NodeCount <- ShortTables
SPECIFICATION FairSpec
INVARIANTS
  TypeOK
  IdleHoldsNothing
  BoundHoldsAll
  HandlerHasDevice
  FilesHaveDevice
  RegionKnown
PROPERTY CallsEnd
CHECK_DEADLOCK FALSE
