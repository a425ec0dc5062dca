CONSTANTS
  d1 = d1
  d2 = d2
  c1 = c1
  c2 = c2
  None = None
  Devices = {d1, d2}
  Clients = {c1}
  DeviceOf <- OneDevice
  Size = 4
  Items <- ConfigOnly
  ReadCounts <- AtOnce
  WriteCounts <- Never
SPECIFICATION Spec
INVARIANT WholeGiven
CHECK_DEADLOCK FALSE
