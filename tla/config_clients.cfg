CONSTANTS
  d1 = d1
  d2 = d2
  c1 = c1
  c2 = c2
  None = None
  Devices = {d1, d2}
  Clients = {c1, c2}
  DeviceOf <- OwnDevices
  Size = 2
  Items <- ConfigOnly
  ReadCounts <- SomeOrAll
  WriteCounts <- SomeOrAll
SPECIFICATION Spec
INVARIANTS
  TypeOK
  
PROPERTY WritesOwn
