CONSTANTS
  d1 = d1
  d2 = d2
  c1 = c1
  c2 = c2
  None = None
  Devices = {d1}
  Clients = {c1, c2}
  DeviceOf <- OneDevice
  Size = 4
  Items <- TwoItems
  ReadCounts <- ReaderReads
  WriteCounts <- WriterWrites
SPECIFICATION FairSpec
INVARIANTS
  ShortFilesOnce
  WholeInOrder
PROPERTIES
  WritesOwn
  ReadersEnd
