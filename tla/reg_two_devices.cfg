CONSTANTS
  d1 = d1
  d2 = d2
  Devices = {d1, d2}
  Major <- TwoMajors
  Nodes = 2
  Others = {c1}
  Tester = test
  TestDevice = d1
  Values = 1
  NoAddr = NoAddr
SPECIFICATION Spec
INVARIANTS
  TypeOK
  AccessMapped
CHECK_DEADLOCK FALSE
