CONSTANTS
  Devices = {d1, d2}
  MaxLost = 2
SPECIFICATION Spec
INVARIANTS
  TypeOK
  ClassWhileUsed
  RecoveredEnabled
CHECK_DEADLOCK FALSE
