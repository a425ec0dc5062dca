CONSTANTS
  Lengths = {0, 8, 16}
  Start <- Starts
  PageSize = 8
  Word = 128
  Counts = {2, 4}
  Positions = {2, 4}
  Offsets = {0, 1, 2, 3}
  MaxPos = 16
SPECIFICATION Spec
INVARIANTS
  TypeOK
  MmapInBar
