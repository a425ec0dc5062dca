CONSTANTS
  IntMax = 3
  Lengths = {0, 2, 4, 8}
SPECIFICATION MapSpec
INVARIANTS
  AllOrNothing
  IdentifiesAround
CHECK_DEADLOCK FALSE
