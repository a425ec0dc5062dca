CONSTANTS
  UserMaxes = {0, 1, 4, 6, 16}
  Pins = {0, 1, 3}
  Channels = {1, 2}
SPECIFICATION FairSpec
INVARIANTS
  VectorsRouted
PROPERTY HandlerQuiets
