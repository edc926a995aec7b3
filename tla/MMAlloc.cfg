SPECIFICATION Spec
CONSTANTS
  H = 2
  MinData = 1
  MaxBrk = 13
  Sizes = {0, 1, 2, 4}
  Foreign = {1}
INVARIANTS DataIntact Tiled NothingWasted FreeIsClear
