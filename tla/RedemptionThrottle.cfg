SPECIFICATION Spec
CONSTANTS
  FIX_ONE = 4
  BLOCKS_PER_HOUR = 3
  Floors = {0, 1, 2}
  Rates = {0, 1, 3}
  Supplies = {0, 1, 2, 3, 4, 5, 6}
  MaxBlock = 6
INVARIANT Throttled
