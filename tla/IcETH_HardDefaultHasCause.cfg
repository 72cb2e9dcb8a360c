SPECIFICATION PluginSpec
CONSTANTS
  FIX_ONE = 4
  BASIS_POINTS = 2
  delayUntilDefault = 3
  defaultThreshold = 1
  fallbackPrice = 6
  allowedDrop = 1
  Kinds <- OnlyIcETH
  Feeds = {0, 2, 3, 5, 6}
  Seconds = {0, 3, 4, 6}
  Rates = {1, 2, 3, 4, 5, 6, 7}
PROPERTIES HardDefaultHasCause
