SPECIFICATION BleSpec
CONSTANTS
  BleKey = {k1, k2}
  Protocols = {TRUE}
  NO_DRIVER = NO_DRIVER
INVARIANTS
  NoStuckKeys
