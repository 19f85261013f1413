SPECIFICATION LinkFairSpec
CONSTANTS
  LAST = 1
  NUM_SLAVES = 2
  LINE_SIZE = 1
  HOSTED = {0, 1}
  TYPED = {1}
  MAX_VERSION = 2
  NOTHING = NOTHING
PROPERTIES
  MatrixReachesMaster
