SPECIFICATION PartsSpec
CONSTANTS
  Cell <- Rows
  Value = {0, 1, 2, 3}
  Object <- Whole
  Zero <- NoRows
  NULL = NULL
  EMPTY = EMPTY
  FULL = 3
  MAX_FRAME_SIZE = 3
  Frame <- Frames
  NO_FRAME = NO_FRAME
  LAST = 2
  NUM_SLAVES = 2
  LINE_SIZE = 1
  HOSTED = {0, 1}
  TYPED = {2}
  MAX_VERSION = 1
  NOTHING = NOTHING
  BleKey = {k1}
  Protocols = {FALSE}
  NO_DRIVER = NO_DRIVER
  Key = {"k1", "k2"}
  Row = {"row"}
  RowOf <- OneRow
  DEBOUNCE = 3
  MAX_DEBOUNCE = 5
  ELAPSED = ELAPSED
  STEP = 2
  DYNAMIC_MACRO_SIZE = 3
  MacroKey = {"m1"}
  SESSION = 4
  LockKey = {l1, l2}
  Letter = {"a", "b"}
  OtherKey = {"shift"}
  SHIFT = "shift"
  MAX_TIME = 9
  AUTO_SHIFT_TIMEOUT = 5
  PRESSES = 3
  MAX_PUSHED = 3
  Dance = {pair, move, toggle}
  DOUBLE = {pair}
  MOVE = {move}
  NO_DANCE = NO_DANCE
  MAX_TAPS = 3
  ComboKey = {"a", "b", "c", "d", "e"}
  PlainKey = {"n"}
  KeysOf <- ThreeCombos
  MAX_COMBO_LENGTH = 2
  MAX_DOWN = 3
INVARIANTS
  PartsTypeOK
  SlotsAreOwned
  ObjectsAreWhole
  IntactFrameIsDelivered
  HopsTellTheSlave
  ConnectedToMaster
  NkroKept
  NoStuckKeys
  Settles
  MacrosApart
  MacroIsWhatWasTyped
  HeldOrLocked
  TypedInOrder
  CodeWhileHeld
  AtMostOneOpen
  NoPressLost
  KeysComeUp
  ComboMeansAllHeld
PROPERTIES
  ReaderSlotIsStable
  ImplementsMailbox
  ShownNeverGoesBack
  DeferWaits
  EagerHoldsOff
