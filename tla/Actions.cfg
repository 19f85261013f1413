SPECIFICATION Spec
CONSTANTS
  Key <- Keys3
  MAX_LAYER = 4
  KeyCode <- Letters
  Mod <- Mods
  ConsumerCode = {"VOLU"}
  KC_NO = KC_NO
  Keymap <- ActionsKeymap
  TIMER_WRAP = 3
  TAPPING_TOGGLE = 2
  ONESHOT_TAP_TOGGLE = 0
  STRICT_LAYER_RELEASE = FALSE
  IGNORE_MOD_TAP_INTERRUPT = FALSE
  NO_KEY = NO_KEY
  NONE = NONE
  WAITING_BUFFER_SIZE = 3
  TAPPING_TERM <- SameTerm
  TAPPING_TERM_PER_KEY = FALSE
  LONG_TAPPING_TERM = 5
  PERMISSIVE_HOLD = FALSE
  PERMISSIVE_HOLD_PER_KEY = FALSE
  get_permissive_hold <- Never
  TAPPING_FORCE_HOLD <- Never
  MAX_SCAN_GAP = 1
  MAX_WAITING = 1
  FAST_SCAN = TRUE
INVARIANTS
  HostInSync
PROPERTIES
  NoForeignWeakMods
