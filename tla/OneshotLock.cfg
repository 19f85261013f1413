SPECIFICATION Spec
CONSTANTS
  Key <- Keys3
  MAX_LAYER = 2
  KeyCode <- Letters
  Mod <- Mods
  ConsumerCode = {}
  KC_NO = KC_NO
  Keymap <- OneshotKeymap
  TIMER_WRAP = 8
  TAPPING_TOGGLE = 5
  ONESHOT_TAP_TOGGLE = 2
  STRICT_LAYER_RELEASE = FALSE
  IGNORE_MOD_TAP_INTERRUPT = FALSE
  NO_KEY = NO_KEY
  NONE = NONE
  WAITING_BUFFER_SIZE = 4
  TAPPING_TERM <- SameTerm
  TAPPING_TERM_PER_KEY = FALSE
  LONG_TAPPING_TERM = 5
  PERMISSIVE_HOLD = FALSE
  PERMISSIVE_HOLD_PER_KEY = FALSE
  get_permissive_hold <- Never
  TAPPING_FORCE_HOLD <- Never
  MAX_SCAN_GAP = 1
  MAX_WAITING = 2
  FAST_SCAN = TRUE
INVARIANTS
  EveryModIsHeld
