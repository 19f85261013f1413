SPECIFICATION Spec
CONSTANTS
  Key <- Keys4
  MAX_LAYER = 2
  KeyCode <- Letters
  Mod <- Mods
  ConsumerCode = {}
  KC_NO = KC_NO
  Keymap <- StrictKeymap
  TIMER_WRAP = 8
  TAPPING_TOGGLE = 5
  ONESHOT_TAP_TOGGLE = 0
  STRICT_LAYER_RELEASE = TRUE
  IGNORE_MOD_TAP_INTERRUPT = TRUE
  NO_KEY = NO_KEY
  NONE = NONE
  WAITING_BUFFER_SIZE = 6
  TAPPING_TERM <- SameTerm
  TAPPING_TERM_PER_KEY = FALSE
  LONG_TAPPING_TERM = 5
  PERMISSIVE_HOLD = TRUE
  PERMISSIVE_HOLD_PER_KEY = FALSE
  get_permissive_hold <- Never
  TAPPING_FORCE_HOLD <- Always
  MAX_SCAN_GAP = 1
  MAX_WAITING = 3
  FAST_SCAN = TRUE
INVARIANTS
  EveryCodeIsHeld
  TypedKeyDecides
