------------------------------- MODULE Action -------------------------------
(***************************************************************************)
(* What one key record does to the keyboard's state: layer lookup, the     *)
(* source-layer cache, process_record and process_action, the modifier     *)
(* sets and the report sent to the host (action.c, action_layer.c,         *)
(* action_util.c, keymap_common.c).                                        *)
(*                                                                         *)
(* The globals of those files are one record, `dev`; every C function that *)
(* changes them is an operator from a device state to a device state.  Bit *)
(* masks are sets: layer_state_t is a set of layers, a modifier byte is a  *)
(* set of modifier keycodes (MOD_BIT(code) is {code}), the NKRO report is  *)
(* the set of the keycodes whose bit is set.                               *)
(***************************************************************************)
EXTENDS Integers

CONSTANTS
  Key,                       \* matrix positions that carry a switch
  MAX_LAYER,                 \* number of layers
  KeyCode,                   \* keycodes with IS_KEY
  Mod,                       \* keycodes with IS_MOD: the eight modifiers
  ConsumerCode,              \* keycodes with IS_CONSUMER: media keys
  KC_NO,
  Keymap,                    \* [Layer -> [Key -> KeyAction]]
  TIMER_WRAP,                \* 2^16: the width of a 16-bit time stamp
  TAPPING_TOGGLE,
  ONESHOT_TAP_TOGGLE,        \* 0 stands for "not defined"
  STRICT_LAYER_RELEASE,
  IGNORE_MOD_TAP_INTERRUPT

Layer == 0 .. MAX_LAYER - 1
Code  == KeyCode \cup Mod \cup ConsumerCode \cup {KC_NO}

(* The actions action_for_key produces, by the case of process_action that *)
(* handles them.  MODS_TAP and LAYER_TAP are the dual-role keys MT and LT, *)
(* ON_OFF is MO, TAP_TOGGLE is TT, ONESHOT is OSL, MODS_ONESHOT is OSM.    *)
Kind == {"LMODS", "MODS_TAP", "MODS_TAP_TOGGLE", "MODS_ONESHOT", "USAGE",
         "DEFAULT_LAYER_SET", "LAYER_TOGGLE", "LAYER_SET", "LAYER_MODS",
         "LAYER_TAP", "TAP_TOGGLE", "ON_OFF", "ONESHOT", "TRANSPARENT"}

KeyAction == [kind : Kind, code : Code, mods : SUBSET Mod, layer : Layer]

(* A time stamp is kept as its age, modulo the width of the timer.         *)
Age    == 0 .. TIMER_WRAP - 1
Record == [key : Key, pressed : BOOLEAN, age : Age,
           count : 0 .. 15, interrupted : BOOLEAN]

OneshotBit == {"PRESSED", "OTHER_KEY_PRESSED", "TOGGLED"}
Report     == [mods : SUBSET Mod, keys : SUBSET KeyCode]

Dev == [layer_state         : SUBSET Layer,
        default_layer_state : SUBSET Layer,
        source_layers_cache : [Key -> Layer],
        real_mods           : SUBSET Mod,
        weak_mods           : SUBSET Mod,
        oneshot_mods        : SUBSET Mod,
        oneshot_locked_mods : SUBSET Mod,
        oneshot_layer       : [layer : Layer, state : SUBSET OneshotBit],
        keys                : SUBSET KeyCode,
        consumer            : ConsumerCode \cup {KC_NO},
        host                : Report]

NoOneshotLayer == [layer |-> 0, state |-> {}]

InitDev ==
  [layer_state         |-> {},
   default_layer_state |-> {0},
   source_layers_cache |-> [k \in Key |-> 0],
   real_mods           |-> {},
   weak_mods           |-> {},
   oneshot_mods        |-> {},
   oneshot_locked_mods |-> {},
   oneshot_layer       |-> NoOneshotLayer,
   keys                |-> {},
   consumer            |-> KC_NO,
   host                |-> [mods |-> {}, keys |-> {}]]

ASSUME ActionAssumption ==
  /\ MAX_LAYER \in Nat \ {0}
  /\ TIMER_WRAP \in Nat \ {0}
  /\ TAPPING_TOGGLE \in Nat
  /\ ONESHOT_TAP_TOGGLE \in Nat
  /\ STRICT_LAYER_RELEASE \in BOOLEAN
  /\ IGNORE_MOD_TAP_INTERRUPT \in BOOLEAN
  /\ KC_NO \notin KeyCode \cup Mod \cup ConsumerCode
  /\ KeyCode \cap Mod = {} /\ (KeyCode \cup Mod) \cap ConsumerCode = {}
  /\ Keymap \in [Layer -> [Key -> KeyAction]]

-----------------------------------------------------------------------------
(* Layers                                                                  *)

action_for_key(l, k) == Keymap[l][k]

layer_switch_get_layer(d, k) ==
  LET opaque == {l \in d.layer_state \cup d.default_layer_state :
                   action_for_key(l, k).kind # "TRANSPARENT"}
  IN  IF opaque = {} THEN 0
      ELSE CHOOSE l \in opaque : \A m \in opaque : m <= l

layer_switch_get_action(d, k) == action_for_key(layer_switch_get_layer(d, k), k)

(* Mutant: a release is looked up in the layers of its own time.           *)
source_layer_now(d, r) == layer_switch_get_layer(d, r.key)

(* The layer a press is looked up in is remembered for the release.        *)
source_layer(d, r) ==
  IF r.pressed \/ STRICT_LAYER_RELEASE THEN layer_switch_get_layer(d, r.key)
                                       ELSE d.source_layers_cache[r.key]

update_source_layers_cache(d, r) ==
  IF r.pressed /\ ~STRICT_LAYER_RELEASE
  THEN [d EXCEPT !.source_layers_cache[r.key] = layer_switch_get_layer(d, r.key)]
  ELSE d

is_tap_action(a) == a.kind \in {"MODS_TAP", "MODS_TAP_TOGGLE", "MODS_ONESHOT",
                                "LAYER_TAP", "TAP_TOGGLE", "ONESHOT"}

is_tap_key(d, k) == is_tap_action(layer_switch_get_action(d, k))

-----------------------------------------------------------------------------
(* The report and the modifiers                                            *)

(* Mutant: the one-shot modifiers are not used up.                         *)
send_keyboard_report_keeps(d) ==
  [d EXCEPT !.host = [mods |-> d.real_mods \cup d.weak_mods \cup d.oneshot_mods,
                      keys |-> d.keys]]

(* A one-shot modifier is in every report until one carries a key.         *)
send_keyboard_report(d) ==
  [d EXCEPT !.host = [mods |-> d.real_mods \cup d.weak_mods \cup d.oneshot_mods,
                      keys |-> d.keys],
            !.oneshot_mods = IF d.keys = {} THEN @ ELSE {}]

register_mods(d, m) ==
  IF m = {} THEN d
  ELSE send_keyboard_report([d EXCEPT !.real_mods = @ \cup m])

unregister_mods(d, m) ==
  IF m = {} THEN d
  ELSE send_keyboard_report([d EXCEPT !.real_mods = @ \ m])

(* A key that is already in the report is released first, so that the host *)
(* sees a new press.                                                       *)
register_key(d, c) ==
  LET up == IF c \in d.keys
            THEN send_keyboard_report([d EXCEPT !.keys = @ \ {c}])
            ELSE d
  IN  send_keyboard_report([up EXCEPT !.keys = @ \cup {c}])

register_code(d, c) ==
  CASE c \in KeyCode      -> register_key(d, c)
    [] c \in Mod          -> register_mods(d, {c})
    [] c \in ConsumerCode -> [d EXCEPT !.consumer = c]
    [] OTHER              -> d

(* Mutant: the key is deleted without a report.                            *)
unregister_code_silent(d, c) ==
  CASE c \in KeyCode -> [d EXCEPT !.keys = @ \ {c}]
    [] c \in Mod     -> unregister_mods(d, {c})
    [] OTHER         -> d

unregister_code(d, c) ==
  CASE c \in KeyCode      -> send_keyboard_report([d EXCEPT !.keys = @ \ {c}])
    [] c \in Mod          -> unregister_mods(d, {c})
    [] c \in ConsumerCode -> [d EXCEPT !.consumer = KC_NO]
    [] OTHER              -> d

clear_keyboard_but_mods_and_keys(d) ==
  [send_keyboard_report([d EXCEPT !.weak_mods = {}]) EXCEPT !.consumer = KC_NO]

(* Mutant: the cleared report is not sent.                                 *)
clear_keyboard_but_mods_silent(d) == [d EXCEPT !.keys = {}, !.weak_mods = {}]

clear_keyboard_but_mods(d) ==
  clear_keyboard_but_mods_and_keys([d EXCEPT !.keys = {}])

clear_keyboard(d) == clear_keyboard_but_mods([d EXCEPT !.real_mods = {}])

(* Mutant: the keys survive a layer change whatever the configuration.     *)
clear_on_layer_change_partly(d) == clear_keyboard_but_mods_and_keys(d)

(* Every layer change ends with a partial clear of the keyboard.           *)
clear_on_layer_change(d) ==
  IF STRICT_LAYER_RELEASE THEN clear_keyboard_but_mods(d)
                          ELSE clear_keyboard_but_mods_and_keys(d)

layer_state_set(d, s) == clear_on_layer_change([d EXCEPT !.layer_state = s])

default_layer_set(d, s) ==
  clear_on_layer_change([d EXCEPT !.default_layer_state = s])

layer_on(d, l)     == layer_state_set(d, d.layer_state \cup {l})
layer_off(d, l)    == layer_state_set(d, d.layer_state \ {l})
layer_invert(d, l) == IF l \in d.layer_state THEN layer_off(d, l) ELSE layer_on(d, l)

-----------------------------------------------------------------------------
(* One-shot layers                                                         *)

set_oneshot_layer(d, l, bits) ==
  layer_on([d EXCEPT !.oneshot_layer = [layer |-> l, state |-> bits]], l)

reset_oneshot_layer(d) == [d EXCEPT !.oneshot_layer = NoOneshotLayer]

(* Mutant: the one-shot is forgotten before its layer is switched off.     *)
clear_oneshot_layer_state_early(d, bit) ==
  LET left == d.oneshot_layer.state \ {bit}
  IN  IF left = {} /\ bit \in d.oneshot_layer.state
      THEN layer_off(reset_oneshot_layer(d), NoOneshotLayer.layer)
      ELSE [d EXCEPT !.oneshot_layer.state = left]

clear_oneshot_layer_state(d, bit) ==
  LET left == d.oneshot_layer.state \ {bit}
      cut  == [d EXCEPT !.oneshot_layer.state = left]
  IN  IF left = {} /\ bit \in d.oneshot_layer.state
      THEN reset_oneshot_layer(layer_off(cut, d.oneshot_layer.layer))
      ELSE cut

clear_other_key_pressed(d, condition) ==
  IF condition THEN clear_oneshot_layer_state(d, "OTHER_KEY_PRESSED") ELSE d

is_oneshot_layer_active(d) == d.oneshot_layer.state # {}

-----------------------------------------------------------------------------
(* The cases of process_action, one operator each                          *)

(* Modifiers of a modified key are weak unless the key is a modifier.      *)
are_real_mods(a) == a.code \in Mod \cup {KC_NO}

add_key_mods(d, a) ==
  CASE a.mods = {} -> d
    [] a.mods # {} /\ are_real_mods(a) ->
         send_keyboard_report([d EXCEPT !.real_mods = @ \cup a.mods])
    [] OTHER -> send_keyboard_report([d EXCEPT !.weak_mods = @ \cup a.mods])

del_key_mods(d, a) ==
  CASE a.mods = {} -> d
    [] a.mods # {} /\ are_real_mods(a) ->
         send_keyboard_report([d EXCEPT !.real_mods = @ \ a.mods])
    [] OTHER -> send_keyboard_report([d EXCEPT !.weak_mods = @ \ a.mods])

action_mods(d, r, a) ==
  IF r.pressed THEN register_code(add_key_mods(d, a), a.code)
               ELSE del_key_mods(unregister_code(d, a.code), a)

(* Mutant: an OSM that was held is not unregistered.                       *)
action_mods_oneshot_stays(d, r, a) ==
  CASE r.pressed /\ r.count = 1 -> [d EXCEPT !.oneshot_mods = a.mods \cup @]
    [] r.pressed /\ r.count # 1 -> register_mods(d, a.mods \cup d.oneshot_mods)
    [] ~r.pressed /\ r.count = 1 -> d
    [] OTHER -> [d EXCEPT !.oneshot_mods = {}]

action_mods_oneshot(d, r, a) ==
  LET toggle  == ONESHOT_TAP_TOGGLE > 1
      none    == [d EXCEPT !.oneshot_mods = {}]
      unlock  == [none EXCEPT !.oneshot_locked_mods = {}]
      locking == toggle /\ r.count = ONESHOT_TAP_TOGGLE
  IN  CASE r.pressed /\ r.count = 1 ->
             [d EXCEPT !.oneshot_mods = a.mods \cup @]
        [] r.pressed /\ r.count # 1 /\ locking ->
             register_mods([none EXCEPT !.oneshot_locked_mods = a.mods], a.mods)
        [] r.pressed /\ r.count # 1 /\ ~locking ->
             register_mods(d, a.mods \cup d.oneshot_mods)
        [] ~r.pressed /\ r.count = 1 ->
             IF toggle /\ a.mods \cap d.real_mods # {}
             THEN unregister_mods(unlock, a.mods) ELSE d
        [] ~r.pressed /\ r.count # 1 /\ locking -> d
        [] OTHER -> unregister_mods(none, a.mods)

action_mods_tap_toggle(d, r, a) ==
  CASE r.pressed /\ r.count <= TAPPING_TOGGLE -> register_mods(d, a.mods)
    [] ~r.pressed /\ r.count < TAPPING_TOGGLE -> unregister_mods(d, a.mods)
    [] OTHER -> d

(* A tap of MT that another key press interrupted counts as a hold.        *)
is_cancelled_tap(r, a) ==
  /\ a.kind = "MODS_TAP"
  /\ r.pressed
  /\ r.count > 0
  /\ r.interrupted
  /\ ~IGNORE_MOD_TAP_INTERRUPT

(* Mutant: the release of a cancelled tap is taken for that of a tap.      *)
action_mods_tap_uncancelled(d, r, a) ==
  LET tapped == IF r.pressed THEN r.count > 0 /\ ~is_cancelled_tap(r, a)
                             ELSE r.count > 0 \/ r.interrupted
  IN  CASE r.pressed /\ tapped   -> register_code(d, a.code)
        [] r.pressed /\ ~tapped  -> register_mods(d, a.mods)
        [] ~r.pressed /\ tapped  -> unregister_code(d, a.code)
        [] OTHER                 -> unregister_mods(d, a.mods)

action_mods_tap(d, r, a) ==
  LET tapped == r.count > 0 /\ ~is_cancelled_tap(r, a)
  IN  CASE r.pressed /\ tapped   -> register_code(d, a.code)
        [] r.pressed /\ ~tapped  -> register_mods(d, a.mods)
        [] ~r.pressed /\ tapped  -> unregister_code(d, a.code)
        [] OTHER                 -> unregister_mods(d, a.mods)

action_layer_mods(d, r, a) ==
  IF r.pressed THEN register_mods(layer_on(d, a.layer), a.mods)
               ELSE layer_off(unregister_mods(d, a.mods), a.layer)

action_tap_toggle(d, r, a) ==
  IF \/ r.pressed /\ r.count < TAPPING_TOGGLE
     \/ ~r.pressed /\ r.count <= TAPPING_TOGGLE
  THEN layer_invert(d, a.layer) ELSE d

action_layer_tap(d, r, a) ==
  CASE r.pressed /\ r.count > 0  -> register_code(d, a.code)
    [] r.pressed /\ r.count = 0  -> layer_on(d, a.layer)
    [] ~r.pressed /\ r.count > 0 -> unregister_code(d, a.code)
    [] OTHER                     -> layer_off(d, a.layer)

oneshot_start(d, l) ==
  set_oneshot_layer(layer_on(d, l), l, {"PRESSED", "OTHER_KEY_PRESSED"})

action_oneshot(d, r, a) ==
  IF r.pressed THEN oneshot_start(d, a.layer)
  ELSE clear_other_key_pressed(clear_oneshot_layer_state(d, "PRESSED"), r.count > 1)

(* OSL when ONESHOT_TAP_TOGGLE is defined.                                 *)
action_oneshot_toggle(d, r, a) ==
  LET free   == [d EXCEPT !.real_mods = @ \ d.oneshot_locked_mods]
      locked == [d EXCEPT !.real_mods = @ \cup d.oneshot_locked_mods]
  IN  CASE r.pressed /\ d.oneshot_layer.state = {"TOGGLED"} ->
             layer_off(reset_oneshot_layer(free), a.layer)
        [] r.pressed /\ d.oneshot_layer.state # {"TOGGLED"}
                     /\ r.count < ONESHOT_TAP_TOGGLE ->
             oneshot_start(free, a.layer)
        [] r.pressed /\ d.oneshot_layer.state # {"TOGGLED"}
                     /\ r.count >= ONESHOT_TAP_TOGGLE -> free
        [] ~r.pressed /\ r.count >= ONESHOT_TAP_TOGGLE ->
             set_oneshot_layer(
               [reset_oneshot_layer(locked) EXCEPT !.oneshot_locked_mods = {}],
               a.layer, {"TOGGLED"})
        [] OTHER -> clear_oneshot_layer_state(locked, "PRESSED")

action_switch(d, r, a) ==
  CASE a.kind = "LMODS"           -> action_mods(d, r, a)
    [] a.kind = "MODS_ONESHOT"    -> action_mods_oneshot(d, r, a)
    [] a.kind = "MODS_TAP_TOGGLE" -> action_mods_tap_toggle(d, r, a)
    [] a.kind = "MODS_TAP"        -> action_mods_tap(d, r, a)
    [] a.kind = "USAGE" ->
         [d EXCEPT !.consumer = IF r.pressed /\ a.code \in ConsumerCode
                                THEN a.code ELSE KC_NO]
    [] a.kind = "DEFAULT_LAYER_SET" ->
         IF r.pressed THEN d ELSE default_layer_set(d, {a.layer})
    [] a.kind = "LAYER_TOGGLE" ->
         IF r.pressed THEN d ELSE layer_invert(d, a.layer)
    [] a.kind = "LAYER_SET" ->
         IF r.pressed THEN layer_state_set(d, {a.layer}) ELSE d
    [] a.kind = "LAYER_MODS"      -> action_layer_mods(d, r, a)
    [] a.kind = "LAYER_TAP"       -> action_layer_tap(d, r, a)
    [] a.kind = "TAP_TOGGLE"      -> action_tap_toggle(d, r, a)
    [] a.kind = "ON_OFF" ->
         IF r.pressed THEN layer_on(d, a.layer) ELSE layer_off(d, a.layer)
    [] a.kind = "ONESHOT" ->
         IF ONESHOT_TAP_TOGGLE > 1 THEN action_oneshot_toggle(d, r, a)
                                   ELSE action_oneshot(d, r, a)
    [] OTHER -> d

-----------------------------------------------------------------------------
(* process_action, process_record                                          *)

(* Mutant: the weak modifiers of earlier keys stay.                        *)
clear_weak_mods_never(d, r) == d

clear_weak_mods(d, r) == IF r.pressed THEN [d EXCEPT !.weak_mods = {}] ELSE d

(* A pressed key that is no modifier uses up the one-shot layer.           *)
uses_oneshot_layer(d, r, a) ==
  is_oneshot_layer_active(d) /\ r.pressed /\ a.code \notin Mod

(* The layer is entered once more for the release and left for good.       *)
process_release(d, r) ==
  action_switch(d, r, action_for_key(source_layer(d, r), r.key))

leave_oneshot_layer(d) == layer_off(d, d.oneshot_layer.layer)

release_oneshot(d, released) ==
  [dev |-> leave_oneshot_layer(process_release(layer_on(d, d.oneshot_layer.layer), released)),
   rec |-> released]

(* The result is the device and the record, which process_action may turn  *)
(* into a release (a key from a one-shot layer is released at once) or     *)
(* into a hold (a cancelled tap).                                          *)
after_switch(d, rec, do_release_oneshot) ==
  IF do_release_oneshot /\ "PRESSED" \notin d.oneshot_layer.state
  THEN release_oneshot(d, [rec EXCEPT !.pressed = FALSE])
  ELSE [dev |-> d, rec |-> rec]

(* With ONESHOT_TAP_TOGGLE, OSL itself does not ask for the release.       *)
with_oneshot_layer_used(d, r, a, uses) ==
  after_switch(action_switch(d, r, a),
               IF is_cancelled_tap(r, a) THEN [r EXCEPT !.count = 0] ELSE r,
               /\ uses
               /\ ~is_oneshot_layer_active(d)
               /\ ~(a.kind = "ONESHOT" /\ ONESHOT_TAP_TOGGLE > 1))

process_action(d, r, a) ==
  LET uses == uses_oneshot_layer(d, r, a)
  IN  with_oneshot_layer_used(clear_other_key_pressed(clear_weak_mods(d, r), uses),
                              r, a, uses)

process_record(d, r) ==
  process_action(update_source_layers_cache(d, r), r,
                 action_for_key(source_layer(d, r), r.key))
=============================================================================
