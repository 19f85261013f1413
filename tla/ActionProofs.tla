----------------------------- MODULE ActionProofs -----------------------------
(***************************************************************************)
(* What every operator of module Action preserves, for every keymap and    *)
(* configuration: the type of the device state, and that the host has been *)
(* told about every key in the report.  And what every operator does to    *)
(* the keys, the modifiers and the layers: only a press types, what a      *)
(* press adds its release removes, and a one-shot layer is on as long as   *)
(* it is active.                                                           *)
(***************************************************************************)
EXTENDS Action, WellFoundedInduction, TLAPS

(* The device states whose report the host has seen.                       *)
Synced == {d \in Dev : d.host.keys = d.keys}

-----------------------------------------------------------------------------
(* The layer lookup                                                        *)

(* Every nonempty set of naturals has a least element (its proof is the    *)
(* well-foundedness of < on Nat).                                          *)
LEMMA NatHasMinimum ==
  ASSUME NEW T \in SUBSET Nat, T # {}
  PROVE  \E x \in T : \A y \in T : x <= y
<1> DEFINE Less == {p \in Nat \X Nat : p[1] < p[2]}
<1>1. IsWellFoundedOn(Less, Nat)
  BY NatLessThanWellFounded DEF OpToRel
<1>2. PICK x \in T : \A y \in T : ~ (<<y, x>> \in Less)
  <2> HIDE DEF Less
  <2> QED
    BY <1>1, WFMin
<1>3. ASSUME NEW y \in T PROVE x <= y
  <2>1. <<y, x>> \in Nat \X Nat /\ ~ (<<y, x>> \in Less)
    BY <1>2
  <2>2. ~ (y < x)
    BY <2>1
  <2> QED
    BY <2>2
<1> QED
  BY <1>3

(* Every nonempty set of layers has a highest one.                         *)
LEMMA HighestLayer ==
  ASSUME NEW T \in SUBSET Layer, T # {}
  PROVE  \E l \in T : \A m \in T : m <= l
<1> DEFINE Below == {MAX_LAYER - l : l \in T}
<1>1. Below \in SUBSET Nat /\ Below # {}
  <2>1. \A l \in T : MAX_LAYER - l \in Nat
    BY ActionAssumption DEF Layer
  <2> QED
    BY <2>1
<1>2. PICK x \in Below : \A y \in Below : x <= y
  BY <1>1, NatHasMinimum
<1>3. PICK l \in T : x = MAX_LAYER - l
  OBVIOUS
<1>4. \A m \in T : MAX_LAYER - l <= MAX_LAYER - m
  BY <1>2, <1>3
<1> QED
  BY <1>4, ActionAssumption DEF Layer

(* layer_switch_get_layer and the action found there are of their types.   *)
LEMMA LookupType ==
  ASSUME NEW d \in Dev, NEW k \in Key
  PROVE  /\ layer_switch_get_layer(d, k) \in Layer
         /\ layer_switch_get_action(d, k) \in KeyAction
<1> DEFINE opaque == {l \in d.layer_state \cup d.default_layer_state :
                        action_for_key(l, k).kind # "TRANSPARENT"}
<1>1. opaque \in SUBSET Layer
  BY DEF Dev
<1>2. layer_switch_get_layer(d, k) \in Layer
  <2>1. CASE opaque = {}
    BY <2>1, ActionAssumption DEF layer_switch_get_layer, Layer
  <2>2. CASE opaque # {}
    BY <2>2, <1>1, HighestLayer DEF layer_switch_get_layer
  <2> QED
    BY <2>1, <2>2
<1> QED
  BY <1>2, ActionAssumption DEF layer_switch_get_action, action_for_key

(* The layer a record is processed under is a layer: of the cache or       *)
(* looked up anew.                                                         *)
LEMMA SourceLayerType ==
  ASSUME NEW d \in Dev, NEW r \in Record, r.key \in Key
  PROVE  source_layer(d, r) \in Layer
BY LookupType DEF source_layer, Dev, Record

-----------------------------------------------------------------------------
(* Reports                                                                 *)

(* send_keyboard_report leaves the host with the keys of the report,       *)
(* whatever they were.                                                     *)
LEMMA SendReport ==
  ASSUME NEW d \in Dev
  PROVE  send_keyboard_report(d) \in Synced
BY DEF send_keyboard_report, Dev, Synced, Report

(* register_mods and unregister_mods end with a report.                    *)
LEMMA RegisterMods ==
  ASSUME NEW d \in Synced, NEW m \in SUBSET Mod
  PROVE  /\ register_mods(d, m) \in Synced
         /\ unregister_mods(d, m) \in Synced
<1>1. [d EXCEPT !.real_mods = @ \cup m] \in Dev
  BY DEF Dev, Synced
<1>2. [d EXCEPT !.real_mods = @ \ m] \in Dev
  BY DEF Dev, Synced
<1> QED
  BY <1>1, <1>2, SendReport DEF register_mods, unregister_mods

(* register_key ends with a report, also when it first lets the code go.   *)
LEMMA RegisterKey ==
  ASSUME NEW d \in Synced, NEW c \in KeyCode
  PROVE  register_key(d, c) \in Synced
<1> DEFINE up == IF c \in d.keys
                 THEN send_keyboard_report([d EXCEPT !.keys = @ \ {c}])
                 ELSE d
<1>1. [d EXCEPT !.keys = @ \ {c}] \in Dev
  BY DEF Dev, Synced
<1>2. up \in Dev
  BY <1>1, SendReport DEF Synced
<1>3. [up EXCEPT !.keys = @ \cup {c}] \in Dev
  <2> HIDE DEF up
  <2> QED
    BY <1>2 DEF Dev
<1> QED
  BY <1>3, SendReport DEF register_key

(* register_code and unregister_code keep the host in step for keys,       *)
(* modifiers, media keys and KC_NO.                                        *)
LEMMA RegisterCode ==
  ASSUME NEW d \in Synced, NEW c \in Code
  PROVE  /\ register_code(d, c) \in Synced
         /\ unregister_code(d, c) \in Synced
<1>1. c \in Mod => {c} \in SUBSET Mod
  OBVIOUS
<1>2. [d EXCEPT !.keys = @ \ {c}] \in Dev
  BY DEF Dev, Synced
<1>3. /\ c \in ConsumerCode => [d EXCEPT !.consumer = c] \in Synced
      /\ [d EXCEPT !.consumer = KC_NO] \in Synced
  BY DEF Dev, Synced
<1>4. register_code(d, c) \in Synced
  BY <1>1, <1>3, RegisterKey, RegisterMods DEF register_code
<1>5. unregister_code(d, c) \in Synced
  BY <1>1, <1>2, <1>3, SendReport, RegisterMods DEF unregister_code
<1> QED
  BY <1>4, <1>5

(* Each of the three clear functions ends with a report.                   *)
LEMMA ClearKeyboard ==
  ASSUME NEW d \in Dev
  PROVE  /\ clear_keyboard_but_mods_and_keys(d) \in Synced
         /\ clear_keyboard_but_mods(d) \in Synced
         /\ clear_keyboard(d) \in Synced
<1>1. ASSUME NEW e \in Dev PROVE clear_keyboard_but_mods_and_keys(e) \in Synced
  <2>1. [e EXCEPT !.weak_mods = {}] \in Dev
    BY DEF Dev
  <2>2. ASSUME NEW f \in Synced PROVE [f EXCEPT !.consumer = KC_NO] \in Synced
    BY DEF Synced, Dev
  <2> QED
    BY <2>1, <2>2, SendReport DEF clear_keyboard_but_mods_and_keys
<1>2. ASSUME NEW e \in Dev PROVE clear_keyboard_but_mods(e) \in Synced
  <2>1. [e EXCEPT !.keys = {}] \in Dev
    BY DEF Dev
  <2> QED
    BY <2>1, <1>1 DEF clear_keyboard_but_mods
<1>3. [d EXCEPT !.real_mods = {}] \in Dev
  BY DEF Dev
<1> QED
  BY <1>1, <1>2, <1>3 DEF clear_keyboard

-----------------------------------------------------------------------------
(* Layer changes                                                           *)

(* A layer change, and the clear that goes with it, keeps the host in      *)
(* step.                                                                   *)
LEMMA LayerStateSet ==
  ASSUME NEW d \in Dev, NEW s \in SUBSET Layer
  PROVE  /\ layer_state_set(d, s) \in Synced
         /\ default_layer_set(d, s) \in Synced
<1>1. ASSUME NEW e \in Dev PROVE clear_on_layer_change(e) \in Synced
  BY ClearKeyboard DEF clear_on_layer_change
<1>2. [d EXCEPT !.layer_state = s] \in Dev
  BY DEF Dev
<1>3. [d EXCEPT !.default_layer_state = s] \in Dev
  BY DEF Dev
<1> QED
  BY <1>1, <1>2, <1>3 DEF layer_state_set, default_layer_set

(* The same for single layers.                                             *)
LEMMA LayerOnOff ==
  ASSUME NEW d \in Dev, NEW l \in Layer
  PROVE  /\ layer_on(d, l) \in Synced
         /\ layer_off(d, l) \in Synced
         /\ layer_invert(d, l) \in Synced
<1>1. d.layer_state \cup {l} \in SUBSET Layer /\ d.layer_state \ {l} \in SUBSET Layer
  BY DEF Dev
<1>2. layer_on(d, l) \in Synced /\ layer_off(d, l) \in Synced
  BY <1>1, LayerStateSet DEF layer_on, layer_off
<1> QED
  BY <1>2 DEF layer_invert

(* There is a layer 0.                                                     *)
LEMMA ZeroIsALayer == 0 \in Layer
BY ActionAssumption DEF Layer

(* reset_oneshot_layer touches the one-shot state only.                    *)
LEMMA ResetOneshotLayer ==
  ASSUME NEW d \in Synced
  PROVE  reset_oneshot_layer(d) \in Synced
BY ZeroIsALayer DEF reset_oneshot_layer, NoOneshotLayer, Synced, Dev

(* Starting a one-shot layer keeps the host in step.                       *)
LEMMA SetOneshotLayer ==
  ASSUME NEW d \in Synced, NEW l \in Layer, NEW bits \in SUBSET OneshotBit
  PROVE  set_oneshot_layer(d, l, bits) \in Synced
<1>1. [d EXCEPT !.oneshot_layer = [layer |-> l, state |-> bits]] \in Dev
  BY DEF Synced, Dev
<1> QED
  BY <1>1, LayerOnOff DEF set_oneshot_layer

(* Neither of the two ways a one-shot layer is left loses a report.        *)
LEMMA ClearOneshotLayerState ==
  ASSUME NEW d \in Synced, NEW bit \in OneshotBit
  PROVE  clear_oneshot_layer_state(d, bit) \in Synced
<1> DEFINE left == d.oneshot_layer.state \ {bit}
           cut  == [d EXCEPT !.oneshot_layer.state = left]
<1>1. cut \in Synced
  BY DEF Synced, Dev
<1>2. layer_off(cut, d.oneshot_layer.layer) \in Synced
  <2>1. d.oneshot_layer.layer \in Layer /\ cut \in Dev
    BY <1>1 DEF Synced, Dev
  <2> QED
    BY <2>1, LayerOnOff
<1> QED
  BY <1>1, <1>2, ResetOneshotLayer DEF clear_oneshot_layer_state

(* The same when another key asks for it.                                  *)
LEMMA ClearOtherKeyPressed ==
  ASSUME NEW d \in Synced, NEW condition
  PROVE  clear_other_key_pressed(d, condition) \in Synced
BY ClearOneshotLayerState DEF clear_other_key_pressed, OneshotBit

-----------------------------------------------------------------------------
(* The cases of process_action                                             *)

(* The modifiers of a modified key, added or deleted, come with a report.  *)
LEMMA KeyMods ==
  ASSUME NEW d \in Synced, NEW a \in KeyAction
  PROVE  add_key_mods(d, a) \in Synced /\ del_key_mods(d, a) \in Synced
<1>1. a.mods \in SUBSET Mod
  BY DEF KeyAction
<1>2. /\ [d EXCEPT !.real_mods = @ \cup a.mods] \in Dev
      /\ [d EXCEPT !.weak_mods = @ \cup a.mods] \in Dev
  BY <1>1 DEF Synced, Dev
<1>3. /\ [d EXCEPT !.real_mods = @ \ a.mods] \in Dev
      /\ [d EXCEPT !.weak_mods = @ \ a.mods] \in Dev
  BY DEF Synced, Dev
<1>4. add_key_mods(d, a) \in Synced
  BY <1>2, SendReport DEF add_key_mods
<1>5. del_key_mods(d, a) \in Synced
  BY <1>3, SendReport DEF del_key_mods
<1> QED
  BY <1>4, <1>5

(* A key with modifiers: the modifiers and the code itself.                *)
LEMMA ActionMods ==
  ASSUME NEW d \in Synced, NEW r \in Record, NEW a \in KeyAction
  PROVE  action_mods(d, r, a) \in Synced
<1>1. a.code \in Code
  BY DEF KeyAction
<1> QED
  BY <1>1, KeyMods, RegisterCode DEF action_mods

(* OSM, with and without ONESHOT_TAP_TOGGLE.                               *)
LEMMA ActionModsOneshot ==
  ASSUME NEW d \in Synced, NEW r \in Record, NEW a \in KeyAction
  PROVE  action_mods_oneshot(d, r, a) \in Synced
<1> DEFINE none   == [d EXCEPT !.oneshot_mods = {}]
           unlock == [none EXCEPT !.oneshot_locked_mods = {}]
           add    == [d EXCEPT !.oneshot_mods = a.mods \cup @]
           lock   == [none EXCEPT !.oneshot_locked_mods = a.mods]
<1>1. a.mods \in SUBSET Mod /\ a.mods \cup d.oneshot_mods \in SUBSET Mod
  BY DEF KeyAction, Synced, Dev
<1>2. none \in Synced
  BY DEF Synced, Dev
<1>3. unlock \in Synced
  BY DEF Synced, Dev
<1>4. add \in Synced
  BY <1>1 DEF Synced, Dev
<1>5. lock \in Synced
  BY <1>1 DEF Synced, Dev
<1> HIDE DEF none, unlock, add, lock
<1>6. action_mods_oneshot(d, r, a) \in
        {add, d, register_mods(lock, a.mods), unregister_mods(unlock, a.mods),
         register_mods(d, a.mods \cup d.oneshot_mods), unregister_mods(none, a.mods)}
  BY DEF action_mods_oneshot, none, unlock, add, lock
<1> QED
  BY <1>1, <1>2, <1>3, <1>4, <1>5, <1>6, RegisterMods

(* MT and its toggling form, cancelled taps included.                      *)
LEMMA ActionModsTap ==
  ASSUME NEW d \in Synced, NEW r \in Record, NEW a \in KeyAction
  PROVE  /\ action_mods_tap(d, r, a) \in Synced
         /\ action_mods_tap_toggle(d, r, a) \in Synced
<1>1. a.mods \in SUBSET Mod /\ a.code \in Code
  BY DEF KeyAction
<1>2. action_mods_tap(d, r, a) \in Synced
  BY <1>1, RegisterMods, RegisterCode DEF action_mods_tap
<1>3. action_mods_tap_toggle(d, r, a) \in Synced
  BY <1>1, RegisterMods DEF action_mods_tap_toggle
<1> QED
  BY <1>2, <1>3

(* A synced device is a device.                                            *)
LEMMA SyncedIsDev == Synced \subseteq Dev
BY DEF Synced

(* LT, TT and the layer key with modifiers.                                *)
LEMMA ActionLayers ==
  ASSUME NEW d \in Synced, NEW r \in Record, NEW a \in KeyAction
  PROVE  /\ action_layer_mods(d, r, a) \in Synced
         /\ action_tap_toggle(d, r, a) \in Synced
         /\ action_layer_tap(d, r, a) \in Synced
<1>1. a.mods \in SUBSET Mod /\ a.code \in Code /\ a.layer \in Layer
  BY DEF KeyAction
<1>2. action_layer_mods(d, r, a) \in Synced
  BY <1>1, RegisterMods, LayerOnOff, SyncedIsDev DEF action_layer_mods
<1>3. action_tap_toggle(d, r, a) \in Synced
  BY <1>1, LayerOnOff, SyncedIsDev DEF action_tap_toggle
<1>4. action_layer_tap(d, r, a) \in Synced
  BY <1>1, RegisterCode, LayerOnOff, SyncedIsDev DEF action_layer_tap
<1> QED
  BY <1>2, <1>3, <1>4

(* The press of OSL.                                                       *)
LEMMA OneshotStart ==
  ASSUME NEW d \in Synced, NEW l \in Layer
  PROVE  oneshot_start(d, l) \in Synced
<1>1. {"PRESSED", "OTHER_KEY_PRESSED"} \in SUBSET OneshotBit
  BY DEF OneshotBit
<1> QED
  BY <1>1, LayerOnOff, SetOneshotLayer, SyncedIsDev DEF oneshot_start

(* OSL without ONESHOT_TAP_TOGGLE.                                         *)
LEMMA ActionOneshot ==
  ASSUME NEW d \in Synced, NEW r \in Record, NEW a \in KeyAction
  PROVE  action_oneshot(d, r, a) \in Synced
<1>1. a.layer \in Layer /\ "PRESSED" \in OneshotBit
  BY DEF KeyAction, OneshotBit
<1> QED
  BY <1>1, OneshotStart, ClearOneshotLayerState, ClearOtherKeyPressed DEF action_oneshot

(* OSL with ONESHOT_TAP_TOGGLE: locked modifiers leave and enter real_mods *)
(* without a report, the keys do not change with them.                     *)
LEMMA ActionOneshotToggle ==
  ASSUME NEW d \in Synced, NEW r \in Record, NEW a \in KeyAction
  PROVE  action_oneshot_toggle(d, r, a) \in Synced
<1> DEFINE free   == [d EXCEPT !.real_mods = @ \ d.oneshot_locked_mods]
           locked == [d EXCEPT !.real_mods = @ \cup d.oneshot_locked_mods]
           reset  == reset_oneshot_layer(locked)
           latch  == [reset EXCEPT !.oneshot_locked_mods = {}]
<1>1. a.layer \in Layer /\ "PRESSED" \in OneshotBit /\ {"TOGGLED"} \in SUBSET OneshotBit
  BY DEF KeyAction, OneshotBit
<1>2. free \in Synced
  BY DEF Synced, Dev
<1>3. locked \in Synced
  BY DEF Synced, Dev
<1> HIDE DEF free, locked
<1>4. reset \in Synced
  BY <1>3, ResetOneshotLayer
<1> HIDE DEF reset
<1>5. latch \in Synced
  BY <1>4 DEF Synced, Dev
<1> HIDE DEF latch
<1>6. layer_off(reset_oneshot_layer(free), a.layer) \in Synced
  BY <1>1, <1>2, ResetOneshotLayer, LayerOnOff, SyncedIsDev
<1>7. action_oneshot_toggle(d, r, a) \in
        {layer_off(reset_oneshot_layer(free), a.layer), oneshot_start(free, a.layer), free,
         set_oneshot_layer(latch, a.layer, {"TOGGLED"}),
         clear_oneshot_layer_state(locked, "PRESSED")}
  BY DEF action_oneshot_toggle, free, locked, reset, latch
<1> QED
  BY <1>1, <1>2, <1>3, <1>5, <1>6, <1>7, OneshotStart, SetOneshotLayer,
     ClearOneshotLayerState

(* The switch of process_action, by the kind of the action.                *)
LEMMA ActionSwitch ==
  ASSUME NEW d \in Synced, NEW r \in Record, NEW a \in KeyAction
  PROVE  action_switch(d, r, a) \in Synced
<1> DEFINE media == [d EXCEPT !.consumer = IF r.pressed /\ a.code \in ConsumerCode
                                           THEN a.code ELSE KC_NO]
<1>1. a.layer \in Layer /\ {a.layer} \in SUBSET Layer
  BY DEF KeyAction
<1>2. media \in Synced
  BY DEF Synced, Dev
<1> HIDE DEF media
<1>3. /\ default_layer_set(d, {a.layer}) \in Synced
      /\ layer_state_set(d, {a.layer}) \in Synced
      /\ layer_invert(d, a.layer) \in Synced
      /\ layer_on(d, a.layer) \in Synced
      /\ layer_off(d, a.layer) \in Synced
  BY <1>1, LayerStateSet, LayerOnOff, SyncedIsDev
<1>4. action_switch(d, r, a) \in
        {action_mods(d, r, a), action_mods_oneshot(d, r, a),
         action_mods_tap_toggle(d, r, a), action_mods_tap(d, r, a), media, d,
         default_layer_set(d, {a.layer}), layer_invert(d, a.layer),
         layer_state_set(d, {a.layer}), action_layer_mods(d, r, a),
         action_layer_tap(d, r, a), action_tap_toggle(d, r, a),
         layer_on(d, a.layer), layer_off(d, a.layer),
         action_oneshot_toggle(d, r, a), action_oneshot(d, r, a)}
  BY DEF action_switch, media
<1> QED
  BY <1>2, <1>3, <1>4, ActionMods, ActionModsOneshot, ActionModsTap, ActionLayers,
     ActionOneshot, ActionOneshotToggle

-----------------------------------------------------------------------------
(* process_action and process_record                                       *)

(* The action of a release is that of the layer of its press.              *)
LEMMA ProcessRelease ==
  ASSUME NEW d \in Synced, NEW r \in Record
  PROVE  process_release(d, r) \in Synced
<1>1. r.key \in Key
  BY DEF Record
<1>2. source_layer(d, r) \in Layer
  BY <1>1, SourceLayerType, SyncedIsDev
<1>3. action_for_key(source_layer(d, r), r.key) \in KeyAction
  BY <1>1, <1>2, ActionAssumption DEF action_for_key
<1> QED
  BY <1>3, ActionSwitch DEF process_release

(* The layer of the one-shot is switched on and off with a report each.    *)
LEMMA OneshotLayerOnOff ==
  ASSUME NEW d \in Synced
  PROVE  /\ layer_on(d, d.oneshot_layer.layer) \in Synced
         /\ leave_oneshot_layer(d) \in Synced
<1>1. d \in Dev /\ d.oneshot_layer.layer \in Layer
  BY DEF Synced, Dev
<1> QED
  BY <1>1, LayerOnOff DEF leave_oneshot_layer

(* What comes after the switch: the release a one-shot layer may add, of   *)
(* the same key at the same time.                                          *)
LEMMA AfterSwitch ==
  ASSUME NEW d \in Synced, NEW rec \in Record, NEW do_release
  PROVE  /\ after_switch(d, rec, do_release).dev \in Synced
         /\ after_switch(d, rec, do_release).rec \in Record
         /\ after_switch(d, rec, do_release).rec.key = rec.key
         /\ after_switch(d, rec, do_release).rec.age = rec.age
<1> DEFINE released == [rec EXCEPT !.pressed = FALSE]
           left == leave_oneshot_layer(
                     process_release(layer_on(d, d.oneshot_layer.layer), released))
<1>1. released \in Record /\ released.key = rec.key /\ released.age = rec.age
  BY DEF Record
<1>2. left \in Synced
  <2> HIDE DEF released
  <2>1. layer_on(d, d.oneshot_layer.layer) \in Synced
    BY OneshotLayerOnOff
  <2> QED
    BY <1>1, <2>1, ProcessRelease, OneshotLayerOnOff
<1>3. after_switch(d, rec, do_release) \in
        {[dev |-> left, rec |-> released], [dev |-> d, rec |-> rec]}
  BY DEF after_switch, release_oneshot
<1> HIDE DEF left, released
<1> QED
  BY <1>1, <1>2, <1>3

(* process_action with what comes before and after the switch: weak        *)
(* modifiers, the one-shot layer and the cancelled tap.                    *)
LEMMA ProcessAction ==
  ASSUME NEW d \in Synced, NEW r \in Record, NEW a \in KeyAction
  PROVE  /\ process_action(d, r, a).dev \in Synced
         /\ process_action(d, r, a).rec \in Record
         /\ process_action(d, r, a).rec.key = r.key
         /\ process_action(d, r, a).rec.age = r.age
<1> DEFINE uses  == uses_oneshot_layer(d, r, a)
           ready == clear_other_key_pressed(clear_weak_mods(d, r), uses)
           rec   == IF is_cancelled_tap(r, a) THEN [r EXCEPT !.count = 0] ELSE r
           again == /\ uses
                    /\ ~is_oneshot_layer_active(ready)
                    /\ ~(a.kind = "ONESHOT" /\ ONESHOT_TAP_TOGGLE > 1)
<1>1. clear_weak_mods(d, r) \in Synced
  BY DEF clear_weak_mods, Synced, Dev
<1>2. action_switch(ready, r, a) \in Synced
  <2>1. ready \in Synced
    <3> HIDE DEF uses
    <3> QED
      BY <1>1, ClearOtherKeyPressed
  <2> HIDE DEF ready
  <2> QED
    BY <2>1, ActionSwitch
<1>3. rec \in Record /\ rec.key = r.key /\ rec.age = r.age
  BY DEF Record
<1>4. process_action(d, r, a) = after_switch(action_switch(ready, r, a), rec, again)
  BY DEF process_action, with_oneshot_layer_used
<1> HIDE DEF ready, rec, again
<1> QED
  BY <1>2, <1>3, <1>4, AfterSwitch

(* A key record leaves a device the host is in step with, and is itself    *)
(* changed in its decision only.                                           *)
LEMMA ProcessRecord ==
  ASSUME NEW d \in Synced, NEW r \in Record
  PROVE  /\ process_record(d, r).dev \in Synced
         /\ process_record(d, r).rec \in Record
         /\ process_record(d, r).rec.key = r.key
         /\ process_record(d, r).rec.age = r.age
<1>1. r.key \in Key
  BY DEF Record
<1>2. update_source_layers_cache(d, r) \in Synced
  <2>1. layer_switch_get_layer(d, r.key) \in Layer
    BY <1>1, LookupType, SyncedIsDev
  <2> QED
    BY <1>1, <2>1 DEF update_source_layers_cache, Synced, Dev
<1>3. action_for_key(source_layer(d, r), r.key) \in KeyAction
  BY <1>1, SourceLayerType, SyncedIsDev, ActionAssumption DEF action_for_key
<1> QED
  BY <1>1, <1>2, <1>3, ProcessAction DEF process_record

-----------------------------------------------------------------------------
(* What a step does                                                        *)

(* What a step may do that types nothing: no key, weak or one-shot         *)
(* modifier is added, the cache stays, and a report, if one is sent, has   *)
(* no modifiers from elsewhere.                                            *)
Calmer(d, e) ==
  /\ e.source_layers_cache = d.source_layers_cache
  /\ e.keys \subseteq d.keys
  /\ e.weak_mods \subseteq d.weak_mods
  /\ e.oneshot_mods \subseteq d.oneshot_mods
  /\ \/ e.host.mods \subseteq e.real_mods \cup d.weak_mods \cup d.oneshot_mods
     \/ e.host.mods = d.host.mods /\ d.real_mods \subseteq e.real_mods

(* A step that switches no layer.                                          *)
SameLayers(d, e) ==
  e.layer_state = d.layer_state /\ e.oneshot_layer = d.oneshot_layer

(* Calm steps compose.                                                     *)
LEMMA CalmerTwice ==
  ASSUME NEW d, NEW e, NEW f, Calmer(d, e), Calmer(e, f)
  PROVE  Calmer(d, f)
BY DEF Calmer

(* Doing nothing is calm.                                                  *)
LEMMA CalmerSelf == \A d : Calmer(d, d)
BY DEF Calmer

-----------------------------------------------------------------------------
(* The report and the modifiers                                            *)

(* send_keyboard_report changes no key and no modifier but the one-shot    *)
(* ones, which a report with a key in it uses up.                          *)
LEMMA SendReportEffect ==
  ASSUME NEW d \in Dev, NEW e, e = send_keyboard_report(d)
  PROVE  /\ e.keys = d.keys /\ e.real_mods = d.real_mods /\ e.weak_mods = d.weak_mods
         /\ e.oneshot_mods = (IF d.keys = {} THEN d.oneshot_mods ELSE {})
         /\ e.default_layer_state = d.default_layer_state
         /\ e.host.mods = d.real_mods \cup d.weak_mods \cup d.oneshot_mods
         /\ SameLayers(d, e) /\ Calmer(d, e)
BY DEF send_keyboard_report, Dev, SameLayers, Calmer

(* register_mods and unregister_mods add and remove the given real         *)
(* modifiers and nothing else.                                             *)
LEMMA RegisterModsEffect ==
  ASSUME NEW d \in Dev, NEW m \in SUBSET Mod
  PROVE  /\ register_mods(d, m).real_mods = d.real_mods \cup m
         /\ unregister_mods(d, m).real_mods = d.real_mods \ m
         /\ register_mods(d, m).weak_mods = d.weak_mods
         /\ SameLayers(d, register_mods(d, m)) /\ Calmer(d, register_mods(d, m))
         /\ SameLayers(d, unregister_mods(d, m)) /\ Calmer(d, unregister_mods(d, m))
<1> DEFINE more == [d EXCEPT !.real_mods = @ \cup m]
           less == [d EXCEPT !.real_mods = @ \ m]
<1>1. /\ more \in Dev /\ more.real_mods = d.real_mods \cup m /\ more.keys = d.keys
      /\ more.weak_mods = d.weak_mods /\ more.oneshot_mods = d.oneshot_mods
      /\ more.source_layers_cache = d.source_layers_cache /\ SameLayers(d, more)
  BY DEF Dev, SameLayers
<1>2. /\ less \in Dev /\ less.real_mods = d.real_mods \ m /\ less.keys = d.keys
      /\ less.weak_mods = d.weak_mods /\ less.oneshot_mods = d.oneshot_mods
      /\ less.source_layers_cache = d.source_layers_cache /\ SameLayers(d, less)
  BY DEF Dev, SameLayers
<1>3. /\ register_mods(d, m) = IF m = {} THEN d ELSE send_keyboard_report(more)
      /\ unregister_mods(d, m) = IF m = {} THEN d ELSE send_keyboard_report(less)
  BY DEF register_mods, unregister_mods
<1> HIDE DEF more, less
<1>4. CASE m = {}
  BY <1>3, <1>4 DEF SameLayers, Calmer
<1>5. CASE m # {}
  BY <1>1, <1>2, <1>3, <1>5, SendReportEffect DEF SameLayers, Calmer
<1> QED
  BY <1>4, <1>5

(* What a press of a key with code c and modifiers m may do: if the code   *)
(* goes into the report, it goes with these modifiers, and the one-shot    *)
(* modifiers are used up.                                                  *)
Types(d, e, c, m) ==
  /\ e.source_layers_cache = d.source_layers_cache
  /\ e.oneshot_mods \subseteq d.oneshot_mods
  /\ \/ e.keys \subseteq d.keys
     \/ /\ e.keys \subseteq d.keys \cup {c}
        /\ e.oneshot_mods = {}
        /\ e.weak_mods \subseteq d.weak_mods \cup m
        /\ e.host.mods \subseteq e.real_mods \cup d.weak_mods \cup d.oneshot_mods \cup m

(* register_key reports the key, twice if it was down, with the modifiers  *)
(* of the moment, and leaves no one-shot modifier.                         *)
LEMMA RegisterKeyEffect ==
  ASSUME NEW d \in Dev, NEW c \in KeyCode
  PROVE  /\ register_key(d, c).real_mods = d.real_mods
         /\ register_key(d, c).weak_mods = d.weak_mods
         /\ register_key(d, c).oneshot_mods = {}
         /\ Types(d, register_key(d, c), c, {})
         /\ SameLayers(d, register_key(d, c))
<1> DEFINE without == [d EXCEPT !.keys = @ \ {c}]
           up      == IF c \in d.keys THEN send_keyboard_report(without) ELSE d
           with    == [up EXCEPT !.keys = @ \cup {c}]
<1>1. /\ without \in Dev /\ without.real_mods = d.real_mods /\ without.keys = d.keys \ {c}
      /\ without.weak_mods = d.weak_mods /\ without.oneshot_mods = d.oneshot_mods
      /\ without.source_layers_cache = d.source_layers_cache /\ SameLayers(d, without)
  BY DEF Dev, SameLayers
<1> HIDE DEF without
<1>2. /\ up \in Dev /\ up.real_mods = d.real_mods /\ up.keys \subseteq d.keys
      /\ up.weak_mods = d.weak_mods /\ up.oneshot_mods \subseteq d.oneshot_mods
      /\ up.source_layers_cache = d.source_layers_cache /\ SameLayers(d, up)
  <2>1. send_keyboard_report(without) \in Dev
    BY <1>1, SendReport, SyncedIsDev
  <2> QED
    BY <1>1, <2>1, SendReportEffect DEF SameLayers, Calmer
<1> HIDE DEF up
<1>3. /\ with \in Dev /\ with.real_mods = d.real_mods /\ with.keys = up.keys \cup {c}
      /\ with.weak_mods = d.weak_mods /\ with.oneshot_mods = up.oneshot_mods
      /\ with.source_layers_cache = d.source_layers_cache /\ SameLayers(d, with)
  BY <1>2 DEF Dev, SameLayers
<1>4. register_key(d, c) = send_keyboard_report(with)
  BY DEF register_key, with, up, without
<1> HIDE DEF with
<1> QED
  BY <1>2, <1>3, <1>4, SendReportEffect DEF SameLayers, Calmer, Types

(* register_code adds at most the code it is given, to the keys or to the  *)
(* real modifiers.                                                         *)
LEMMA RegisterCodeEffect ==
  ASSUME NEW d \in Dev, NEW c \in Code, NEW e, e = register_code(d, c)
  PROVE  /\ e.keys \subseteq d.keys \cup {c}
         /\ e.real_mods \subseteq d.real_mods \cup ({c} \cap Mod)
         /\ e.weak_mods = d.weak_mods /\ e.oneshot_mods \subseteq d.oneshot_mods
         /\ Types(d, e, c, {}) /\ SameLayers(d, e)
<1>1. CASE c \in KeyCode
  <2>1. e = register_key(d, c)
    BY <1>1, ActionAssumption DEF register_code
  <2> QED
    BY <1>1, <2>1, RegisterKeyEffect DEF Types
<1>2. CASE c \in Mod
  <2>1. e = register_mods(d, {c})
    BY <1>2, ActionAssumption DEF register_code
  <2>2. {c} \in SUBSET Mod /\ {c} = {c} \cap Mod
    BY <1>2
  <2>3. /\ e.real_mods = d.real_mods \cup ({c} \cap Mod) /\ e.weak_mods = d.weak_mods
        /\ SameLayers(d, e) /\ Calmer(d, e)
    BY <2>1, <2>2, RegisterModsEffect
  <2> QED
    BY <2>3 DEF Types, Calmer
<1>3. CASE c \notin KeyCode /\ c \notin Mod
  <2>1. e = d \/ e = [d EXCEPT !.consumer = c]
    BY <1>3 DEF register_code
  <2>2. /\ e.keys = d.keys /\ e.real_mods = d.real_mods /\ e.weak_mods = d.weak_mods
        /\ e.oneshot_mods = d.oneshot_mods /\ SameLayers(d, e)
        /\ e.source_layers_cache = d.source_layers_cache
    BY <2>1 DEF Dev, SameLayers
  <2> QED
    BY <2>2 DEF Types
<1> QED
  BY <1>1, <1>2, <1>3

(* unregister_code takes the code out of both and is calm.                 *)
LEMMA UnregisterCodeEffect ==
  ASSUME NEW d \in Dev, NEW c \in Code, NEW e, e = unregister_code(d, c)
  PROVE  /\ e.keys \subseteq d.keys \ {c} /\ e.real_mods \subseteq d.real_mods \ {c}
         /\ SameLayers(d, e) /\ Calmer(d, e)
<1>0. d.keys \subseteq KeyCode /\ d.real_mods \subseteq Mod
  BY DEF Dev
<1>1. CASE c \in KeyCode
  <2> DEFINE without == [d EXCEPT !.keys = @ \ {c}]
  <2>1. e = send_keyboard_report(without)
    BY <1>1, ActionAssumption DEF unregister_code
  <2>2. /\ without \in Dev /\ without.real_mods = d.real_mods /\ without.keys = d.keys \ {c}
        /\ without.weak_mods = d.weak_mods /\ without.oneshot_mods = d.oneshot_mods
        /\ without.source_layers_cache = d.source_layers_cache /\ SameLayers(d, without)
    BY DEF Dev, SameLayers
  <2> HIDE DEF without
  <2> QED
    BY <1>0, <1>1, <2>1, <2>2, SendReportEffect, ActionAssumption DEF SameLayers, Calmer
<1>2. CASE c \in Mod
  <2>1. e = unregister_mods(d, {c})
    BY <1>2, ActionAssumption DEF unregister_code
  <2>2. {c} \in SUBSET Mod /\ c \notin d.keys
    BY <1>0, <1>2, ActionAssumption
  <2>3. /\ e.real_mods = d.real_mods \ {c} /\ SameLayers(d, e) /\ Calmer(d, e)
    BY <2>1, <2>2, RegisterModsEffect
  <2> QED
    BY <2>2, <2>3 DEF Calmer
<1>3. CASE c \notin KeyCode /\ c \notin Mod
  <2>1. e = d \/ e = [d EXCEPT !.consumer = KC_NO]
    BY <1>3 DEF unregister_code
  <2>2. /\ e.keys = d.keys /\ e.real_mods = d.real_mods /\ e.weak_mods = d.weak_mods
        /\ e.oneshot_mods = d.oneshot_mods /\ SameLayers(d, e) /\ e.host = d.host
        /\ e.source_layers_cache = d.source_layers_cache
    BY <2>1 DEF Dev, SameLayers
  <2>3. d.keys \subseteq d.keys \ {c} /\ d.real_mods \subseteq d.real_mods \ {c}
    BY <1>0, <1>3
  <2> QED
    BY <2>2, <2>3 DEF Calmer
<1> QED
  BY <1>1, <1>2, <1>3

(* The three ways to clear the keyboard are calm; clear_keyboard leaves no *)
(* key and no real modifier.                                               *)
LEMMA ClearEffect ==
  ASSUME NEW d \in Dev
  PROVE  /\ LET e == clear_on_layer_change(d)
            IN e.real_mods = d.real_mods /\ SameLayers(d, e) /\ Calmer(d, e)
         /\ LET e == clear_keyboard(d)
            IN e.real_mods = {} /\ e.keys = {} /\ SameLayers(d, e) /\ Calmer(d, e)
<1>1. ASSUME NEW x \in Dev, NEW e, e = clear_keyboard_but_mods_and_keys(x)
      PROVE  e.real_mods = x.real_mods /\ SameLayers(x, e) /\ Calmer(x, e)
  <2> DEFINE cut == [x EXCEPT !.weak_mods = {}]
             sent == send_keyboard_report(cut)
  <2>1. /\ cut \in Dev /\ cut.real_mods = x.real_mods /\ cut.keys = x.keys
        /\ cut.weak_mods = {} /\ cut.oneshot_mods = x.oneshot_mods
        /\ cut.source_layers_cache = x.source_layers_cache /\ SameLayers(x, cut)
    BY DEF Dev, SameLayers
  <2> HIDE DEF cut
  <2>2. sent \in Dev
    BY <2>1, SendReport, SyncedIsDev
  <2>3. sent.real_mods = x.real_mods /\ SameLayers(x, sent) /\ Calmer(x, sent)
    BY <2>1, SendReportEffect DEF Calmer, SameLayers
  <2>4. e = [sent EXCEPT !.consumer = KC_NO]
    BY <1>1 DEF clear_keyboard_but_mods_and_keys, sent, cut
  <2> HIDE DEF sent
  <2> QED
    BY <2>2, <2>3, <2>4 DEF Dev, SameLayers, Calmer
<1>2. ASSUME NEW x \in Dev, NEW e, e = clear_keyboard_but_mods(x)
      PROVE  e.real_mods = x.real_mods /\ SameLayers(x, e) /\ Calmer(x, e)
  <2> DEFINE cut == [x EXCEPT !.keys = {}]
  <2>1. /\ cut \in Dev /\ cut.real_mods = x.real_mods /\ cut.keys = {}
        /\ cut.weak_mods = x.weak_mods /\ cut.oneshot_mods = x.oneshot_mods
        /\ cut.host.mods = x.host.mods
        /\ cut.source_layers_cache = x.source_layers_cache /\ SameLayers(x, cut)
    BY DEF Dev, SameLayers
  <2>2. e = clear_keyboard_but_mods_and_keys(cut)
    BY <1>2 DEF clear_keyboard_but_mods
  <2> HIDE DEF cut
  <2> QED
    BY <1>1, <2>1, <2>2 DEF SameLayers, Calmer
<1>3. clear_keyboard(d).real_mods = {} /\ clear_keyboard(d).keys = {}
      /\ SameLayers(d, clear_keyboard(d))
      /\ Calmer(d, clear_keyboard(d))
  <2> DEFINE cut == [d EXCEPT !.real_mods = {}, !.keys = {}, !.weak_mods = {}]
             sent == send_keyboard_report(cut)
  <2>1. /\ cut \in Dev /\ cut.real_mods = {} /\ cut.keys = {} /\ cut.weak_mods = {}
        /\ cut.oneshot_mods = d.oneshot_mods
        /\ cut.source_layers_cache = d.source_layers_cache /\ SameLayers(d, cut)
    BY DEF Dev, SameLayers
  <2>2. clear_keyboard(d) = [sent EXCEPT !.consumer = KC_NO]
    <3>1. [[[d EXCEPT !.real_mods = {}] EXCEPT !.keys = {}] EXCEPT !.weak_mods = {}] = cut
      BY DEF Dev
    <3> QED
      BY <3>1 DEF clear_keyboard, clear_keyboard_but_mods, clear_keyboard_but_mods_and_keys
  <2> HIDE DEF cut
  <2>3. /\ sent \in Dev /\ sent.real_mods = {} /\ sent.keys = {}
        /\ SameLayers(d, sent) /\ Calmer(d, sent)
    BY <2>1, SendReport, SyncedIsDev, SendReportEffect DEF Calmer, SameLayers
  <2> HIDE DEF sent
  <2> QED
    BY <2>2, <2>3 DEF Dev, SameLayers, Calmer
<1> QED
  BY <1>1, <1>2, <1>3 DEF clear_on_layer_change

(* Setting the layers keeps the real modifiers and the one-shot layer.     *)
LEMMA LayerStateSetEffect ==
  ASSUME NEW d \in Dev, NEW s \in SUBSET Layer
  PROVE  /\ LET e == layer_state_set(d, s)
            IN  /\ e.layer_state = s /\ e.oneshot_layer = d.oneshot_layer
                /\ e.real_mods = d.real_mods /\ Calmer(d, e)
         /\ LET e == default_layer_set(d, s)
            IN  SameLayers(d, e) /\ e.real_mods = d.real_mods /\ Calmer(d, e)
<1> DEFINE new == [d EXCEPT !.layer_state = s]
           def == [d EXCEPT !.default_layer_state = s]
<1>1. /\ new \in Dev /\ new.layer_state = s /\ new.oneshot_layer = d.oneshot_layer
      /\ new.real_mods = d.real_mods /\ Calmer(d, new)
  BY DEF Dev, Calmer
<1>2. def \in Dev /\ SameLayers(d, def) /\ def.real_mods = d.real_mods /\ Calmer(d, def)
  BY DEF Dev, SameLayers, Calmer
<1>3. /\ layer_state_set(d, s) = clear_on_layer_change(new)
      /\ default_layer_set(d, s) = clear_on_layer_change(def)
  BY DEF layer_state_set, default_layer_set
<1> HIDE DEF new, def
<1> QED
  BY <1>1, <1>2, <1>3, ClearEffect, CalmerTwice DEF SameLayers

(* layer_on and layer_off change the one layer they are given.             *)
LEMMA LayerOnOffEffect ==
  ASSUME NEW d \in Dev, NEW l \in Layer
  PROVE  /\ LET e == layer_on(d, l)
            IN  /\ e.layer_state = d.layer_state \cup {l}
                /\ e.oneshot_layer = d.oneshot_layer
                /\ e.real_mods = d.real_mods /\ Calmer(d, e)
         /\ LET e == layer_off(d, l)
            IN  /\ e.layer_state = d.layer_state \ {l}
                /\ e.oneshot_layer = d.oneshot_layer
                /\ e.real_mods = d.real_mods /\ Calmer(d, e)
         /\ LET e == layer_invert(d, l)
            IN  /\ e.oneshot_layer = d.oneshot_layer
                /\ e.real_mods = d.real_mods /\ Calmer(d, e)
<1>1. d.layer_state \cup {l} \in SUBSET Layer /\ d.layer_state \ {l} \in SUBSET Layer
  BY DEF Dev
<1> QED
  BY <1>1, LayerStateSetEffect DEF layer_on, layer_off, layer_invert

(* A calm step before or after a typing step leaves it a typing step.      *)
LEMMA CalmerTypes ==
  ASSUME NEW d, NEW e, NEW f, NEW c, NEW m
  PROVE  /\ Calmer(d, e) /\ Types(e, f, c, m) => Types(d, f, c, m)
         /\ Types(d, e, c, m) /\ Calmer(e, f) => Types(d, f, c, m)
BY DEF Calmer, Types

(* What a key without tap holds while it is down.                          *)
CodesOf(a) == IF a.kind = "LMODS" THEN {a.code} ELSE {}

ModsOf(a) == CASE a.kind = "LMODS" -> IF are_real_mods(a) THEN a.mods \cup {a.code} ELSE {}
               [] a.kind = "LAYER_MODS" -> a.mods
               [] OTHER -> {}

LayersOf(a) == IF a.kind \in {"ON_OFF", "LAYER_MODS"} THEN {a.layer} ELSE {}

RealPart(a) == IF are_real_mods(a) THEN a.mods ELSE {}

(* add_key_mods and del_key_mods move the modifiers of the key, the real   *)
(* part of them into and out of the real modifiers.                        *)
LEMMA KeyModsEffect ==
  ASSUME NEW d \in Synced, NEW a \in KeyAction
  PROVE  /\ LET e == add_key_mods(d, a)
            IN  /\ e.keys = d.keys /\ e.real_mods = d.real_mods \cup RealPart(a)
                /\ e.weak_mods \subseteq d.weak_mods \cup a.mods
                /\ e.oneshot_mods \subseteq d.oneshot_mods
                /\ e.source_layers_cache = d.source_layers_cache /\ SameLayers(d, e)
         /\ LET e == del_key_mods(d, a)
            IN  /\ e.real_mods = d.real_mods \ RealPart(a)
                /\ SameLayers(d, e) /\ Calmer(d, e)
<1>0. d \in Dev /\ a.mods \in SUBSET Mod
  BY DEF KeyAction, Synced
<1>1. CASE a.mods = {}
  BY <1>1 DEF add_key_mods, del_key_mods, RealPart, SameLayers, Calmer
<1>2. CASE a.mods # {} /\ are_real_mods(a)
  <2> DEFINE more == [d EXCEPT !.real_mods = @ \cup a.mods]
             less == [d EXCEPT !.real_mods = @ \ a.mods]
  <2>1. /\ more \in Dev /\ more.real_mods = d.real_mods \cup a.mods /\ more.keys = d.keys
        /\ more.weak_mods = d.weak_mods /\ more.oneshot_mods = d.oneshot_mods
        /\ more.source_layers_cache = d.source_layers_cache /\ SameLayers(d, more)
    BY <1>0 DEF Dev, SameLayers
  <2>2. /\ less \in Dev /\ less.real_mods = d.real_mods \ a.mods /\ less.keys = d.keys
        /\ less.weak_mods = d.weak_mods /\ less.oneshot_mods = d.oneshot_mods
        /\ less.source_layers_cache = d.source_layers_cache /\ SameLayers(d, less)
    BY <1>0 DEF Dev, SameLayers
  <2>3. /\ add_key_mods(d, a) = send_keyboard_report(more)
        /\ del_key_mods(d, a) = send_keyboard_report(less)
    BY <1>2 DEF add_key_mods, del_key_mods
  <2> HIDE DEF more, less
  <2> QED
    BY <1>2, <2>1, <2>2, <2>3, SendReportEffect DEF SameLayers, Calmer, RealPart
<1>3. CASE a.mods # {} /\ ~are_real_mods(a)
  <2> DEFINE more == [d EXCEPT !.weak_mods = @ \cup a.mods]
             less == [d EXCEPT !.weak_mods = @ \ a.mods]
  <2>1. /\ more \in Dev /\ more.weak_mods = d.weak_mods \cup a.mods /\ more.keys = d.keys
        /\ more.real_mods = d.real_mods /\ more.oneshot_mods = d.oneshot_mods
        /\ more.source_layers_cache = d.source_layers_cache /\ SameLayers(d, more)
    BY <1>0 DEF Dev, SameLayers
  <2>2. /\ less \in Dev /\ less.weak_mods = d.weak_mods \ a.mods /\ less.keys = d.keys
        /\ less.real_mods = d.real_mods /\ less.oneshot_mods = d.oneshot_mods
        /\ less.source_layers_cache = d.source_layers_cache /\ SameLayers(d, less)
    BY <1>0 DEF Dev, SameLayers
  <2>3. /\ add_key_mods(d, a) = send_keyboard_report(more)
        /\ del_key_mods(d, a) = send_keyboard_report(less)
    BY <1>3 DEF add_key_mods, del_key_mods
  <2> HIDE DEF more, less
  <2> QED
    BY <1>3, <2>1, <2>2, <2>3, SendReportEffect DEF SameLayers, Calmer, RealPart
<1> QED
  BY <1>1, <1>2, <1>3

(* A key with modifiers: what its press adds its release removes.          *)
LEMMA ActionModsEffect ==
  ASSUME NEW d \in Synced, NEW r \in Record, NEW a \in KeyAction, NEW e,
         e = action_mods(d, r, a), a.kind = "LMODS"
  PROVE  /\ SameLayers(d, e)
         /\ r.pressed => /\ Types(d, e, a.code, a.mods)
                         /\ e.keys \subseteq d.keys \cup CodesOf(a)
                         /\ e.real_mods \subseteq d.real_mods \cup ModsOf(a)
         /\ ~r.pressed => /\ Calmer(d, e)
                          /\ e.keys \subseteq d.keys \ CodesOf(a)
                          /\ e.real_mods \subseteq d.real_mods \ ModsOf(a)
<1>0. a.code \in Code /\ a.mods \in SUBSET Mod
  BY DEF KeyAction
<1>1. CASE r.pressed
  <2> DEFINE with == add_key_mods(d, a)
  <2>1. /\ with \in Dev /\ with.keys = d.keys /\ with.real_mods = d.real_mods \cup RealPart(a)
        /\ with.weak_mods \subseteq d.weak_mods \cup a.mods
        /\ with.oneshot_mods \subseteq d.oneshot_mods
        /\ with.source_layers_cache = d.source_layers_cache /\ SameLayers(d, with)
    BY KeyMods, KeyModsEffect, SyncedIsDev
  <2>2. e = register_code(with, a.code)
    BY <1>1 DEF action_mods
  <2> HIDE DEF with
  <2>3. /\ e.keys \subseteq with.keys \cup {a.code}
        /\ e.real_mods \subseteq with.real_mods \cup ({a.code} \cap Mod)
        /\ Types(with, e, a.code, {}) /\ SameLayers(with, e)
    BY <1>0, <2>1, <2>2, RegisterCodeEffect
  <2>4. RealPart(a) \cup ({a.code} \cap Mod) \subseteq ModsOf(a)
    BY DEF RealPart, ModsOf, are_real_mods
  <2>5. e.real_mods \subseteq d.real_mods \cup ModsOf(a)
    BY <2>1, <2>3, <2>4
  <2>6. SameLayers(d, e) /\ e.keys \subseteq d.keys \cup CodesOf(a)
    BY <2>1, <2>3 DEF SameLayers, CodesOf
  <2>7. Types(d, e, a.code, a.mods)
    BY <2>1, <2>3 DEF Types
  <2> QED
    BY <1>1, <2>5, <2>6, <2>7
<1>2. CASE ~r.pressed
  <2> DEFINE up == unregister_code(d, a.code)
  <2>1. /\ up \in Synced /\ up.keys \subseteq d.keys \ {a.code}
        /\ up.real_mods \subseteq d.real_mods \ {a.code}
        /\ SameLayers(d, up) /\ Calmer(d, up)
    BY <1>0, RegisterCode, UnregisterCodeEffect, SyncedIsDev
  <2>2. e = del_key_mods(up, a)
    BY <1>2 DEF action_mods
  <2> HIDE DEF up
  <2>3. e.real_mods = up.real_mods \ RealPart(a) /\ SameLayers(up, e) /\ Calmer(up, e)
    BY <2>1, <2>2, KeyModsEffect
  <2>4. e.real_mods \subseteq d.real_mods \ ModsOf(a)
    BY <2>1, <2>3 DEF ModsOf, RealPart
  <2>5. Calmer(d, e) /\ SameLayers(d, e)
    BY <2>1, <2>3, CalmerTwice DEF SameLayers
  <2>6. e.keys \subseteq d.keys \ CodesOf(a)
    BY <2>1, <2>3 DEF Calmer, CodesOf
  <2> QED
    BY <1>2, <2>4, <2>5, <2>6
<1> QED
  BY <1>1, <1>2

(* A calm step, or one that types without modifiers, is within what a key  *)
(* with modifiers may do.                                                  *)
LEMMA CalmerIsTypes ==
  ASSUME NEW d, NEW e, NEW c, NEW m
  PROVE  Calmer(d, e) \/ Types(d, e, c, {}) => Types(d, e, c, m)
BY DEF Calmer, Types

-----------------------------------------------------------------------------
(* One-shot layers and modifiers                                           *)

(* set_oneshot_layer switches its layer on and remembers it.               *)
LEMMA SetOneshotEffect ==
  ASSUME NEW d \in Synced, NEW l \in Layer, NEW bits \in SUBSET OneshotBit
  PROVE  LET e == set_oneshot_layer(d, l, bits)
         IN  /\ e.layer_state = d.layer_state \cup {l}
             /\ e.oneshot_layer = [layer |-> l, state |-> bits]
             /\ Calmer(d, e)
<1> DEFINE new == [d EXCEPT !.oneshot_layer = [layer |-> l, state |-> bits]]
<1>1. /\ new \in Dev /\ new.layer_state = d.layer_state
      /\ new.oneshot_layer = [layer |-> l, state |-> bits] /\ Calmer(d, new)
  BY DEF Synced, Dev, Calmer
<1>2. set_oneshot_layer(d, l, bits) = layer_on(new, l)
  BY DEF set_oneshot_layer
<1> HIDE DEF new
<1> QED
  BY <1>1, <1>2, LayerOnOffEffect, CalmerTwice

(* reset_oneshot_layer forgets the layer and touches no layer.             *)
LEMMA ResetOneshotEffect ==
  ASSUME NEW d \in Dev
  PROVE  LET e == reset_oneshot_layer(d)
         IN  /\ e.layer_state = d.layer_state
             /\ e.oneshot_layer = NoOneshotLayer
             /\ Calmer(d, e)
BY DEF reset_oneshot_layer, Dev, Calmer

(* clear_oneshot_layer_state switches the layer off exactly when it takes  *)
(* the last bit.                                                           *)
LEMMA ClearOneshotEffect ==
  ASSUME NEW d \in Synced, NEW bit \in OneshotBit
  PROVE  LET e == clear_oneshot_layer_state(d, bit)
             left == d.oneshot_layer.state \ {bit}
             last == left = {} /\ bit \in d.oneshot_layer.state
         IN  /\ e.layer_state = IF last THEN d.layer_state \ {d.oneshot_layer.layer}
                                ELSE d.layer_state
             /\ e.oneshot_layer = IF last THEN NoOneshotLayer
                                  ELSE [d.oneshot_layer EXCEPT !.state = left]
             /\ Calmer(d, e)
<1>0. d \in Dev /\ d.oneshot_layer.layer \in Layer
  BY DEF Synced, Dev
<1> DEFINE left == d.oneshot_layer.state \ {bit}
           last == left = {} /\ bit \in d.oneshot_layer.state
           cut  == [d EXCEPT !.oneshot_layer.state = left]
           off  == layer_off(cut, d.oneshot_layer.layer)
           e    == clear_oneshot_layer_state(d, bit)
<1>1. /\ cut \in Dev /\ cut.layer_state = d.layer_state /\ Calmer(d, cut)
      /\ cut.oneshot_layer = [d.oneshot_layer EXCEPT !.state = left]
  BY <1>0 DEF Dev, Calmer
<1>2. e = IF last THEN reset_oneshot_layer(off) ELSE cut
  BY DEF clear_oneshot_layer_state
<1> HIDE DEF cut
<1>3. /\ off \in Dev /\ off.layer_state = d.layer_state \ {d.oneshot_layer.layer}
      /\ Calmer(d, off)
  <2>1. off \in Dev
    BY <1>0, <1>1, LayerOnOff, SyncedIsDev
  <2>2. off.layer_state = cut.layer_state \ {d.oneshot_layer.layer} /\ Calmer(cut, off)
    BY <1>0, <1>1, LayerOnOffEffect
  <2> HIDE DEF off
  <2> QED
    BY <1>1, <2>1, <2>2, CalmerTwice
<1> HIDE DEF off
<1>4. LET f == reset_oneshot_layer(off)
      IN  /\ f.layer_state = off.layer_state /\ f.oneshot_layer = NoOneshotLayer
          /\ Calmer(off, f)
  BY <1>3 DEF reset_oneshot_layer, Dev, Calmer
<1>5. CASE last
  <2>1. e = reset_oneshot_layer(off)
    BY <1>2, <1>5
  <2>2. Calmer(d, e)
    BY <1>3, <1>4, <2>1, CalmerTwice
  <2> QED
    BY <1>3, <1>4, <1>5, <2>1, <2>2
<1>6. CASE ~last
  BY <1>1, <1>2, <1>6
<1> QED
  BY <1>5, <1>6

(* A one-shot modifier key types nothing and switches no layer; its        *)
(* release is calm.                                                        *)
LEMMA ModsOneshotEffect ==
  ASSUME NEW d \in Synced, NEW r \in Record, NEW a \in KeyAction, NEW e,
         e = action_mods_oneshot(d, r, a)
  PROVE  /\ e.keys \subseteq d.keys /\ e.source_layers_cache = d.source_layers_cache
         /\ SameLayers(d, e)
         /\ ~r.pressed => Calmer(d, e)
<1> DEFINE none   == [d EXCEPT !.oneshot_mods = {}]
           unlock == [none EXCEPT !.oneshot_locked_mods = {}]
           add    == [d EXCEPT !.oneshot_mods = a.mods \cup @]
           lock   == [none EXCEPT !.oneshot_locked_mods = a.mods]
           Quiet(f) == /\ f \in Dev /\ SameLayers(d, f) /\ f.keys = d.keys
                       /\ f.source_layers_cache = d.source_layers_cache
<1>1. d \in Dev /\ a.mods \in SUBSET Mod /\ a.mods \cup d.oneshot_mods \in SUBSET Mod
  BY DEF KeyAction, Synced, Dev
<1>2. Quiet(none) /\ Calmer(d, none)
  BY <1>1 DEF Dev, SameLayers, Calmer
<1>3. Quiet(unlock) /\ Calmer(d, unlock)
  BY <1>1 DEF Dev, SameLayers, Calmer
<1>4. Quiet(lock)
  BY <1>1 DEF Dev, SameLayers
<1>5. Quiet(add)
  BY <1>1 DEF Dev, SameLayers
<1>6. Quiet(d) /\ Calmer(d, d)
  BY <1>1 DEF SameLayers, Calmer
<1>7. /\ r.pressed => e \in {add, register_mods(lock, a.mods),
                             register_mods(d, a.mods \cup d.oneshot_mods)}
      /\ ~r.pressed => e \in {d, unregister_mods(unlock, a.mods), unregister_mods(none, a.mods)}
  BY DEF action_mods_oneshot, none, unlock, add, lock
<1> HIDE DEF none, unlock, add, lock
<1>8. ASSUME NEW f, Quiet(f), NEW m \in SUBSET Mod
      PROVE  /\ LET g == register_mods(f, m)
                IN  /\ g.keys \subseteq d.keys /\ SameLayers(d, g)
                    /\ g.source_layers_cache = d.source_layers_cache
             /\ LET g == unregister_mods(f, m)
                IN  /\ g.keys \subseteq d.keys /\ SameLayers(d, g)
                    /\ g.source_layers_cache = d.source_layers_cache
                    /\ Calmer(d, f) => Calmer(d, g)
  <2>1. /\ Calmer(f, register_mods(f, m)) /\ SameLayers(f, register_mods(f, m))
        /\ Calmer(f, unregister_mods(f, m)) /\ SameLayers(f, unregister_mods(f, m))
    BY <1>8, RegisterModsEffect
  <2>2. Calmer(d, f) => Calmer(d, unregister_mods(f, m))
    BY <2>1, CalmerTwice
  <2> QED
    BY <1>8, <2>1, <2>2 DEF Calmer, SameLayers
<1>9. CASE r.pressed
  BY <1>1, <1>4, <1>5, <1>6, <1>7, <1>8, <1>9
<1>10. CASE ~r.pressed
  <2>1. /\ e.keys \subseteq d.keys /\ e.source_layers_cache = d.source_layers_cache
        /\ SameLayers(d, e) /\ Calmer(d, e)
    BY <1>1, <1>2, <1>3, <1>6, <1>7, <1>8, <1>10
  <2> QED
    BY <1>10, <2>1
<1> QED
  BY <1>9, <1>10

-----------------------------------------------------------------------------
(* The switch of process_action                                            *)

(* What action_switch does with the pressed and with the released key, for *)
(* every kind of action.                                                   *)
LEMMA SwitchPressEffect ==
  ASSUME NEW d \in Synced, NEW r \in Record, NEW a \in KeyAction, NEW e,
         e = action_switch(d, r, a), r.pressed
  PROVE  IF a.kind = "MODS_ONESHOT"
         THEN e.keys \subseteq d.keys /\ e.source_layers_cache = d.source_layers_cache
         ELSE Types(d, e, a.code, a.mods)
<1>0. /\ d \in Dev /\ a.code \in Code /\ a.mods \in SUBSET Mod /\ a.layer \in Layer
      /\ a.kind \in Kind /\ {a.layer} \in SUBSET Layer
  BY DEF KeyAction, Synced
<1>1. \A f : Calmer(d, f) \/ Types(d, f, a.code, {}) => Types(d, f, a.code, a.mods)
  BY CalmerIsTypes
<1>2. /\ Types(d, register_code(d, a.code), a.code, {}) /\ Calmer(d, d)
      /\ Calmer(d, register_mods(d, a.mods))
      /\ Calmer(d, layer_on(d, a.layer)) /\ Calmer(d, layer_invert(d, a.layer))
      /\ Calmer(d, layer_state_set(d, {a.layer}))
  BY <1>0, RegisterCodeEffect, RegisterModsEffect, LayerOnOffEffect, LayerStateSetEffect,
     CalmerSelf
<1>3. CASE a.kind = "LMODS"
  BY <1>3, ActionModsEffect DEF action_switch
<1>4. CASE a.kind = "MODS_ONESHOT"
  BY <1>4, ModsOneshotEffect DEF action_switch
<1>5. CASE a.kind = "MODS_TAP_TOGGLE"
  BY <1>1, <1>2, <1>5 DEF action_switch, action_mods_tap_toggle
<1>6. CASE a.kind = "MODS_TAP"
  BY <1>1, <1>2, <1>6 DEF action_switch, action_mods_tap
<1>7. CASE a.kind = "USAGE"
  BY <1>0, <1>7 DEF action_switch, Types, Dev
<1>8. CASE a.kind \in {"DEFAULT_LAYER_SET", "LAYER_TOGGLE", "TRANSPARENT"}
  BY <1>1, <1>2, <1>8 DEF action_switch
<1>9. CASE a.kind = "LAYER_SET"
  BY <1>1, <1>2, <1>9 DEF action_switch
<1>10. CASE a.kind = "LAYER_MODS"
  <2> DEFINE on == layer_on(d, a.layer)
  <2>1. on \in Dev /\ Calmer(d, on)
    BY <1>0, <1>2, LayerOnOff, SyncedIsDev
  <2>2. e = register_mods(on, a.mods)
    BY <1>10 DEF action_switch, action_layer_mods
  <2> HIDE DEF on
  <2> QED
    BY <1>0, <1>1, <1>10, <2>1, <2>2, RegisterModsEffect, CalmerTwice
<1>11. CASE a.kind = "LAYER_TAP"
  BY <1>1, <1>2, <1>11, ActionAssumption DEF action_switch, action_layer_tap, Record
<1>12. CASE a.kind = "TAP_TOGGLE"
  BY <1>1, <1>2, <1>12 DEF action_switch, action_tap_toggle
<1>13. CASE a.kind = "ON_OFF"
  BY <1>1, <1>2, <1>13 DEF action_switch
<1>14. CASE a.kind = "ONESHOT"
  <2>1. ASSUME NEW f \in Synced PROVE Calmer(f, oneshot_start(f, a.layer))
    <3> DEFINE on == layer_on(f, a.layer)
    <3>1. on \in Synced /\ Calmer(f, on)
      BY <1>0, LayerOnOff, LayerOnOffEffect, SyncedIsDev
    <3>2. {"PRESSED", "OTHER_KEY_PRESSED"} \in SUBSET OneshotBit /\ "PRESSED" \in OneshotBit
      BY DEF OneshotBit
    <3>3. oneshot_start(f, a.layer) = set_oneshot_layer(on, a.layer, {"PRESSED", "OTHER_KEY_PRESSED"})
      BY DEF oneshot_start
    <3> HIDE DEF on
    <3> QED
      BY <1>0, <3>1, <3>2, <3>3, SetOneshotEffect, CalmerTwice
  <2> DEFINE free == [d EXCEPT !.real_mods = @ \ d.oneshot_locked_mods]
             none == reset_oneshot_layer(free)
  <2>2. /\ free \in Synced /\ free.keys = d.keys /\ free.oneshot_mods = d.oneshot_mods
        /\ free.source_layers_cache = d.source_layers_cache
    BY <1>0 DEF Synced, Dev
  <2>3. e \in {oneshot_start(d, a.layer), layer_off(none, a.layer),
               oneshot_start(free, a.layer), free}
    <3>1. e \in {action_oneshot(d, r, a), action_oneshot_toggle(d, r, a)}
      BY <1>14 DEF action_switch
    <3>2. action_oneshot(d, r, a) = oneshot_start(d, a.layer)
      BY DEF action_oneshot
    <3>3. r.count \in Nat
      BY DEF Record
    <3>4. r.count < ONESHOT_TAP_TOGGLE \/ r.count >= ONESHOT_TAP_TOGGLE
      BY <3>3, ActionAssumption
    <3> HIDE DEF free, none
    <3>5. action_oneshot_toggle(d, r, a) \in
            {layer_off(none, a.layer), oneshot_start(free, a.layer), free}
      BY <3>4 DEF action_oneshot_toggle, free, none
    <3> QED
      BY <3>1, <3>2, <3>5
  <2> HIDE DEF free
  <2>4. none \in Dev /\ Calmer(free, none)
    BY <2>2, ResetOneshotLayer, SyncedIsDev DEF reset_oneshot_layer, Calmer, Dev
  <2> HIDE DEF none
  <2>5. Calmer(free, layer_off(none, a.layer))
    BY <1>0, <2>4, LayerOnOffEffect, CalmerTwice
  <2>6. \A f : Calmer(free, f) => Types(d, f, a.code, a.mods)
    BY <2>2 DEF Calmer, Types
  <2> QED
    BY <1>1, <1>14, <2>1, <2>2, <2>3, <2>5, <2>6, CalmerSelf
<1> QED
  BY <1>0, <1>3, <1>4, <1>5, <1>6, <1>7, <1>8, <1>9, <1>10, <1>11, <1>12, <1>13, <1>14 DEF Kind

(* The switch of process_action is calm on every release.                  *)
LEMMA SwitchReleaseEffect ==
  ASSUME NEW d \in Synced, NEW r \in Record, NEW a \in KeyAction, NEW e,
         e = action_switch(d, r, a), ~r.pressed
  PROVE  Calmer(d, e)
<1>0. /\ d \in Dev /\ a.code \in Code /\ a.mods \in SUBSET Mod /\ a.layer \in Layer
      /\ a.kind \in Kind /\ {a.layer} \in SUBSET Layer
  BY DEF KeyAction, Synced
<1>2. /\ Calmer(d, unregister_code(d, a.code)) /\ Calmer(d, d)
      /\ Calmer(d, unregister_mods(d, a.mods))
      /\ Calmer(d, layer_off(d, a.layer)) /\ Calmer(d, layer_invert(d, a.layer))
      /\ Calmer(d, default_layer_set(d, {a.layer}))
  BY <1>0, UnregisterCodeEffect, RegisterModsEffect, LayerOnOffEffect, LayerStateSetEffect,
     CalmerSelf
<1>3. CASE a.kind = "LMODS"
  BY <1>3, ActionModsEffect DEF action_switch
<1>4. CASE a.kind = "MODS_ONESHOT"
  BY <1>4, ModsOneshotEffect DEF action_switch
<1>5. CASE a.kind = "MODS_TAP_TOGGLE"
  BY <1>2, <1>5 DEF action_switch, action_mods_tap_toggle
<1>6. CASE a.kind = "MODS_TAP"
  BY <1>2, <1>6 DEF action_switch, action_mods_tap
<1>7. CASE a.kind = "USAGE"
  BY <1>0, <1>7 DEF action_switch, Calmer, Dev
<1>8. CASE a.kind \in {"DEFAULT_LAYER_SET", "LAYER_TOGGLE", "TRANSPARENT"}
  BY <1>2, <1>8 DEF action_switch
<1>9. CASE a.kind = "LAYER_SET"
  BY <1>2, <1>9 DEF action_switch
<1>10. CASE a.kind = "LAYER_MODS"
  <2> DEFINE off == unregister_mods(d, a.mods)
  <2>1. off \in Dev /\ Calmer(d, off)
    BY <1>0, <1>2, RegisterMods, SyncedIsDev
  <2>2. e = layer_off(off, a.layer)
    BY <1>10 DEF action_switch, action_layer_mods
  <2> HIDE DEF off
  <2> QED
    BY <1>0, <2>1, <2>2, LayerOnOffEffect, CalmerTwice
<1>11. CASE a.kind = "LAYER_TAP"
  BY <1>2, <1>11 DEF action_switch, action_layer_tap
<1>12. CASE a.kind = "TAP_TOGGLE"
  BY <1>2, <1>12 DEF action_switch, action_tap_toggle
<1>13. CASE a.kind = "ON_OFF"
  BY <1>2, <1>13 DEF action_switch
<1>14. CASE a.kind = "ONESHOT"
  <2> DEFINE locked == [d EXCEPT !.real_mods = @ \cup d.oneshot_locked_mods]
             reset  == reset_oneshot_layer(locked)
             latch  == [reset EXCEPT !.oneshot_locked_mods = {}]
             once   == clear_oneshot_layer_state(d, "PRESSED")
  <2>1. {"TOGGLED"} \in SUBSET OneshotBit /\ "PRESSED" \in OneshotBit
        /\ "OTHER_KEY_PRESSED" \in OneshotBit
    BY DEF OneshotBit
  <2>2. locked \in Synced /\ Calmer(d, locked)
    BY <1>0 DEF Synced, Dev, Calmer
  <2>3. e \in {set_oneshot_layer(latch, a.layer, {"TOGGLED"}),
               clear_oneshot_layer_state(locked, "PRESSED"),
               clear_other_key_pressed(once, r.count > 1)}
    BY <1>14 DEF action_switch, action_oneshot, action_oneshot_toggle
  <2> HIDE DEF locked
  <2>4. reset \in Synced /\ Calmer(locked, reset)
    BY <1>0, <2>1, <2>2, ResetOneshotLayer, ResetOneshotEffect, SyncedIsDev
  <2> HIDE DEF reset
  <2>5. latch \in Synced /\ Calmer(reset, latch)
    BY <2>4 DEF Synced, Dev, Calmer
  <2> HIDE DEF latch
  <2>6. once \in Synced /\ Calmer(d, once)
    BY <1>0, <2>1, ClearOneshotLayerState, ClearOneshotEffect
  <2> HIDE DEF once
  <2>7. Calmer(latch, set_oneshot_layer(latch, a.layer, {"TOGGLED"}))
    BY <1>0, <2>1, <2>5, SetOneshotEffect
  <2>8. Calmer(locked, clear_oneshot_layer_state(locked, "PRESSED"))
    BY <1>0, <2>1, <2>2, ClearOneshotEffect
  <2>9. Calmer(once, clear_other_key_pressed(once, r.count > 1))
    BY <1>0, <2>1, <2>6, ClearOneshotEffect, CalmerSelf DEF clear_other_key_pressed
  <2> QED
    BY <2>2, <2>3, <2>4, <2>5, <2>6, <2>7, <2>8, <2>9, CalmerTwice
<1> QED
  BY <1>0, <1>3, <1>4, <1>5, <1>6, <1>7, <1>8, <1>9, <1>10, <1>11, <1>12, <1>13, <1>14 DEF Kind

(* What the release of a key without tap takes back is what its press      *)
(* added, and nothing else is added.                                       *)
Pairs(d, e, pressed, a) ==
  /\ e.oneshot_layer = d.oneshot_layer
  /\ e.source_layers_cache = d.source_layers_cache
  /\ pressed => /\ e.keys \subseteq d.keys \cup CodesOf(a)
               /\ e.real_mods \subseteq d.real_mods \cup ModsOf(a)
  /\ ~pressed => /\ e.keys \subseteq d.keys \ CodesOf(a)
                /\ e.real_mods \subseteq d.real_mods \ ModsOf(a)
  /\ a.kind \in {"LMODS", "USAGE", "TRANSPARENT", "ON_OFF", "LAYER_MODS"} =>
       IF pressed THEN e.layer_state \subseteq d.layer_state \cup LayersOf(a)
                  ELSE e.layer_state \subseteq d.layer_state \ LayersOf(a)

(* A key without tap has a press and a release that pair up.               *)
LEMMA PlainSwitchEffect ==
  ASSUME NEW d \in Synced, NEW r \in Record, NEW a \in KeyAction, NEW e,
         e = action_switch(d, r, a), ~is_tap_action(a)
  PROVE  Pairs(d, e, r.pressed, a)
<1>0. /\ d \in Dev /\ a.mods \in SUBSET Mod /\ a.layer \in Layer
      /\ a.kind \in {"LMODS", "USAGE", "DEFAULT_LAYER_SET", "LAYER_TOGGLE", "LAYER_SET",
                     "LAYER_MODS", "ON_OFF", "TRANSPARENT"}
      /\ {a.layer} \in SUBSET Layer
  BY DEF KeyAction, Synced, is_tap_action, Kind
<1>1. a.kind \notin {"LMODS", "LAYER_MODS"} => CodesOf(a) = {} /\ ModsOf(a) = {}
  BY DEF CodesOf, ModsOf
<1>2. a.kind \notin {"ON_OFF", "LAYER_MODS"} => LayersOf(a) = {}
  BY DEF LayersOf
<1>3. CASE a.kind = "LMODS"
  <2>1. e = action_mods(d, r, a)
    BY <1>3 DEF action_switch
  <2> QED
    BY <1>2, <1>3, <2>1, ActionModsEffect DEF Pairs, SameLayers, Calmer, Types
<1>4. CASE a.kind = "USAGE"
  <2>1. /\ e.oneshot_layer = d.oneshot_layer /\ e.layer_state = d.layer_state
        /\ e.source_layers_cache = d.source_layers_cache
        /\ e.keys = d.keys /\ e.real_mods = d.real_mods
    BY <1>0, <1>4 DEF action_switch, Dev
  <2> QED
    BY <1>1, <1>2, <1>4, <2>1 DEF Pairs
<1>5. CASE a.kind = "TRANSPARENT"
  BY <1>1, <1>2, <1>5 DEF action_switch, Pairs
<1>6. CASE a.kind = "DEFAULT_LAYER_SET"
  <2>1. e = d \/ e = default_layer_set(d, {a.layer})
    BY <1>6 DEF action_switch
  <2> QED
    BY <1>0, <1>1, <1>6, <2>1, LayerStateSetEffect DEF Pairs, SameLayers, Calmer
<1>7. CASE a.kind = "LAYER_TOGGLE"
  <2>1. e = d \/ e = layer_invert(d, a.layer)
    BY <1>7 DEF action_switch
  <2> QED
    BY <1>0, <1>1, <1>7, <2>1, LayerOnOffEffect DEF Pairs, Calmer
<1>8. CASE a.kind = "LAYER_SET"
  <2>1. e = d \/ e = layer_state_set(d, {a.layer})
    BY <1>8 DEF action_switch
  <2> QED
    BY <1>0, <1>1, <1>8, <2>1, LayerStateSetEffect DEF Pairs, Calmer
<1>9. CASE a.kind = "ON_OFF"
  <2>1. e = IF r.pressed THEN layer_on(d, a.layer) ELSE layer_off(d, a.layer)
    BY <1>9 DEF action_switch
  <2>2. LayersOf(a) = {a.layer}
    BY <1>9 DEF LayersOf
  <2> QED
    BY <1>0, <1>1, <1>9, <2>1, <2>2, LayerOnOffEffect DEF Pairs, Calmer
<1>10. CASE a.kind = "LAYER_MODS"
  <2>1. CodesOf(a) = {} /\ ModsOf(a) = a.mods /\ LayersOf(a) = {a.layer}
    BY <1>10 DEF CodesOf, ModsOf, LayersOf
  <2>2. e = IF r.pressed THEN register_mods(layer_on(d, a.layer), a.mods)
                         ELSE layer_off(unregister_mods(d, a.mods), a.layer)
    BY <1>10 DEF action_switch, action_layer_mods
  <2> DEFINE on == layer_on(d, a.layer)
             un == unregister_mods(d, a.mods)
  <2>3. /\ on \in Dev /\ on.layer_state = d.layer_state \cup {a.layer}
        /\ on.oneshot_layer = d.oneshot_layer /\ on.real_mods = d.real_mods /\ Calmer(d, on)
    BY <1>0, LayerOnOff, LayerOnOffEffect, SyncedIsDev
  <2>4. /\ un \in Dev /\ un.real_mods = d.real_mods \ a.mods
        /\ SameLayers(d, un) /\ Calmer(d, un)
    BY <1>0, RegisterMods, RegisterModsEffect, SyncedIsDev
  <2>5. CASE r.pressed
    <3> HIDE DEF on
    <3>1. /\ e.real_mods = on.real_mods \cup a.mods
          /\ SameLayers(on, e) /\ Calmer(on, e)
      BY <1>0, <2>2, <2>3, <2>5, RegisterModsEffect DEF on
    <3> QED
      BY <2>1, <2>3, <2>5, <3>1 DEF Pairs, SameLayers, Calmer
  <2>6. CASE ~r.pressed
    <3> HIDE DEF un
    <3>1. /\ e.layer_state = un.layer_state \ {a.layer}
          /\ e.oneshot_layer = un.oneshot_layer
          /\ e.real_mods = un.real_mods /\ Calmer(un, e)
      BY <1>0, <2>2, <2>4, <2>6, LayerOnOffEffect DEF un
    <3> QED
      BY <2>1, <2>4, <2>6, <3>1 DEF Pairs, SameLayers, Calmer
  <2> QED
    BY <2>5, <2>6
<1> QED
  BY <1>0, <1>3, <1>4, <1>5, <1>6, <1>7, <1>8, <1>9, <1>10

(* What process_action does after its switch is calm, the release of a     *)
(* layer tapped to be locked included.                                     *)
LEMMA ReleaseOneshotEffect ==
  ASSUME NEW d \in Synced, NEW rec \in Record, NEW do_release
  PROVE  Calmer(d, after_switch(d, rec, do_release).dev)
<1> DEFINE released == [rec EXCEPT !.pressed = FALSE]
           on   == layer_on(d, d.oneshot_layer.layer)
           done == process_release(on, released)
           left == leave_oneshot_layer(done)
<1>0. d \in Dev /\ d.oneshot_layer.layer \in Layer
  BY DEF Synced, Dev
<1>1. released \in Record /\ ~released.pressed /\ released.key \in Key
  BY DEF Record
<1> HIDE DEF released
<1>2. on \in Synced /\ Calmer(d, on)
  BY <1>0, LayerOnOff, LayerOnOffEffect
<1> HIDE DEF on
<1>3. done \in Synced /\ Calmer(on, done)
  <2>1. action_for_key(source_layer(on, released), released.key) \in KeyAction
    BY <1>1, <1>2, SourceLayerType, SyncedIsDev, ActionAssumption DEF action_for_key
  <2> QED
    BY <1>1, <1>2, <2>1, ProcessRelease, SwitchReleaseEffect DEF process_release
<1> HIDE DEF done
<1>4. Calmer(done, left)
  <2>1. done \in Dev /\ done.oneshot_layer.layer \in Layer
    BY <1>3 DEF Synced, Dev
  <2> QED
    BY <2>1, LayerOnOffEffect DEF leave_oneshot_layer
<1>5. after_switch(d, rec, do_release) \in
        {[dev |-> left, rec |-> released], [dev |-> d, rec |-> rec]}
  BY DEF after_switch, release_oneshot, left, done, on, released
<1> HIDE DEF left
<1> QED
  BY <1>2, <1>3, <1>4, <1>5, CalmerTwice, CalmerSelf

(* The steps of process_record: the cache is updated, the weak modifiers   *)
(* are cleared, the one-shot layer hears of the key, the switch of         *)
(* process_action does its work, and the one-shot layer may end.           *)
RecordParts(d, r, u, w, o, s, a, rec, uses, do_release) ==
  /\ u = update_source_layers_cache(d, r)
  /\ a = action_for_key(source_layer(d, r), r.key)
  /\ uses = uses_oneshot_layer(u, r, a)
  /\ w = clear_weak_mods(u, r)
  /\ o = clear_other_key_pressed(w, uses)
  /\ s = action_switch(o, r, a)
  /\ rec.key = r.key /\ rec.pressed = r.pressed
  /\ do_release = (/\ uses
                   /\ ~is_oneshot_layer_active(o)
                   /\ ~(a.kind = "ONESHOT" /\ ONESHOT_TAP_TOGGLE > 1))
  /\ process_record(d, r) = after_switch(s, rec, do_release)

-----------------------------------------------------------------------------
(* process_record                                                          *)

(* The device process_record hands to the switch of process_action, and    *)
(* what it does with the one the switch leaves.                            *)
LEMMA ProcessRecordParts ==
  ASSUME NEW d \in Synced, NEW r \in Record
  PROVE  \E u \in Synced, w \in Synced, o \in Synced, s \in Synced, a \in KeyAction,
            rec \in Record, uses \in BOOLEAN, do_release \in BOOLEAN :
           RecordParts(d, r, u, w, o, s, a, rec, uses, do_release)
<1> DEFINE u == update_source_layers_cache(d, r)
           a == action_for_key(source_layer(d, r), r.key)
           uses == uses_oneshot_layer(u, r, a)
           w == clear_weak_mods(u, r)
           o == clear_other_key_pressed(w, uses)
           s == action_switch(o, r, a)
           rec == IF is_cancelled_tap(r, a) THEN [r EXCEPT !.count = 0] ELSE r
           do_release == /\ uses
                         /\ ~is_oneshot_layer_active(o)
                         /\ ~(a.kind = "ONESHOT" /\ ONESHOT_TAP_TOGGLE > 1)
<1>1. r.key \in Key
  BY DEF Record
<1>2. u \in Synced
  <2>1. layer_switch_get_layer(d, r.key) \in Layer
    BY <1>1, LookupType, SyncedIsDev
  <2> QED
    BY <1>1, <2>1 DEF update_source_layers_cache, Synced, Dev
<1>3. a \in KeyAction
  BY <1>1, SourceLayerType, SyncedIsDev, ActionAssumption DEF action_for_key
<1>4. uses \in BOOLEAN /\ do_release \in BOOLEAN
  BY DEF uses_oneshot_layer, Record
<1>5. rec \in Record /\ rec.key = r.key /\ rec.pressed = r.pressed
  BY DEF Record
<1>6. process_record(d, r) = after_switch(s, rec, do_release)
  BY DEF process_record, process_action, with_oneshot_layer_used
<1> HIDE DEF u, a, rec, do_release
<1>7. w \in Synced
  BY <1>2 DEF clear_weak_mods, Synced, Dev
<1> HIDE DEF w, uses
<1>8. o \in Synced
  BY <1>7, ClearOtherKeyPressed
<1> HIDE DEF o
<1>9. s \in Synced
  BY <1>3, <1>8, ActionSwitch
<1> HIDE DEF s
<1> QED
  BY <1>2, <1>3, <1>4, <1>5, <1>6, <1>7, <1>8, <1>9 DEF RecordParts, u, a, uses, w, o, s, do_release

(* The same for the whole record of a pressed key: process_action clears   *)
(* the weak modifiers first.                                               *)
Pressed(d, e, a) ==
  /\ a.kind = "MODS_ONESHOT" => e.keys \subseteq d.keys
  /\ a.kind # "MODS_ONESHOT" =>
       /\ e.oneshot_mods \subseteq d.oneshot_mods
       /\ \/ e.keys \subseteq d.keys
          \/ /\ e.keys \subseteq d.keys \cup {a.code}
             /\ e.oneshot_mods = {}
             /\ e.host.mods \subseteq e.real_mods \cup d.oneshot_mods \cup a.mods

(* update_source_layers_cache remembers the layer of a press and nothing   *)
(* else.                                                                   *)
LEMMA UpdateCacheEffect ==
  ASSUME NEW d \in Synced, NEW r \in Record
  PROVE  LET u == update_source_layers_cache(d, r) IN
         /\ u.keys = d.keys /\ u.real_mods = d.real_mods /\ u.weak_mods = d.weak_mods
         /\ u.oneshot_mods = d.oneshot_mods /\ u.host = d.host /\ SameLayers(d, u)
         /\ u.default_layer_state = d.default_layer_state
         /\ u.source_layers_cache =
              IF r.pressed /\ ~STRICT_LAYER_RELEASE
              THEN [d.source_layers_cache EXCEPT ![r.key] = layer_switch_get_layer(d, r.key)]
              ELSE d.source_layers_cache
         /\ ~r.pressed => u = d
BY DEF update_source_layers_cache, Synced, Dev, SameLayers

(* A press starts without weak modifiers.                                  *)
LEMMA ClearWeakEffect ==
  ASSUME NEW d \in Synced, NEW r \in Record
  PROVE  LET w == clear_weak_mods(d, r) IN
         /\ Calmer(d, w) /\ SameLayers(d, w) /\ w.real_mods = d.real_mods
         /\ w.keys = d.keys
         /\ r.pressed => w.weak_mods = {}
BY DEF clear_weak_mods, Synced, Dev, SameLayers, Calmer

(* Telling the one-shot layer about another key is calm.                   *)
LEMMA ClearOtherEffect ==
  ASSUME NEW d \in Synced, NEW condition
  PROVE  Calmer(d, clear_other_key_pressed(d, condition))
<1>1. "OTHER_KEY_PRESSED" \in OneshotBit /\ d.oneshot_layer.layer \in Layer
  BY DEF OneshotBit, Synced, Dev
<1> QED
  BY <1>1, ClearOneshotEffect, CalmerSelf DEF clear_other_key_pressed

(* What process_record does with a press: at most the code of the key is   *)
(* added, with the modifiers of the key.                                   *)
LEMMA PressOutcome ==
  ASSUME NEW d \in Synced, NEW r \in Record, r.pressed
  PROVE  Pressed(d, process_record(d, r).dev, action_for_key(source_layer(d, r), r.key))
<1> DEFINE e == process_record(d, r).dev
<1>1. PICK u \in Synced, w \in Synced, o \in Synced, s \in Synced, a \in KeyAction,
           rec \in Record, uses \in BOOLEAN, do_release \in BOOLEAN :
        RecordParts(d, r, u, w, o, s, a, rec, uses, do_release)
  BY ProcessRecordParts
<1> HIDE DEF e
<1> USE DEF RecordParts
<1>2. /\ w.keys = d.keys /\ w.weak_mods = {} /\ w.oneshot_mods \subseteq d.oneshot_mods
  <2>1. u = update_source_layers_cache(d, r)
    BY <1>1
  <2>2. u.keys = d.keys /\ u.oneshot_mods = d.oneshot_mods
    BY ONLY <2>1, UpdateCacheEffect, d \in Synced, r \in Record
  <2> QED
    BY <1>1, <2>2, ClearWeakEffect DEF Calmer
<1>3. Calmer(w, o)
  BY <1>1, ClearOtherEffect
<1>4. Calmer(s, e)
  BY <1>1, ReleaseOneshotEffect DEF e
<1>5. CASE a.kind = "MODS_ONESHOT"
  <2>1. s.keys \subseteq o.keys
    BY <1>1, <1>5, SwitchPressEffect
  <2>2. e.keys \subseteq d.keys
    BY <1>2, <1>3, <1>4, <2>1 DEF Calmer
  <2> QED
    BY <1>1, <1>5, <2>2 DEF Pressed, e
<1>6. CASE a.kind # "MODS_ONESHOT"
  <2>1. Types(o, s, a.code, a.mods)
    BY <1>1, <1>6, SwitchPressEffect
  <2>2. Types(w, e, a.code, a.mods)
    BY <1>3, <1>4, <2>1, CalmerTypes
  <2> QED
    BY <1>1, <1>2, <1>6, <2>2 DEF Types, Pressed, e
<1> QED
  BY <1>5, <1>6

(* What process_record does with a release is calm.                        *)
LEMMA ReleaseOutcome ==
  ASSUME NEW d \in Synced, NEW r \in Record, ~r.pressed
  PROVE  Calmer(d, process_record(d, r).dev)
<1> DEFINE e == process_record(d, r).dev
<1>1. PICK u \in Synced, w \in Synced, o \in Synced, s \in Synced, a \in KeyAction,
           rec \in Record, uses \in BOOLEAN, do_release \in BOOLEAN :
        RecordParts(d, r, u, w, o, s, a, rec, uses, do_release)
  BY ProcessRecordParts
<1> HIDE DEF e
<1> USE DEF RecordParts
<1>2. u = d
  BY <1>1, UpdateCacheEffect
<1>3. Calmer(u, w) /\ Calmer(w, o)
  BY <1>1, ClearWeakEffect, ClearOtherEffect
<1>4. Calmer(o, s)
  BY <1>1, SwitchReleaseEffect
<1>5. Calmer(s, e)
  BY <1>1, ReleaseOneshotEffect DEF e
<1> QED
  BY <1>2, <1>3, <1>4, <1>5, CalmerTwice DEF e

(* A key without tap while no one-shot layer is active.                    *)
LEMMA PlainRecordEffect ==
  ASSUME NEW d \in Synced, NEW r \in Record, d.oneshot_layer.state = {},
         ~is_tap_action(action_for_key(source_layer(d, r), r.key))
  PROVE  \E u \in Synced :
           /\ u = update_source_layers_cache(d, r)
           /\ Pairs(u, process_record(d, r).dev, r.pressed,
                    action_for_key(source_layer(d, r), r.key))
<1> DEFINE e == process_record(d, r).dev
<1>1. PICK u \in Synced, w \in Synced, o \in Synced, s \in Synced, a \in KeyAction,
           rec \in Record, uses \in BOOLEAN, do_release \in BOOLEAN :
        RecordParts(d, r, u, w, o, s, a, rec, uses, do_release)
  BY ProcessRecordParts
<1> USE DEF RecordParts
<1>2. ~uses
  BY <1>1, UpdateCacheEffect DEF uses_oneshot_layer, is_oneshot_layer_active, SameLayers
<1>3. o = w /\ e = s
  BY <1>1, <1>2 DEF clear_other_key_pressed, after_switch
<1>4. Pairs(w, s, r.pressed, a)
  BY <1>1, <1>3, PlainSwitchEffect
<1>5. /\ SameLayers(u, w) /\ w.real_mods = u.real_mods /\ w.keys = u.keys
      /\ w.source_layers_cache = u.source_layers_cache
  BY <1>1, ClearWeakEffect DEF Calmer
<1> HIDE DEF e
<1>6. Pairs(u, e, r.pressed, a)
  BY <1>3, <1>4, <1>5 DEF Pairs, SameLayers
<1> QED
  BY <1>1, <1>6 DEF e

-----------------------------------------------------------------------------
(* One-shot layers                                                         *)

(* The keys that may live beside a one-shot layer key.                     *)
OneshotKinds == {"LMODS", "MODS_TAP", "MODS_TAP_TOGGLE", "MODS_ONESHOT", "USAGE",
                 "ONESHOT", "TRANSPARENT"}

(* The only keys that switch layers are OSL(L).                            *)
OnlyOneshotLayer(L) ==
  \A l \in Layer : \A k \in Key :
    /\ Keymap[l][k].kind \in OneshotKinds
    /\ Keymap[l][k].kind = "ONESHOT" => Keymap[l][k].layer = L

(* While the layer is active it is the only one that is on; while it is    *)
(* not, none is.                                                           *)
OneshotInv(d, L) ==
  IF is_oneshot_layer_active(d)
  THEN d.layer_state = {L} /\ d.oneshot_layer.layer = L
  ELSE d.layer_state = {}

(* Between the two halves of release_oneshot: the layer is on once more.   *)
Revisited(d, x) ==
  ~is_oneshot_layer_active(d) /\ d.layer_state = {x} /\ d.oneshot_layer.layer = x

(* The keys that may live beside a one-shot layer key switch no layer.     *)
LEMMA QuietSwitch ==
  ASSUME NEW d \in Synced, NEW r \in Record, NEW a \in KeyAction, NEW e,
         e = action_switch(d, r, a), a.kind \in OneshotKinds, a.kind # "ONESHOT"
  PROVE  SameLayers(d, e)
<1>0. d \in Dev /\ a.code \in Code /\ a.mods \in SUBSET Mod
  BY DEF KeyAction, Synced
<1>1. /\ SameLayers(d, register_code(d, a.code)) /\ SameLayers(d, unregister_code(d, a.code))
      /\ SameLayers(d, register_mods(d, a.mods)) /\ SameLayers(d, unregister_mods(d, a.mods))
      /\ SameLayers(d, d)
  BY <1>0, RegisterCodeEffect, UnregisterCodeEffect, RegisterModsEffect DEF SameLayers
<1>2. CASE a.kind = "LMODS"
  BY <1>2, ActionModsEffect DEF action_switch
<1>3. CASE a.kind = "MODS_ONESHOT"
  BY <1>3, ModsOneshotEffect DEF action_switch
<1>4. CASE a.kind = "MODS_TAP"
  BY <1>1, <1>4 DEF action_switch, action_mods_tap
<1>5. CASE a.kind = "MODS_TAP_TOGGLE"
  BY <1>1, <1>5 DEF action_switch, action_mods_tap_toggle
<1>6. CASE a.kind = "USAGE"
  BY <1>0, <1>6 DEF action_switch, SameLayers, Dev
<1>7. CASE a.kind = "TRANSPARENT"
  BY <1>1, <1>7 DEF action_switch
<1> QED
  BY <1>2, <1>3, <1>4, <1>5, <1>6, <1>7 DEF OneshotKinds

(* Clearing a bit keeps the one-shot invariant.                            *)
LEMMA ClearOneshotKeeps ==
  ASSUME NEW d \in Synced, NEW bit \in OneshotBit, NEW L, NEW x, NEW e,
         e = clear_oneshot_layer_state(d, bit)
  PROVE  /\ OneshotInv(d, L) => OneshotInv(e, L)
         /\ Revisited(d, x) => Revisited(e, x)
<1> DEFINE left == d.oneshot_layer.state \ {bit}
           last == left = {} /\ bit \in d.oneshot_layer.state
<1>0. d.oneshot_layer.layer \in Layer /\ d.oneshot_layer \in [layer : Layer, state : SUBSET OneshotBit]
  BY DEF Synced, Dev
<1>1. /\ e.layer_state = IF last THEN d.layer_state \ {d.oneshot_layer.layer}
                         ELSE d.layer_state
      /\ e.oneshot_layer = IF last THEN NoOneshotLayer
                           ELSE [d.oneshot_layer EXCEPT !.state = left]
  BY <1>0, ClearOneshotEffect
<1>2. CASE last
  BY <1>1, <1>2 DEF OneshotInv, Revisited, is_oneshot_layer_active, NoOneshotLayer
<1>3. CASE ~last
  <2>1. /\ e.layer_state = d.layer_state /\ e.oneshot_layer.layer = d.oneshot_layer.layer
        /\ e.oneshot_layer.state = left
    BY <1>0, <1>1, <1>3
  <2>2. left = {} <=> d.oneshot_layer.state = {}
    BY <1>3
  <2> QED
    BY <2>1, <2>2 DEF OneshotInv, Revisited, is_oneshot_layer_active
<1> QED
  BY <1>2, <1>3

(* So does starting the layer with a press.                                *)
LEMMA OneshotStartKeeps ==
  ASSUME NEW d \in Synced, NEW L \in Layer, OneshotInv(d, L), NEW e, e = oneshot_start(d, L)
  PROVE  OneshotInv(e, L) /\ "PRESSED" \in e.oneshot_layer.state
<1> DEFINE on == layer_on(d, L)
<1>1. /\ on \in Synced /\ on.layer_state = d.layer_state \cup {L}
      /\ on.oneshot_layer = d.oneshot_layer
  BY LayerOnOff, LayerOnOffEffect, SyncedIsDev
<1>2. {"PRESSED", "OTHER_KEY_PRESSED"} \in SUBSET OneshotBit /\ "PRESSED" \in OneshotBit
  BY DEF OneshotBit
<1>3. e = set_oneshot_layer(on, L, {"PRESSED", "OTHER_KEY_PRESSED"})
  BY DEF oneshot_start
<1> HIDE DEF on
<1>4. /\ e.layer_state = on.layer_state \cup {L}
      /\ e.oneshot_layer = [layer |-> L, state |-> {"PRESSED", "OTHER_KEY_PRESSED"}]
  BY <1>1, <1>2, <1>3, SetOneshotEffect
<1>5. e.layer_state = {L}
  BY <1>1, <1>4 DEF OneshotInv
<1> QED
  BY <1>4, <1>5 DEF OneshotInv, is_oneshot_layer_active

(* So does the key of the layer itself, tapped, held or locked.            *)
LEMMA SwitchKeepsOneshot ==
  ASSUME NEW d \in Synced, NEW r \in Record, NEW a \in KeyAction, NEW L \in Layer, NEW e,
         e = action_switch(d, r, a), a.kind = "ONESHOT", a.layer = L, OneshotInv(d, L)
  PROVE  /\ OneshotInv(e, L)
         /\ r.pressed /\ ~(ONESHOT_TAP_TOGGLE > 1) => "PRESSED" \in e.oneshot_layer.state
<1>0. "PRESSED" \in OneshotBit /\ "OTHER_KEY_PRESSED" \in OneshotBit /\ {"TOGGLED"} \in SUBSET OneshotBit
  BY DEF OneshotBit
<1>1. CASE ~(ONESHOT_TAP_TOGGLE > 1)
  <2>1. e = action_oneshot(d, r, a)
    BY <1>1 DEF action_switch
  <2>2. CASE r.pressed
    BY <2>1, <2>2, OneshotStartKeeps DEF action_oneshot
  <2>3. CASE ~r.pressed
    <3> DEFINE once == clear_oneshot_layer_state(d, "PRESSED")
    <3>1. once \in Synced /\ OneshotInv(once, L)
      BY <1>0, ClearOneshotLayerState, ClearOneshotKeeps
    <3>2. e = clear_other_key_pressed(once, r.count > 1)
      BY <2>1, <2>3 DEF action_oneshot
    <3> HIDE DEF once
    <3> QED
      BY <1>0, <2>3, <3>1, <3>2, ClearOneshotKeeps DEF clear_other_key_pressed
  <2> QED
    BY <2>2, <2>3
<1>2. CASE ONESHOT_TAP_TOGGLE > 1
  <2> DEFINE free   == [d EXCEPT !.real_mods = @ \ d.oneshot_locked_mods]
             locked == [d EXCEPT !.real_mods = @ \cup d.oneshot_locked_mods]
             none   == reset_oneshot_layer(free)
             reset  == reset_oneshot_layer(locked)
             latch  == [reset EXCEPT !.oneshot_locked_mods = {}]
  <2>1. free \in Synced /\ SameLayers(d, free)
    BY DEF Synced, Dev, SameLayers
  <2>2. locked \in Synced /\ SameLayers(d, locked)
    BY DEF Synced, Dev, SameLayers
  <2>3. e = action_oneshot_toggle(d, r, a)
    BY <1>2 DEF action_switch
  <2>4. OneshotInv(free, L) /\ OneshotInv(locked, L)
    BY <2>1, <2>2 DEF OneshotInv, SameLayers, is_oneshot_layer_active
  <2>5. CASE r.pressed /\ d.oneshot_layer.state = {"TOGGLED"}
    <3>1. e = layer_off(none, L)
      BY <2>3, <2>5 DEF action_oneshot_toggle
    <3> HIDE DEF free
    <3>2. none \in Dev /\ none.layer_state = free.layer_state /\ none.oneshot_layer = NoOneshotLayer
      BY <1>0, <2>1, ResetOneshotLayer, ResetOneshotEffect, SyncedIsDev
    <3> HIDE DEF none
    <3>3. e.layer_state = none.layer_state \ {L} /\ e.oneshot_layer = NoOneshotLayer
      BY <3>1, <3>2, LayerOnOffEffect
    <3> QED
      BY <1>2, <2>4, <3>2, <3>3 DEF OneshotInv, is_oneshot_layer_active, NoOneshotLayer
  <2>6. CASE r.pressed /\ d.oneshot_layer.state # {"TOGGLED"}
    <3>1. e = oneshot_start(free, L) \/ e = free
      <4>1. r.count < ONESHOT_TAP_TOGGLE \/ r.count >= ONESHOT_TAP_TOGGLE
        BY ActionAssumption DEF Record
      <4> HIDE DEF free
      <4> QED
        BY <2>3, <2>6, <4>1 DEF action_oneshot_toggle, free
    <3> QED
      BY <1>2, <2>1, <2>4, <3>1, OneshotStartKeeps
  <2>7. CASE ~r.pressed /\ r.count >= ONESHOT_TAP_TOGGLE
    <3>1. e = set_oneshot_layer(latch, L, {"TOGGLED"})
      BY <2>3, <2>7 DEF action_oneshot_toggle
    <3> HIDE DEF locked
    <3>2. reset \in Synced /\ reset.layer_state = locked.layer_state
      BY <1>0, <2>2, ResetOneshotLayer, ResetOneshotEffect, SyncedIsDev
    <3> HIDE DEF reset
    <3>3. latch \in Synced /\ latch.layer_state = locked.layer_state
      BY <3>2 DEF Synced, Dev
    <3> HIDE DEF latch
    <3>4. e.layer_state = latch.layer_state \cup {L}
          /\ e.oneshot_layer = [layer |-> L, state |-> {"TOGGLED"}]
      BY <1>0, <3>1, <3>3, SetOneshotEffect
    <3>5. e.layer_state = {L}
      BY <2>4, <3>3, <3>4 DEF OneshotInv
    <3> QED
      BY <2>7, <3>4, <3>5 DEF OneshotInv, is_oneshot_layer_active
  <2>8. CASE ~r.pressed /\ ~(r.count >= ONESHOT_TAP_TOGGLE)
    <3>1. e = clear_oneshot_layer_state(locked, "PRESSED")
      BY <2>3, <2>8 DEF action_oneshot_toggle
    <3> HIDE DEF locked
    <3> QED
      BY <1>0, <2>2, <2>4, <2>8, <3>1, ClearOneshotKeeps
  <2> QED
    BY <2>5, <2>6, <2>7, <2>8
<1> QED
  BY <1>1, <1>2

(* The action of a record is an entry of the keymap.                       *)
LEMMA KeymapAction ==
  ASSUME NEW d \in Synced, NEW r \in Record
  PROVE  /\ source_layer(d, r) \in Layer /\ r.key \in Key
         /\ action_for_key(source_layer(d, r), r.key) = Keymap[source_layer(d, r)][r.key]
         /\ action_for_key(source_layer(d, r), r.key) \in KeyAction
BY SourceLayerType, SyncedIsDev, ActionAssumption DEF action_for_key, Record

(* The release that a key of the one-shot layer gets at once switches the  *)
(* layer on and off again.                                                 *)
LEMMA RevisitKeepsOneshot ==
  ASSUME NEW s \in Synced, NEW rec \in Record, NEW L \in Layer, OnlyOneshotLayer(L),
         OneshotInv(s, L), ~is_oneshot_layer_active(s),
         ONESHOT_TAP_TOGGLE > 1 =>
           /\ ~STRICT_LAYER_RELEASE
           /\ Keymap[s.source_layers_cache[rec.key]][rec.key].kind # "ONESHOT"
  PROVE  OneshotInv(after_switch(s, rec, TRUE).dev, L)
<1> DEFINE released == [rec EXCEPT !.pressed = FALSE]
           x    == s.oneshot_layer.layer
           on   == layer_on(s, x)
           a    == action_for_key(source_layer(on, released), released.key)
           done == process_release(on, released)
           left == leave_oneshot_layer(done)
<1>0. s \in Dev /\ x \in Layer /\ "PRESSED" \in OneshotBit /\ "OTHER_KEY_PRESSED" \in OneshotBit
  BY DEF Synced, Dev, OneshotBit
<1>1. released \in Record /\ ~released.pressed /\ released.key = rec.key
  BY DEF Record
<1>2. after_switch(s, rec, TRUE).dev = left
  BY DEF after_switch, release_oneshot, is_oneshot_layer_active
<1> HIDE DEF released
<1>3. on \in Synced /\ Revisited(on, x) /\ on.source_layers_cache = s.source_layers_cache
  <2>1. /\ on.layer_state = s.layer_state \cup {x} /\ on.oneshot_layer = s.oneshot_layer
        /\ Calmer(s, on) /\ on \in Synced
    BY <1>0, LayerOnOff, LayerOnOffEffect
  <2> QED
    BY <2>1 DEF Revisited, OneshotInv, Calmer, is_oneshot_layer_active
<1> HIDE DEF on, x
<1>4. a \in KeyAction /\ a.kind \in OneshotKinds
  BY <1>1, <1>3, KeymapAction DEF OnlyOneshotLayer
<1>5. done = action_switch(on, released, a)
  BY DEF process_release
<1>6. done \in Synced /\ Revisited(done, x)
  <2>1. done \in Synced
    BY <1>3, <1>4, <1>5, ActionSwitch, <1>1
  <2>2. CASE a.kind # "ONESHOT"
    <3>1. SameLayers(on, done)
      BY <1>1, <1>3, <1>4, <1>5, <2>2, QuietSwitch
    <3> QED
      BY <1>3, <2>1, <3>1 DEF SameLayers, Revisited, is_oneshot_layer_active
  <2>3. CASE a.kind = "ONESHOT"
    <3>1. ~(ONESHOT_TAP_TOGGLE > 1)
      <4>1. SUFFICES ASSUME ONESHOT_TAP_TOGGLE > 1 PROVE FALSE
        OBVIOUS
      <4>2. a = Keymap[s.source_layers_cache[rec.key]][rec.key]
        BY <1>1, <1>3, <4>1 DEF source_layer, action_for_key
      <4> QED
        BY <2>3, <4>1, <4>2
    <3> DEFINE once == clear_oneshot_layer_state(on, "PRESSED")
    <3>2. done = clear_other_key_pressed(once, released.count > 1)
      BY <1>1, <1>5, <2>3, <3>1 DEF action_switch, action_oneshot
    <3>3. once \in Synced /\ Revisited(once, x)
      BY <1>0, <1>3, ClearOneshotLayerState, ClearOneshotKeeps
    <3> HIDE DEF once
    <3> QED
      BY <1>0, <2>1, <3>2, <3>3, ClearOneshotKeeps DEF clear_other_key_pressed
  <2> QED
    BY <2>2, <2>3
<1> HIDE DEF done
<1>7. OneshotInv(left, L)
  <2>1. done \in Dev /\ left = layer_off(done, x) /\ x \in Layer
    BY <1>0, <1>6, SyncedIsDev DEF leave_oneshot_layer, Revisited
  <2>2. left.layer_state = done.layer_state \ {x} /\ left.oneshot_layer = done.oneshot_layer
    BY <2>1, LayerOnOffEffect
  <2> QED
    BY <1>6, <2>2 DEF Revisited, OneshotInv, is_oneshot_layer_active
<1> HIDE DEF left
<1> QED
  BY <1>2, <1>7

(* process_record keeps the one-shot invariant.                            *)
LEMMA RecordKeepsOneshot ==
  ASSUME NEW d \in Synced, NEW r \in Record, NEW L \in Layer, OnlyOneshotLayer(L),
         OneshotInv(d, L), ONESHOT_TAP_TOGGLE > 1 => ~STRICT_LAYER_RELEASE
  PROVE  OneshotInv(process_record(d, r).dev, L)
<1>1. PICK u \in Synced, w \in Synced, o \in Synced, s \in Synced, a \in KeyAction,
           rec \in Record, uses \in BOOLEAN, do_release \in BOOLEAN :
        RecordParts(d, r, u, w, o, s, a, rec, uses, do_release)
  BY ProcessRecordParts
<1>2. a.kind \in OneshotKinds /\ (a.kind = "ONESHOT" => a.layer = L)
  BY <1>1, KeymapAction DEF RecordParts, OnlyOneshotLayer
<1>3. /\ SameLayers(d, w)
      /\ w.source_layers_cache = IF r.pressed /\ ~STRICT_LAYER_RELEASE
           THEN [d.source_layers_cache EXCEPT ![r.key] = layer_switch_get_layer(d, r.key)]
           ELSE d.source_layers_cache
  <2>1. u = update_source_layers_cache(d, r) /\ w = clear_weak_mods(u, r)
    BY <1>1 DEF RecordParts
  <2>2. SameLayers(u, w) /\ Calmer(u, w)
    BY ONLY <2>1, ClearWeakEffect, u \in Synced, r \in Record
  <2>3. /\ SameLayers(d, u)
        /\ u.source_layers_cache = IF r.pressed /\ ~STRICT_LAYER_RELEASE
             THEN [d.source_layers_cache EXCEPT ![r.key] = layer_switch_get_layer(d, r.key)]
             ELSE d.source_layers_cache
    BY ONLY <2>1, UpdateCacheEffect, d \in Synced, r \in Record
  <2> QED
    BY <2>2, <2>3 DEF SameLayers, Calmer
<1>4. OneshotInv(o, L)
  <2>1. OneshotInv(w, L)
    BY <1>3 DEF SameLayers, OneshotInv, is_oneshot_layer_active
  <2>2. o = clear_other_key_pressed(w, uses) /\ "OTHER_KEY_PRESSED" \in OneshotBit
    BY <1>1 DEF RecordParts, OneshotBit
  <2> QED
    BY <2>1, <2>2, ClearOneshotKeeps DEF clear_other_key_pressed
<1>5. s = action_switch(o, r, a)
  BY <1>1 DEF RecordParts
<1>6. OneshotInv(s, L)
  <2>1. CASE a.kind = "ONESHOT"
    BY <1>2, <1>4, <1>5, <2>1, SwitchKeepsOneshot
  <2>2. CASE a.kind # "ONESHOT"
    <3>1. SameLayers(o, s)
      BY <1>2, <1>5, <2>2, QuietSwitch
    <3> QED
      BY <1>4, <3>1 DEF SameLayers, OneshotInv, is_oneshot_layer_active
  <2> QED
    BY <2>1, <2>2
<1>7. process_record(d, r) = after_switch(s, rec, do_release)
  BY <1>1 DEF RecordParts
<1>8. CASE ~(do_release /\ "PRESSED" \notin s.oneshot_layer.state)
  BY <1>6, <1>7, <1>8 DEF after_switch
<1>9. CASE do_release /\ "PRESSED" \notin s.oneshot_layer.state
  <2>1. r.pressed /\ ~is_oneshot_layer_active(o) /\ rec.key = r.key
        /\ ~(a.kind = "ONESHOT" /\ ONESHOT_TAP_TOGGLE > 1)
    BY <1>1, <1>9 DEF RecordParts, uses_oneshot_layer
  <2>2. a.kind # "ONESHOT"
    BY <1>2, <1>4, <1>5, <1>9, <2>1, SwitchKeepsOneshot
  <2>3. SameLayers(o, s)
    BY <1>2, <1>5, <2>2, QuietSwitch
  <2>4. ~is_oneshot_layer_active(s)
    BY <2>1, <2>3 DEF SameLayers, is_oneshot_layer_active
  <2>5. s.source_layers_cache = w.source_layers_cache
    <3>1. o.source_layers_cache = w.source_layers_cache
      BY <1>1, ClearOtherEffect DEF RecordParts, Calmer
    <3>2. s.source_layers_cache = o.source_layers_cache
      BY <1>5, <2>1, SwitchPressEffect DEF Types
    <3> QED
      BY <3>1, <3>2
  <2>6. ~STRICT_LAYER_RELEASE =>
          Keymap[s.source_layers_cache[rec.key]][rec.key].kind # "ONESHOT"
    <3>1. SUFFICES ASSUME ~STRICT_LAYER_RELEASE
                   PROVE  s.source_layers_cache[rec.key] = source_layer(d, r)
                          /\ a = Keymap[source_layer(d, r)][r.key]
      BY <2>1, <2>2
    <3>2. a = Keymap[source_layer(d, r)][r.key] /\ r.key \in Key
      BY <1>1, KeymapAction DEF RecordParts
    <3>3. d.source_layers_cache \in [Key -> Layer]
      BY DEF Synced, Dev
    <3> QED
      BY <1>3, <2>1, <2>5, <3>1, <3>2, <3>3 DEF source_layer
  <2>7. OneshotInv(after_switch(s, rec, TRUE).dev, L)
    BY <1>6, <2>4, <2>6, RevisitKeepsOneshot
  <2> QED
    BY <1>7, <1>9, <2>7
<1> QED
  BY <1>8, <1>9
=============================================================================
