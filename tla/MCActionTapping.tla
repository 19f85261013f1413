-------------------------- MODULE MCActionTapping --------------------------
(***************************************************************************)
(* Small keyboards for TLC: three or four switches, two layers, and one    *)
(* keymap for each family of keys.  The time unit is a stretch of 2 ms or  *)
(* more (a time stamp is timer_read() | 1), the tapping term two of them.  *)
(***************************************************************************)
EXTENDS ActionTappingProperties, TLC

Plain(c)    == [kind |-> "LMODS", code |-> c, mods |-> {}, layer |-> 0]
WithMods(m, c) == [Plain(c) EXCEPT !.mods = m]
MT(m, c)    == [WithMods(m, c) EXCEPT !.kind = "MODS_TAP"]
OSM(m)      == [WithMods(m, KC_NO) EXCEPT !.kind = "MODS_ONESHOT"]
MTToggle(m) == [OSM(m) EXCEPT !.kind = "MODS_TAP_TOGGLE"]
Media(c)    == [Plain(c) EXCEPT !.kind = "USAGE"]
LT(l, c)    == [Plain(c) EXCEPT !.kind = "LAYER_TAP", !.layer = l]
OnLayer(kind, l) == [LT(l, KC_NO) EXCEPT !.kind = kind]
MO(l)  == OnLayer("ON_OFF", l)
TT(l)  == OnLayer("TAP_TOGGLE", l)
TG(l)  == OnLayer("LAYER_TOGGLE", l)
TO(l)  == OnLayer("LAYER_SET", l)
DF(l)  == OnLayer("DEFAULT_LAYER_SET", l)
OSL(l) == OnLayer("ONESHOT", l)
LM(l, m) == [OnLayer("LAYER_MODS", l) EXCEPT !.mods = m]
TRNS   == OnLayer("TRANSPARENT", 0)

Keys2 == {"k1", "k2"}
Keys3 == {"k1", "k2", "k3"}
Keys4 == Keys3 \cup {"k4"}
Letters == {"A", "B", "C", "D"}
Mods    == {"LSFT", "LCTL"}

(* Two mod-taps, a layer-tap that leads to a second layer, a plain key.    *)
TapHoldKeymap ==
  0 :> ("k1" :> MT({"LSFT"}, "A") @@ "k2" :> LT(1, "B") @@ "k3" :> Plain("C")
        @@ "k4" :> MT({"LCTL"}, "D"))
  @@
  1 :> ("k1" :> TRNS @@ "k2" :> TRNS @@ "k3" :> Plain("D") @@ "k4" :> Plain("A"))

(* The same without the second mod-tap.                                    *)
SmallKeymap == [l \in 0 .. 1 |-> [k \in Keys3 |-> TapHoldKeymap[l][k]]]

(* One mod-tap among plain keys.                                           *)
NestedKeymap ==
  0 :> ("k1" :> MT({"LSFT"}, "A") @@ "k2" :> Plain("B") @@ "k3" :> Plain("C"))

(* A mod-tap, a momentary layer, a key on both layers and a modifier.      *)
StrictKeymap ==
  0 :> ("k1" :> MT({"LSFT"}, "A") @@ "k2" :> MO(1) @@ "k3" :> Plain("B")
        @@ "k4" :> Plain("LCTL"))
  @@
  1 :> ("k1" :> TRNS @@ "k2" :> TRNS @@ "k3" :> Plain("C") @@ "k4" :> TRNS)

(* A one-shot modifier, a one-shot layer and a key on both layers.         *)
OneshotKeymap ==
  0 :> ("k1" :> OSM({"LSFT"}) @@ "k2" :> OSL(1) @@ "k3" :> Plain("A"))
  @@
  1 :> ("k1" :> TRNS @@ "k2" :> TRNS @@ "k3" :> Plain("B"))

(* A layer toggle on the one-shot layer.                                   *)
OneshotToggleKeymap ==
  0 :> ("k1" :> OSL(1) @@ "k2" :> Plain("A"))
  @@
  1 :> ("k1" :> TRNS @@ "k2" :> TG(2))
  @@
  2 :> ("k1" :> TRNS @@ "k2" :> TRNS)

(* Modified keys, media keys, and the ways to change layers for good.      *)
ActionsKeymap ==
  0 :> ("k1" :> WithMods({"LCTL"}, "A") @@ "k2" :> Plain("C")
        @@ "k3" :> LM(1, {"LSFT"}))
  @@
  1 :> ("k1" :> TG(2) @@ "k2" :> TO(3) @@ "k3" :> TRNS)
  @@
  2 :> ("k1" :> Plain("LSFT") @@ "k2" :> MTToggle({"LCTL"}) @@ "k3" :> TT(2))
  @@
  3 :> ("k1" :> Media("VOLU") @@ "k2" :> DF(1) @@ "k3" :> TO(0))

(* The tapping term of a key depends on its layer.                         *)
TermByLayer == [l \in Layer |-> [k \in Key |-> 2 + l]]
SameTerm  == [l \in Layer |-> [k \in Key |-> 2]]
Never     == [l \in Layer |-> [k \in Key |-> FALSE]]
Always    == [l \in Layer |-> [k \in Key |-> TRUE]]
=============================================================================
