------------------------------- MODULE MCParts -------------------------------
(***************************************************************************)
(* Small instances of the parts around the core: what runs in two threads  *)
(* or on two boards (the triple-buffered object, the byte stuffer, the     *)
(* serial link, the Snowfox's Bluetooth), the debouncers, and the features *)
(* on the way of a key.  They share no state here: a behaviour picks one   *)
(* of them in its first state, and is one of that part's.                  *)
(***************************************************************************)
EXTENDS TripleBuffer, ByteStuffer, SerialLink, SnowfoxBle, Debounce,
        DynamicMacro, KeyLock, AutoShift, TapDance, Combo, TLC

(* Three rows of a matrix, written one after the other; an object torn     *)
(* between two writes is none of the objects.                              *)
Rows   == {"r1", "r2", "r3"}
Whole  == {[c \in Rows |-> v] : v \in {1, 2, 3}}
NoRows == [c \in Rows |-> 0]

(* A zero first and last, a full block that goes on, with a zero or not,   *)
(* one that ends its frame, and a frame longer than the receiver's buffer. *)
Frames == {<<1, 0>>, <<1, 1, 1>>, <<1, 1, 0>>, <<0, 1, 1>>, <<1, 1, 1, 1>>}

(* Two keys of one row; on the Snowfox, of one column.                     *)
OneRow == [k \in {"k1", "k2"} |-> "row"]

(* Two combos share a key, so that one may complete with the other.  A, C  *)
(* and D complete none and do not fit in a buffer for two; when A and B    *)
(* are complete, D may be waiting.                                         *)
ThreeCombos == "AB" :> {"a", "b"} @@ "BC" :> {"b", "c"} @@ "DE" :> {"d", "e"}

VARIABLE part

Part == {"buffer", "stuffer", "link", "ble", "debounce", "macro", "lock", "autoshift",
         "dance", "combo"}

PartsInit ==
  /\ part \in Part
  /\ Init /\ StufferInit /\ LinkInit /\ BleInit /\ DebounceInit
  /\ MacroInit /\ LockInit /\ AutoShiftInit /\ DanceInit /\ ComboInit
  /\ part = "ble" \/ ~stored_nkro
  /\ part = "debounce" \/ algorithm = "sym_defer_g"

TheBuffer ==
  /\ part = "buffer" /\ Next
  /\ UNCHANGED <<part, stuffer_vars, link_vars, ble_vars, debounce_vars,
                 macro_vars, lock_vars, autoshift_vars, dance_vars, combo_vars>>

TheStuffer ==
  /\ part = "stuffer" /\ StufferNext
  /\ UNCHANGED <<part, vars, link_vars, ble_vars, debounce_vars,
                 macro_vars, lock_vars, autoshift_vars, dance_vars, combo_vars>>

TheLink ==
  /\ part = "link" /\ LinkNext
  /\ UNCHANGED <<part, vars, stuffer_vars, ble_vars, debounce_vars,
                 macro_vars, lock_vars, autoshift_vars, dance_vars, combo_vars>>

TheBle ==
  /\ part = "ble" /\ BleNext
  /\ UNCHANGED <<part, vars, stuffer_vars, link_vars, debounce_vars,
                 macro_vars, lock_vars, autoshift_vars, dance_vars, combo_vars>>

TheDebouncers ==
  /\ part = "debounce" /\ DebounceNext
  /\ UNCHANGED <<part, vars, stuffer_vars, link_vars, ble_vars,
                 macro_vars, lock_vars, autoshift_vars, dance_vars, combo_vars>>

TheFeatures ==
  /\ \/ /\ part = "macro" /\ MacroNext
        /\ UNCHANGED <<lock_vars, autoshift_vars, dance_vars, combo_vars>>
     \/ /\ part = "lock" /\ LockNext
        /\ UNCHANGED <<macro_vars, autoshift_vars, dance_vars, combo_vars>>
     \/ /\ part = "autoshift" /\ AutoShiftNext
        /\ UNCHANGED <<macro_vars, lock_vars, dance_vars, combo_vars>>
     \/ /\ part = "dance" /\ DanceNext
        /\ UNCHANGED <<macro_vars, lock_vars, autoshift_vars, combo_vars>>
     \/ /\ part = "combo" /\ ComboNext
        /\ UNCHANGED <<macro_vars, lock_vars, autoshift_vars, dance_vars>>
  /\ UNCHANGED <<part, vars, stuffer_vars, link_vars, ble_vars, debounce_vars>>

PartsNext ==
  TheBuffer \/ TheStuffer \/ TheLink \/ TheBle \/ TheDebouncers \/ TheFeatures

PartsSpec ==
  PartsInit
    /\ [][PartsNext]_<<part, vars, stuffer_vars, link_vars, ble_vars, debounce_vars,
                       macro_vars, lock_vars, autoshift_vars, dance_vars, combo_vars>>

(* Types and limits of the part that runs: no slot, receiver, macro or key *)
(* buffer is ever written beyond its end.                                  *)
PartsTypeOK ==
  /\ part = "buffer" => TypeOK
  /\ part = "stuffer" => StufferTypeOK
  /\ part = "link" => LinkTypeOK
  /\ part = "ble" => BleTypeOK
  /\ part = "debounce" => DebounceTypeOK
  /\ part = "macro" => MacroTypeOK
  /\ part = "lock" => LockTypeOK
  /\ part = "autoshift" => AutoShiftTypeOK
  /\ part = "dance" => DanceTypeOK
  /\ part = "combo" => ComboTypeOK
=============================================================================
