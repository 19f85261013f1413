-------------------------------- MODULE Combo --------------------------------
(***************************************************************************)
(* process_combo.c, without COMBO_ALLOW_ACTION_KEYS: keys pressed together *)
(* stand for another code.  The presses of combo keys are kept back in     *)
(* key_buffer until a combo is complete, which drops them, or until the    *)
(* time is up or a key no combo claims is seen, which types them.          *)
(***************************************************************************)
EXTENDS Naturals, Sequences, FiniteSets

CONSTANTS
  ComboKey, PlainKey,
  KeysOf,            \* the combos, and the keys of each
  MAX_COMBO_LENGTH,  \* what a combo has keys at most: 8, 16 or 32
  MAX_DOWN           \* bound: how many keys are held at once

Combo == DOMAIN KeysOf

ASSUME ComboAssumption ==
  /\ ComboKey \cap PlainKey = {}
  /\ \A c \in Combo : KeysOf[c] \subseteq ComboKey /\ KeysOf[c] # {}
  /\ MAX_COMBO_LENGTH \in Nat /\ MAX_DOWN \in Nat
  /\ \A c \in Combo : /\ IsFiniteSet(KeysOf[c])
                      /\ Cardinality(KeysOf[c]) <= MAX_COMBO_LENGTH

VARIABLES
  b_combo_enable, is_active,
  combo_timer,               \* timer # 0
  combo_state,               \* combo->state, as the set of keys
  key_buffer,
  keys_down,                 \* the switches that are held
  up_to_host,                \* the keys the host sees down
  combos_down,               \* the combos whose code the host sees down
  used,                      \* held keys that a complete combo stood for
  dropped,                   \* held keys that were dropped with others' combo
  lost,                      \* held keys that found the buffer full
  replayed,                  \* keys typed from the buffer, combos still active
  stale                      \* combos were switched off with a key of one held

combo_vars == <<b_combo_enable, is_active, combo_timer, combo_state, key_buffer, keys_down,
                up_to_host, combos_down, used, dropped, lost, replayed, stale>>

ComboInit ==
  /\ b_combo_enable = TRUE /\ is_active = FALSE /\ combo_timer = FALSE
  /\ combo_state = [c \in Combo |-> {}] /\ key_buffer = <<>>
  /\ keys_down = {} /\ up_to_host = {} /\ combos_down = {}
  /\ used = {} /\ dropped = {} /\ lost = {} /\ replayed = {} /\ stale = FALSE

Buffered == {key_buffer[i] : i \in DOMAIN key_buffer}

-----------------------------------------------------------------------------
(* Presses.  process_single_combo claims a key of a combo while combos are *)
(* active; a complete combo is sent and drops the buffer.                  *)
StateWith(k) ==
  [c \in Combo |-> IF k \in KeysOf[c] THEN combo_state[c] \cup {k} ELSE combo_state[c]]

Completed(k) ==
  {c \in Combo : is_active /\ k \in KeysOf[c] /\ StateWith(k)[c] = KeysOf[c]}

IsComboKey(k) == \E c \in Combo : k \in KeysOf[c]

Pressed(k) ==
  /\ k \notin keys_down /\ Cardinality(keys_down) < MAX_DOWN
  /\ keys_down' = keys_down \cup {k}

(* A key of no combo, or of one that is too late.                          *)
KeyTyped(k) ==
  /\ Pressed(k)
  /\ b_combo_enable /\ ~(is_active /\ IsComboKey(k))
  /\ combo_state' = StateWith(k)
  /\ LET none == \A c \in Combo : combo_state'[c] = {}
     IN /\ combo_timer' = (combo_timer /\ ~none)
        /\ is_active' = (is_active \/ none)
  /\ up_to_host' = up_to_host \cup Buffered \cup {k}
  /\ key_buffer' = <<>>
  /\ replayed' = IF is_active THEN replayed \cup Buffered ELSE replayed
  /\ UNCHANGED <<b_combo_enable, combos_down, used, dropped, lost, stale>>

(* timer_read() is 0 once in 65.5 s, and that is no timer.                 *)
TimerStarts == combo_timer' \in BOOLEAN

(* Mutant: the buffer's last place is passed by one.                       *)
BufferRoom_atEnd == Len(key_buffer) <= MAX_COMBO_LENGTH

BufferRoom == Len(key_buffer) < MAX_COMBO_LENGTH

(* The key is consumed, also if it finds no room in the buffer.            *)
KeyKeptBack(k) ==
  /\ Pressed(k)
  /\ b_combo_enable /\ is_active /\ IsComboKey(k) /\ Completed(k) = {}
  /\ combo_state' = StateWith(k)
  /\ TimerStarts
  /\ IF BufferRoom
     THEN key_buffer' = Append(key_buffer, k) /\ lost' = lost
     ELSE key_buffer' = key_buffer /\ lost' = lost \cup {k}
  /\ UNCHANGED <<b_combo_enable, is_active, up_to_host, combos_down, used, dropped, replayed,
                 stale>>

(* Mutant: the keys of a complete combo are typed all the same.            *)
BufferDropped_typed == Buffered

BufferDropped == {}

(* The whole buffer goes, with keys that are in none of these combos.      *)
ComboPressed(k) ==
  /\ Pressed(k)
  /\ b_combo_enable /\ Completed(k) # {}
  /\ combo_state' = StateWith(k)
  /\ combos_down' = combos_down \cup Completed(k)
  /\ TimerStarts
  /\ key_buffer' = <<>>
  /\ up_to_host' = up_to_host \cup BufferDropped
  /\ LET theirs == UNION {KeysOf[c] : c \in Completed(k)}
     IN /\ used' = used \cup (theirs \cap keys_down')
        /\ dropped' = (dropped \cup Buffered) \ theirs
        /\ lost' = lost \ theirs
  /\ UNCHANGED <<b_combo_enable, is_active, replayed, stale>>

-----------------------------------------------------------------------------
(* Releases.  A combo that was complete is over, and claims the release    *)
(* while combos are active; any other release types the buffer.            *)
StateWithout(k) ==
  [c \in Combo |-> IF k \in KeysOf[c] THEN combo_state[c] \ {k} ELSE combo_state[c]]

Over_any(k) == {c \in Combo : k \in KeysOf[c] /\ is_active /\ combo_state[c] = KeysOf[c]}

Over(k) == {c \in Combo : k \in KeysOf[c] /\ combo_state[c] = KeysOf[c]}

Released(k) ==
  /\ k \in keys_down
  /\ keys_down' = keys_down \ {k} /\ used' = used \ {k}
  /\ dropped' = dropped \ {k} /\ lost' = lost \ {k}
  /\ b_combo_enable
  /\ combo_state' = StateWithout(k)
  /\ combos_down' = combos_down \ Over(k)

(* ... so that key k does not come up if it is down for the host: replayed.*)
ReleaseClaimed(k) ==
  /\ Released(k)
  /\ is_active /\ Over(k) # {}
  /\ UNCHANGED <<b_combo_enable, is_active, combo_timer, key_buffer, up_to_host,
                 replayed, stale>>

(* Mutant: the buffer is typed after the release.                          *)
TypedByRelease_late(k) == (up_to_host \ {k}) \cup Buffered

TypedByRelease(k) == (up_to_host \cup Buffered) \ {k}

ReleasePassed(k) ==
  /\ Released(k)
  /\ ~(is_active /\ Over(k) # {})
  /\ LET none == \A c \in Combo : combo_state'[c] = {}
     IN /\ combo_timer' = (combo_timer /\ ~none)
        /\ is_active' = (is_active \/ none)
  /\ up_to_host' = TypedByRelease(k)
  /\ key_buffer' = <<>>
  /\ replayed' = (IF is_active THEN replayed \cup Buffered ELSE replayed) \ {k}
  /\ UNCHANGED <<b_combo_enable, stale>>

-----------------------------------------------------------------------------
(* More than COMBO_TERM after the last press of a combo key.               *)
matrix_scan_combo ==
  /\ b_combo_enable /\ is_active /\ combo_timer
  /\ is_active' = FALSE
  /\ up_to_host' = up_to_host \cup Buffered
  /\ key_buffer' = <<>>
  /\ UNCHANGED <<b_combo_enable, combo_timer, combo_state, keys_down, combos_down, used,
                 dropped, lost, replayed, stale>>

(* CMB_ON, CMB_OFF; combo_state is not touched, and no combo is ended.     *)
combo_enable ==
  /\ ~b_combo_enable /\ b_combo_enable' = TRUE
  /\ UNCHANGED <<is_active, combo_timer, combo_state, key_buffer, keys_down, up_to_host,
                 combos_down, used, dropped, lost, replayed, stale>>

combo_disable ==
  /\ b_combo_enable /\ b_combo_enable' = FALSE
  /\ is_active' = FALSE /\ combo_timer' = FALSE
  /\ up_to_host' = up_to_host \cup Buffered
  /\ key_buffer' = <<>>
  /\ stale' = (stale \/ \E c \in Combo : combo_state[c] # {})
  /\ UNCHANGED <<combo_state, keys_down, combos_down, used, dropped, lost, replayed>>

(* Keys while combos are off.                                              *)
KeyWhileOff(k) ==
  /\ ~b_combo_enable
  /\ IF k \in keys_down
     THEN /\ keys_down' = keys_down \ {k} /\ used' = used \ {k}
          /\ dropped' = dropped \ {k} /\ lost' = lost \ {k}
          /\ up_to_host' = up_to_host \ {k} /\ replayed' = replayed \ {k}
     ELSE /\ Pressed(k)
          /\ up_to_host' = up_to_host \cup {k}
          /\ UNCHANGED <<used, dropped, lost, replayed>>
  /\ UNCHANGED <<b_combo_enable, is_active, combo_timer, combo_state, key_buffer,
                 combos_down, stale>>

ComboNext ==
  \/ \E k \in ComboKey \cup PlainKey :
       \/ KeyTyped(k)
       \/ KeyKeptBack(k)
       \/ ComboPressed(k)
       \/ ReleaseClaimed(k)
       \/ ReleasePassed(k)
       \/ KeyWhileOff(k)
  \/ matrix_scan_combo
  \/ combo_enable
  \/ combo_disable

ComboSpec == ComboInit /\ [][ComboNext]_combo_vars

-----------------------------------------------------------------------------
ComboTypeOK ==
  /\ {b_combo_enable, is_active, combo_timer, stale} \subseteq BOOLEAN
  /\ combo_state \in [Combo -> SUBSET ComboKey]
  /\ key_buffer \in Seq(ComboKey) /\ Len(key_buffer) <= MAX_COMBO_LENGTH
  /\ keys_down \subseteq ComboKey \cup PlainKey
  /\ up_to_host \subseteq ComboKey \cup PlainKey
  /\ combos_down \subseteq Combo
  /\ {used, dropped, lost, replayed} \subseteq SUBSET ComboKey

(* No press is lost or typed twice but where the code gives it up: a held  *)
(* key is down for the host, or kept back, or stood for by a combo that    *)
(* was complete, or went with the buffer when a combo of other keys was,   *)
(* or found the buffer full; a key that is kept back is held and was not   *)
(* typed; and no key is kept back while combos are off or their time is    *)
(* over, for nothing would type it then.                                   *)
NoPressLost ==
  /\ keys_down \subseteq up_to_host \cup Buffered \cup used \cup dropped \cup lost
  /\ Buffered \subseteq keys_down \ (up_to_host \ replayed)
  /\ Buffered \cap (dropped \cup lost \cup used) = {}
  /\ key_buffer # <<>> => b_combo_enable /\ is_active

(* process_combo.c:172: "the key is consumed and placed in the buffer".    *)
(* Not if the buffer is full.                                              *)
ConsumedIsBuffered ==
  keys_down \subseteq up_to_host \cup Buffered \cup used \cup dropped

(* A key that is not held is down for the host only if it was typed from   *)
(* the buffer while combos went on (and a combo then claimed its release). *)
KeysComeUp == up_to_host \subseteq keys_down \cup replayed

(* A combo's code is down only while all its keys are, unless combos were  *)
(* switched off with a key of one held.                                    *)
ComboMeansAllHeld ==
  ~stale => \A c \in combos_down : KeysOf[c] \subseteq keys_down
=============================================================================
