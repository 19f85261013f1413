------------------------------ MODULE AutoShift ------------------------------
(***************************************************************************)
(* process_auto_shift.c: a letter is kept back until another key goes down *)
(* or any key goes up, and is then typed, shifted if it was kept for       *)
(* longer than the timeout.  The keys that set auto shift up go past the   *)
(* letter, and KC_ASRP types the timeout before it.                        *)
(***************************************************************************)
EXTENDS Integers, Sequences, FiniteSets

CONSTANTS
  Letter, OtherKey,    \* the keys auto shift handles, and some it does not
  SHIFT,               \* one of OtherKey, a modifier
  MAX_TIME,            \* UINT16_MAX
  AUTO_SHIFT_TIMEOUT,
  PRESSES,             \* bound: how many keys are pressed that type
  MAX_PUSHED           \* bound: how many keys are held at once

SetupKey == {"KC_ASTG", "KC_ASON", "KC_ASOFF", "KC_ASUP", "KC_ASDN", "KC_ASRP"}

ShiftedKey == Letter \cup OtherKey \cup SetupKey

ASSUME AutoShiftAssumption ==
  /\ SHIFT \in OtherKey /\ Letter \cap OtherKey = {}
  /\ SetupKey \cap (Letter \cup OtherKey) = {}
  /\ MAX_TIME \in Nat /\ MAX_TIME >= 5 /\ AUTO_SHIFT_TIMEOUT \in 0 .. MAX_TIME
  /\ PRESSES \in Nat /\ MAX_PUSHED \in Nat

VARIABLES
  autoshift_enabled,
  autoshift_timeout,
  autoshift_lastkey, \* the number of the press that is kept back; 0: KC_NO
  pushed,            \* the keys that are held
  pressed,           \* the keys pressed that type, in order
  typed              \* what the host got, in order: [press, shifted]

autoshift_vars ==
  <<autoshift_enabled, autoshift_timeout, autoshift_lastkey, pushed, pressed, typed>>

AutoShiftInit ==
  /\ autoshift_enabled = TRUE /\ autoshift_timeout = AUTO_SHIFT_TIMEOUT
  /\ autoshift_lastkey = 0
  /\ pushed = {} /\ pressed = <<>> /\ typed = <<>>

(* timer_elapsed(autoshift_time), read if a letter is kept back: it may be *)
(* held for any time, and the time wraps.                                  *)
Elapsed == IF autoshift_lastkey = 0 THEN {0} ELSE 0 .. MAX_TIME

Flushed(elapsed) ==
  IF autoshift_lastkey = 0
  THEN typed
  ELSE Append(typed, [press   |-> autoshift_lastkey,
                      shifted |-> elapsed > autoshift_timeout \/ SHIFT \in pushed])

autoshift_flush(elapsed) ==
  /\ typed' = Flushed(elapsed)
  /\ autoshift_lastkey' = 0

Pushes(k) ==
  /\ k \notin pushed /\ Cardinality(pushed) < MAX_PUSHED
  /\ pushed' = pushed \cup {k}

Types(k) == Pushes(k) /\ Len(pressed) < PRESSES /\ pressed' = Append(pressed, k)

ThisPress == [press |-> Len(pressed) + 1, shifted |-> SHIFT \in pushed]

(* A letter, kept back unless auto shift is off or a modifier is held.     *)
LetterDown(k, elapsed) ==
  /\ Types(k)
  /\ IF autoshift_enabled /\ SHIFT \notin pushed
     THEN /\ typed' = Flushed(elapsed)
          /\ autoshift_lastkey' = Len(pressed) + 1
     ELSE /\ typed' = Append(Flushed(elapsed), ThisPress)
          /\ autoshift_lastkey' = 0
  /\ UNCHANGED <<autoshift_enabled, autoshift_timeout>>

(* Mutant: the letter that was kept back is typed after the key.           *)
OtherKeyTyped_late(elapsed) ==
  Append(typed, ThisPress) \o
    (IF autoshift_lastkey = 0 THEN <<>> ELSE <<Flushed(elapsed)[Len(typed) + 1]>>)

OtherKeyTyped(elapsed) == Append(Flushed(elapsed), ThisPress)

OtherDown(k, elapsed) ==
  /\ Types(k)
  /\ typed' = OtherKeyTyped(elapsed)
  /\ autoshift_lastkey' = 0
  /\ UNCHANGED <<autoshift_enabled, autoshift_timeout>>

(* KC_ASTG, KC_ASOFF: what was kept back is typed.                         *)
autoshift_disable(k, elapsed) ==
  /\ k = "KC_ASOFF" \/ (k = "KC_ASTG" /\ autoshift_enabled)
  /\ Pushes(k)
  /\ autoshift_enabled' = FALSE
  /\ autoshift_flush(elapsed)
  /\ UNCHANGED <<autoshift_timeout, pressed>>

autoshift_enable(k) ==
  /\ k = "KC_ASON" \/ (k = "KC_ASTG" /\ ~autoshift_enabled)
  /\ Pushes(k)
  /\ autoshift_enabled' = TRUE
  /\ UNCHANGED <<autoshift_timeout, autoshift_lastkey, pressed, typed>>

(* KC_ASUP, KC_ASDN: modulo 2^16, so that the timeout wraps at either end; *)
(* what is kept back stays so.                                             *)
TimeoutChanged(k) ==
  /\ \/ k = "KC_ASUP" /\ autoshift_timeout' = (autoshift_timeout + 5) % (MAX_TIME + 1)
     \/ k = "KC_ASDN" /\ autoshift_timeout' = (autoshift_timeout - 5) % (MAX_TIME + 1)
  /\ Pushes(k)
  /\ UNCHANGED <<autoshift_enabled, autoshift_lastkey, pressed, typed>>

(* KC_ASRP: send_string, before the letter that is kept back.              *)
autoshift_timer_report(k) ==
  /\ k = "KC_ASRP"
  /\ Types(k)
  /\ typed' = Append(typed, ThisPress)
  /\ UNCHANGED <<autoshift_enabled, autoshift_timeout, autoshift_lastkey>>

AnyKeyUp(k, elapsed) ==
  /\ k \in pushed
  /\ pushed' = pushed \ {k}
  /\ autoshift_flush(elapsed)
  /\ UNCHANGED <<autoshift_enabled, autoshift_timeout, pressed>>

AutoShiftNext ==
  \E elapsed \in Elapsed :
    \/ \E k \in Letter : LetterDown(k, elapsed)
    \/ \E k \in OtherKey : OtherDown(k, elapsed)
    \/ \E k \in ShiftedKey : AnyKeyUp(k, elapsed)
    \/ \E k \in SetupKey :
         \/ autoshift_disable(k, elapsed)
         \/ autoshift_enable(k)
         \/ TimeoutChanged(k)
         \/ autoshift_timer_report(k)

AutoShiftSpec == AutoShiftInit /\ [][AutoShiftNext]_autoshift_vars

-----------------------------------------------------------------------------
Typed == [press : Nat \ {0}, shifted : BOOLEAN]

AutoShiftTypeOK ==
  /\ autoshift_enabled \in BOOLEAN /\ autoshift_timeout \in 0 .. MAX_TIME
  /\ autoshift_lastkey \in 0 .. Len(pressed)
  /\ pushed \subseteq ShiftedKey
  /\ pressed \in Seq(ShiftedKey) /\ typed \in Seq(Typed)

PressesOf(s) == {s[i].press : i \in DOMAIN s}

(* What is typed before an earlier press, or again, is a report that did   *)
(* not wait for a letter.                                                  *)
InOrder(s) ==
  \A i, j \in DOMAIN s :
    i < j => \/ s[i].press < s[j].press
             \/ pressed[s[i].press] = "KC_ASRP" /\ pressed[s[j].press] \in Letter

(* Every press of a key that types is typed, once and in the order of the  *)
(* presses, but for one letter that is kept back and the reports of the    *)
(* timeout that go past it.  The letter is still held, and out of reach of *)
(* a Shift pressed after it.  Whatever rolls over a letter, and whenever   *)
(* auto shift is switched off, nothing but a report overtakes it, and no   *)
(* press is lost or repeated.                                              *)
TypedInOrder ==
  /\ PressesOf(typed) = DOMAIN pressed \ {autoshift_lastkey}
  /\ InOrder(typed)
  /\ autoshift_lastkey # 0 =>
       /\ pressed[autoshift_lastkey] \in Letter \cap pushed /\ SHIFT \notin pushed
       /\ \A n \in DOMAIN pressed : n > autoshift_lastkey => pressed[n] = "KC_ASRP"
=============================================================================
