----------------------------- MODULE DynamicMacro -----------------------------
(***************************************************************************)
(* process_dynamic_macro.c: two macros in one buffer.  Macro 1 grows from  *)
(* the first cell upwards, macro 2 from the last cell downwards, and a     *)
(* recording stops short of the other macro.                               *)
(*                                                                         *)
(* The firmware is built with DYNAMIC_MACRO_NO_NESTING: a play key does    *)
(* nothing while a macro is recorded.                                      *)
(***************************************************************************)
EXTENDS Integers, Sequences

CONSTANTS
  DYNAMIC_MACRO_SIZE,
  MacroKey,          \* the keys that are not keys of the macros themselves
  SESSION            \* bound: the key events of one recording

ASSUME DynamicMacroAssumption ==
  /\ DYNAMIC_MACRO_SIZE \in Nat \ {0}
  /\ SESSION \in Nat /\ MacroKey # {}

KeyEvent  == [key : MacroKey, pressed : BOOLEAN]
Macro     == {1, 2}
Address   == 0 .. DYNAMIC_MACRO_SIZE - 1
Other(m)  == 3 - m
direction == [m \in Macro |-> IF m = 1 THEN 1 ELSE -1]
start     == [m \in Macro |-> IF m = 1 THEN 0 ELSE DYNAMIC_MACRO_SIZE - 1]

VARIABLES
  macro_buffer,
  macro_end,         \* macro_end and r_macro_end, indices into macro_buffer
  macro_pointer,
  macro_id,          \* the macro being recorded, or 0
  session,           \* the events of the recording that were not ignored
  saved,             \* what either macro should be
  played             \* what the last play of a macro sent to process_record

macro_vars == <<macro_buffer, macro_end, macro_pointer, macro_id, session, saved, played>>

Blank == CHOOSE e \in KeyEvent : TRUE

MacroInit ==
  /\ macro_buffer = [a \in Address |-> Blank]
  /\ macro_end = start
  /\ macro_pointer = 0 /\ macro_id = 0
  /\ session = <<>> /\ saved = [m \in Macro |-> <<>>] /\ played = <<>>

-----------------------------------------------------------------------------
(* The cells of macro m up to one before `end`, in its own order.          *)
Cells(m, end) ==
  [i \in 1 .. direction[m] * (end - start[m]) |->
     macro_buffer[start[m] + direction[m] * (i - 1)]]

(* DYN_REC_START1, DYN_REC_START2, which start on release.                 *)
dynamic_macro_record_start(m) ==
  /\ macro_id = 0
  /\ macro_pointer' = start[m]
  /\ macro_id' = m
  /\ session' = <<>>
  /\ UNCHANGED <<macro_buffer, macro_end, saved, played>>

(* Any key but those of the macros.  A release before the first press is   *)
(* ignored; when macro_pointer is one past macro2_end the buffer is full.  *)
Full_one_late(m) == macro_pointer - 2 * direction[m] = macro_end[Other(m)]

Full(m) == macro_pointer - direction[m] = macro_end[Other(m)]

dynamic_macro_record_key(e) ==
  /\ macro_id # 0
  /\ IF macro_pointer = start[macro_id] /\ ~e.pressed
     THEN UNCHANGED <<macro_buffer, macro_pointer, session>>
     ELSE /\ Len(session) < SESSION
          /\ session' = Append(session, e)
          /\ IF Full(macro_id)
             THEN UNCHANGED <<macro_buffer, macro_pointer>>
             ELSE /\ macro_buffer' = [macro_buffer EXCEPT ![macro_pointer] = e]
                  /\ macro_pointer' = macro_pointer + direction[macro_id]
  /\ UNCHANGED <<macro_end, macro_id, saved, played>>

(* DYN_REC_STOP pressed, or a start key released.  The presses at the end  *)
(* are trimmed: they may be of the key that led to the layer of the stop   *)
(* key, whose release comes too late.                                      *)
LastRelease(s) ==
  LET releases == {i \in 1 .. Len(s) : ~s[i].pressed}
  IN IF releases = {} THEN 0 ELSE CHOOSE i \in releases : \A j \in releases : j <= i

(* Mutant: one press is trimmed, as if nobody held two keys.               *)
Trimmed_once(s) ==
  IF s # <<>> /\ s[Len(s)].pressed THEN Len(s) - 1 ELSE Len(s)

Trimmed(s) == LastRelease(s)

dynamic_macro_record_end ==
  /\ macro_id # 0
  /\ LET m == macro_id
     IN /\ macro_end' =
             [macro_end EXCEPT ![m] = start[m]
                + direction[m] * Trimmed(Cells(m, macro_pointer))]
        /\ saved' =
             [saved EXCEPT ![m] =
                LET room == DYNAMIC_MACRO_SIZE - Len(saved[Other(m)])
                    kept == IF Len(session) <= room THEN session
                                                    ELSE SubSeq(session, 1, room)
                IN SubSeq(kept, 1, LastRelease(kept))]
  /\ macro_id' = 0 /\ session' = <<>>
  /\ UNCHANGED <<macro_buffer, macro_pointer, played>>

(* DYN_MACRO_PLAY1, DYN_MACRO_PLAY2, released.                             *)
dynamic_macro_play(m) ==
  /\ macro_id = 0
  /\ played' = Cells(m, macro_end[m])
  /\ UNCHANGED <<macro_buffer, macro_end, macro_pointer, macro_id, session, saved>>

MacroNext ==
  \/ \E m \in Macro : dynamic_macro_record_start(m)
  \/ \E e \in KeyEvent : dynamic_macro_record_key(e)
  \/ dynamic_macro_record_end
  \/ \E m \in Macro : dynamic_macro_play(m)

MacroSpec == MacroInit /\ [][MacroNext]_macro_vars

-----------------------------------------------------------------------------
MacroTypeOK ==
  /\ macro_buffer \in [Address -> KeyEvent]
  /\ macro_end \in [Macro -> -1 .. DYNAMIC_MACRO_SIZE]
  /\ macro_pointer \in -1 .. DYNAMIC_MACRO_SIZE
  /\ macro_id \in {0, 1, 2}
  /\ session \in Seq(KeyEvent) /\ Len(session) <= SESSION
  /\ saved \in [Macro -> Seq(KeyEvent)]
  /\ played \in Seq(KeyEvent)

(* The two macros, and the one being recorded with the other one, share no *)
(* cell and stay inside the buffer, however often either is recorded anew: *)
(* "recording must stop where they meet" is right to the cell.             *)
MacrosApart ==
  /\ 0 <= macro_end[1] /\ macro_end[1] <= macro_end[2] + 1
  /\ macro_end[2] < DYNAMIC_MACRO_SIZE
  /\ macro_id = 1 => 0 <= macro_pointer /\ macro_pointer <= macro_end[2] + 1
  /\ macro_id = 2 => macro_end[1] - 1 <= macro_pointer /\ macro_pointer < DYNAMIC_MACRO_SIZE

(* A macro is what was typed while it was recorded, as far as the other    *)
(* macro left room and up to the last release; recording the other macro   *)
(* does not change it.                                                     *)
MacroIsWhatWasTyped ==
  \A m \in Macro : macro_id # m => Cells(m, macro_end[m]) = saved[m]
=============================================================================
