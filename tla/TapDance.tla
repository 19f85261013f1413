------------------------------- MODULE TapDance -------------------------------
(***************************************************************************)
(* process_tap_dance.c: what a key does depends on how often it is tapped. *)
(* A dance goes on until its key is left alone for the tapping term,       *)
(* another key is pressed, or a second tap settles it; then it is finished *)
(* and types its code, and at the release of the key it is reset.          *)
(*                                                                         *)
(* One switch for each dance.  The oneshot and weak modifiers a dance      *)
(* carries along are left out.                                             *)
(***************************************************************************)
EXTENDS Naturals

CONSTANTS
  Dance,
  DOUBLE,            \* the dances ACTION_TAP_DANCE_DOUBLE
  MOVE,              \* ACTION_TAP_DANCE_DUAL_ROLE; others are LAYER_TOGGLE
  NO_DANCE,          \* last_td = 0
  MAX_TAPS           \* bound: the taps of one dance

ASSUME TapDanceAssumption ==
  /\ DOUBLE \subseteq Dance /\ MOVE \subseteq Dance \ DOUBLE
  /\ NO_DANCE \notin Dance
  /\ MAX_TAPS \in Nat \ {0}

VARIABLES
  count, finished, dance_pressed,    \* fields of the state of a dance
  last_td,
  codes,             \* <<d, 1>> and <<d, 2>>: dance d's codes that are down
  layers             \* the dances whose layer is on

dance_vars == <<count, finished, dance_pressed, last_td, codes, layers>>

DanceInit ==
  /\ count = [d \in Dance |-> 0]
  /\ finished = [d \in Dance |-> FALSE]
  /\ dance_pressed = [d \in Dance |-> FALSE]
  /\ last_td = NO_DANCE /\ codes = {} /\ layers = {}

-----------------------------------------------------------------------------
(* The callbacks.  A pair has a code for one tap and one for two, the      *)
(* others have a code for one tap and a layer for two.                     *)
CodeOf(d, n) == IF n = 1 \/ (n = 2 /\ d \in DOUBLE) THEN {<<d, n>>} ELSE {}

(* on_each_tap: a pair and a move are finished with the second tap.        *)
SettledBy(d, n) == n = 2 /\ d \in DOUBLE \cup MOVE

(* on_reset                                                                *)
Unregisters_first(d, n) == IF n = 1 THEN {<<d, 1>>} ELSE {}

Unregisters(d, n) == CodeOf(d, n)

(* process_tap_dance_action_on_dance_finished and reset_tap_dance, for all *)
(* the dances of S: what is not finished is, and what is not held is reset.*)
Finishes(S) == {d \in S : count[d] > 0 /\ ~finished[d]}
Resets(S)   == {d \in S : count[d] > 0 /\ ~dance_pressed[d]}

CodesAfter(S) ==
  (codes \cup UNION {CodeOf(d, count[d]) : d \in Finishes(S)})
    \ UNION {Unregisters(d, count[d]) : d \in Resets(S)}

LayersAfter(S) ==
  LET inverted == {d \in Finishes(S) : count[d] = 2 /\ d \notin DOUBLE \cup MOVE}
  IN (layers \ inverted) \cup (inverted \ layers)

CountAfter(S)    == [d \in Dance |-> IF d \in Resets(S) THEN 0 ELSE count[d]]
FinishedAfter(S) == [d \in Dance |-> d \notin Resets(S) /\ (finished[d] \/ d \in Finishes(S))]
LastAfter(S)     == IF Resets(S) = {} THEN last_td ELSE NO_DANCE

-----------------------------------------------------------------------------
(* preprocess_tap_dance: the dances a press interrupts.                    *)
Interrupted_other(key) == {d \in Dance : d # key /\ d # last_td}

Interrupted(key) == {d \in Dance : ~(d = key /\ d = last_td)}

(* A key that is no dance.                                                 *)
PlainKeyDown ==
  LET S == Interrupted(NO_DANCE)
  IN /\ codes' = CodesAfter(S) /\ layers' = LayersAfter(S)
     /\ count' = CountAfter(S) /\ finished' = FinishedAfter(S)
     /\ last_td' = LastAfter(S)
     /\ UNCHANGED dance_pressed

DanceDown(d) ==
  LET S    == Interrupted(d)
      taps == CountAfter(S)[d] + 1
      done == SettledBy(d, taps)
  IN /\ ~dance_pressed[d] /\ taps <= MAX_TAPS
     /\ count' = [CountAfter(S) EXCEPT ![d] = taps]
     /\ finished' = [FinishedAfter(S) EXCEPT ![d] = @ \/ done]
     /\ dance_pressed' = [dance_pressed EXCEPT ![d] = TRUE]
     /\ codes' = CodesAfter(S) \cup (IF done THEN CodeOf(d, taps) ELSE {})
     /\ layers' = IF done /\ d \in MOVE THEN {d} ELSE LayersAfter(S)
     /\ last_td' = d

EndsWhenReleased(d) == finished[d] /\ count[d] > 0

DanceUp(d) ==
  /\ dance_pressed[d]
  /\ dance_pressed' = [dance_pressed EXCEPT ![d] = FALSE]
  /\ IF EndsWhenReleased(d)
     THEN /\ codes' = codes \ Unregisters(d, count[d])
          /\ count' = [count EXCEPT ![d] = 0]
          /\ finished' = [finished EXCEPT ![d] = FALSE]
          /\ last_td' = NO_DANCE
     ELSE UNCHANGED <<codes, count, finished, last_td>>
  /\ UNCHANGED layers

(* The dances whose tapping term is over.                                  *)
matrix_scan_tap_dance(S) ==
  /\ Finishes(S) \cup Resets(S) # {}
  /\ codes' = CodesAfter(S) /\ layers' = LayersAfter(S)
  /\ count' = CountAfter(S) /\ finished' = FinishedAfter(S)
  /\ last_td' = LastAfter(S)
  /\ UNCHANGED dance_pressed

DanceNext ==
  \/ PlainKeyDown
  \/ \E d \in Dance : DanceDown(d) \/ DanceUp(d)
  \/ \E S \in SUBSET Dance : matrix_scan_tap_dance(S)

DanceSpec == DanceInit /\ [][DanceNext]_dance_vars

-----------------------------------------------------------------------------
DanceTypeOK ==
  /\ count \in [Dance -> 0 .. MAX_TAPS]
  /\ finished \in [Dance -> BOOLEAN] /\ dance_pressed \in [Dance -> BOOLEAN]
  /\ last_td \in Dance \cup {NO_DANCE}
  /\ codes \subseteq Dance \X {1, 2}
  /\ layers \subseteq Dance

(* A dance holds a code exactly if it is finished, and only the one for    *)
(* its number of taps; and a finished dance's key is held.  So no order of *)
(* taps, timeouts and other keys leaves a code stuck or types two.         *)
CodeWhileHeld ==
  \A d \in Dance :
    /\ {n \in {1, 2} : <<d, n>> \in codes}
         = IF finished[d] THEN {n \in {1, 2} : <<d, n>> \in CodeOf(d, count[d])} ELSE {}
    /\ finished[d] => dance_pressed[d] /\ count[d] > 0

(* At most one dance is open: any other key that is pressed settles it     *)
(* before it has its own effect, so codes are typed in the order of the    *)
(* dances.                                                                 *)
AtMostOneOpen ==
  \A d, e \in Dance :
    count[d] > 0 /\ ~finished[d] /\ count[e] > 0 /\ ~finished[e] => d = e
=============================================================================
