------------------------------- MODULE KeyLock -------------------------------
(***************************************************************************)
(* process_key_lock.c: after KC_LOCK the next key stays down when it is    *)
(* released, until it is pressed and released again.  Every key here has   *)
(* its own standard keycode; clear_keyboard, which many handlers call,     *)
(* forgets the registered keys but not key_state.                          *)
(***************************************************************************)
EXTENDS Naturals

CONSTANT LockKey

VARIABLES
  key_state,         \* the keys that are locked
  watching,
  switches,          \* the keys that are held
  registered,        \* the keys that are down for the host
  cleared            \* the keys clear_keyboard took from the host meanwhile

lock_vars == <<key_state, watching, switches, registered, cleared>>

LockInit ==
  /\ key_state = {} /\ watching = FALSE
  /\ switches = {} /\ registered = {} /\ cleared = {}

(* The press is passed on and reaches register_code.                       *)
Passed(k) == registered' = registered \cup {k} /\ cleared' = cleared \ {k}

(* "We check watching first": a locked key is locked again, not unlocked.  *)
StandardKeyDown(k) ==
  /\ k \notin switches
  /\ switches' = switches \cup {k}
  /\ watching' = FALSE
  /\ IF k \in key_state /\ ~watching
     THEN /\ key_state' = key_state \ {k}
          /\ UNCHANGED <<registered, cleared>>
     ELSE /\ key_state' = IF watching THEN key_state \cup {k} ELSE key_state
          /\ Passed(k)

(* Mutant: a release is not masked while the next key is being waited for. *)
Masked_unwatched(k) == k \in key_state /\ ~watching

Masked(k) == k \in key_state

StandardKeyUp(k) ==
  /\ k \in switches
  /\ switches' = switches \ {k}
  /\ IF Masked(k)
     THEN UNCHANGED <<registered, cleared>>
     ELSE registered' = registered \ {k} /\ cleared' = cleared \ {k}
  /\ UNCHANGED <<key_state, watching>>

KC_LOCK ==
  /\ watching' = ~watching
  /\ UNCHANGED <<key_state, switches, registered, cleared>>

(* A key above 0xFF is not locked.                                         *)
UnlockableKeyDown ==
  /\ watching' = FALSE
  /\ UNCHANGED <<key_state, switches, registered, cleared>>

ClearKeyboard ==
  /\ registered' = {} /\ cleared' = switches \cup key_state
  /\ UNCHANGED <<key_state, watching, switches>>

LockNext ==
  \/ \E k \in LockKey : StandardKeyDown(k) \/ StandardKeyUp(k)
  \/ KC_LOCK
  \/ UnlockableKeyDown
  \/ ClearKeyboard

LockSpec == LockInit /\ [][LockNext]_lock_vars

-----------------------------------------------------------------------------
LockTypeOK ==
  /\ key_state \subseteq LockKey /\ switches \subseteq LockKey
  /\ registered \subseteq LockKey /\ cleared \subseteq LockKey
  /\ watching \in BOOLEAN

(* A key is down for the host exactly if it is held or locked (or          *)
(* clear_keyboard took it from the host): however locks and releases       *)
(* interleave, no lock leaves a key stuck and none lets go of a held one.  *)
HeldOrLocked ==
  /\ registered \subseteq switches \cup key_state
  /\ (switches \cup key_state) \ cleared \subseteq registered
=============================================================================
