----------------------- MODULE ActionTappingProperties -----------------------
(***************************************************************************)
(* What the tap/hold machine and the actions behind it must never do, for  *)
(* any keymap unless the comment of the property restricts it.  What       *)
(* stays down and how long a key is pending are promises of a keyboard     *)
(* with one dual-role key; with several they hold as long as no more than  *)
(* four events wait when a key changes (a tap that RestartTap starts does  *)
(* not look for the release that waits for it).  A key that is a mod-tap   *)
(* on one layer only keeps them with IGNORE_MOD_TAP_INTERRUPT.             *)
(***************************************************************************)
EXTENDS ActionTapping

ActionsOf(k) == {Keymap[l][k] : l \in Layer}

(* A key is held until its release has been processed.                     *)
Holding(k) ==
  \/ k \in matrix_prev
  \/ \E i \in DOMAIN waiting_buffer :
       waiting_buffer[i].key = k /\ ~waiting_buffer[i].pressed

-----------------------------------------------------------------------------
(* Nothing gets stuck                                                      *)

(* No code stays in the report without a held key that can have registered *)
(* it: every path of process_action that registers a code meets the        *)
(* release that removes it, whatever layers and decisions came between.    *)
EveryCodeIsHeld ==
  \A c \in dev.keys :
    \E k \in Key : Holding(k) /\ \E a \in ActionsOf(k) : a.code = c

(* The same for modifiers, those a fivefold tap of OSM has locked aside.   *)
EveryModIsHeld ==
  \A m \in dev.real_mods \ dev.oneshot_locked_mods :
    \E k \in Key : Holding(k) /\ \E a \in ActionsOf(k) : m \in a.mods \cup {a.code}

Momentary == {"ON_OFF", "LAYER_TAP", "LAYER_MODS"}

(* A layer that only MO, LT and LM reach is on only while one of these     *)
(* keys is held: nobody is locked into it.                                 *)
EveryMomentaryLayerIsHeld ==
  \A l \in dev.layer_state :
    \E k \in Key :
      Holding(k) /\ \E a \in ActionsOf(k) : a.kind \in Momentary /\ a.layer = l

(* A layer that only OSL reaches is on exactly while a one-shot is active. *)
OneshotLayerIsOn ==
  dev.layer_state = IF is_oneshot_layer_active(dev) THEN {dev.oneshot_layer.layer}
                                                    ELSE {}

-----------------------------------------------------------------------------
(* What the host sees                                                      *)

(* The report the host has seen last lists the keys of keyboard_report: no *)
(* path changes the keys without sending it.                               *)
HostInSync == dev.host.keys = dev.keys

(* A key is never reported together with the weak modifiers of another:    *)
(* process_action clears "the weak mods left by previously pressed keys".  *)
NoForeignWeakMods ==
  [][\A c \in dev'.host.keys \ dev.host.keys :
       \E k \in Key : \E a \in ActionsOf(k) :
         a.code = c /\ dev'.host.mods \subseteq a.mods \cup dev'.real_mods]_vars

(* One-shot modifiers go to one key only: a step that reports a new key    *)
(* leaves none for the next.                                               *)
OneshotModsUsedOnce ==
  [][dev'.host.keys \ dev.host.keys # {} => dev'.oneshot_mods = {}]_vars

(* TG acts when its key is let go: a layer no other key switches changes   *)
(* only in a step that takes in a release.                                 *)
LayerTogglesOnRelease ==
  [][\A l \in Layer :
       /\ l \in dev.layer_state <=> l \notin dev'.layer_state
       /\ \A k \in Key : \A a \in ActionsOf(k) : a.layer = l => a.kind = "LAYER_TOGGLE"
       => matrix_prev' \subseteq matrix_prev /\ matrix_prev' # matrix_prev]_vars

-----------------------------------------------------------------------------
(* How a dual-role key is decided                                          *)

WithinItsTerm == tapping_key.age < get_tapping_term(dev, tapping_key.key)

(* A key has been pressed and released while the pending key is down.      *)
TypedInside ==
  \E i, j \in DOMAIN waiting_buffer :
    /\ i < j
    /\ waiting_buffer[i].key = waiting_buffer[j].key
    /\ waiting_buffer[i].pressed /\ ~waiting_buffer[j].pressed

(* A pending key that stays down stays pending until its tapping term is   *)
(* over, whatever is typed meanwhile (no permissive hold).                 *)
UndecidedForTheTerm ==
  [][Undecided /\ WithinItsTerm /\ tapping_key.key \in matrix_prev'
     => Undecided' /\ tapping_key'.key = tapping_key.key]_vars

(* With permissive hold the pending key waits no longer than until another *)
(* key has been typed.                                                     *)
TypedKeyDecides == pc = "scan" /\ Undecided => ~TypedInside

(* The keys whose presses wait in b, oldest first.                         *)
presses(b) ==
  LET upto[i \in 0 .. Len(b)] ==
        IF i = 0 THEN <<>>
        ELSE IF b[i].pressed THEN Append(upto[i - 1], b[i].key) ELSE upto[i - 1]
  IN  upto[Len(b)]

(* The presses still open, oldest first: the pending key, then the buffer. *)
pending_presses ==
  (IF Undecided THEN <<tapping_key.key>> ELSE <<>>) \o presses(waiting_buffer)

Order == INSTANCE PressOrder WITH held <- matrix_prev, pending <- pending_presses

(* The machine implements PressOrder: presses are decided in the order in  *)
(* which the keys went down.                                               *)
InPressOrder == Order!Spec

(* Every pending key is decided in the end, even if the typing never stops *)
EveryPressIsDecided ==
  \A k \in Key : Undecided /\ tapping_key.key = k ~> ~(Undecided /\ tapping_key.key = k)

(* When the fingers rest, the held-back events have all been processed in  *)
(* the end and no key is left undecided.                                   *)
SettlesWhenTypingStops ==
  <>[][UNCHANGED matrix_prev]_vars => <>[](waiting_buffer = <<>> /\ ~Undecided)
=============================================================================
