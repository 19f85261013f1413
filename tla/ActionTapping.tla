---------------------------- MODULE ActionTapping ----------------------------
(***************************************************************************)
(* The tap/hold state machine of action_tapping.c, driven by the main loop *)
(* (keyboard_task): the record a dual-role key is waiting on               *)
(* (tapping_key), the ring of the events held back until it is decided     *)
(* (waiting_buffer), and the device state of module Action behind them.    *)
(*                                                                         *)
(* process_tapping is one disjunction, a branch of the C function each.    *)
(* A branch either consumes the record (returns true) or defers it         *)
(* (returns false: a new event is put in the buffer, a buffered one stays  *)
(* at its head and ends the drain loop).                                   *)
(***************************************************************************)
EXTENDS Action, Sequences, FiniteSets

CONSTANTS
  NO_KEY,                   \* position (255, 255) of the TICK pseudo event
  NONE,                     \* tapping_key = (keyrecord_t){}
  WAITING_BUFFER_SIZE,
  TAPPING_TERM,             \* [Layer -> [Key -> Nat]]: get_tapping_term
  TAPPING_TERM_PER_KEY,
  LONG_TAPPING_TERM,        \* the 500 ms from which typing always interferes
  PERMISSIVE_HOLD,
  PERMISSIVE_HOLD_PER_KEY,
  get_permissive_hold,      \* [Layer -> [Key -> BOOLEAN]]
  TAPPING_FORCE_HOLD,       \* [Layer -> [Key -> BOOLEAN]]
  MAX_SCAN_GAP,             \* bound: timer units between two matrix scans
  MAX_WAITING,              \* bound: no key changes while more events wait;
                            \* WAITING_BUFFER_SIZE - 1 and above is no bound
  FAST_SCAN                 \* TRUE: a TICK comes between a time-out that left
                            \* events in the buffer and the next key change

ASSUME TappingAssumption ==
  /\ NO_KEY \notin Key
  /\ NONE \notin Record
  /\ WAITING_BUFFER_SIZE \in Nat \ {0}
  /\ TAPPING_TERM \in [Layer -> [Key -> Nat]]
  /\ LONG_TAPPING_TERM \in Nat
  /\ {TAPPING_TERM_PER_KEY, PERMISSIVE_HOLD, PERMISSIVE_HOLD_PER_KEY} \subseteq BOOLEAN
  /\ get_permissive_hold \in [Layer -> [Key -> BOOLEAN]]
  /\ TAPPING_FORCE_HOLD \in [Layer -> [Key -> BOOLEAN]]
  /\ MAX_SCAN_GAP \in Nat
  /\ MAX_WAITING \in Nat
  /\ FAST_SCAN \in BOOLEAN

VARIABLES
  dev,              \* the globals of module Action
  tapping_key,      \* a Record, or NONE
  waiting_buffer,   \* the records between tail and head
  matrix_prev,      \* the keys whose press has been handed to action_exec
  pc,               \* "scan" between two keyboard_task calls, "drain" in the
                    \* loop over the waiting buffer
  gap               \* timer units since the last scan

vars == <<dev, tapping_key, waiting_buffer, matrix_prev, pc, gap>>

Init ==
  /\ dev = InitDev
  /\ tapping_key = NONE
  /\ waiting_buffer = <<>>
  /\ matrix_prev = {}
  /\ pc = "scan"
  /\ gap = 0

-----------------------------------------------------------------------------
(* The state of the pending key                                            *)

Undecided == tapping_key # NONE /\ tapping_key.pressed /\ tapping_key.count = 0
Tapped    == tapping_key # NONE /\ tapping_key.pressed /\ tapping_key.count > 0
Released  == tapping_key # NONE /\ ~tapping_key.pressed

IsTappingKey(r) == tapping_key # NONE /\ r.key = tapping_key.key
IsPressed(r)    == r.key # NO_KEY /\ r.pressed
IsReleased(r)   == r.key # NO_KEY /\ ~r.pressed

(* The per-key options are looked up with the layer in the source cache,   *)
(* also for a key whose press has not been processed yet.                  *)
keycode_layer(d, k) ==
  IF STRICT_LAYER_RELEASE THEN layer_switch_get_layer(d, k)
                          ELSE d.source_layers_cache[k]

get_tapping_term(d, k)       == TAPPING_TERM[keycode_layer(d, k)][k]
get_tapping_force_hold(d, k) == TAPPING_FORCE_HOLD[keycode_layer(d, k)][k]

TimerDiff16(r, start) == (start.age - r.age) % TIMER_WRAP

within_tapping_term_of(d, r, start) ==
  TimerDiff16(r, start) < get_tapping_term(d, start.key)

WithinTappingTerm(r) == within_tapping_term_of(dev, r, tapping_key)

waiting_buffer_typed(r) ==
  \E i \in DOMAIN waiting_buffer :
    /\ waiting_buffer[i].key = r.key
    /\ waiting_buffer[i].pressed # r.pressed

(* Mutants: typing always interferes; PERMISSIVE_HOLD is not looked at.    *)
interferes_by_typing_always(k) == TRUE
interferes_by_typing_late(k)   == get_tapping_term(dev, k) >= LONG_TAPPING_TERM

(* The condition the compiler leaves of the #ifdefs around the permissive  *)
(* hold: note the negation of the per-key callback.                        *)
interferes_by_typing(k) ==
  /\ \/ TAPPING_TERM_PER_KEY
     \/ get_tapping_term(dev, k) >= LONG_TAPPING_TERM
     \/ PERMISSIVE_HOLD
     \/ PERMISSIVE_HOLD_PER_KEY
  /\ TAPPING_TERM_PER_KEY => get_tapping_term(dev, k) >= LONG_TAPPING_TERM
  /\ PERMISSIVE_HOLD_PER_KEY => ~get_permissive_hold[keycode_layer(dev, k)][k]

(* A modifier's release waits for the pending tap to be decided.           *)
is_retained_modifier(r) ==
  LET a == layer_switch_get_action(dev, r.key)
  IN  \/ /\ a.kind = "LMODS"
         /\ (a.mods # {} /\ a.code = KC_NO) \/ a.code \in Mod
      \/ /\ a.kind \in {"MODS_TAP", "MODS_TAP_TOGGLE", "MODS_ONESHOT"}
         /\ (a.mods # {} /\ r.count = 0) \/ a.code \in Mod

(* process_record returns at once for a TICK.                              *)
processed(d, r) == IF r.key = NO_KEY THEN [dev |-> d, rec |-> r] ELSE process_record(d, r)

-----------------------------------------------------------------------------
(* The two ways a branch ends, for a record from the matrix or the buffer  *)

(* Mutant: the buffer is not gone through any more.                        *)
Continue_stops(b) == waiting_buffer' = b /\ pc' = "scan"

Continue(b) ==
  /\ waiting_buffer' = b
  /\ pc' = IF b = <<>> THEN "scan" ELSE "drain"

Consume(src, b) == Continue(IF src = "buffer" THEN Tail(b) ELSE b)

(* Mutants: the ring takes one record too many; an overflow leaves the     *)
(* waiting events in place.                                                *)
Defer_full(src, r, d, t) ==
  /\ dev' = d /\ tapping_key' = t
  /\ \/ /\ src = "buffer"
        /\ waiting_buffer' = [waiting_buffer EXCEPT ![1] = r]
        /\ pc' = "scan"
     \/ /\ src = "matrix" /\ r.key = NO_KEY
        /\ Continue(waiting_buffer)
     \/ /\ src = "matrix" /\ r.key # NO_KEY
        /\ Len(waiting_buffer) < WAITING_BUFFER_SIZE
        /\ Continue(Append(waiting_buffer, r))

Defer_leaves(src, r, d, t) ==
  IF src = "matrix" /\ r.key # NO_KEY /\ Len(waiting_buffer) >= WAITING_BUFFER_SIZE - 1
  THEN Continue(waiting_buffer) /\ dev' = clear_keyboard(d) /\ tapping_key' = NONE
  ELSE Defer_full(src, r, d, t)

(* waiting_buffer_enq fails when the ring is full: everything is cleared.  *)
Defer(src, r, d, t) ==
  \/ /\ src = "buffer"
     /\ waiting_buffer' = [waiting_buffer EXCEPT ![1] = r]
     /\ pc' = "scan"
     /\ dev' = d /\ tapping_key' = t
  \/ /\ src = "matrix" /\ r.key = NO_KEY
     /\ Continue(waiting_buffer)
     /\ dev' = d /\ tapping_key' = t
  \/ /\ src = "matrix" /\ r.key # NO_KEY
     /\ Len(waiting_buffer) < WAITING_BUFFER_SIZE - 1
     /\ Continue(Append(waiting_buffer, r))
     /\ dev' = d /\ tapping_key' = t
  \/ /\ src = "matrix" /\ r.key # NO_KEY
     /\ Len(waiting_buffer) >= WAITING_BUFFER_SIZE - 1
     /\ Continue(<<>>)
     /\ dev' = clear_keyboard(d) /\ tapping_key' = NONE

ProcessAndConsume(src, r) ==
  /\ dev' = processed(dev, r).dev
  /\ Consume(src, waiting_buffer)

(* The same for the tapping key itself, which is kept as it comes back.    *)
ProcessTap(src, tap, keep) ==
  /\ \E done \in {process_record(dev, tap)} :
       dev' = done.dev /\ tapping_key' = IF keep THEN done.rec ELSE NONE
  /\ Consume(src, waiting_buffer)

(* tapping_key = r, then waiting_buffer_scan_tap: a release that already   *)
(* waits in the buffer makes r a tap at once.                              *)
StartTapping(src, r, d) ==
  LET own_release(i) == /\ waiting_buffer[i].key = r.key
                        /\ ~waiting_buffer[i].pressed
                        /\ within_tapping_term_of(d, waiting_buffer[i], r)
      found == {i \in DOMAIN waiting_buffer : own_release(i)}
      first == CHOOSE i \in found : \A j \in found : i <= j
  IN  IF found = {} \/ r.count > 0
      THEN /\ dev' = d /\ tapping_key' = r
           /\ Consume(src, waiting_buffer)
      ELSE /\ \E tap \in {process_record(d, [r EXCEPT !.count = 1])} :
                dev' = tap.dev /\ tapping_key' = tap.rec
           /\ Consume(src, [waiting_buffer EXCEPT ![first].count = 1])

-----------------------------------------------------------------------------
(* process_tapping while the pending key is held and undecided             *)

FirstTap(src, r) ==
  /\ Undecided /\ WithinTappingTerm(r)
  /\ IsTappingKey(r) /\ ~r.pressed
  /\ \E tap \in {process_record(dev, [tapping_key EXCEPT !.count = 1])} :
       Defer(src, [r EXCEPT !.count = tap.rec.count,
                            !.interrupted = tap.rec.interrupted],
             tap.dev, tap.rec)

InterferedByTyping(src, r) ==
  /\ Undecided /\ WithinTappingTerm(r)
  /\ ~IsTappingKey(r)
  /\ interferes_by_typing(tapping_key.key)
  /\ IsReleased(r) /\ waiting_buffer_typed(r)
  /\ Defer(src, r, process_record(dev, tapping_key).dev, NONE)

ReleaseOfEarlierKey(src, r) ==
  /\ Undecided /\ WithinTappingTerm(r)
  /\ ~IsTappingKey(r)
  /\ IsReleased(r) /\ ~waiting_buffer_typed(r)
  /\ ~is_retained_modifier(r)
  /\ ProcessAndConsume(src, r)
  /\ UNCHANGED tapping_key

RetainModifier(src, r) ==
  /\ Undecided /\ WithinTappingTerm(r)
  /\ ~IsTappingKey(r)
  /\ IsReleased(r) /\ ~waiting_buffer_typed(r)
  /\ is_retained_modifier(r)
  /\ Defer(src, r, dev, tapping_key)

QueueBehindTap(src, r) ==
  /\ Undecided /\ WithinTappingTerm(r)
  /\ \/ r.pressed
     \/ r.key = NO_KEY
     \/ /\ ~IsTappingKey(r) /\ waiting_buffer_typed(r)
        /\ ~interferes_by_typing(tapping_key.key)
  /\ Defer(src, r, dev,
           [tapping_key EXCEPT !.interrupted = @ \/ r.pressed])

(* Mutants: the event that finds the term over is lost; a TICK does not    *)
(* end the term.                                                           *)
HoldTimeout_consumes(src, r) ==
  /\ Undecided /\ ~WithinTappingTerm(r)
  /\ dev' = process_record(dev, tapping_key).dev /\ tapping_key' = NONE
  /\ Consume(src, waiting_buffer)

HoldTimeout_unticked(src, r) ==
  /\ Undecided /\ ~WithinTappingTerm(r) /\ r.key # NO_KEY
  /\ Defer(src, r, process_record(dev, tapping_key).dev, NONE)

HoldTimeout(src, r) ==
  /\ Undecided /\ ~WithinTappingTerm(r)
  /\ Defer(src, r, process_record(dev, tapping_key).dev, NONE)

-----------------------------------------------------------------------------
(* ... while it is held and has been registered as a tap                   *)

with_taps_of_tapping_key(r) ==
  [r EXCEPT !.count = tapping_key.count, !.interrupted = tapping_key.interrupted]

TapRelease(src, r) ==
  /\ Tapped /\ IsTappingKey(r) /\ ~r.pressed
  /\ ProcessTap(src, with_taps_of_tapping_key(r), WithinTappingTerm(r))

(* A key tapped more than once has no release waiting: it gets one here.   *)
NewTapWhileTapped(src, r) ==
  /\ Tapped /\ IsPressed(r) /\ is_tap_key(dev, r.key)
  /\ StartTapping(src, r,
       IF tapping_key.count > 1
       THEN process_record(dev, [tapping_key EXCEPT !.pressed = FALSE, !.age = r.age]).dev
       ELSE dev)

KeyDuringTap(src, r) ==
  /\ Tapped
  /\ ~(IsTappingKey(r) /\ ~r.pressed)
  /\ ~(IsPressed(r) /\ is_tap_key(dev, r.key))
  /\ ProcessAndConsume(src, r)
  /\ UNCHANGED tapping_key

-----------------------------------------------------------------------------
(* ... after its release, while another tap of it may follow               *)

SequentialTap(src, r) ==
  /\ Released /\ WithinTappingTerm(r)
  /\ r.pressed /\ IsTappingKey(r)
  /\ ~get_tapping_force_hold(dev, tapping_key.key)
  /\ ~tapping_key.interrupted /\ tapping_key.count > 0
  /\ LET tap == [r EXCEPT !.count = IF tapping_key.count < 15
                                    THEN tapping_key.count + 1 ELSE tapping_key.count,
                          !.interrupted = FALSE]
     IN  ProcessTap(src, tap, TRUE)

RestartTap(src, r) ==
  /\ Released /\ WithinTappingTerm(r)
  /\ r.pressed /\ IsTappingKey(r)
  /\ \/ get_tapping_force_hold(dev, tapping_key.key)
     \/ tapping_key.interrupted
     \/ tapping_key.count = 0
  /\ tapping_key' = r
  /\ Consume(src, waiting_buffer)
  /\ UNCHANGED dev

InterferingTap(src, r) ==
  /\ Released /\ WithinTappingTerm(r)
  /\ IsPressed(r) /\ ~IsTappingKey(r) /\ is_tap_key(dev, r.key)
  /\ StartTapping(src, r, dev)

OtherKeyAfterTap(src, r) ==
  /\ Released /\ WithinTappingTerm(r)
  /\ IsPressed(r) /\ ~IsTappingKey(r) /\ ~is_tap_key(dev, r.key)
  /\ tapping_key' = [tapping_key EXCEPT !.interrupted = TRUE]
  /\ ProcessAndConsume(src, r)

ReleaseAfterTap(src, r) ==
  /\ Released /\ WithinTappingTerm(r)
  /\ ~r.pressed
  /\ ProcessAndConsume(src, r)
  /\ UNCHANGED tapping_key

TapExpired(src, r) ==
  /\ Released /\ ~WithinTappingTerm(r)
  /\ Defer(src, r, dev, NONE)

-----------------------------------------------------------------------------
(* ... with no key pending                                                 *)

StartTap(src, r) ==
  /\ tapping_key = NONE
  /\ IsPressed(r) /\ is_tap_key(dev, r.key)
  /\ StartTapping(src, r, dev)

PlainEvent(src, r) ==
  /\ tapping_key = NONE
  /\ ~(IsPressed(r) /\ is_tap_key(dev, r.key))
  /\ ProcessAndConsume(src, r)
  /\ UNCHANGED tapping_key

process_tapping(src, r) ==
  \/ FirstTap(src, r)
  \/ InterferedByTyping(src, r)
  \/ ReleaseOfEarlierKey(src, r)
  \/ RetainModifier(src, r)
  \/ QueueBehindTap(src, r)
  \/ HoldTimeout(src, r)
  \/ TapRelease(src, r)
  \/ NewTapWhileTapped(src, r)
  \/ KeyDuringTap(src, r)
  \/ SequentialTap(src, r)
  \/ RestartTap(src, r)
  \/ InterferingTap(src, r)
  \/ OtherKeyAfterTap(src, r)
  \/ ReleaseAfterTap(src, r)
  \/ TapExpired(src, r)
  \/ StartTap(src, r)
  \/ PlainEvent(src, r)

-----------------------------------------------------------------------------
(* keyboard_task: one key change, or a TICK, per scan                      *)

Event(k, down) ==
  [key |-> k, pressed |-> down, age |-> 0, count |-> 0, interrupted |-> FALSE]

KeyTask(k) ==
  /\ pc = "scan" /\ Len(waiting_buffer) <= MAX_WAITING
  /\ FAST_SCAN => Undecided \/ waiting_buffer = <<>>
  /\ process_tapping("matrix", Event(k, k \notin matrix_prev))
  /\ matrix_prev' = IF k \in matrix_prev THEN matrix_prev \ {k} ELSE matrix_prev \cup {k}
  /\ gap' = 0

TickTask ==
  /\ pc = "scan"
  /\ process_tapping("matrix", Event(NO_KEY, FALSE))
  /\ gap' = 0
  /\ UNCHANGED matrix_prev

Drain ==
  /\ pc = "drain"
  /\ process_tapping("buffer", Head(waiting_buffer))
  /\ UNCHANGED <<matrix_prev, gap>>

older(r) == [r EXCEPT !.age = (@ + 1) % TIMER_WRAP]

(* The millisecond timer: every time stamp gets older.                     *)
Clock ==
  /\ pc = "scan" /\ gap < MAX_SCAN_GAP
  /\ gap' = gap + 1
  /\ tapping_key' = IF tapping_key = NONE THEN NONE ELSE older(tapping_key)
  /\ waiting_buffer' = [i \in DOMAIN waiting_buffer |-> older(waiting_buffer[i])]
  /\ UNCHANGED <<dev, matrix_prev, pc>>

Next ==
  \/ \E k \in Key : KeyTask(k)
  \/ TickTask
  \/ Drain
  \/ Clock

Spec == Init /\ [][Next]_vars

(* The main loop never stops scanning, the drain loop runs to its end, and *)
(* the timer interrupt keeps coming.                                       *)
FairSpec == Spec /\ WF_vars(TickTask) /\ WF_vars(Drain) /\ SF_vars(Clock)

-----------------------------------------------------------------------------
(* Every variable has the type its C counterpart has, and the buffer holds *)
(* at most WAITING_BUFFER_SIZE - 1 records (waiting_buffer_enq).           *)
TypeOK ==
  /\ dev \in Dev
  /\ tapping_key \in Record \cup {NONE}
  /\ waiting_buffer \in Seq(Record)
  /\ Len(waiting_buffer) <= WAITING_BUFFER_SIZE - 1
  /\ matrix_prev \in SUBSET Key
  /\ pc \in {"scan", "drain"}
  /\ pc = "drain" => waiting_buffer # <<>>
  /\ gap \in 0 .. MAX_SCAN_GAP
=============================================================================
