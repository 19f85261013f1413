# Openkemove QMK firmware: TLA+ models, model checking and proofs

This directory specifies the parts of the firmware in which the order of events
decides the outcome: what a key press means, what stays down after it, how threads
share an object, and how a keyboard and its neighbour or its host stay in step. Every
definition is translated from the C sources; the file `PROJECT.json` names, definition
by definition, the lines it stands for.

    tlc -config TapHold.cfg MCActionTapping.tla     # model checking
    tlc -config Parts.cfg MCParts.tla
    tlapm ActionTappingProofs.tla                   # proofs

## 1. The system

The firmware is one endless loop, `keyboard_task`, an interrupt that counts
milliseconds, and on some keyboards threads beside the loop (serial link, Bluetooth
module). A scan of the matrix gives at most one key change; with no change the loop
issues a TICK. The event goes down this chain, each part calling the next:

    matrix + debouncer -> keyboard_task -> action_exec -> action_tapping_process
      -> process_record -> (feature hooks) -> process_action
      -> layers, modifiers, report -> host driver (USB, Bluetooth, serial link)

| component | state it keeps | operations | what is hard | what makes it correct |
|---|---|---|---|---|
| Tap/hold state machine, `action_tapping.c` | `tapping_key`, `waiting_buffer` (a ring of 8) | `action_tapping_process`, `process_tapping`, `waiting_buffer_*` | one event may be decided, deferred, re-queued or overtaken; time-outs come as TICKs between key changes; the buffer can overflow | presses are decided in the order they were made, each once; nothing stays down; every pending key is decided |
| Actions, layers, modifiers, `action.c`, `action_layer.c`, `action_util.c` | layer state, source-layer cache, `real_mods`, `weak_mods`, one-shot state, report | `process_action` and what it calls | a press and its release are two calls far apart, with layer changes, one-shots and cancelled taps in between | what a press registers its release removes; the host is told of every change; a one-shot serves one key |
| Main loop, `keyboard.c`, `timer.h` | `matrix_prev`, the clock | `keyboard_task` | 16-bit time; a scan may be late | events carry the time of their scan; the loop never stops |
| Report and host driver, `report.c`, `host.c` | byte array or NKRO bits, the driver, the protocol | `add_key_to_report`, `del_key_from_report`, `host_keyboard_send` | the layout of a report and the interface it goes to can change between a press and its release | no key stays down on an interface that is no longer used |
| Triple-buffered object, `serial_link/protocol/triple_buffered_object.c` | three slots, a packed state byte | `begin_write`, `end_write`, `read` | a writer and a reader thread; pointers used outside the lock | a read returns the last whole object, once |
| Byte stuffer, `byte_stuffer.c` | the frame being assembled on each link | `byte_stuffer_recv_byte`, `byte_stuffer_send_frame` | bytes are lost and corrupted | an unharmed frame arrives as it was sent |
| Serial link: validator, router, transport, thread | remote and local objects, `is_master`, what was sent last | `route_incoming_frame`, `update_transport`, `serial_link_update` | lost frames, re-sending, two threads, cables that move | the master shows the matrix of the right board, never an older one, in the end the last one |
| Debouncers and matrices, `quantum/debounce`, `snowfox/matrix.c` | raw and cooked matrix, timers | `debounce`, `matrix_scan` | bounce against time-out, byte-wide time stamps, timer value 0 | a stable switch is taken over in the end, a bounce never |
| Snowfox Bluetooth, `snowfox_ble.c` | host driver and NKRO saved at the switch, response buffer | connect, disconnect, the Bluetooth thread | two threads switch the host driver; an answer may come late or not at all | the old driver and NKRO state come back; no key stays down at either host |
| Keycode features, `quantum/process_keycode` | per feature: dance states, combo buffer, macro buffer, locked keys, the letter kept back | `process_*`, `matrix_scan_*` | time-outs and other keys end a dance or a combo; releases come at any point | each press typed or dropped once, in order; a code is down while its key is |
| Split keyboards, EEPROM and VIA, lighting, mouse keys, encoders, USB stacks, build tools | | | | outside this project, see section 7 |

## 2. Modules

| module | what it is |
|---|---|
| `Action` | the device state `dev` and every function of `process_record` and below as an operator from device to device |
| `ActionTapping` | the state machine: `tapping_key`, `waiting_buffer`, `matrix_prev`; an action for each branch of `process_tapping`; the main loop and the clock around it. EXTENDS `Action` |
| `PressOrder` | abstract: keys go down, wait in a queue and are decided from its head |
| `ActionTappingProperties` | the properties of the two above, and the mapping to `PressOrder` |
| `MCActionTapping` | keymaps and small sets for TLC |
| `ActionProofs`, `ActionTappingProofs` | the proofs about `Action` and `ActionTapping` |
| `Mailbox` | abstract: a box with room for one object, put by one thread, taken by another |
| `TripleBuffer` | every assignment of the three C functions as a step of the writer or reader; the mapping to `Mailbox` |
| `TripleBufferProofs` | its proofs |
| `ByteStuffer` | one sender, one receiver, and a line that loses and corrupts bytes |
| `SerialLink` | a chain of keyboards: on each a main loop and a serial thread, between them lines that lose frames |
| `SnowfoxBle` | the main loop and the Bluetooth thread switching the host driver under a report |
| `Debounce` | five debouncers over the same switches |
| `TapDance`, `Combo`, `KeyLock`, `AutoShift`, `DynamicMacro` | a feature each |
| `FeatureProofs` | proofs about the five features |
| `SerialLinkProofs` | proofs about `SerialLink` and, below it, `ByteStuffer` |
| `SnowfoxBleProofs`, `DebounceProofs` | proofs about `SnowfoxBle` and `Debounce` |
| `MCParts` | instances of all modules from `TripleBuffer` down: one specification whose behaviours each are a behaviour of one part |
| `PartsProofs` | proofs about `MCParts`, from those of the parts |

`SerialLink` takes the triple-buffered objects of the code as the mailboxes that
`TripleBuffer` is shown to implement, and a frame on its lines as one that the
`ByteStuffer` delivers whole or, with the CRC of the validator, not at all. The other
parts of `MCParts` do not interact, so nothing is lost by running them side by side.

### Correspondence: actions and layers

The globals of `action_util.c` and `action_layer.c` are the fields of the record
`dev`, under their C names. A bit mask is a set: `layer_state` a set of layers, a
modifier byte a set of modifier codes, the NKRO report a set of key codes. What the
host has seen last is `dev.host`; `send_keyboard_report` assigns it, so that a change
of `keys` without a report is visible. `process_record` returns the device and the
record, because `process_action` writes into the record: a cancelled tap sets its
count to 0, and a one-shot layer turns a press into a release.
`Keymap` is what `action_for_key` makes of the keymap: an action, its code,
modifiers and layer. The kinds covered are keys with and without modifiers, mod-taps
(MT, with the toggling form), OSM, LT, MO, TT, TG, TO, DF, LM, OSL, consumer codes
and transparent keys. `STRICT_LAYER_RELEASE`, `IGNORE_MOD_TAP_INTERRUPT`,
`TAPPING_TOGGLE` and `ONESHOT_TAP_TOGGLE` are constants (the last is 0 if undefined).

### Correspondence: tap/hold

`process_tapping(src, r)` has one action for each path through the C function; `src`
tells whether the record comes from the matrix or is the head of the buffer. In C the
function returns TRUE ("consumed") or FALSE ("keep it"); what the caller does next is
part of each action. `Consume` drops a record; `Defer` appends one from the matrix,
clears everything when the ring is full, or leaves the head where it is and ends the
drain loop, in which case the fields written into the record stay written. The loop
at the end of `action_tapping_process` is `pc = "drain"`; one event of the buffer is
one step, and no scan happens in between. `KeyTask`, `TickTask` and `Clock` are
`keyboard_task` with a key change, without one, and the timer interrupt.
A time stamp is kept as its age, modulo the width of the timer, so that the state
space has no clock in it; `TIMER_DIFF_16` of two stamps is the difference of ages.

The per-key callbacks are constants indexed by layer and key. They are looked up
through the source-layer cache, as `get_event_keycode(event, false)` does, also for a
key whose press is not yet processed, when the cache still has its previous layer.

### Correspondence: triple buffer

`state` is four variables, one for each packed field. The writer's pointer and the
locals of `end_write` and `read` are variables; writing through the pointer takes a
step for each `Cell`. `serial_link_lock` maps to `chSysLock`, which stops the other
thread altogether; here the lock only keeps out the other critical section. The model
has more interleavings than the code, and the results hold for the code.
`read` may return a pointer and the reader keeps it until its next call.

### Correspondence: byte stuffer and serial link

`next_zero`, `long_frame` and `data` are the fields of `byte_stuffer_state`, and each
branch of `byte_stuffer_recv_byte` is an action. The sender is a fold over the frame
with the state of its loop: the blocks sent, and the bytes from `start` on. Bytes are
`0 .. FULL`, where `FULL` stands for 0xFF. `wire` is what was sent and has not
arrived; `Arrive(b)` hands over its first byte as `b`, right or wrong. `sending`,
`delivered`, `after_zero` and `intact` are history: they say which frame the bytes
belong to and whether it was harmed.

In `SerialLink` a matrix is a version number. The main loop of board `b` is
`serial_link_update(b, resend)`; the comparison of the clock with the 5 ms is the
parameter `resend`. One round of `serialThread` is one step: a frame from either
neighbour if one is complete, then `update_transport`. In the code the main loop may
run in the middle of a round; what it does there is taken as done before the round.
The destination byte of a frame from the master, 0xFF shifted right by each board, is
the number of its ones; the destination of a matrix frame counts the boards it has
passed. `of` in a matrix frame, the board it is from, is history: the code does not
send it, it only counts, and `HopsTellTheSlave` is about that. A full line drops what
arrives, as the input queue does.

### Correspondence: Snowfox

`driver`, `lastHostDriver`, `lastNkroStatus` and `keyboard_protocol` are the C
variables; `nkro` is `keymap_config.nkro` and `stored_nkro` the same bit in the EEPROM.
A key in `keyboard_report` has the layout it was stored in, because deleting it with
the other layout does not find it. `seen` is the last report on the keyboard
interface, the NKRO interface and Bluetooth. `main` and `ble_thread` say where
between two statements each thread is: both have the same priority, and sending a
report can block. `raced` is history: a key event fell into the two statements of the
Bluetooth thread's restore, or the setting changed there, on Bluetooth, or under keys
that are down. The properties say nothing after that, and the run `MagicNkro` shows
what else does go wrong.

### Correspondence: debouncers

`algorithm` chooses one in the first state. `counter` is `debounce_counters` by key
or row; stamps are bytes modulo `MAX_DEBOUNCE + 1`, and `TIMER_DIFF` is the macro.
Those of the Snowfox are `debounce_times`, by column and modulo 2^32; the same constant
is their modulus, and 0 is no stamp. A Snowfox column whose stamp happens to be 0 has no
timer; `missed` remembers it. The 16-bit timer of `sym_defer_g` is kept as an age,
`idle`. Of `sym_eager_pk` and `sym_eager_pr`, which differ in what a stamp is for and in
one condition, `SymEager` is the common part. `raw_age` and `cooked_age` are history.

### Correspondence: keycode features

* `TapDance`: `count`, `finished` and `dance_pressed` are the fields of
  `qk_tap_dance_state_t`. What the three standard dances do in `on_each_tap`,
  `on_dance_finished` and `on_reset` is written as sets of codes; finishing and
  resetting all dances of a set is one step, as in the loop of the C function.
* `Combo`: `combo_state` is `combo->state` as a set of keys; `up_to_host` and
  `combos_down` are what `process_record` and `send_combo` made of it. `combo_timer` says
  whether `timer` is not 0, so it may stay FALSE when a key is kept back: `timer_read()`
  is 0 once in 65.5 s. The rest is history, the fates of a press that is held:
  a complete combo stood for it (`used`), it went with the buffer when a combo of other
  keys was complete (`dropped`), it found the buffer full (`lost`), or it was typed from
  the buffer while combos stayed active (`replayed`); and whether combos were switched
  off with a key of one held (`stale`).
* `KeyLock`: `key_state` is the 256-bit array as a set. `cleared` is history:
  `clear_keyboard` forgets registered keys but not locked ones.
* `AutoShift`: a press that types has a number, `autoshift_lastkey` is the number of the
  letter kept back, and `typed` what the host got. `timer_elapsed(autoshift_time)` is a
  parameter of each action, any number of 16 bits. `autoshift_timeout` has 16 bits too:
  KC_ASUP and KC_ASDN change it and return without a flush, and so does KC_ASRP, whose
  report goes past the letter.
* `DynamicMacro`: `macro_end` and `r_macro_end` are `macro_end[1]` and `macro_end[2]`,
  indices into the one buffer. `session` and `saved` are history: what was typed while
  recording, and what a macro should be.

## 3. Runs

The runs before `Parts` are of `MCActionTapping`; a time unit stands for 2 ms or more
because a time stamp is `timer_read() | 1`.

| run | question | instance | distinct states |
|---|---|---|---|
| `TapHold` | does anything stay down; is a key decided too early | two mod-taps, a layer-tap, a plain key, two layers, up to 3 events waiting | 863,000 |
| `Typing` | overflow, order of decisions, liveness, per-key terms | three keys, ring of 4, fairness | 26,000 |
| `Actions` | is the host always told; do weak modifiers leak | CTL+A, C, LM, TG, TO, TT, DF, a modifier, a toggling mod-tap, a media key over four layers | 552,000 |
| `Oneshot` | one-shot layer and modifier | OSM, OSL, a key on both layers | 49,000 |
| `Strict` | `STRICT_LAYER_RELEASE`, `PERMISSIVE_HOLD`, `TAPPING_FORCE_HOLD` | a mod-tap, MO, a key on both layers, a modifier | 3,000 |
| `Parts` | the properties of the parts around the core | see section 4 | 1,435,000: link 763,000, combos 305,000, stuffer 145,000, auto shift 91,000, triple buffer 80,000, debouncers 41,000, Bluetooth 9,000, others 1,000 |
| `Resend` | does the master end with the slave's matrix | two boards, two changes, fairness | 14,000 |

What the properties say:

* `EveryCodeIsHeld`, `EveryModIsHeld`, `EveryMomentaryLayerIsHeld`: no code in the
  report, modifier or momentary layer without a key that is down, or whose release
  still waits, and that can have caused it. This relates the device to the switches
  across every decision, layer change and cancelled tap between press and release.
* `InPressOrder`: the machine refines `PressOrder`. A press may be decided late,
  never before an earlier one. The queue is `tapping_key` followed by the waiting
  presses; overflow empties it as a whole.
* `UndecidedForTheTerm`: without permissive hold a key that stays down is decided by
  nothing but the end of its term. `TypedKeyDecides`: with it, at the latest by the
  first key typed inside.
* `EveryPressIsDecided`, `SettlesWhenTypingStops`: liveness, see section 5.
* `HostInSync`, `NoForeignWeakMods`, `OneshotModsUsedOnce`, `OneshotLayerIsOn`: what
  the host sees, and one-shots.
* `SlotsAreOwned`, `ObjectsAreWhole`, `ReaderSlotIsStable`, `ImplementsMailbox`: the
  triple buffer from the inside, and what it promises.
* `IntactFrameIsDelivered`: noise costs the frames it hits and the one after a lost
  delimiter. Every frame that is sent after a zero and arrives unharmed is delivered
  as it was sent, with its last byte and not before, whatever happened earlier.
* `HopsTellTheSlave`, `ConnectedToMaster`, `ShownNeverGoesBack`: the master attributes
  a matrix to the board it is of by counting only; a board that says it is connected
  is below a master, also when the cable has moved and there are two; the keys shown
  never go back, for all the frames lost, sent again and overwritten.
  `MatrixReachesMaster`: a matrix that stays is shown in the end.
* `NkroKept`, `NoStuckKeys`: the NKRO setting survives any excursion to Bluetooth,
  ended by the main loop, by the Bluetooth thread or by both; and no switch leaves a
  key down on the interface that is left.
* `DeferWaits`, `EagerHoldsOff`, `Settles`: the two promises of a debouncer, not to
  take over a bounce, and not to forget a change, at every phase of the timer. What the
  Snowfox does forget, a column that changes at time 0, is left out of `Settles` by name.
* `MacrosApart`, `MacroIsWhatWasTyped`: two macros that grow towards each other.
* `HeldOrLocked`: a key is down for the host exactly if it is held or locked.
* `TypedInOrder`: auto shift forgets and repeats no press, and nothing overtakes a letter
  that is kept back but the reports of KC_ASRP, which do.
* `CodeWhileHeld`, `AtMostOneOpen`: a dance's code is down exactly while the dance is
  finished, and its key is held then; another key settles the dance first.
* `NoPressLost`, `KeysComeUp`, `ComboMeansAllHeld`: a press that is held is typed, kept
  back, or given up for one of the reasons of section 2, and typed once; what is down is
  held; a combo goes with its keys.
* `PartsTypeOK`: the type invariant of whichever part runs; in it, that no slot,
  receiver, macro or key buffer is written beyond its end.

### Where code and documentation differ

Five runs end in a violation of something the repository says.

* `Overtaking`. The drain loop stops at an event that process_tapping keeps, with
  more events behind it, and the next scan's key change is processed before those: a
  release can run before its own press. The press then registers a code that nothing
  removes. It takes a key change in the very scan after a time-out.
* `PermissivePerKey`. `action_tapping.c:128` negates the per-key callback: permissive
  hold works for the keys it was not enabled for.
* `OneshotToggle`. A TG key on a one-shot layer is released once by
  `do_release_oneshot` and once by the finger: it toggles twice.
* `OneshotLock`. Locking a one-shot layer while a one-shot modifier is locked leaves
  the modifier down and forgets that it was locked.
* `MagicNkro`. A magic key reads the configuration back from the EEPROM before it
  clears the keyboard "to prevent stuck keys". If the host has chosen the protocol, which
  sets NKRO without storing it, the layout changes first and the clear goes to the
  other interface: a held key stays down on the NKRO interface for good.

Other things the models showed, for readers who change keymaps or this code; where
they restrict a property, its comment says so.

* A TT key on its second tap gets a synthetic release when another tap key goes down,
  and its real one inverts the layer again. When an overflow drops the release of a
  held layer-tap its layer stays on. With two nested tap-hold keys, permissive hold
  decides the outer one only. A one-shot modifier tapped while another key is held is
  used up by the release of that key.
* A tap restarted by `action_tapping.c:264` does not scan the buffer for its release, as
  every other new tapping key does: when the key is pressed a second time while that
  release still waits, the second release decides the first press as a tap and keeps the
  mark of a tap, so that presses and releases are no longer decided alike. A code, a
  modifier or a layer may stay, and the key be decided before its term. It takes a
  second dual-role key and five waiting events; a single one is proved to be safe.
* Without `IGNORE_MOD_TAP_INTERRUPT`, a mod-tap key that comes up within its term after
  another key went down is processed as a hold, and stays pending with its release in
  the buffer: it is processed again with its second release or its time-out. If it is an
  MT on one layer and an LT on another, and the layer has changed meanwhile, the second
  time is an LT, and the modifier of the first stays.
* The receiver of the byte stuffer sets `long_frame` at the start of a frame and after
  another full block only. A full block behind a zero of the frame is therefore taken
  for a short one, and a zero is added (`byte_stuffer.c:91`). Such frames have more
  than 254 bytes, and the objects of the repository are smaller.
* A key of a combo that was typed from the buffer because a key of no combo came in
  between stays in the combo's state; if the combo then completes, it claims the
  release of that key, which stays down for the host (`replayed`).
  `combo_disable` ends no combo: its code stays down when the keys go up (`stale`).
  A combo that is complete drops the whole buffer, with keys of other combos that wait
  in it (`dropped`); only their releases reach the host.
* `MAX_COMBO_LENGTH` bounds the keys of one combo, and is the size of the buffer for the
  keys of all. A press that finds it full is consumed but not, as the comment at
  `process_combo.c:172` has it, "placed in the buffer": it is lost (`lost`). That takes
  more than `MAX_COMBO_LENGTH` keys in combos (`FewKeysFit`). And a combo key pressed when
  `timer_read()` is 0 has no time-out: it is kept back until another key, or a release.
* Auto shift: KC_ASRP types the timeout before the letter that was kept back when it was
  pressed. KC_ASDN and KC_ASUP, which docs/feature_auto_shift.md:116-117 says lower and
  raise the timeout, do not stop at the ends of the 16 bits: lowering a timeout of less
  than 5 makes it 65531 or more, and no letter is shifted any more.
* The comment at `snowfox/matrix.c:60-61` says that an event less than 5 ms before the
  timer rolls over "will "never" debounce". It does: the subtraction of line 67 wraps as
  the timer does, and `Settles`, which includes these events, holds. What does wait for
  the next event of its column is an event in the one millisecond in which the timer
  reads 0, because a stamp of 0 means none (`missed`).
* The Bluetooth thread of the Snowfox clears the keyboard and then switches the driver: a
  key that goes down between the two is sent by one driver and released at the other
  (`raced`).
* `translate_keycode` of key lock takes the modifier bits of an OSM key for a
  keycode: locking OSM(MOD_LCTL) locks the code 1, and other masks that of a letter.
  The model has a code of its own for each key.

## 4. Bounds

Tap/hold and actions:

* Keys 2 to 4, layers 1 to 4: each interaction in `process_tapping` involves the
  pending key, one key typed before it and one inside it; a fourth key is a second
  tap key with a partner of its own.
* `WAITING_BUFFER_SIZE` is 8 in the code. `Typing` makes it 4, so that overflow is
  reached; the others give it room for `MAX_WAITING` events and never overflow.
* `MAX_WAITING` bounds how many events may wait when a key changes. With two
  dual-role keys and five or more, `EveryCodeIsHeld`, `EveryModIsHeld`,
  `EveryMomentaryLayerIsHeld` and `UndecidedForTheTerm` fail by the restarted tap
  described above; with one the proofs of section 6 hold for any number.
* `FAST_SCAN` forbids a key change while decided events are still in the buffer, i.e.
  it assumes a TICK scan between a time-out and the next key change. It is the
  assumption the run `Overtaking` drops. The theorems of section 6 do without it and
  for any `MAX_WAITING`, except the few that name them.
* `MAX_SCAN_GAP = 1`: the loop scans at least once per time unit. With a term of two
  units, events arrive inside the term, at its end and after it.
* `TIMER_WRAP` is 8, or 3 in `Actions`, in place of 2^16, greater than every term. Ages wrap.

Parts:

* Triple buffer: three cells and three values; two cells show a torn object, two
  values an old one.
* Byte stuffer: `FULL = 3`, so that a full block has two bytes, and a buffer of three
  bytes; frames with a zero first, in the middle and last, with full blocks that end
  the frame or go on, and one that is too long. Any byte may arrive as any other.
* Serial link: three boards, a USB cable that may be on either of the upper two or
  on both, keys on the last, lines that hold one frame. Three boards are the fewest on which a
  frame is passed on. `Resend` has two boards and two changes of a matrix: there a
  matrix can be overwritten in every mailbox on its way.
* Snowfox: one key (two in `MagicNkro`). The layouts, interfaces and threads are all
  there; a second key only adds the same once more. The protocol the host asks for is
  boot in `Parts` and report in `MagicNkro`.
* Debouncers: two keys of one row (of one column on the Snowfox), `DEBOUNCE = 3`, stamps modulo 6, scans 0 to 2 ms
  apart: every phase of a stamp against the wrap, and scans that skip the exact
  instant. The algorithms treat rows, and keys of a row, alike.
* Dynamic macro: a buffer of three events, recordings of up to four, so that one is
  cut off; both macros recorded in either order and again.
* Tap dance: one dance of each kind and up to three taps, one more than any dance
  counts. Key lock: two keys.
* Auto shift: two letters, Shift and the six setup keys, up to three keys held at once
  and three presses that type, time
  modulo 10 in place of 2^16 with a first timeout of 5, so that KC_ASUP and KC_ASDN step
  across both ends. Between two presses any number of setup keys that type nothing.
* Combos: `a b`, `b c` and `d e`, a key of none, up to three keys held at once, and a
  buffer of two, as for combos of two keys (the code has 8, 16 or 32). `a c d` are three
  keys that complete none; when `a b` is complete, `d` may be waiting, or `c` next.

## 5. Fairness

`FairSpec` has weak fairness of `TickTask` and `Drain`: the main loop is an endless
loop in `main` and never blocks. It has strong fairness of `Clock`, the timer
interrupt, which is possible at most once between two scans in the model, whereas in
fact it never stops. Nothing is assumed of the fingers: keys may change forever, and
`EveryPressIsDecided` still holds; `SettlesWhenTypingStops` has their rest as its
premise.

`LinkFairSpec` has weak fairness, on each board, of a round of the serial thread
without a frame and of `serial_link_update` with the 5 ms over: both are bodies of
endless loops. It has strong fairness of the arrival of a frame from either
neighbour: a line that is used again and again lets a frame through again and again.
A line may still lose any number of frames in a row. Nothing is assumed about keys
and cables. With three boards the property would need more: a board in the middle
that forwards may find the line full with its own frames forever.

## 6. Proofs

Proved for every value of the constants that meets the module's assumptions. Where a
theorem needs more than these, its hypothesis is named here, with what happens without
it.

### Types, and what the host is told

* `TypeIsInvariant` and `HostIsInSync` of `ActionTappingProofs`, for every keymap,
  number of keys, timer width, buffer size and combination of options. The inductive
  invariant is `IInv == TypeOK /\ HostInSync`. `HostInSync` alone is not inductive:
  its steps need the records in the buffer and the fields of `dev` to have their
  types. `ActionProofs` goes through `process_record` bottom up: with
  `Synced == {d \in Dev : d.host.keys = d.keys}` one lemma per C function says that it
  maps `Synced` to itself. `ActionTappingProofs` has one lemma for each way a branch
  of `process_tapping` ends (`ConsumeKeeps`, `DeferKeeps`, `ProcessTapKeeps`,
  `StartTappingKeeps`), one step per branch in `ProcessTappingKeeps`, and one per
  action of the main loop in `NextIInv`. Overflow is included: `DeferKeeps` shows that
  the ring never takes a record beyond its size.

### One-shots and weak modifiers

The device changes in a step by `process_record` calls only (`DeviceStep` in
`ActionTappingProofs`), so a property of a step is a property of one record. The
"effects" part of `ActionProofs` has, for each C function, what it may change.

* `OneshotModsAreUsedOnce`, without further hypotheses: an outcome is *calm* (no new
  key reaches the host) or the press of a key, and `send_keyboard_report` takes the
  one-shot modifiers with the first report that has a key.
* `NoForeignMods`: no weak modifier of an earlier key reaches the host with a new one.
  Hypothesis `NoOneshotMods`, no OSM key: adding modifiers to another key is what an OSM
  key is for.
* `OneshotLayerIsKept`: the layer is on exactly while a one-shot is active. Hypothesis
  `OnlyOneshotLayer(L)`: the only layer keys are OSL(L), next to any others. A second
  layer, or a key that switches layers, leaves `layer_state` and the one-shot layer
  different, as the code means it. And not both `ONESHOT_TAP_TOGGLE > 1` and
  `STRICT_LAYER_RELEASE`: the release that `process_action` makes up is then looked up
  on layer 0, not on the layer of the press.

### Nothing stays down

* `NothingIsStuck` (`EveryCodeIsHeld`), `NoModIsStuck` (`EveryModIsHeld`) and
  `NobodyIsLockedIn` (`EveryMomentaryLayerIsHeld`). The strengthening is `TapFreeInv`:
  each code, modifier and momentary layer belongs to a key that is down, and to the
  action the key was pressed with, which is the one in the source-layer cache
  (`Accounted`). A press adds what it registers, a release removes what the press of the
  same key added, because the layer of the press was remembered, whatever layers have
  changed since. Hypotheses: `TapFree`, no dual-role or one-shot keys, and for the
  layers `OnlyMomentaryLayers`, no layer keys but MO and LM; and not
  `STRICT_LAYER_RELEASE`, with which the release is looked up in the layers of its own
  time, so that a modifier whose layer went first stays down.
* `NothingIsStuckByOneDualRoleKey`, `NoModIsStuckByOneDualRoleKey` and
  `NobodyIsLockedInByOneDualRoleKey`: the same for a keyboard one key of which is MT or LT
  (on one layer an MT, on another an LT if you like), among any number of others. What
  such a key has registered depends on how it was decided, so its `Role` is the key
  without tap it stands for: the code, the modifiers, or the layer. `Balanced` says that
  there is a set of keys `down`, those whose press has been processed and whose release
  has not, that accounts for the report by their roles; and that the events of the buffer
  `Lead` from `down` to the keys that are down by the switches, each press in its turn of
  a key that is up and each release of one that is down. That is what goes wrong when an
  event overtakes another, and the way it holds is a path through sets of keys, about which
  the `Leads...` lemmas speak (append, take the head, pass a key by). `RecordKeepsRoles`
  is the step: a record moves its key in or out of `down`, and the release of the
  dual-role key carries the count of its press. Hypotheses: `FAST_SCAN`, without which
  a release does overtake its press (`Overtaking`); no `STRICT_LAYER_RELEASE`, as
  above; an MT only with `IGNORE_MOD_TAP_INTERRUPT` (in `OneDualRoleKey`), because
  otherwise a key is processed more than once and can leave a modifier behind, as
  section 3 says. The overflow of the buffer is included for codes and modifiers;
  layers need `BufferHasRoom`, because `clear_keyboard` leaves them on.

### How a dual-role key is decided

* `PressesInOrder`: the machine implements `PressOrder`, for every keymap and every option,
  any number of dual-role keys, overflow included, under `FAST_SCAN`. Each branch defers
  its event, consumes it, or starts a key from it; `DefersInOrder` and `ConsumesInOrder`
  say which record it is that was pending before and after (`BranchInOrder`), and
  `DeferInOrder` and `ConsumeInOrder` what that does to the queue of presses. `presses` is a
  recursive function inside a LET; it is unfolded by the least place where it could not be
  (`UptoExists`, `UptoSteps`), and then behaves like a selection from a sequence under append,
  tail and a change of ages and counts.
* `TypedKeyAlwaysDecides` and `PendingForTheTerm`, for one dual-role key. The branches of
  `process_tapping` come down to eight moves (`PassOn`, `Wait`, `Hold`, `Expire`, `Start`,
  `Retap`, `Tap`, `Untap`; `MoveOf` shows that they are all). `OneKeyInv` says where the
  records of the key are: while it is undecided none of its events waits; its release is
  the last event of the buffer, and only while the buffer is gone through; its press waits
  only alone. Without that a `Tapped` key could be released by a record of an earlier press.
  `TypedKeyDecides` follows from `TypedOnlyInDrain`: a press and its release are in the buffer
  only while it is gone through, and the key is decided then. For `UndecidedForTheTerm`,
  `TermIsRunning` says that the pending key is older than all that waits behind it and not
  older than its term and the time since the last scan, so that no event of the buffer,
  and no TICK before its time, finds the term over. Hypotheses:
  permissive hold off for the key (on, respectively), the term fits the timer, and
  `BufferHasRoom`, because an overflow forgets the pending key. With two dual-role keys
  `TypedKeyDecides` is false: a pending key that starts from the buffer does not look at
  what was typed behind it.

### Triple buffer, serial link, byte stuffer

* `TypeIsInvariant`, `SlotsAreOwnedIsInvariant`, `ObjectsAreWholeIsInvariant`,
  `SlotIsStable` and `Implementation` of `TripleBufferProofs`, for any set of objects
  and cells. `SlotsAreOwned` is the heart: it says, for every point inside the two
  exchanges, how the locals relate to the fields, and that outside them no two indices
  are the same. With it every write is to a slot the reader does not have, and each
  step of the code is a step of `Mailbox` or a stutter; a publication takes effect
  where the writer sets data-available, a read where the reader clears it.
* `SerialLinkProofs`: `HopsAreRight`, `ConnectedIsBelowMaster` and `ShownOnlyGrows`, for
  any number of keyboards, any capacity of the lines, any losses and any keyboards that
  become master. `LinkInv` follows a matrix on its way. A frame below the master has
  counted the boards it has passed (`LinesAreCounted`); the frames of one keyboard are
  newest in its own mailbox, older on each line further up, oldest in the remote mailbox
  of the master and in what it shows (`SentInOrder`, `ReceivedInOrder`), so neither a
  loss nor a resend can bring an old matrix after a newer one. `MasterAbove` says that a
  frame of a master is only found, and only believed, below one.
* `IntactFramesArrive` and `ReceiverIsTyped`, for any block length, buffer size, set of
  frames, and whatever the line loses or changes. The sender is a fold over the frame:
  `After(f, k)` is what it has made of the first k bytes, and the fold is unfolded by the
  least number for which it could not be (`FoldExists`, `AfterIs`). `Block` then says
  what the sender's bytes are: a length byte, the bytes up to the next zero, full block
  or end of the frame, and what follows (`Follows`). `StufferInv` says that the receiver
  of an unharmed frame has not begun (`NotBegun`), is inside a block with the bytes
  before it received and exactly the rest of the block and its followers on the wire
  (`Reading`), or is done. It is about frames that fit and have no full block after a
  zero, as the property is: there the code does add a zero.

### Features

* Key lock, tap dance, auto shift. `LockedKeysStayDown`: `HeldOrLocked` is inductive as
  it stands. `DancesHoldTheirCodes` and `OneDanceIsOpen`, for any number of dances and taps: the
  invariant is `DanceInv == DanceTypeOK /\ OneCode /\ AtMostOneOpen`, where `OneCode` says
  `CodeWhileHeld` for one code at a time; `AfterOne` says what finishing and resetting
  a set of dances does to each dance, and is used by the press of a key, the press of a
  dance and the time-out. `AutoShiftKeepsTheOrder`, for any letters, width of the timer and
  number of presses: `TypedInOrder` with its types.
* Combos: `PressesAreKept`, `KeysDoComeUp` and `CombosAreHeld`, for any number of combos of
  any keys, none of more than `MAX_COMBO_LENGTH`. Here the properties are far from
  inductive. `ComboInv` adds that the buffer holds a key once (`Once`); that the fates of
  `used`, `dropped` and `lost` are those of held keys (`FateOfHeld`); that a key
  that is kept back is in no complete combo (`KeptBackIsIncomplete`), or a release would
  be claimed and the key forgotten; that while combos are active a key of a combo's
  state is down only if it was replayed (`ActiveKeysAreReplayed`); and that a combo's
  state is a set of held keys until it is stale (`StateIsHeld`). `FewKeysFit` adds the
  hypothesis that all combos together have at most `MAX_COMBO_LENGTH` keys: then, the
  buffer holding each once, the next always finds room (`BufferHasRoom`), and every press
  that is consumed is buffered. Without the hypothesis a press can be lost.
* Dynamic macros. `MacrosDoNotMeet` and `MacrosAreTyped`, for any size of the buffer, any
  keys and recordings of any length. `MacroInv` says that the buffer holds each
  finished macro as it should be, and the macro being recorded holds the session as far
  as there is room (`Holds`, for either direction); `LastReleaseRange` shows that the
  trimming at the end finds the last of the releases.

### Debouncers

`SwitchesSettle`, `DeferringWaits` and `EagerWaits`, for any matrix, `DEBOUNCE`, scan
rate and width of the stamps, if a scan is never later than the wrap allows
(`DebounceAssumption`). Each algorithm has an invariant that ties its time stamps to
the ages of the switches: the single timer of `sym_defer_g` is not older than any
switch, and one switch is not older than it (`GlobalInv`); a stamp of `sym_defer_pk` is
exactly as old as the last move of its switch and not yet `DEBOUNCE` (`PerKeyInv`); a
unit of the eager ones that has no stamp last changed `DEBOUNCE` ms ago or more
(`EagerInv`); the stamp of a column of the Snowfox is exactly as old as the last move in
it and not yet `DEBOUNCE`, and without a stamp its keys are right unless it was missed
(`ColumnInv`). `WrappingAdd` is the arithmetic: the difference of two stamps across
the wrap is the time between them.

### Snowfox

* `SnowfoxBleProofs`: `NkroSurvives`, for any keys and whatever the host asks for. What
  is added to `NkroKept` is that either thread can restore (`CanRestore`: the kept
  driver is USB and the kept setting the chosen one), also when both are about to.
  `NoKeyIsStuck`, for any keys, under the assumption that no host asks for the report
  protocol: `StuckInv` adds that the report holds only held keys in the layout in use,
  that it is empty from the clearing before a switch to the switch, and that the
  interface of the other layout shows nothing. Without the assumption the theorem is
  false: that is the run `MagicNkro`.

### The parts together

`PartsRunAsAlone`: `PartsSpec` implements the specification of each part, so that every
theorem above about a part holds in the composition that TLC checks. `PartsStayTyped`
is `PartsTypeOK` from it and the parts' invariants.

### Only model-checked

* Liveness, `EveryPressIsDecided`, `SettlesWhenTypingStops` and `MatrixReachesMaster`:
  fairness is beyond the prover.
* `UndecidedForTheTerm`, `TypedKeyDecides`, and the three properties of what stays down,
  on a keyboard with several dual-role keys. They hold within the bounds of the runs, or
  in its keymap, and are false in general: the restarted tap and the nested keys of
  section 3. That the theorems stop at one dual-role key is where the code stops, not the
  prover.

## 7. What is left out

Within the modelled parts:

* Core: swap hands, mouse keys, macros and function actions, `RETRO_TAPPING`,
  `ONESHOT_TIMEOUT`, `LOCKING_SUPPORT`, the system usage page, layer operations other
  than those the keycodes use, ghost filtering, `QMK_KEYS_PER_SCAN`, and action codes
  whose bits are read as another type (OSL and LM keep the layer in 4 bits; a mask of an
  LM that looks like a keycode). `process_record_quantum` is taken as letting each record
  through, and the features are modelled alone, not on top of `Action`. `is_tap_key` is
  asked about the position of a TICK, outside the keymap: both answers lead to the same
  branch, and the model asks it for real keys only.
* Report: the NKRO report of `Action` has no capacity. The six bytes drop a seventh key
  without trace. The ring of `USB_6KRO_ENABLE` cannot be built: `report.c` uses
  `cb_head`, `cb_tail` and `cb_count`, which are static in `action_util.c`.
* Serial link: `MASTER_TO_SINGLE_SLAVE` objects, which no code declares; the CRC, whose
  collisions are not looked at; the main loop in the middle of a thread's round.
* Snowfox: the start-up dialogue, discovery and port selection, which change the
  co-processor only; the bytes of the responses and the buffer they are collected in.
* Features: nested dynamic macros, `COMBO_ALLOW_ACTION_KEYS`, the modifiers that a
  dance carries along, `AUTO_SHIFT_MODIFIERS`, `AUTO_SHIFT_NO_SETUP`, user callbacks. A
  one-shot layer, which auto shift ends when it keeps a letter back.

Not modelled at all: the other features of `process_keycode` (leader, space cadet,
grave escape, Unicode: a few variables set by one press and read by the next);
lighting and audio (output only), EEPROM, dynamic keymap and VIA (byte stores and a
dispatcher), mouse keys, encoders and WPM (numeric filters), split keyboard transports
(a request and an answer per scan over I2C or a bit-banged line), USB and PS/2 stacks,
vendored libraries, the definitions of individual keyboards, and build tools.

## 8. What could come next

1. What stays down with several dual-role keys, with `RestartTap` as it would be if it
   scanned the buffer: `Balanced` with a role for each key, and an account of the releases
   in the buffer that are marked as taps.
2. The chain of hooks in `process_record_quantum`: key lock, dances, combos and auto
   shift on top of `Action`.
3. `RETRO_TAPPING`, `ONESHOT_TIMEOUT` and swap hands in `Action`.
4. Split keyboards: the slave's matrix read over a line that fails for some scans.
