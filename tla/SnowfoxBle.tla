------------------------------ MODULE SnowfoxBle ------------------------------
(***************************************************************************)
(* Which host gets the key reports, and in which layout: host.c, report.c  *)
(* with NKRO_ENABLE, process_magic.c, and snowfox_ble.c of the Kemove      *)
(* Snowfox, whose main thread and BLE thread both switch between the USB   *)
(* driver and the Bluetooth one.                                           *)
(*                                                                         *)
(* The threads have the same priority and a time quantum, and sending a    *)
(* report may block, so they interleave between the steps below.           *)
(***************************************************************************)
EXTENDS FiniteSets

CONSTANTS
  BleKey,            \* keycodes below 48, whose bit in an NKRO report lies
                     \* in the bytes of a 6-key report
  Protocols,         \* what the USB host asks for: TRUE is the report protocol
  NO_DRIVER

VARIABLES
  driver,                          \* host.c's: "usb" or "ble"
  lastHostDriver, lastNkroStatus,
  nkro, stored_nkro,               \* keymap_config.nkro, and in the EEPROM
  keyboard_protocol,
  key_down,                        \* the keys that are held
  keyboard_report,                 \* keys, each with the layout it is stored in
  seen,                            \* the last report on each interface
  main, ble_thread,                \* what the threads are in the middle of
  chosen,                          \* the last nkro not set by snowfox_ble.c
  raced                            \* a key event or a request was handled in
                                   \* the middle of something: see Races

ble_vars == <<driver, lastHostDriver, lastNkroStatus, nkro, stored_nkro, keyboard_protocol,
              key_down, keyboard_report, seen, main, ble_thread, chosen, raced>>

Driver    == {"usb", "ble"}
Layout    == {"bytes", "bits"}
Interface == {"keyboard", "nkro", "ble"}
Report    == SUBSET (Layout \X BleKey)

ASSUME SnowfoxBleAssumption == Protocols \subseteq BOOLEAN

BleInit ==
  /\ driver = "usb" /\ lastHostDriver = NO_DRIVER /\ lastNkroStatus = FALSE
  /\ stored_nkro \in BOOLEAN /\ nkro = stored_nkro /\ chosen = nkro
  /\ keyboard_protocol = TRUE
  /\ key_down = {} /\ keyboard_report = {}
  /\ seen = [i \in Interface |-> {}]
  /\ main = "scan" /\ ble_thread = "idle"
  /\ raced = FALSE

-----------------------------------------------------------------------------
(* report.c and the drivers: keyboard_protocol && keymap_config.nkro says  *)
(* how a key is stored and, on USB, where a report goes; snowfox_ble_-     *)
(* keyboard sends the bytes whatever the layout is.                        *)
LayoutOf(n) == IF keyboard_protocol /\ n THEN "bits" ELSE "bytes"

InterfaceOf(d, n) ==
  IF d = "ble" THEN "ble" ELSE IF LayoutOf(n) = "bits" THEN "nkro" ELSE "keyboard"

Sent(report, d, n) == [seen EXCEPT ![InterfaceOf(d, n)] = report]

(* What the properties leave out: an event in the middle of a restore by   *)
(* the BLE thread, and where `unsafe` holds.                               *)
Races(unsafe) == raced' = (raced \/ ble_thread = "restoring" \/ unsafe)

(* register_code, unregister_code: the report, then send_keyboard_report.  *)

KeyDown(k) ==
  /\ main = "scan" /\ k \notin key_down
  /\ key_down' = key_down \cup {k}
  /\ keyboard_report' = keyboard_report \cup {<<LayoutOf(nkro), k>>}
  /\ main' = "sending" /\ Races(FALSE)
  /\ UNCHANGED <<driver, lastHostDriver, lastNkroStatus, nkro, stored_nkro,
                 keyboard_protocol, seen, ble_thread, chosen>>

KeyUp(k) ==
  /\ main = "scan" /\ k \in key_down
  /\ key_down' = key_down \ {k}
  /\ keyboard_report' = keyboard_report \ {<<LayoutOf(nkro), k>>}
  /\ main' = "sending" /\ Races(FALSE)
  /\ UNCHANGED <<driver, lastHostDriver, lastNkroStatus, nkro, stored_nkro,
                 keyboard_protocol, seen, ble_thread, chosen>>

send_keyboard_report ==
  /\ main = "sending"
  /\ seen' = Sent(keyboard_report, driver, nkro)
  /\ main' = "scan"
  /\ UNCHANGED <<driver, lastHostDriver, lastNkroStatus, nkro, stored_nkro,
                 keyboard_protocol, key_down, keyboard_report, ble_thread, chosen, raced>>

-----------------------------------------------------------------------------
(* MAGIC_TOGGLE_NKRO, or a magic key about something else: the setting is  *)
(* read back from the EEPROM, then the keyboard is cleared, "to prevent    *)
(* stuck keys", before and after the change.  (Mutant: only after it.)     *)
MagicClears_after(n, toggled) == Sent({}, driver, toggled)

MagicClears(n, toggled) ==
  [Sent({}, driver, n) EXCEPT ![InterfaceOf(driver, toggled)] = {}]

process_magic(toggles) ==
  /\ main = "scan"
  /\ nkro' = IF toggles THEN ~stored_nkro ELSE stored_nkro
  /\ stored_nkro' = nkro' /\ chosen' = nkro'
  /\ keyboard_report' = {}
  /\ seen' = MagicClears(stored_nkro, nkro')
  /\ Races(driver = "ble")
  /\ UNCHANGED <<driver, lastHostDriver, lastNkroStatus, keyboard_protocol, key_down,
                 main, ble_thread>>

(* HID_SET_PROTOCOL, in an interrupt; a host asks for a protocol when it   *)
(* enumerates the keyboard.                                                *)
set_protocol(p) ==
  /\ keyboard_protocol' = p /\ nkro' = p /\ chosen' = p
  /\ Races(driver = "ble" \/ main # "scan" \/ key_down # {} \/ keyboard_report # {})
  /\ UNCHANGED <<driver, lastHostDriver, lastNkroStatus, stored_nkro, key_down,
                 keyboard_report, seen, main, ble_thread>>

-----------------------------------------------------------------------------
(* snowfox_ble_connect, snowfox_ble_disconnect: commands, and at most      *)
(* 100 ms for an answer; then a switch or a restore, if the driver is not  *)
(* yet the other one.  A restore of the BLE thread does not last 100 ms,   *)
(* and the answer is the BLE thread's to give.                             *)
Command(cmd) ==
  /\ main = "scan"
  /\ main' = cmd
  /\ UNCHANGED <<driver, lastHostDriver, lastNkroStatus, nkro, stored_nkro,
                 keyboard_protocol, key_down, keyboard_report, seen, ble_thread,
                 chosen, raced>>

clear_keyboard ==
  /\ keyboard_report' = {}
  /\ seen' = Sent({}, driver, nkro)

Answered(cmd, next) ==
  /\ main = cmd /\ ble_thread = "idle"
  /\ IF driver = (IF cmd = "connect" THEN "ble" ELSE "usb")
     THEN main' = "scan" /\ UNCHANGED <<keyboard_report, seen>>
     ELSE main' = next /\ clear_keyboard
  /\ UNCHANGED <<driver, lastHostDriver, lastNkroStatus, nkro, stored_nkro,
                 keyboard_protocol, key_down, ble_thread, chosen, raced>>

(* Mutant: NKRO is switched off before it is kept.                         *)
switch_to_ble_late ==
  /\ lastHostDriver' = driver /\ lastNkroStatus' = FALSE
  /\ nkro' = FALSE /\ driver' = "ble"

switch_to_ble ==
  /\ lastHostDriver' = driver /\ lastNkroStatus' = nkro
  /\ nkro' = FALSE /\ driver' = "ble"

snowfox_ble_swtich_ble_driver ==
  /\ main = "switching" /\ main' = "scan"
  /\ switch_to_ble
  /\ UNCHANGED <<stored_nkro, keyboard_protocol, key_down, keyboard_report, seen,
                 ble_thread, chosen, raced>>

restore_usb ==
  /\ nkro' = lastNkroStatus /\ driver' = lastHostDriver
  /\ UNCHANGED <<lastHostDriver, lastNkroStatus, stored_nkro, keyboard_protocol, key_down,
                 keyboard_report, seen, chosen, raced>>

snowfox_restore_driver ==
  /\ main = "restoring" /\ main' = "scan"
  /\ restore_usb
  /\ UNCHANGED ble_thread

(* The BLE thread's process_response: "+EVENT:0008", at any time.          *)
LinkLost ==
  /\ ble_thread = "idle" /\ driver = "ble"
  /\ ble_thread' = "restoring"
  /\ clear_keyboard
  /\ raced' = (raced \/ main = "sending")
  /\ UNCHANGED <<driver, lastHostDriver, lastNkroStatus, nkro, stored_nkro,
                 keyboard_protocol, key_down, main, chosen>>

BleThreadRestores ==
  /\ ble_thread = "restoring" /\ ble_thread' = "idle"
  /\ restore_usb
  /\ UNCHANGED main

BleNext ==
  \/ \E k \in BleKey : KeyDown(k) \/ KeyUp(k)
  \/ send_keyboard_report
  \/ \E toggles \in BOOLEAN : process_magic(toggles)
  \/ \E p \in Protocols : set_protocol(p)
  \/ \E cmd \in {"connect", "disconnect"} : Command(cmd)
  \/ Answered("connect", "switching")
  \/ Answered("disconnect", "restoring")
  \/ snowfox_ble_swtich_ble_driver
  \/ snowfox_restore_driver
  \/ LinkLost
  \/ BleThreadRestores

BleSpec == BleInit /\ [][BleNext]_ble_vars

-----------------------------------------------------------------------------
BleTypeOK ==
  /\ driver \in Driver /\ lastHostDriver \in {"usb", NO_DRIVER}
  /\ {lastNkroStatus, nkro, stored_nkro, keyboard_protocol, chosen, raced} \subseteq BOOLEAN
  /\ key_down \subseteq BleKey
  /\ keyboard_report \in Report /\ seen \in [Interface -> Report]
  /\ main \in {"scan", "sending", "connect", "disconnect", "switching", "restoring"}
  /\ ble_thread \in {"idle", "restoring"}

(* The NKRO setting survives the excursions to Bluetooth, whichever thread *)
(* ends them and also when both do; and while Bluetooth is the driver      *)
(* there is no NKRO, which its reports could not carry.                    *)
(* (Not if the setting is changed on Bluetooth or in the middle of the BLE *)
(* thread's restore, which overwrites it.)                                 *)
NkroKept == ~raced => nkro = IF driver = "usb" THEN chosen ELSE FALSE

(* A key is down on USB only if it is held and the driver is USB, and on   *)
(* the interface its layout is for: no switch of driver or of layout       *)
(* leaves a key stuck on the host that is left.  (A key that changes in    *)
(* the middle of the BLE thread's restore, or is down when the host asks   *)
(* for a protocol, may be stored in one layout and sent in the other.)     *)
NoStuckKeys ==
  ~raced =>
    /\ driver = "ble" => seen["keyboard"] = {} /\ seen["nkro"] = {}
    /\ main = "scan" => /\ seen["keyboard"] \subseteq {"bytes"} \X key_down
                        /\ seen["nkro"] \subseteq {"bits"} \X key_down
=============================================================================
