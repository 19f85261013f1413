---------------------------- MODULE SnowfoxBleProofs ----------------------------
(***************************************************************************)
(* The Snowfox between USB and Bluetooth, for any number of keys: the NKRO *)
(* setting comes back, and no key stays down on an interface that is left. *)
(***************************************************************************)
EXTENDS SnowfoxBle, TLAPS

(* What either thread needs to restore: the driver and the setting as they *)
(* were before the switch.                                                 *)
CanRestore == lastHostDriver = "usb" /\ (~raced => lastNkroStatus = chosen)

Switching ==
  /\ main = "switching" => driver = "usb" /\ ble_thread = "idle"
  /\ driver = "ble" \/ main = "restoring" \/ ble_thread = "restoring" => CanRestore

NkroInv == BleTypeOK /\ Switching /\ NkroKept

(* In the beginning the driver is USB and the setting is the chosen one.   *)
LEMMA NkroInvInit == BleInit => NkroInv
  BY DEF BleInit, NkroInv, BleTypeOK, Switching, NkroKept, Driver, Report, Interface

(* Every step keeps NkroInv: the setting is chosen anew only when no       *)
(* restore is to come, or the model says so (raced).                       *)
LEMMA NkroInvNext == NkroInv /\ [BleNext]_ble_vars => NkroInv'
<1> SUFFICES ASSUME NkroInv, [BleNext]_ble_vars PROVE NkroInv'
  OBVIOUS
<1> USE DEF NkroInv, Switching, CanRestore, NkroKept
<1>0. /\ seen \in [Interface -> Report] /\ {} \in Report
      /\ \A d, n : InterfaceOf(d, n) \in Interface
      /\ \A n : LayoutOf(n) \in Layout
  BY DEF BleTypeOK, Report, InterfaceOf, LayoutOf, Interface, Layout
<1>1. \A r \in Report : \A d, n : Sent(r, d, n) \in [Interface -> Report]
  BY <1>0 DEF Sent
<1>2. CASE UNCHANGED ble_vars
  BY <1>2 DEF ble_vars, BleTypeOK
<1>3. ASSUME NEW k \in BleKey, KeyDown(k) PROVE NkroInv'
  <2>1. keyboard_report' \in Report
    BY <1>0, <1>3 DEF KeyDown, BleTypeOK, Report
  <2>2. BleTypeOK'
    BY <1>3, <2>1 DEF KeyDown, Races, BleTypeOK
  <2> QED
    BY <1>3, <2>2 DEF KeyDown, Races, BleTypeOK
<1>4. ASSUME NEW k \in BleKey, KeyUp(k) PROVE NkroInv'
  <2>1. keyboard_report' \in Report
    BY <1>4 DEF KeyUp, BleTypeOK, Report
  <2>2. BleTypeOK'
    BY <1>4, <2>1 DEF KeyUp, Races, BleTypeOK
  <2> QED
    BY <1>4, <2>2 DEF KeyUp, Races, BleTypeOK
<1>5. CASE send_keyboard_report
  BY <1>1, <1>5 DEF send_keyboard_report, BleTypeOK
<1>6. ASSUME NEW toggles \in BOOLEAN, process_magic(toggles) PROVE NkroInv'
  <2>1. seen' \in [Interface -> Report]
    BY <1>0, <1>1, <1>6 DEF process_magic, MagicClears
  <2>2. /\ nkro' \in BOOLEAN /\ chosen' = nkro' /\ stored_nkro' = nkro'
        /\ raced' = (raced \/ ble_thread = "restoring" \/ driver = "ble")
        /\ main = "scan"
    BY <1>6 DEF process_magic, Races, BleTypeOK
  <2>3. BleTypeOK'
    BY <1>0, <1>6, <2>1, <2>2 DEF process_magic, BleTypeOK
  <2> QED
    BY <1>6, <2>2, <2>3 DEF process_magic, BleTypeOK, Driver
<1>7. ASSUME NEW p \in Protocols, set_protocol(p) PROVE NkroInv'
  BY <1>7, SnowfoxBleAssumption DEF set_protocol, Races, BleTypeOK, Driver
<1>8. ASSUME NEW cmd \in {"connect", "disconnect"}, Command(cmd) PROVE NkroInv'
  BY <1>8 DEF Command, BleTypeOK
<1>9. CASE Answered("connect", "switching")
  <2>1. BleTypeOK'
    <3>1. CASE driver = "ble"
      BY <1>9, <3>1 DEF Answered, BleTypeOK
    <3>2. CASE driver # "ble"
      <4>1. main' = "switching" /\ keyboard_report' = {} /\ seen' = Sent({}, driver, nkro)
        BY <1>9, <3>2 DEF Answered, clear_keyboard
      <4> QED
        BY <1>0, <1>1, <1>9, <4>1 DEF Answered, BleTypeOK
    <3> QED
      BY <3>1, <3>2
  <2>2. /\ main' = "scan" \/ (main' = "switching" /\ driver # "ble")
        /\ main = "connect" /\ ble_thread = "idle"
    BY <1>9 DEF Answered
  <2>3. UNCHANGED <<driver, lastHostDriver, lastNkroStatus, nkro, ble_thread, chosen, raced>>
    BY <1>9 DEF Answered
  <2> QED
    BY <2>1, <2>2, <2>3 DEF BleTypeOK, Driver
<1>10. CASE Answered("disconnect", "restoring")
  <2>1. BleTypeOK'
    <3>1. CASE driver = "usb"
      BY <1>10, <3>1 DEF Answered, BleTypeOK
    <3>2. CASE driver # "usb"
      <4>1. main' = "restoring" /\ keyboard_report' = {} /\ seen' = Sent({}, driver, nkro)
        BY <1>10, <3>2 DEF Answered, clear_keyboard
      <4> QED
        BY <1>0, <1>1, <1>10, <4>1 DEF Answered, BleTypeOK
    <3> QED
      BY <3>1, <3>2
  <2>2. /\ main' = "scan" \/ (main' = "restoring" /\ driver # "usb")
        /\ main = "disconnect" /\ ble_thread = "idle"
    BY <1>10 DEF Answered
  <2>3. UNCHANGED <<driver, lastHostDriver, lastNkroStatus, nkro, ble_thread, chosen, raced>>
    BY <1>10 DEF Answered
  <2> QED
    BY <2>1, <2>2, <2>3 DEF BleTypeOK, Driver
<1>11. CASE snowfox_ble_swtich_ble_driver
  BY <1>11 DEF snowfox_ble_swtich_ble_driver, switch_to_ble, BleTypeOK, Driver
<1>12. CASE snowfox_restore_driver
  BY <1>12 DEF snowfox_restore_driver, restore_usb, BleTypeOK, Driver
<1>13. CASE LinkLost
  <2>1. BleTypeOK'
    BY <1>0, <1>1, <1>13 DEF LinkLost, clear_keyboard, BleTypeOK
  <2> QED
    BY <1>13, <2>1 DEF LinkLost, BleTypeOK
<1>14. CASE BleThreadRestores
  BY <1>14 DEF BleThreadRestores, restore_usb, BleTypeOK, Driver
<1> QED
  BY <1>2, <1>3, <1>4, <1>5, <1>6, <1>7, <1>8, <1>9, <1>10, <1>11, <1>12, <1>13, <1>14
     DEF BleNext

(* The NKRO setting survives the excursions to Bluetooth, whichever thread *)
(* ends them (snowfox_ble.c), for any keys and whatever the host asks for. *)
THEOREM NkroSurvives == BleSpec => []NkroKept
<1>1. NkroInv => NkroKept
  BY DEF NkroInv
<1> QED
  BY <1>1, NkroInvInit, NkroInvNext, PTL DEF BleSpec

-----------------------------------------------------------------------------
(* Why no key gets stuck, as long as no host goes back to the report       *)
(* protocol: what the report and the interface of the layout in use hold   *)
(* is held, the other interfaces show nothing, and a switch finds the      *)
(* report empty.                                                           *)
Quiet == seen["keyboard"] = {} /\ seen["nkro"] = {}

ReportIsHeld == keyboard_report \subseteq {LayoutOf(nkro)} \X key_down

ClearedToSwitch ==
  main \in {"switching", "restoring"} \/ ble_thread = "restoring" => keyboard_report = {}

ShownIsHeld ==
  /\ driver = "ble" \/ main = "switching" => Quiet
  /\ keyboard_protocol /\ nkro => seen["keyboard"] = {}
  /\ ~(keyboard_protocol /\ nkro) => seen["nkro"] = {}
  /\ main # "sending" => /\ seen["keyboard"] \subseteq {"bytes"} \X key_down
                         /\ seen["nkro"] \subseteq {"bits"} \X key_down

StuckInv ==
  /\ keyboard_protocol => chosen = stored_nkro
  /\ ~raced => /\ ReportIsHeld /\ ClearedToSwitch /\ ShownIsHeld
               /\ main = "sending" => ble_thread = "idle"

LEMMA StuckInvInit == BleInit => StuckInv
  BY DEF BleInit, StuckInv, ReportIsHeld, ClearedToSwitch, ShownIsHeld, Quiet, Interface

(* Sending a report, or the empty one, changes one interface.              *)
LEMMA SentTo ==
  ASSUME NkroInv, NEW r, NEW d, NEW n
  PROVE  /\ d = "ble" => /\ Sent(r, d, n)["keyboard"] = seen["keyboard"]
                         /\ Sent(r, d, n)["nkro"] = seen["nkro"]
         /\ d # "ble" /\ keyboard_protocol /\ n =>
              /\ Sent(r, d, n)["nkro"] = r
              /\ Sent(r, d, n)["keyboard"] = seen["keyboard"]
         /\ d # "ble" /\ ~(keyboard_protocol /\ n) =>
              /\ Sent(r, d, n)["keyboard"] = r
              /\ Sent(r, d, n)["nkro"] = seen["nkro"]
  BY DEF NkroInv, BleTypeOK, Sent, InterfaceOf, LayoutOf, Interface

(* Every step keeps StuckInv if the protocols asked for are boot ones.     *)
LEMMA StuckInvNext ==
  ASSUME Protocols \subseteq {FALSE}, NkroInv, StuckInv, [BleNext]_ble_vars
  PROVE  StuckInv'
<1> USE DEF StuckInv, ReportIsHeld, ClearedToSwitch, ShownIsHeld, Quiet
<1>0. /\ driver \in {"usb", "ble"}
      /\ Switching /\ NkroKept
      /\ nkro \in BOOLEAN /\ keyboard_protocol \in BOOLEAN /\ raced \in BOOLEAN
      /\ stored_nkro \in BOOLEAN /\ chosen \in BOOLEAN
  BY DEF NkroInv, BleTypeOK, Driver
<1>2. CASE UNCHANGED ble_vars
  BY <1>2 DEF ble_vars, LayoutOf
<1>3. ASSUME NEW k \in BleKey, KeyDown(k) PROVE StuckInv'
  <2>1. /\ main' = "sending" /\ main = "scan" /\ raced' = (raced \/ ble_thread = "restoring")
        /\ keyboard_report' = keyboard_report \cup {<<LayoutOf(nkro), k>>}
        /\ key_down' = key_down \cup {k} /\ LayoutOf(nkro)' = LayoutOf(nkro)
        /\ UNCHANGED <<driver, nkro, stored_nkro, keyboard_protocol, seen, ble_thread, chosen>>
    BY <1>3 DEF KeyDown, Races, LayoutOf
  <2>2. ReportIsHeld => ReportIsHeld'
    BY <2>1
  <2>3. ble_thread \in {"idle", "restoring"}
    BY DEF NkroInv, BleTypeOK
  <2> HIDE DEF ReportIsHeld
  <2> QED
    BY <1>0, <2>1, <2>2, <2>3
<1>4. ASSUME NEW k \in BleKey, KeyUp(k) PROVE StuckInv'
  <2>1. /\ main' = "sending" /\ main = "scan" /\ raced' = (raced \/ ble_thread = "restoring")
        /\ keyboard_report' = keyboard_report \ {<<LayoutOf(nkro), k>>}
        /\ key_down' = key_down \ {k} /\ LayoutOf(nkro)' = LayoutOf(nkro)
        /\ UNCHANGED <<driver, nkro, stored_nkro, keyboard_protocol, seen, ble_thread, chosen>>
    BY <1>4 DEF KeyUp, Races, LayoutOf
  <2>2. ReportIsHeld => ReportIsHeld'
    BY <2>1
  <2>3. ble_thread \in {"idle", "restoring"}
    BY DEF NkroInv, BleTypeOK
  <2> HIDE DEF ReportIsHeld
  <2> QED
    BY <1>0, <2>1, <2>2, <2>3
<1>5. CASE send_keyboard_report
  BY <1>0, <1>5, SentTo DEF send_keyboard_report, LayoutOf, NkroKept
<1>6. ASSUME NEW toggles \in BOOLEAN, process_magic(toggles) PROVE StuckInv'
  <2>1. /\ main = "scan" /\ main' = "scan" /\ keyboard_report' = {} /\ chosen' = stored_nkro'
        /\ raced' = (raced \/ ble_thread = "restoring" \/ driver = "ble")
        /\ seen' = [Sent({}, driver, stored_nkro) EXCEPT ![InterfaceOf(driver, nkro')] = {}]
        /\ UNCHANGED <<driver, keyboard_protocol, key_down, ble_thread>>
    BY <1>6 DEF process_magic, Races, MagicClears
  <2>2. CASE raced'
    BY <2>1, <2>2
  <2>3. CASE ~raced'
    <3>1. ~raced /\ driver = "usb" /\ (keyboard_protocol => nkro = stored_nkro)
      BY <1>0, <2>1, <2>3 DEF NkroKept
    <3>2. Sent({}, driver, stored_nkro)["keyboard"] = {} /\ Sent({}, driver, stored_nkro)["nkro"] = {}
      <4>1. CASE keyboard_protocol /\ stored_nkro
        BY <3>1, <4>1, SentTo
      <4>2. CASE ~(keyboard_protocol /\ stored_nkro)
        BY <3>1, <4>2, SentTo
      <4> QED
        BY <4>1, <4>2
    <3>3. Sent({}, driver, stored_nkro) \in [Interface -> Report]
      BY DEF NkroInv, BleTypeOK, Sent, Report
    <3>4. Quiet'
      BY <2>1, <3>2, <3>3 DEF Interface
    <3> QED
      BY <2>1, <2>3, <3>1, <3>4
  <2> QED
    BY <2>2, <2>3
<1>7. ASSUME NEW p \in Protocols, set_protocol(p) PROVE StuckInv'
  <2>1. p = FALSE
    OBVIOUS
  <2> QED
    BY <1>0, <1>7, <2>1 DEF set_protocol, Races, LayoutOf, NkroKept
<1>8. ASSUME NEW cmd \in {"connect", "disconnect"}, Command(cmd) PROVE StuckInv'
  BY <1>8 DEF Command, LayoutOf
<1>9. CASE Answered("connect", "switching")
  <2>1. CASE driver = "ble"
    BY <1>9, <2>1 DEF Answered, LayoutOf
  <2>2. CASE driver # "ble"
    <3>1. /\ main = "connect" /\ main' = "switching" /\ keyboard_report' = {}
          /\ seen' = Sent({}, driver, nkro)
      BY <1>9, <2>2 DEF Answered, clear_keyboard
    <3>2. UNCHANGED <<driver, nkro, stored_nkro, keyboard_protocol, key_down, ble_thread,
                      chosen, raced>>
      BY <1>9 DEF Answered
    <3>3. ~raced => Quiet'
      BY <1>0, <2>2, <3>1, SentTo
    <3> QED
      BY <1>0, <2>2, <3>1, <3>2, <3>3
  <2> QED
    BY <2>1, <2>2
<1>10. CASE Answered("disconnect", "restoring")
  <2>1. CASE driver = "usb"
    BY <1>10, <2>1 DEF Answered, LayoutOf
  <2>2. CASE driver # "usb"
    <3>1. /\ main = "disconnect" /\ main' = "restoring" /\ keyboard_report' = {}
          /\ seen' = Sent({}, driver, nkro)
      BY <1>10, <2>2 DEF Answered, clear_keyboard
    <3>2. UNCHANGED <<driver, nkro, stored_nkro, keyboard_protocol, key_down, ble_thread,
                      chosen, raced>>
      BY <1>10 DEF Answered
    <3>3. ~raced => Quiet'
      BY <1>0, <2>2, <3>1, SentTo
    <3> QED
      BY <1>0, <2>2, <3>1, <3>2, <3>3
  <2> QED
    BY <2>1, <2>2
<1>11. CASE snowfox_ble_swtich_ble_driver
  BY <1>11 DEF snowfox_ble_swtich_ble_driver, switch_to_ble, LayoutOf
<1>12. CASE snowfox_restore_driver
  <2>1. /\ nkro' = lastNkroStatus /\ driver' = lastHostDriver /\ main = "restoring" /\ main' = "scan" /\ ble_thread' = ble_thread
        /\ UNCHANGED <<stored_nkro, keyboard_protocol, key_down, keyboard_report, seen, chosen,
                       raced>>
    BY <1>12 DEF snowfox_restore_driver, restore_usb
  <2>2. CASE raced
    BY <2>1, <2>2
  <2>3. CASE ~raced
    <3>1. nkro' = chosen /\ driver' = "usb" /\ keyboard_report = {} /\ main' # "switching"
      BY <1>0, <2>1, <2>3 DEF Switching, CanRestore
    <3>2. CASE driver = "usb"
      BY <1>0, <2>1, <2>3, <3>1, <3>2 DEF NkroKept
    <3>3. CASE driver = "ble"
      BY <2>1, <2>3, <3>1, <3>3
    <3> QED
      BY <1>0, <3>2, <3>3
  <2> QED
    BY <2>2, <2>3
<1>13. CASE LinkLost
  <2>1. /\ driver = "ble" /\ ble_thread' = "restoring" /\ keyboard_report' = {}
        /\ seen' = Sent({}, driver, nkro) /\ raced' = (raced \/ main = "sending")
        /\ UNCHANGED <<driver, nkro, stored_nkro, keyboard_protocol, key_down, main, chosen>>
    BY <1>13 DEF LinkLost, clear_keyboard
  <2>2. ~raced => Quiet'
    BY <2>1, SentTo
  <2> QED
    BY <1>0, <2>1, <2>2
<1>14. CASE BleThreadRestores
  <2>1. /\ nkro' = lastNkroStatus /\ driver' = lastHostDriver /\ ble_thread = "restoring" /\ ble_thread' = "idle" /\ main' = main
        /\ UNCHANGED <<stored_nkro, keyboard_protocol, key_down, keyboard_report, seen, chosen,
                       raced>>
    BY <1>14 DEF BleThreadRestores, restore_usb
  <2>2. CASE raced
    BY <2>1, <2>2
  <2>3. CASE ~raced
    <3>1. nkro' = chosen /\ driver' = "usb" /\ keyboard_report = {} /\ main' # "switching"
      BY <1>0, <2>1, <2>3 DEF Switching, CanRestore
    <3>2. CASE driver = "usb"
      BY <1>0, <2>1, <2>3, <3>1, <3>2 DEF NkroKept
    <3>3. CASE driver = "ble"
      BY <2>1, <2>3, <3>1, <3>3
    <3> QED
      BY <1>0, <3>2, <3>3
  <2> QED
    BY <2>2, <2>3
<1> QED
  BY <1>2, <1>3, <1>4, <1>5, <1>6, <1>7, <1>8, <1>9, <1>10, <1>11, <1>12, <1>13, <1>14
     DEF BleNext

(* No key stays down on a host or an interface that is left, because of    *)
(* the clear_keyboard before every switch of snowfox_ble.c and             *)
(* process_magic.c: for any keys, unless a host that enumerates the        *)
(* keyboard switches NKRO back on.                                         *)
THEOREM NoKeyIsStuck == Protocols \subseteq {FALSE} /\ BleSpec => []NoStuckKeys
<1>1. NkroInv /\ StuckInv => NoStuckKeys
  BY DEF StuckInv, ShownIsHeld, Quiet, NoStuckKeys
<1>2. BleInit => NkroInv /\ StuckInv
  BY NkroInvInit, StuckInvInit
<1>3. SUFFICES ASSUME Protocols \subseteq {FALSE} PROVE BleSpec => []NoStuckKeys
  OBVIOUS
<1>4. NkroInv /\ StuckInv /\ [BleNext]_ble_vars => (NkroInv /\ StuckInv)'
  BY <1>3, NkroInvNext, StuckInvNext
<1> QED
  BY <1>1, <1>2, <1>4, PTL DEF BleSpec
=============================================================================
