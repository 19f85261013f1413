----------------------------- MODULE PartsProofs -----------------------------
(***************************************************************************)
(* The parts around the core side by side: a behaviour of PartsSpec is one *)
(* of each part's own specification, so what is proved of a part alone     *)
(* holds of it there, for every value of the constants.                    *)
(***************************************************************************)
EXTENDS MCParts, TripleBufferProofs, SerialLinkProofs, SnowfoxBleProofs,
        DebounceProofs, FeatureProofs

parts_vars == <<part, vars, stuffer_vars, link_vars, ble_vars, debounce_vars,
                macro_vars, lock_vars, autoshift_vars, dance_vars, combo_vars>>

(* A step of the parts is a step of one of them and leaves the others as   *)
(* they are.                                                               *)
LEMMA PartsStep ==
  ASSUME [PartsNext]_parts_vars
  PROVE  /\ [Next]_vars /\ [StufferNext]_stuffer_vars /\ [LinkNext]_link_vars
         /\ [BleNext]_ble_vars /\ [DebounceNext]_debounce_vars
         /\ [MacroNext]_macro_vars /\ [LockNext]_lock_vars
         /\ [AutoShiftNext]_autoshift_vars /\ [DanceNext]_dance_vars
         /\ [ComboNext]_combo_vars
<1>1. CASE TheBuffer
  BY <1>1, Zenon DEF TheBuffer
<1>2. CASE TheStuffer
  BY <1>2, Zenon DEF TheStuffer
<1>3. CASE TheLink
  BY <1>3, Zenon DEF TheLink
<1>4. CASE TheBle
  BY <1>4, Zenon DEF TheBle
<1>5. CASE TheDebouncers
  BY <1>5, Zenon DEF TheDebouncers
<1>6. CASE TheFeatures
  BY <1>6, Zenon DEF TheFeatures
<1>7. CASE UNCHANGED parts_vars
  BY <1>7, Zenon DEF parts_vars
<1> QED
  BY <1>1, <1>2, <1>3, <1>4, <1>5, <1>6, <1>7 DEF PartsNext

(* Each part runs in the composition as it runs alone: the composition     *)
(* implements the specification of every part.                             *)
THEOREM PartsRunAsAlone ==
  PartsSpec => /\ Spec /\ StufferSpec /\ LinkSpec /\ BleSpec /\ DebounceSpec
               /\ MacroSpec /\ LockSpec /\ AutoShiftSpec /\ DanceSpec /\ ComboSpec
<1>1. PartsInit => /\ Init /\ StufferInit /\ LinkInit /\ BleInit /\ DebounceInit
                   /\ MacroInit /\ LockInit /\ AutoShiftInit /\ DanceInit /\ ComboInit
  BY Zenon DEF PartsInit
<1>2. [PartsNext]_parts_vars =>
        /\ [Next]_vars /\ [StufferNext]_stuffer_vars /\ [LinkNext]_link_vars
        /\ [BleNext]_ble_vars /\ [DebounceNext]_debounce_vars
        /\ [MacroNext]_macro_vars /\ [LockNext]_lock_vars
        /\ [AutoShiftNext]_autoshift_vars /\ [DanceNext]_dance_vars
        /\ [ComboNext]_combo_vars
  BY PartsStep
<1> QED
  BY <1>1, <1>2, PTL
  DEF PartsSpec, parts_vars, Spec, StufferSpec, LinkSpec, BleSpec, DebounceSpec,
      MacroSpec, LockSpec, AutoShiftSpec, DanceSpec, ComboSpec

(* No slot, receiver, macro or key buffer is ever written beyond its end,  *)
(* whatever its size: what every part's own proof says.                    *)
THEOREM PartsStayTyped == PartsSpec => []PartsTypeOK
<1>1. LinkSpec => []LinkTypeOK
  <2>1. LinkInv => LinkTypeOK
    BY DEF LinkInv
  <2> QED
    BY <2>1, LinkInvInit, LinkInvNext, PTL DEF LinkSpec
<1>2. BleSpec => []BleTypeOK
  <2>1. NkroInv => BleTypeOK
    BY DEF NkroInv
  <2> QED
    BY <2>1, NkroInvInit, NkroInvNext, PTL DEF BleSpec
<1>3. DebounceSpec => []DebounceTypeOK
  <2>1. DebounceInv /\ [DebounceNext]_debounce_vars => DebounceInv'
    BY DebounceInvNext, DebounceStutter
  <2>2. DebounceInv => DebounceTypeOK
    BY DEF DebounceInv
  <2> QED
    BY <2>1, <2>2, DebounceInvInit, PTL DEF DebounceSpec
<1>4. MacroSpec => []MacroTypeOK
  <2>1. MacroInv => MacroTypeOK
    BY DEF MacroInv
  <2> QED
    BY <2>1, MacroInvInit, MacroInvNext, PTL DEF MacroSpec
<1>5. ComboSpec => []ComboTypeOK
  <2>1. ComboInv => ComboTypeOK
    BY DEF ComboInv
  <2> QED
    BY <2>1, ComboInvInit, ComboInvInductive, PTL DEF ComboSpec
<1>6. /\ TypeOK /\ StufferTypeOK /\ LinkTypeOK /\ BleTypeOK /\ DebounceTypeOK
      /\ MacroTypeOK /\ LockTypeOK /\ AutoShiftTypeOK /\ DanceTypeOK /\ ComboTypeOK
      => PartsTypeOK
  BY DEF PartsTypeOK
<1> QED
  BY <1>1, <1>2, <1>3, <1>4, <1>5, <1>6, PartsRunAsAlone, TypeIsInvariant,
     ReceiverIsTyped, LockedKeysStayDown, AutoShiftIsTyped, DancesAreSettled, PTL
=============================================================================
