----------------------------- MODULE FeatureProofs -----------------------------
(***************************************************************************)
(* What the features on the way of a key keep true, for any sets of keys,  *)
(* dances and combos and every size of the macro buffer: key lock, tap     *)
(* dance, auto shift, combos and dynamic macros.                           *)
(***************************************************************************)
EXTENDS KeyLock, TapDance, AutoShift, Combo, DynamicMacro, FiniteSetTheorems,
        WellFoundedInduction, TLAPS

-----------------------------------------------------------------------------
(* Key lock                                                                *)

(* What is down for the host, held, locked or cleared are keys.            *)
LEMMA LockTypeInductive == LockTypeOK /\ [LockNext]_lock_vars => LockTypeOK'
<1> SUFFICES ASSUME LockTypeOK, [LockNext]_lock_vars PROVE LockTypeOK'
  OBVIOUS
<1> USE DEF LockTypeOK
<1>1. CASE UNCHANGED lock_vars
  BY <1>1 DEF lock_vars
<1>2. ASSUME NEW k \in LockKey, StandardKeyDown(k) PROVE LockTypeOK'
  BY <1>2 DEF StandardKeyDown, Passed
<1>3. ASSUME NEW k \in LockKey, StandardKeyUp(k) PROVE LockTypeOK'
  BY <1>3 DEF StandardKeyUp, Masked
<1>4. CASE KC_LOCK
  BY <1>4 DEF KC_LOCK
<1>5. CASE UnlockableKeyDown
  BY <1>5 DEF UnlockableKeyDown
<1>6. CASE ClearKeyboard
  BY <1>6 DEF ClearKeyboard
<1> QED
  BY <1>1, <1>2, <1>3, <1>4, <1>5, <1>6 DEF LockNext

(* HeldOrLocked is inductive: a lock and a release look at the same set.   *)
LEMMA HeldOrLockedInductive ==
  HeldOrLocked /\ [LockNext]_lock_vars => HeldOrLocked'
<1> SUFFICES ASSUME HeldOrLocked, [LockNext]_lock_vars PROVE HeldOrLocked'
  OBVIOUS
<1> USE DEF HeldOrLocked
<1>1. CASE UNCHANGED lock_vars
  BY <1>1 DEF lock_vars
<1>2. ASSUME NEW k \in LockKey, StandardKeyDown(k) PROVE HeldOrLocked'
  BY <1>2 DEF StandardKeyDown, Passed
<1>3. ASSUME NEW k \in LockKey, StandardKeyUp(k) PROVE HeldOrLocked'
  BY <1>3 DEF StandardKeyUp, Masked
<1>4. CASE KC_LOCK
  BY <1>4 DEF KC_LOCK
<1>5. CASE UnlockableKeyDown
  BY <1>5 DEF UnlockableKeyDown
<1>6. CASE ClearKeyboard
  BY <1>6 DEF ClearKeyboard
<1> QED
  BY <1>1, <1>2, <1>3, <1>4, <1>5, <1>6 DEF LockNext

(* No interleaving of locks, releases, re-locks and clears leaves a key    *)
(* down that is neither held nor locked, or lets go of one that is         *)
(* (process_key_lock), for any number of keys.                             *)
THEOREM LockedKeysStayDown == LockSpec => [](LockTypeOK /\ HeldOrLocked)
<1>1. LockInit => LockTypeOK /\ HeldOrLocked
  BY DEF LockInit, LockTypeOK, HeldOrLocked
<1> QED
  BY <1>1, LockTypeInductive, HeldOrLockedInductive, PTL DEF LockSpec

-----------------------------------------------------------------------------
(* Tap dance                                                               *)

(* CodeWhileHeld, told for one code at a time.                             *)
HasCode(d, n) == n = count[d] /\ (n = 1 \/ d \in DOUBLE)

OneCode ==
  \A d \in Dance :
    /\ \A n \in {1, 2} : <<d, n>> \in codes <=> finished[d] /\ HasCode(d, n)
    /\ finished[d] => dance_pressed[d] /\ count[d] > 0

LEMMA CodeOfOne ==
  ASSUME DanceTypeOK
  PROVE  \A d, e \in Dance, n \in {1, 2} :
           <<d, n>> \in CodeOf(e, count[e]) <=> d = e /\ HasCode(d, n)
<1> SUFFICES ASSUME NEW d \in Dance, NEW e \in Dance, NEW n \in {1, 2}
             PROVE  <<d, n>> \in CodeOf(e, count[e]) <=> d = e /\ HasCode(d, n)
  OBVIOUS
<1>1. count[e] \in Nat
  BY TapDanceAssumption DEF DanceTypeOK
<1>2. CASE d = e
  BY <1>1, <1>2 DEF CodeOf, HasCode
<1>3. CASE d # e
  BY <1>1, <1>3 DEF CodeOf
<1> QED
  BY <1>2, <1>3

LEMMA OneCodeIsCodeWhileHeld ==
  ASSUME DanceTypeOK, OneCode PROVE CodeWhileHeld
<1> SUFFICES ASSUME NEW d \in Dance
             PROVE  {n \in {1, 2} : <<d, n>> \in codes}
                      = IF finished[d]
                        THEN {n \in {1, 2} : <<d, n>> \in CodeOf(d, count[d])} ELSE {}
  BY DEF CodeWhileHeld, OneCode
<1>1. \A n \in {1, 2} : <<d, n>> \in CodeOf(d, count[d]) <=> HasCode(d, n)
  BY CodeOfOne
<1> QED
  BY <1>1 DEF OneCode

(* What finishing and resetting the dances of a set does to each of them.  *)
LEMMA AfterOne ==
  ASSUME DanceTypeOK, OneCode, NEW S \in SUBSET Dance, NEW d \in Dance
  PROVE  /\ CountAfter(S)[d] \in 0 .. MAX_TAPS
         /\ FinishedAfter(S)[d] \in BOOLEAN
         /\ \A n \in {1, 2} : <<d, n>> \in CodesAfter(S)
              <=> FinishedAfter(S)[d] /\ n = CountAfter(S)[d] /\ (n = 1 \/ d \in DOUBLE)
         /\ FinishedAfter(S)[d] => dance_pressed[d] /\ CountAfter(S)[d] > 0
         /\ d \in S /\ CountAfter(S)[d] > 0 => FinishedAfter(S)[d]
         /\ d \notin S => CountAfter(S)[d] = count[d] /\ FinishedAfter(S)[d] = finished[d]
<1>1. /\ count[d] \in 0 .. MAX_TAPS /\ finished[d] \in BOOLEAN
      /\ \A e \in Dance : count[e] \in Nat
  BY TapDanceAssumption DEF DanceTypeOK
<1>2. /\ CountAfter(S)[d] = IF d \in Resets(S) THEN 0 ELSE count[d]
      /\ FinishedAfter(S)[d] = (d \notin Resets(S) /\ (finished[d] \/ d \in Finishes(S)))
  BY DEF CountAfter, FinishedAfter
<1>0. \A e \in Dance, n \in {1, 2} :
        <<d, n>> \in CodeOf(e, count[e]) <=> d = e /\ HasCode(d, n)
  BY CodeOfOne
<1>3. ASSUME NEW n \in {1, 2}
      PROVE  <<d, n>> \in CodesAfter(S)
               <=> /\ <<d, n>> \in codes
                      \/ (d \in Finishes(S) /\ HasCode(d, n))
                   /\ ~(d \in Resets(S) /\ HasCode(d, n))
  <2>. DEFINE Code(e) == CodeOf(e, count[e])
  <2>0. \A e \in Dance : <<d, n>> \in Code(e) <=> d = e /\ HasCode(d, n)
    BY <1>0
  <2>. HIDE DEF Code
  <2>1. <<d, n>> \in UNION {Code(e) : e \in Finishes(S)}
          <=> d \in Finishes(S) /\ HasCode(d, n)
    BY <2>0 DEF Finishes
  <2>2. <<d, n>> \in UNION {Code(e) : e \in Resets(S)}
          <=> d \in Resets(S) /\ HasCode(d, n)
    BY <2>0 DEF Resets
  <2>3. CodesAfter(S) = (codes \cup UNION {Code(e) : e \in Finishes(S)})
                          \ UNION {Code(e) : e \in Resets(S)}
    BY DEF CodesAfter, Code, Unregisters
  <2> QED
    BY <2>1, <2>2, <2>3
<1>4. /\ d \in Finishes(S) <=> d \in S /\ count[d] > 0 /\ ~finished[d]
      /\ d \in Resets(S) <=> d \in S /\ count[d] > 0 /\ ~dance_pressed[d]
  BY DEF Finishes, Resets
<1>5. /\ \A n \in {1, 2} : <<d, n>> \in codes <=> finished[d] /\ HasCode(d, n)
      /\ finished[d] => dance_pressed[d] /\ count[d] > 0
  BY DEF OneCode
<1>6. dance_pressed[d] \in BOOLEAN
  BY DEF DanceTypeOK
<1>7. 0 \in 0 .. MAX_TAPS
  BY TapDanceAssumption
<1> QED
  BY <1>1, <1>2, <1>3, <1>4, <1>5, <1>6, <1>7 DEF HasCode

(* At most one dance is open, as AtMostOneOpen says it, and its code is    *)
(* down while it is held.                                                  *)
DanceInv == DanceTypeOK /\ OneCode /\ AtMostOneOpen

(* Once the dances of a set that holds every dance but perhaps the last    *)
(* one are finished, only that one may be open.                            *)
LEMMA SettledInv ==
  ASSUME DanceInv, NEW S \in SUBSET Dance, UNCHANGED dance_pressed,
         codes' = CodesAfter(S), layers' = LayersAfter(S), count' = CountAfter(S),
         finished' = FinishedAfter(S), last_td' = LastAfter(S)
  PROVE  DanceInv'
<1>1. ASSUME NEW d \in Dance
      PROVE  /\ count'[d] \in 0 .. MAX_TAPS /\ finished'[d] \in BOOLEAN
             /\ \A n \in {1, 2} : <<d, n>> \in codes' <=> finished'[d] /\ HasCode(d, n)'
             /\ finished'[d] => dance_pressed'[d] /\ count'[d] > 0
  BY AfterOne DEF DanceInv, HasCode
<1>2. DanceTypeOK'
  <2>1. count' \in [Dance -> 0 .. MAX_TAPS] /\ finished' \in [Dance -> BOOLEAN]
    <3>1. count' = [d \in Dance |-> count'[d]] /\ finished' = [d \in Dance |-> finished'[d]]
      BY DEF CountAfter, FinishedAfter
    <3> QED
      BY <1>1, <3>1
  <2>2. codes' \subseteq Dance \X {1, 2}
    BY DEF DanceInv, DanceTypeOK, CodesAfter, CodeOf, Finishes, Resets
  <2>3. layers' \subseteq Dance
    BY DEF DanceInv, DanceTypeOK, LayersAfter, Finishes
  <2>4. last_td' \in Dance \cup {NO_DANCE} /\ dance_pressed' \in [Dance -> BOOLEAN]
    BY DEF DanceInv, DanceTypeOK, LastAfter
  <2> QED
    BY <2>1, <2>2, <2>3, <2>4 DEF DanceTypeOK
<1>3. OneCode'
  BY <1>1 DEF OneCode
<1>4. AtMostOneOpen'
  <2> SUFFICES ASSUME NEW d \in Dance, NEW e \in Dance,
                      count'[d] > 0, ~finished'[d], count'[e] > 0, ~finished'[e]
               PROVE  d = e
    BY DEF AtMostOneOpen
  <2>1. d \notin S /\ e \notin S
    BY AfterOne DEF DanceInv
  <2>2. /\ count'[d] = count[d] /\ finished'[d] = finished[d]
        /\ count'[e] = count[e] /\ finished'[e] = finished[e]
    BY <2>1, AfterOne DEF DanceInv
  <2> QED
    BY <2>2 DEF DanceInv, AtMostOneOpen
<1> QED
  BY <1>2, <1>3, <1>4 DEF DanceInv

LEMMA DanceDownInv ==
  ASSUME DanceInv, NEW d \in Dance, DanceDown(d) PROVE DanceInv'
<1>. DEFINE S == Interrupted(d)
            taps == CountAfter(S)[d] + 1
            done == SettledBy(d, taps)
<1>1. S \in SUBSET Dance
  BY DEF Interrupted
<1>. USE <1>1 DEF DanceInv
<1>2. /\ ~dance_pressed[d] /\ taps <= MAX_TAPS
      /\ count' = [CountAfter(S) EXCEPT ![d] = taps]
      /\ finished' = [FinishedAfter(S) EXCEPT ![d] = @ \/ done]
      /\ dance_pressed' = [dance_pressed EXCEPT ![d] = TRUE]
      /\ codes' = CodesAfter(S) \cup (IF done THEN CodeOf(d, taps) ELSE {})
      /\ layers' = IF done /\ d \in MOVE THEN {d} ELSE LayersAfter(S)
      /\ last_td' = d
  BY DEF DanceDown
<1>. HIDE DEF S
<1>3. \A e \in Dance : CountAfter(S)[e] \in 0 .. MAX_TAPS /\ FinishedAfter(S)[e] \in BOOLEAN
  BY AfterOne
<1>4. /\ CountAfter(S) = [e \in Dance |-> CountAfter(S)[e]]
      /\ FinishedAfter(S) = [e \in Dance |-> FinishedAfter(S)[e]]
  BY DEF CountAfter, FinishedAfter
<1>5. taps \in 1 .. MAX_TAPS
  BY <1>2, <1>3, TapDanceAssumption
<1>6. done <=> taps = 2 /\ d \in DOUBLE \cup MOVE
  BY DEF SettledBy
<1>7. ~FinishedAfter(S)[d]
  BY <1>2, AfterOne
<1>8. /\ count'[d] = taps /\ finished'[d] = done /\ dance_pressed'[d] = TRUE
      /\ \A e \in Dance \ {d} : /\ count'[e] = CountAfter(S)[e]
                                /\ finished'[e] = FinishedAfter(S)[e]
                                /\ dance_pressed'[e] = dance_pressed[e]
  <2>1. done \in BOOLEAN
    BY DEF SettledBy
  <2> QED
    BY <1>2, <1>4, <1>7, <2>1 DEF DanceTypeOK
<1>. HIDE DEF taps, done
<1>9. \A e \in Dance, n \in {1, 2} :
        <<e, n>> \in CodeOf(d, taps) <=> e = d /\ n = taps /\ (n = 1 \/ d \in DOUBLE)
  <2> SUFFICES ASSUME NEW e \in Dance, NEW n \in {1, 2}
               PROVE  <<e, n>> \in CodeOf(d, taps)
                        <=> e = d /\ n = taps /\ (n = 1 \/ d \in DOUBLE)
    OBVIOUS
  <2>1. CASE e = d
    BY <1>5, <2>1 DEF CodeOf
  <2>2. CASE e # d
    BY <1>5, <2>2 DEF CodeOf
  <2> QED
    BY <2>1, <2>2
<1>10. OneCode'
  <2> SUFFICES ASSUME NEW e \in Dance
               PROVE  /\ \A n \in {1, 2} :
                           <<e, n>> \in codes' <=> finished'[e] /\ HasCode(e, n)'
                      /\ finished'[e] => dance_pressed'[e] /\ count'[e] > 0
    BY DEF OneCode
  <2>1. CASE e = d
    <3>1. \A n \in {1, 2} : <<d, n>> \notin CodesAfter(S)
      BY <1>7, AfterOne
    <3> QED
      BY <1>2, <1>5, <1>6, <1>8, <1>9, <2>1, <3>1 DEF HasCode
  <2>2. CASE e # d
    <3>1. \A n \in {1, 2} : <<e, n>> \in codes' <=> <<e, n>> \in CodesAfter(S)
      BY <1>2, <1>9, <2>2
    <3> QED
      BY <1>8, <2>2, <3>1, AfterOne DEF HasCode
  <2> QED
    BY <2>1, <2>2
<1>11. AtMostOneOpen'
  <2>1. ASSUME NEW e \in Dance, e # d, count'[e] > 0 PROVE finished'[e]
    <3>1. e \in S
      BY <2>1 DEF S, Interrupted
    <3> QED
      BY <1>8, <2>1, <3>1, AfterOne
  <2> QED
    BY <2>1 DEF AtMostOneOpen
<1>12. DanceTypeOK'
  <2>1. count' \in [Dance -> 0 .. MAX_TAPS]
    BY <1>2, <1>3, <1>4, <1>5
  <2>2. finished' \in [Dance -> BOOLEAN]
    <3>1. done \in BOOLEAN
      BY DEF done, SettledBy
    <3> QED
      BY <1>2, <1>3, <1>4, <3>1
  <2>3. codes' \subseteq Dance \X {1, 2}
    <3>1. CodesAfter(S) \subseteq Dance \X {1, 2}
      BY DEF DanceTypeOK, CodesAfter, CodeOf, Finishes, Resets
    <3>2. CodeOf(d, taps) \subseteq Dance \X {1, 2}
      BY DEF CodeOf
    <3> QED
      BY <1>2, <3>1, <3>2
  <2>4. layers' \subseteq Dance
    BY <1>2 DEF DanceTypeOK, LayersAfter, Finishes
  <2>5. last_td' \in Dance \cup {NO_DANCE} /\ dance_pressed' \in [Dance -> BOOLEAN]
    BY <1>2 DEF DanceTypeOK
  <2> QED
    BY <2>1, <2>2, <2>3, <2>4, <2>5 DEF DanceTypeOK
<1> QED
  BY <1>10, <1>11, <1>12

LEMMA DanceUpInv ==
  ASSUME DanceInv, NEW d \in Dance, DanceUp(d) PROVE DanceInv'
<1>0. \A e \in Dance, n \in {1, 2} :
        <<e, n>> \in CodeOf(d, count[d]) <=> e = d /\ HasCode(e, n)
  <2>1. DanceTypeOK
    BY DEF DanceInv
  <2>2. \A e, f \in Dance, n \in {1, 2} :
          <<e, n>> \in CodeOf(f, count[f]) <=> e = f /\ HasCode(e, n)
    BY ONLY <2>1, CodeOfOne
  <2> QED
    BY ONLY <2>2, d \in Dance
<1>. USE DEF DanceInv
<1>1. /\ dance_pressed' = [dance_pressed EXCEPT ![d] = FALSE]
      /\ count \in [Dance -> 0 .. MAX_TAPS] /\ finished \in [Dance -> BOOLEAN]
      /\ layers' = layers
  BY DEF DanceUp, DanceTypeOK
<1>2. CASE EndsWhenReleased(d)
  <2>1. /\ codes' = codes \ CodeOf(d, count[d])
        /\ count' = [count EXCEPT ![d] = 0]
        /\ finished' = [finished EXCEPT ![d] = FALSE]
        /\ last_td' = NO_DANCE
    BY <1>2 DEF DanceUp, Unregisters
  <2>2. DanceTypeOK'
    BY <1>1, <2>1, TapDanceAssumption DEF DanceTypeOK
  <2>3. OneCode'
    <3> SUFFICES ASSUME NEW e \in Dance
                 PROVE  /\ \A n \in {1, 2} :
                             <<e, n>> \in codes' <=> finished'[e] /\ HasCode(e, n)'
                        /\ finished'[e] => dance_pressed'[e] /\ count'[e] > 0
      BY DEF OneCode
    <3>1. \A n \in {1, 2} : <<e, n>> \in CodeOf(d, count[d]) <=> e = d /\ HasCode(e, n)
      BY ONLY <1>0, e \in Dance
    <3>2. \A n \in {1, 2} :
            <<e, n>> \in codes' <=> <<e, n>> \in codes /\ ~(e = d /\ HasCode(e, n))
      BY ONLY <2>1, <3>1
    <3> QED
      BY <1>1, <2>1, <3>2 DEF OneCode, HasCode, DanceTypeOK
  <2>4. AtMostOneOpen'
    BY <1>1, <2>1 DEF AtMostOneOpen
  <2> QED
    BY <2>2, <2>3, <2>4
<1>3. CASE ~EndsWhenReleased(d)
  <2>1. UNCHANGED <<codes, count, finished, last_td>>
    BY <1>3 DEF DanceUp
  <2>2. DanceTypeOK' /\ AtMostOneOpen'
    BY <1>1, <2>1 DEF DanceTypeOK, AtMostOneOpen
  <2>3. OneCode'
    BY <1>1, <1>3, <2>1 DEF OneCode, HasCode, EndsWhenReleased, DanceTypeOK
  <2> QED
    BY <2>2, <2>3
<1> QED
  BY <1>2, <1>3

(* Both properties of the dances, and their types, follow from DanceInv.   *)
LEMMA DancesAreSettled ==
  DanceSpec => [](DanceTypeOK /\ CodeWhileHeld /\ AtMostOneOpen)
<1>1. DanceInit => DanceInv
  BY TapDanceAssumption
  DEF DanceInit, DanceInv, DanceTypeOK, OneCode, HasCode, AtMostOneOpen
<1>2. DanceInv /\ [DanceNext]_dance_vars => DanceInv'
  <2> SUFFICES ASSUME DanceInv, [DanceNext]_dance_vars PROVE DanceInv'
    OBVIOUS
  <2>1. CASE PlainKeyDown
    <3>1. Interrupted(NO_DANCE) \in SUBSET Dance
      BY DEF Interrupted
    <3> QED
      BY <2>1, <3>1, SettledInv DEF PlainKeyDown
  <2>2. ASSUME NEW S \in SUBSET Dance, matrix_scan_tap_dance(S) PROVE DanceInv'
    BY <2>2, SettledInv DEF matrix_scan_tap_dance
  <2>3. CASE UNCHANGED dance_vars
    BY <2>3 DEF dance_vars, DanceInv, DanceTypeOK, OneCode, HasCode, AtMostOneOpen
  <2> QED
    BY <2>1, <2>2, <2>3, DanceDownInv, DanceUpInv DEF DanceNext
<1>3. DanceInv => DanceTypeOK /\ CodeWhileHeld /\ AtMostOneOpen
  BY OneCodeIsCodeWhileHeld DEF DanceInv
<1> QED
  BY <1>1, <1>2, <1>3, PTL DEF DanceSpec

(* However taps, releases, other keys and timeouts follow each other, a    *)
(* dance's code is down exactly while the dance is finished                *)
(* (process_tap_dance, reset_tap_dance), for any number of dances.         *)
THEOREM DancesHoldTheirCodes == DanceSpec => []CodeWhileHeld
  BY DancesAreSettled, PTL

(* At most one dance is not settled: preprocess_tap_dance settles what a   *)
(* key interrupts, for any number of dances.                               *)
THEOREM OneDanceIsOpen == DanceSpec => []AtMostOneOpen
  BY DancesAreSettled, PTL

-----------------------------------------------------------------------------
(* Auto shift                                                              *)

(* InOrder, of the presses p.                                              *)
OrderedBy(p, s) ==
  \A i, j \in DOMAIN s :
    i < j => \/ s[i].press < s[j].press
             \/ p[s[i].press] = "KC_ASRP" /\ p[s[j].press] \in Letter

LEMMA AppendTyped ==
  ASSUME NEW s \in Seq(Typed), NEW e \in Typed
  PROVE  /\ Append(s, e) \in Seq(Typed)
         /\ PressesOf(Append(s, e)) = PressesOf(s) \cup {e.press}
<1>1. /\ Append(s, e) \in Seq(Typed)
      /\ DOMAIN s = 1 .. Len(s) /\ DOMAIN Append(s, e) = 1 .. Len(s) + 1 /\ Len(s) \in Nat
      /\ \A i \in 1 .. Len(s) : Append(s, e)[i] = s[i]
      /\ Append(s, e)[Len(s) + 1] = e
  OBVIOUS
<1>2. 1 .. Len(s) + 1 = 1 .. Len(s) \cup {Len(s) + 1}
  BY <1>1
<1> QED
  BY <1>1, <1>2 DEF PressesOf

(* What is appended is in order if each press before it comes first, or is *)
(* a report that goes past a letter.                                       *)
LEMMA AppendOrdered ==
  ASSUME NEW p, NEW s \in Seq(Typed), NEW e \in Typed, OrderedBy(p, s),
         \A n \in PressesOf(s) : n < e.press \/ (p[n] = "KC_ASRP" /\ p[e.press] \in Letter)
  PROVE  OrderedBy(p, Append(s, e))
<1>. DEFINE t == Append(s, e)
<1>1. /\ DOMAIN s = 1 .. Len(s) /\ DOMAIN t = 1 .. Len(s) + 1 /\ Len(s) \in Nat
      /\ \A i \in 1 .. Len(s) : t[i] = s[i]
      /\ t[Len(s) + 1] = e
  OBVIOUS
<1>. HIDE DEF t
<1>2. \A i \in 1 .. Len(s) : s[i].press \in PressesOf(s)
  BY <1>1 DEF PressesOf
<1>3. SUFFICES ASSUME NEW i \in DOMAIN t, NEW j \in DOMAIN t, i < j
               PROVE  \/ t[i].press < t[j].press
                      \/ p[t[i].press] = "KC_ASRP" /\ p[t[j].press] \in Letter
  BY DEF OrderedBy, t
<1>4. i \in 1 .. Len(s)
  BY <1>1, <1>3
<1>5. CASE j \in 1 .. Len(s)
  BY <1>1, <1>3, <1>4, <1>5 DEF OrderedBy
<1>6. CASE j = Len(s) + 1
  BY <1>1, <1>2, <1>4, <1>6
<1> QED
  BY <1>1, <1>3, <1>5, <1>6

(* A press that was not typed before changes nothing in what was.          *)
LEMMA OrderedAfterPress ==
  ASSUME NEW p \in Seq(ShiftedKey), NEW k, NEW s, PressesOf(s) \subseteq DOMAIN p, OrderedBy(p, s)
  PROVE  OrderedBy(Append(p, k), s)
<1>1. \A n \in DOMAIN p : Append(p, k)[n] = p[n]
  OBVIOUS
<1>2. \A i \in DOMAIN s : s[i].press \in DOMAIN p
  BY DEF PressesOf
<1> QED
  BY <1>1, <1>2 DEF OrderedBy

AutoShiftInv == AutoShiftTypeOK /\ TypedInOrder

LEMMA PressTypes ==
  ASSUME AutoShiftInv, NEW k \in ShiftedKey
  PROVE  /\ pressed \in Seq(ShiftedKey) /\ Len(pressed) \in Nat
         /\ DOMAIN pressed = 1 .. Len(pressed)
         /\ Append(pressed, k) \in Seq(ShiftedKey)
         /\ Len(Append(pressed, k)) = Len(pressed) + 1
         /\ DOMAIN Append(pressed, k) = DOMAIN pressed \cup {Len(pressed) + 1}
         /\ \A n \in DOMAIN pressed : Append(pressed, k)[n] = pressed[n]
         /\ Append(pressed, k)[Len(pressed) + 1] = k
         /\ ThisPress \in Typed /\ ThisPress.press = Len(pressed) + 1
<1>1. pressed \in Seq(ShiftedKey) /\ Len(pressed) \in Nat
  BY DEF AutoShiftInv, AutoShiftTypeOK
<1>2. /\ DOMAIN pressed = 1 .. Len(pressed)
      /\ Append(pressed, k) \in Seq(ShiftedKey)
      /\ Len(Append(pressed, k)) = Len(pressed) + 1
      /\ DOMAIN Append(pressed, k) = 1 .. Len(pressed) + 1
      /\ \A n \in DOMAIN pressed : Append(pressed, k)[n] = pressed[n]
      /\ Append(pressed, k)[Len(pressed) + 1] = k
  BY <1>1
<1>3. 1 .. Len(pressed) + 1 = 1 .. Len(pressed) \cup {Len(pressed) + 1}
  BY <1>1
<1>4. ThisPress \in Typed /\ ThisPress.press = Len(pressed) + 1
  <2>1. (SHIFT \in pushed) \in BOOLEAN /\ Len(pressed) + 1 \in Nat \ {0}
    BY <1>1
  <2> QED
    BY <2>1 DEF ThisPress, Typed
<1> QED
  BY <1>1, <1>2, <1>3, <1>4

(* Flushing types what was kept back: then all that was pressed is typed.  *)
LEMMA FlushedTypes ==
  ASSUME AutoShiftInv, NEW elapsed \in Elapsed
  PROVE  /\ Flushed(elapsed) \in Seq(Typed)
         /\ PressesOf(Flushed(elapsed)) = DOMAIN pressed
         /\ OrderedBy(pressed, Flushed(elapsed))
<1>1. /\ typed \in Seq(Typed) /\ PressesOf(typed) = DOMAIN pressed \ {autoshift_lastkey}
      /\ OrderedBy(pressed, typed) /\ autoshift_lastkey \in 0 .. Len(pressed)
      /\ Len(pressed) \in Nat /\ DOMAIN pressed = 1 .. Len(pressed)
  BY DEF AutoShiftInv, AutoShiftTypeOK, TypedInOrder, InOrder, OrderedBy
<1>2. CASE autoshift_lastkey = 0
  <2>1. Flushed(elapsed) = typed
    BY <1>2 DEF Flushed
  <2>2. DOMAIN pressed \ {autoshift_lastkey} = DOMAIN pressed
    BY <1>1, <1>2
  <2> QED
    BY <1>1, <2>1, <2>2
<1>3. CASE autoshift_lastkey # 0
  <2>. DEFINE e == [press   |-> autoshift_lastkey,
                    shifted |-> elapsed > autoshift_timeout \/ SHIFT \in pushed]
  <2>1. e \in Typed /\ e.press = autoshift_lastkey
    <3>1. (elapsed > autoshift_timeout \/ SHIFT \in pushed) \in BOOLEAN
      BY Zenon
    <3> QED
      BY <1>1, <1>3, <3>1 DEF Typed
  <2>2. Flushed(elapsed) = Append(typed, e)
    BY <1>3 DEF Flushed
  <2>. HIDE DEF e
  <2>3. /\ Append(typed, e) \in Seq(Typed)
        /\ PressesOf(Append(typed, e)) = PressesOf(typed) \cup {autoshift_lastkey}
    BY <1>1, <2>1, AppendTyped
  <2>4. \A n \in PressesOf(typed) :
          n < e.press \/ (pressed[n] = "KC_ASRP" /\ pressed[e.press] \in Letter)
    BY <1>1, <1>3, <2>1 DEF AutoShiftInv, TypedInOrder
  <2>5. OrderedBy(pressed, Append(typed, e))
    BY <1>1, <2>1, <2>4, AppendOrdered
  <2> QED
    BY <1>1, <1>3, <2>2, <2>3, <2>5
<1> QED
  BY <1>2, <1>3

(* The two conjuncts of TypedInOrder about what was typed.                 *)
LEMMA OrderIs == InOrder(typed)' <=> OrderedBy(pressed', typed')
BY DEF InOrder, OrderedBy

LEMMA FlushInv ==
  ASSUME AutoShiftInv, NEW elapsed \in Elapsed, autoshift_flush(elapsed),
         autoshift_enabled' \in BOOLEAN, autoshift_timeout' \in 0 .. MAX_TIME,
         pushed' \subseteq ShiftedKey, pressed' = pressed
  PROVE  AutoShiftInv'
<1>1. /\ typed' = Flushed(elapsed) /\ autoshift_lastkey' = 0
      /\ typed' \in Seq(Typed) /\ PressesOf(typed') = DOMAIN pressed
      /\ OrderedBy(pressed, typed')
  BY FlushedTypes DEF autoshift_flush
<1>2. pressed \in Seq(ShiftedKey) /\ Len(pressed) \in Nat /\ DOMAIN pressed = 1 .. Len(pressed)
  BY DEF AutoShiftInv, AutoShiftTypeOK
<1>3. AutoShiftTypeOK'
  BY <1>1, <1>2 DEF AutoShiftTypeOK
<1>4. PressesOf(typed') = DOMAIN pressed' \ {autoshift_lastkey'}
  BY <1>1, <1>2
<1>5. InOrder(typed)'
  BY <1>1, OrderIs
<1> QED
  BY <1>1, <1>3, <1>4, <1>5 DEF AutoShiftInv, TypedInOrder, PressesOf

(* A key that is typed at once, after what was kept back.                  *)
LEMMA TypedAtOnceInv ==
  ASSUME AutoShiftInv, NEW elapsed \in Elapsed, NEW k \in ShiftedKey, Types(k),
         typed' = Append(Flushed(elapsed), ThisPress), autoshift_lastkey' = 0,
         UNCHANGED <<autoshift_enabled, autoshift_timeout>>
  PROVE  AutoShiftInv'
<1>1. pressed' = Append(pressed, k) /\ pushed' = pushed \cup {k}
  BY DEF Types, Pushes
<1>2. /\ Flushed(elapsed) \in Seq(Typed) /\ PressesOf(Flushed(elapsed)) = DOMAIN pressed
      /\ OrderedBy(pressed, Flushed(elapsed))
  BY FlushedTypes
<1>3. /\ typed' \in Seq(Typed)
      /\ PressesOf(typed') = DOMAIN pressed \cup {Len(pressed) + 1}
  BY <1>2, PressTypes, AppendTyped
<1>4. OrderedBy(pressed', Flushed(elapsed))
  BY <1>1, <1>2, PressTypes, OrderedAfterPress
<1>5. \A n \in PressesOf(Flushed(elapsed)) : n < ThisPress.press
  BY <1>2, PressTypes
<1>6. OrderedBy(pressed', typed')
  BY <1>2, <1>4, <1>5, PressTypes, AppendOrdered
<1>7. AutoShiftTypeOK'
  BY <1>1, <1>3, PressTypes DEF AutoShiftInv, AutoShiftTypeOK
<1>8. PressesOf(typed') = DOMAIN pressed' \ {autoshift_lastkey'}
  BY <1>1, <1>3, PressTypes
<1>9. InOrder(typed)'
  BY <1>6, OrderIs
<1> QED
  BY <1>7, <1>8, <1>9 DEF AutoShiftInv, TypedInOrder, PressesOf

(* A letter that is kept back, after the one before it was typed.          *)
LEMMA KeptBackInv ==
  ASSUME AutoShiftInv, NEW elapsed \in Elapsed, NEW k \in Letter, Types(k), SHIFT \notin pushed,
         typed' = Flushed(elapsed), autoshift_lastkey' = Len(pressed) + 1,
         UNCHANGED <<autoshift_enabled, autoshift_timeout>>
  PROVE  AutoShiftInv'
<1>1. pressed' = Append(pressed, k) /\ pushed' = pushed \cup {k} /\ k \in ShiftedKey
  BY DEF Types, Pushes, ShiftedKey
<1>2. /\ typed' \in Seq(Typed) /\ PressesOf(typed') = DOMAIN pressed
      /\ OrderedBy(pressed, typed')
  BY FlushedTypes
<1>3. OrderedBy(pressed', typed')
  BY <1>1, <1>2, PressTypes, OrderedAfterPress
<1>4. AutoShiftTypeOK'
  BY <1>1, <1>2, PressTypes DEF AutoShiftInv, AutoShiftTypeOK
<1>5. PressesOf(typed') = DOMAIN pressed' \ {autoshift_lastkey'}
  <2>1. /\ DOMAIN pressed' = DOMAIN pressed \cup {Len(pressed) + 1}
        /\ Len(pressed) + 1 \notin DOMAIN pressed
    BY <1>1, PressTypes
  <2>2. autoshift_lastkey' = Len(pressed) + 1
    OBVIOUS
  <2> QED
    BY <1>2, <2>1, <2>2
<1>6. InOrder(typed)'
  BY <1>3, OrderIs
<1>7. k # SHIFT /\ pressed'[autoshift_lastkey'] = k
  BY <1>1, PressTypes, AutoShiftAssumption
<1>8. \A n \in DOMAIN pressed' : ~ (n > autoshift_lastkey')
  BY <1>1, PressTypes
<1> QED
  BY <1>1, <1>4, <1>5, <1>6, <1>7, <1>8 DEF AutoShiftInv, TypedInOrder, PressesOf

(* A report goes past the letter that is kept back, and past no other key. *)
LEMMA ReportInv ==
  ASSUME AutoShiftInv, NEW k, autoshift_timer_report(k)
  PROVE  AutoShiftInv'
<1>1. /\ k = "KC_ASRP" /\ k \in ShiftedKey /\ k # SHIFT
      /\ pressed' = Append(pressed, k) /\ pushed' = pushed \cup {k}
      /\ typed' = Append(typed, ThisPress)
      /\ UNCHANGED <<autoshift_enabled, autoshift_timeout, autoshift_lastkey>>
  BY AutoShiftAssumption DEF autoshift_timer_report, Types, Pushes, ShiftedKey, SetupKey
<1>2. /\ typed \in Seq(Typed) /\ PressesOf(typed) = DOMAIN pressed \ {autoshift_lastkey}
      /\ OrderedBy(pressed, typed) /\ autoshift_lastkey \in 0 .. Len(pressed)
  BY DEF AutoShiftInv, AutoShiftTypeOK, TypedInOrder, InOrder, OrderedBy
<1>3. /\ typed' \in Seq(Typed)
      /\ PressesOf(typed') = PressesOf(typed) \cup {Len(pressed) + 1}
  BY <1>1, <1>2, PressTypes, AppendTyped
<1>4. OrderedBy(pressed', typed)
  BY <1>1, <1>2, PressTypes, OrderedAfterPress
<1>5. \A n \in PressesOf(typed) : n < ThisPress.press
  BY <1>1, <1>2, PressTypes
<1>6. OrderedBy(pressed', typed')
  BY <1>1, <1>2, <1>4, <1>5, PressTypes, AppendOrdered
<1>7. AutoShiftTypeOK'
  BY <1>1, <1>2, <1>3, PressTypes DEF AutoShiftInv, AutoShiftTypeOK
<1>8. PressesOf(typed') = DOMAIN pressed' \ {autoshift_lastkey'}
  BY <1>1, <1>2, <1>3, PressTypes
<1>9. InOrder(typed)'
  BY <1>6, OrderIs
<1>10. ASSUME autoshift_lastkey' # 0
       PROVE  /\ pressed'[autoshift_lastkey'] \in Letter \cap pushed' /\ SHIFT \notin pushed'
              /\ \A n \in DOMAIN pressed' : n > autoshift_lastkey' => pressed'[n] = "KC_ASRP"
  BY <1>1, <1>2, <1>10, PressTypes DEF AutoShiftInv, TypedInOrder
<1> QED
  BY <1>7, <1>8, <1>9, <1>10 DEF AutoShiftInv, TypedInOrder, PressesOf

(* A key that types nothing, is no modifier and leaves the letter alone.   *)
LEMMA SetupInv ==
  ASSUME AutoShiftInv, NEW k \in SetupKey, Pushes(k), autoshift_enabled' \in BOOLEAN,
         autoshift_timeout' \in 0 .. MAX_TIME, UNCHANGED <<autoshift_lastkey, pressed, typed>>
  PROVE  AutoShiftInv'
<1>1. pushed' = pushed \cup {k} /\ k \in ShiftedKey /\ k # SHIFT
  BY AutoShiftAssumption DEF Pushes, ShiftedKey
<1>2. AutoShiftTypeOK'
  BY <1>1 DEF AutoShiftInv, AutoShiftTypeOK
<1>3. InOrder(typed)'
  BY OrderIs DEF AutoShiftInv, TypedInOrder, InOrder, OrderedBy
<1> QED
  BY <1>1, <1>2, <1>3 DEF AutoShiftInv, TypedInOrder, PressesOf

(* The timeout wraps with its 16 bits.                                     *)
LEMMA TimeoutWraps ==
  ASSUME NEW t \in Int
  PROVE  t % (MAX_TIME + 1) \in 0 .. MAX_TIME
<1>1. MAX_TIME + 1 \in Nat \ {0} /\ MAX_TIME \in Nat
  BY AutoShiftAssumption
<1>2. ASSUME NEW m \in Nat \ {0} PROVE t % m \in 0 .. m - 1
  OBVIOUS
<1> QED
  BY <1>1, <1>2

(* Auto shift keeps its types and the order together: AutoShiftInv is      *)
(* inductive.                                                              *)
LEMMA AutoShiftIsTyped == AutoShiftSpec => [](AutoShiftTypeOK /\ TypedInOrder)
<1>1. AutoShiftInit => AutoShiftInv
  <2> SUFFICES ASSUME AutoShiftInit PROVE AutoShiftInv
    OBVIOUS
  <2>. USE DEF AutoShiftInit
  <2>1. AutoShiftTypeOK
    BY AutoShiftAssumption DEF AutoShiftTypeOK
  <2>2. TypedInOrder
    BY DEF TypedInOrder, InOrder, PressesOf
  <2> QED
    BY <2>1, <2>2 DEF AutoShiftInv
<1>2. AutoShiftInv /\ [AutoShiftNext]_autoshift_vars => AutoShiftInv'
  <2> SUFFICES ASSUME AutoShiftInv, [AutoShiftNext]_autoshift_vars PROVE AutoShiftInv'
    OBVIOUS
  <2>. /\ autoshift_enabled \in BOOLEAN /\ autoshift_timeout \in 0 .. MAX_TIME
       /\ MAX_TIME \in Nat /\ pushed \subseteq ShiftedKey
       /\ Letter \subseteq ShiftedKey /\ OtherKey \subseteq ShiftedKey
       /\ SetupKey \subseteq ShiftedKey
    BY AutoShiftAssumption DEF AutoShiftInv, AutoShiftTypeOK, ShiftedKey
  <2>1. ASSUME NEW elapsed \in Elapsed, NEW k \in Letter, LetterDown(k, elapsed)
        PROVE  AutoShiftInv'
    <3>1. CASE autoshift_enabled /\ SHIFT \notin pushed
      BY <2>1, <3>1, KeptBackInv DEF LetterDown
    <3>2. CASE ~(autoshift_enabled /\ SHIFT \notin pushed)
      BY <2>1, <3>2, TypedAtOnceInv DEF LetterDown
    <3> QED
      BY <3>1, <3>2
  <2>2. ASSUME NEW elapsed \in Elapsed, NEW k \in OtherKey, OtherDown(k, elapsed)
        PROVE  AutoShiftInv'
    BY <2>2, TypedAtOnceInv DEF OtherDown, OtherKeyTyped
  <2>3. ASSUME NEW elapsed \in Elapsed, NEW k \in ShiftedKey, AnyKeyUp(k, elapsed)
        PROVE  AutoShiftInv'
    <3>1. /\ autoshift_enabled' \in BOOLEAN /\ autoshift_timeout' \in 0 .. MAX_TIME
          /\ pushed' \subseteq ShiftedKey /\ pressed' = pressed /\ autoshift_flush(elapsed)
      BY <2>3 DEF AnyKeyUp
    <3> QED
      BY <3>1, FlushInv
  <2>4. ASSUME NEW elapsed \in Elapsed, NEW k \in SetupKey, autoshift_disable(k, elapsed)
        PROVE  AutoShiftInv'
    <3>1. /\ autoshift_enabled' \in BOOLEAN /\ autoshift_timeout' \in 0 .. MAX_TIME
          /\ pushed' \subseteq ShiftedKey /\ pressed' = pressed /\ autoshift_flush(elapsed)
      BY <2>4 DEF autoshift_disable, Pushes
    <3> QED
      BY <3>1, FlushInv
  <2>5. ASSUME NEW k \in SetupKey, autoshift_enable(k) PROVE AutoShiftInv'
    BY <2>5, SetupInv DEF autoshift_enable
  <2>6. ASSUME NEW k \in SetupKey, TimeoutChanged(k) PROVE AutoShiftInv'
    <3>1. autoshift_timeout + 5 \in Int /\ autoshift_timeout - 5 \in Int
      OBVIOUS
    <3>2. autoshift_timeout' \in 0 .. MAX_TIME
      BY <2>6, <3>1, TimeoutWraps, Zenon DEF TimeoutChanged
    <3> QED
      BY <2>6, <3>2, SetupInv DEF TimeoutChanged
  <2>7. ASSUME NEW k \in SetupKey, autoshift_timer_report(k) PROVE AutoShiftInv'
    BY <2>7, ReportInv
  <2>8. CASE UNCHANGED autoshift_vars
    BY <2>8 DEF autoshift_vars, AutoShiftInv, AutoShiftTypeOK, TypedInOrder, InOrder, PressesOf
  <2> QED
    BY <2>1, <2>2, <2>3, <2>4, <2>5, <2>6, <2>7, <2>8 DEF AutoShiftNext
<1> QED
  BY <1>1, <1>2, PTL DEF AutoShiftSpec, AutoShiftInv

(* Every press is typed once and in order, but for one letter that is      *)
(* still held and for the reports of KC_ASRP, which alone go past a letter *)
(* (process_auto_shift), for any letters and any number of presses.        *)
THEOREM AutoShiftKeepsTheOrder == AutoShiftSpec => []TypedInOrder
  BY AutoShiftIsTyped, PTL

-----------------------------------------------------------------------------
(* Combos                                                                  *)

(* The buffer holds a key once.                                            *)
Once == \A i, j \in DOMAIN key_buffer : key_buffer[i] = key_buffer[j] => i = j

(* A key that is kept back is in no complete combo: completing it would    *)
(* have dropped the key.                                                   *)
KeptBackIsIncomplete ==
  \A c \in Combo : \A k \in Buffered \cap KeysOf[c] : combo_state[c] # KeysOf[c]

(* Combos are active only if they are on, and then what is down for the    *)
(* host and in the state of a combo was typed from the buffer.             *)
ActiveKeysAreReplayed ==
  is_active =>
    /\ b_combo_enable
    /\ \A c \in Combo : combo_state[c] \cap up_to_host \subseteq replayed

(* The state of a combo is about its held keys, unless it is stale.        *)
StateIsHeld ==
  /\ \A c \in Combo : combo_state[c] \subseteq KeysOf[c]
  /\ ~stale => \A c \in Combo :
       /\ combo_state[c] \subseteq keys_down
       /\ c \in combos_down => combo_state[c] = KeysOf[c]
       /\ b_combo_enable \/ combo_state[c] = {}

(* What became of a press is known while its key is held.                  *)
FateOfHeld == used \cup dropped \cup lost \subseteq keys_down

ComboInv ==
  /\ ComboTypeOK /\ Once /\ FateOfHeld
  /\ NoPressLost /\ KeysComeUp
  /\ KeptBackIsIncomplete /\ ActiveKeysAreReplayed /\ StateIsHeld

-----------------------------------------------------------------------------
(* Appending a key to a buffer that holds no key twice leaves it so.       *)
LEMMA BufferAppend ==
  ASSUME ComboTypeOK, Once, NEW k \in ComboKey, k \notin Buffered
  PROVE  /\ Append(key_buffer, k) \in Seq(ComboKey)
         /\ Len(Append(key_buffer, k)) = Len(key_buffer) + 1
         /\ {Append(key_buffer, k)[i] : i \in DOMAIN Append(key_buffer, k)}
              = Buffered \cup {k}
         /\ \A i, j \in DOMAIN Append(key_buffer, k) :
              Append(key_buffer, k)[i] = Append(key_buffer, k)[j] => i = j
<1>. DEFINE n == Len(key_buffer)
            f == Append(key_buffer, k)
<1>1. /\ key_buffer \in Seq(ComboKey) /\ n \in Nat
      /\ f \in Seq(ComboKey) /\ Len(f) = n + 1
      /\ DOMAIN f = 1 .. n + 1 /\ DOMAIN key_buffer = 1 .. n
      /\ \A i \in 1 .. n : f[i] = key_buffer[i]
      /\ f[n + 1] = k
  BY DEF ComboTypeOK
<1>. HIDE DEF f, n
<1>2. \A i \in 1 .. n : key_buffer[i] \in Buffered
  BY <1>1 DEF Buffered
<1>3. \A i, j \in 1 .. n + 1 : f[i] = f[j] => i = j
  <2> SUFFICES ASSUME NEW i \in 1 .. n + 1, NEW j \in 1 .. n + 1, f[i] = f[j]
               PROVE  i = j
    OBVIOUS
  <2>1. CASE i \in 1 .. n /\ j \in 1 .. n
    BY <1>1, <2>1 DEF Once
  <2>2. CASE i = n + 1 /\ j \in 1 .. n
    BY <1>1, <1>2, <2>2
  <2>3. CASE i \in 1 .. n /\ j = n + 1
    BY <1>1, <1>2, <2>3
  <2> QED
    BY <1>1, <2>1, <2>2, <2>3
<1>4. {f[i] : i \in DOMAIN f} = Buffered \cup {k}
  BY <1>1 DEF Buffered
<1> QED
  BY <1>1, <1>3, <1>4 DEF f, n

(* If there are not more combo keys than cells, a buffer that holds no key *)
(* twice has room for one that it does not hold.                           *)
LEMMA BufferHasRoom ==
  ASSUME ComboTypeOK, Once, NEW k \in ComboKey, k \notin Buffered,
         IsFiniteSet(ComboKey), Cardinality(ComboKey) <= MAX_COMBO_LENGTH
  PROVE  BufferRoom
<1>. DEFINE n == Len(key_buffer)
            f == Append(key_buffer, k)
<1>1. /\ f \in Seq(ComboKey) /\ n \in Nat /\ Len(f) = n + 1 /\ DOMAIN f = 1 .. n + 1
      /\ \A i, j \in DOMAIN f : f[i] = f[j] => i = j
  BY BufferAppend DEF ComboTypeOK
<1>. HIDE DEF f
<1>2. IsFiniteSet(1 .. n + 1) /\ Cardinality(1 .. n + 1) = n + 1
  BY <1>1, FS_Interval
<1>3. Cardinality(ComboKey) \in Nat
  BY FS_CardinalityType
<1>4. f \in [1 .. n + 1 -> ComboKey]
  BY <1>1
<1>5. ~ Cardinality(ComboKey) < n + 1
  <2> SUFFICES ASSUME Cardinality(ComboKey) < n + 1 PROVE FALSE
    OBVIOUS
  <2>1. Cardinality(ComboKey) < Cardinality(1 .. n + 1)
    BY <1>2
  <2>2. \E i, j \in 1 .. n + 1 : i # j /\ f[i] = f[j]
    BY <1>2, <1>3, <1>4, <2>1, FS_PigeonHole
  <2> QED
    BY <1>1, <2>2
<1> QED
  BY <1>1, <1>3, <1>5, ComboAssumption DEF BufferRoom

LEMMA EmptyBuffer ==
  ASSUME key_buffer = <<>> PROVE Buffered = {} /\ Once /\ KeptBackIsIncomplete
BY DEF Buffered, Once, KeptBackIsIncomplete

LEMMA BufferedKeys == ComboTypeOK => Buffered \subseteq ComboKey
BY DEF ComboTypeOK, Buffered

(* The state with a key, and without it.                                   *)
LEMMA StateWithKey ==
  ASSUME ComboTypeOK, StateIsHeld, NEW k
  PROVE  /\ StateWith(k) \in [Combo -> SUBSET ComboKey]
         /\ \A c \in Combo :
              /\ StateWith(k)[c] \subseteq combo_state[c] \cup {k}
              /\ StateWith(k)[c] \subseteq KeysOf[c]
              /\ k \notin KeysOf[c] => StateWith(k)[c] = combo_state[c]
              /\ combo_state[c] = KeysOf[c] => StateWith(k)[c] = KeysOf[c]
<1>1. \A c \in Combo : combo_state[c] \subseteq KeysOf[c] /\ KeysOf[c] \subseteq ComboKey
  BY ComboAssumption DEF StateIsHeld
<1>2. \A c \in Combo :
        StateWith(k)[c] = IF k \in KeysOf[c] THEN combo_state[c] \cup {k} ELSE combo_state[c]
  BY DEF StateWith
<1>3. ASSUME NEW c \in Combo
      PROVE  /\ StateWith(k)[c] \subseteq combo_state[c] \cup {k}
             /\ StateWith(k)[c] \subseteq KeysOf[c]
             /\ k \notin KeysOf[c] => StateWith(k)[c] = combo_state[c]
             /\ combo_state[c] = KeysOf[c] => StateWith(k)[c] = KeysOf[c]
  <2>1. CASE k \in KeysOf[c]
    BY <1>1, <1>2, <2>1
  <2>2. CASE k \notin KeysOf[c]
    BY <1>1, <1>2, <2>2
  <2> QED
    BY <2>1, <2>2
<1>4. StateWith(k) \in [Combo -> SUBSET ComboKey]
  <2>1. StateWith(k) = [c \in Combo |-> StateWith(k)[c]]
    BY DEF StateWith
  <2>2. \A c \in Combo : StateWith(k)[c] \in SUBSET ComboKey
    BY <1>1, <1>3
  <2> QED
    BY <2>1, <2>2
<1> QED
  BY <1>3, <1>4

LEMMA StateWithoutKey ==
  ASSUME ComboTypeOK, StateIsHeld, NEW k
  PROVE  /\ StateWithout(k) \in [Combo -> SUBSET ComboKey]
         /\ \A c \in Combo : StateWithout(k)[c] = combo_state[c] \ {k}
<1>1. \A c \in Combo : StateWithout(k)[c] = combo_state[c] \ {k}
  BY DEF StateWithout, StateIsHeld
<1>2. StateWithout(k) = [c \in Combo |-> StateWithout(k)[c]]
  BY DEF StateWithout
<1> QED
  BY <1>1, <1>2 DEF ComboTypeOK

-----------------------------------------------------------------------------
(* One lemma for each action.                                              *)
LEMMA KeyTypedInv ==
  ASSUME ComboInv, NEW k \in ComboKey \cup PlainKey, KeyTyped(k) PROVE ComboInv'
<1>. USE DEF ComboInv
<1>1. /\ keys_down' = keys_down \cup {k} /\ k \notin keys_down
      /\ b_combo_enable /\ b_combo_enable' = b_combo_enable
      /\ ~(is_active /\ IsComboKey(k))
      /\ combo_state' = StateWith(k)
      /\ up_to_host' = up_to_host \cup Buffered \cup {k}
      /\ key_buffer' = <<>>
      /\ replayed' = IF is_active THEN replayed \cup Buffered ELSE replayed
      /\ UNCHANGED <<combos_down, used, dropped, lost, stale>>
  BY DEF KeyTyped, Pressed
<1>2. /\ combo_timer' \in BOOLEAN /\ is_active' \in BOOLEAN
      /\ is_active' => is_active \/ \A c \in Combo : combo_state'[c] = {}
  BY DEF KeyTyped, ComboTypeOK
<1>3. Buffered' = {} /\ Once' /\ KeptBackIsIncomplete'
  BY <1>1 DEF Buffered, Once, KeptBackIsIncomplete
<1>4. ComboTypeOK'
  BY <1>1, <1>2, BufferedKeys, StateWithKey, ComboAssumption DEF ComboTypeOK
<1>5. NoPressLost' /\ KeysComeUp' /\ FateOfHeld'
  BY <1>1, <1>3 DEF NoPressLost, KeysComeUp, FateOfHeld
<1>6. ActiveKeysAreReplayed'
  <2> SUFFICES ASSUME is_active', NEW c \in Combo, NEW j \in combo_state'[c],
                      j \in up_to_host'
               PROVE  j \in replayed'
    BY <1>1 DEF ActiveKeysAreReplayed
  <2>1. is_active /\ k \notin KeysOf[c]
    BY <1>1, <1>2 DEF IsComboKey
  <2>2. j \in combo_state[c] /\ j # k
    BY <1>1, <2>1, StateWithKey DEF StateIsHeld
  <2> QED
    BY <1>1, <2>1, <2>2 DEF ActiveKeysAreReplayed
<1>7. StateIsHeld'
  BY <1>1, StateWithKey DEF StateIsHeld
<1> QED
  BY <1>3, <1>4, <1>5, <1>6, <1>7

LEMMA KeyKeptBackInv ==
  ASSUME ComboInv, NEW k \in ComboKey \cup PlainKey, KeyKeptBack(k) PROVE ComboInv'
<1>. USE DEF ComboInv
<1>1. /\ keys_down' = keys_down \cup {k} /\ k \notin keys_down
      /\ b_combo_enable /\ is_active /\ combo_timer' \in BOOLEAN
      /\ IsComboKey(k) /\ Completed(k) = {}
      /\ combo_state' = StateWith(k)
      /\ \/ BufferRoom /\ key_buffer' = Append(key_buffer, k) /\ lost' = lost
         \/ key_buffer' = key_buffer /\ lost' = lost \cup {k}
      /\ UNCHANGED <<b_combo_enable, is_active, up_to_host, combos_down, used, dropped,
                     replayed, stale>>
  BY DEF KeyKeptBack, Pressed, TimerStarts
<1>2. k \in ComboKey /\ k \notin Buffered /\ k \notin used \cup dropped \cup lost
  BY <1>1, ComboAssumption DEF IsComboKey, NoPressLost, FateOfHeld
<1>3. /\ key_buffer' \in Seq(ComboKey) /\ Len(key_buffer') <= MAX_COMBO_LENGTH /\ Once'
      /\ \/ Buffered' = Buffered \cup {k} /\ lost' = lost
         \/ Buffered' = Buffered /\ lost' = lost \cup {k}
  <2>1. CASE BufferRoom /\ key_buffer' = Append(key_buffer, k) /\ lost' = lost
    <3>1. Len(key_buffer) \in Nat
      BY DEF ComboTypeOK
    <3> QED
      BY <1>2, <2>1, <3>1, BufferAppend, ComboAssumption DEF Buffered, Once, BufferRoom
  <2>2. CASE key_buffer' = key_buffer /\ lost' = lost \cup {k}
    BY <2>2 DEF Buffered, Once, ComboTypeOK
  <2> QED
    BY <1>1, <2>1, <2>2
<1>4. ComboTypeOK'
  BY <1>1, <1>2, <1>3, StateWithKey DEF ComboTypeOK
<1>5. NoPressLost' /\ KeysComeUp' /\ FateOfHeld'
  <2>1. k \notin up_to_host \ replayed
    BY <1>1 DEF KeysComeUp
  <2>2. KeysComeUp' /\ FateOfHeld'
    BY <1>1, <1>3 DEF KeysComeUp, FateOfHeld
  <2>3. CASE Buffered' = Buffered \cup {k} /\ lost' = lost
    BY <1>1, <1>2, <2>1, <2>2, <2>3 DEF NoPressLost
  <2>4. CASE Buffered' = Buffered /\ lost' = lost \cup {k}
    BY <1>1, <1>2, <2>2, <2>4 DEF NoPressLost
  <2> QED
    BY <1>3, <2>3, <2>4, <2>2
<1>6. ActiveKeysAreReplayed'
  BY <1>1, StateWithKey DEF ActiveKeysAreReplayed, KeysComeUp
<1>7. KeptBackIsIncomplete'
  <2> SUFFICES ASSUME NEW c \in Combo, NEW j \in Buffered', j \in KeysOf[c]
               PROVE  combo_state'[c] # KeysOf[c]
    BY DEF KeptBackIsIncomplete
  <2>1. CASE k \in KeysOf[c]
    BY <1>1, <2>1 DEF Completed
  <2>2. CASE k \notin KeysOf[c]
    BY <1>1, <1>3, <2>2, StateWithKey DEF KeptBackIsIncomplete
  <2> QED
    BY <2>1, <2>2
<1>8. StateIsHeld'
  BY <1>1, StateWithKey DEF StateIsHeld
<1> QED
  BY <1>3, <1>4, <1>5, <1>6, <1>7, <1>8

LEMMA ComboPressedInv ==
  ASSUME ComboInv, NEW k \in ComboKey \cup PlainKey, ComboPressed(k) PROVE ComboInv'
<1>. USE DEF ComboInv
<1>. DEFINE theirs == UNION {KeysOf[c] : c \in Completed(k)}
<1>1. /\ keys_down' = keys_down \cup {k} /\ k \notin keys_down
      /\ b_combo_enable /\ Completed(k) # {} /\ combo_timer' \in BOOLEAN
      /\ combo_state' = StateWith(k)
      /\ combos_down' = combos_down \cup Completed(k)
      /\ key_buffer' = <<>> /\ up_to_host' = up_to_host
      /\ used' = used \cup (theirs \cap keys_down')
      /\ dropped' = (dropped \cup Buffered) \ theirs
      /\ lost' = lost \ theirs
      /\ UNCHANGED <<b_combo_enable, is_active, replayed, stale>>
  BY DEF ComboPressed, Pressed, BufferDropped, TimerStarts
<1>2. /\ k \in ComboKey /\ k \in theirs /\ theirs \subseteq ComboKey
      /\ is_active /\ Completed(k) \subseteq Combo
  BY <1>1, ComboAssumption DEF Completed
<1>. HIDE DEF theirs
<1>3. Buffered' = {} /\ Once' /\ KeptBackIsIncomplete'
  BY <1>1 DEF Buffered, Once, KeptBackIsIncomplete
<1>4. ComboTypeOK'
  BY <1>1, <1>2, BufferedKeys, StateWithKey, ComboAssumption DEF ComboTypeOK
<1>5. NoPressLost' /\ KeysComeUp' /\ FateOfHeld'
  <2>1. Buffered \subseteq keys_down
    BY DEF NoPressLost
  <2> QED
    BY <1>1, <1>2, <1>3, <2>1 DEF NoPressLost, KeysComeUp, FateOfHeld
<1>6. ActiveKeysAreReplayed'
  BY <1>1, StateWithKey DEF ActiveKeysAreReplayed, KeysComeUp
<1>7. StateIsHeld'
  BY <1>1, StateWithKey DEF StateIsHeld, Completed
<1> QED
  BY <1>3, <1>4, <1>5, <1>6, <1>7

LEMMA ReleaseClaimedInv ==
  ASSUME ComboInv, NEW k \in ComboKey \cup PlainKey, ReleaseClaimed(k) PROVE ComboInv'
<1>. USE DEF ComboInv
<1>1. /\ k \in keys_down /\ keys_down' = keys_down \ {k} /\ used' = used \ {k}
      /\ dropped' = dropped \ {k} /\ lost' = lost \ {k}
      /\ b_combo_enable /\ is_active /\ Over(k) # {}
      /\ combo_state' = StateWithout(k)
      /\ combos_down' = combos_down \ Over(k)
      /\ UNCHANGED <<b_combo_enable, is_active, combo_timer, key_buffer, up_to_host,
                     replayed, stale>>
  BY DEF ReleaseClaimed, Released
<1>2. /\ k \notin Buffered
      /\ k \in up_to_host => k \in replayed
  <2>1. PICK c \in Combo : k \in KeysOf[c] /\ combo_state[c] = KeysOf[c]
    BY <1>1 DEF Over
  <2> QED
    BY <1>1, <2>1 DEF KeptBackIsIncomplete, ActiveKeysAreReplayed
<1>3. Buffered' = Buffered /\ Once'
  BY <1>1 DEF Buffered, Once
<1>4. ComboTypeOK'
  BY <1>1, StateWithoutKey DEF ComboTypeOK
<1>5. NoPressLost' /\ KeysComeUp' /\ FateOfHeld'
  BY <1>1, <1>2, <1>3 DEF NoPressLost, KeysComeUp, FateOfHeld
<1>6. ActiveKeysAreReplayed'
  BY <1>1, StateWithoutKey DEF ActiveKeysAreReplayed
<1>7. KeptBackIsIncomplete'
  <2> SUFFICES ASSUME NEW c \in Combo, NEW j \in Buffered, j \in KeysOf[c]
               PROVE  combo_state'[c] # KeysOf[c]
    BY <1>3 DEF KeptBackIsIncomplete
  <2>1. combo_state[c] # KeysOf[c] /\ combo_state[c] \subseteq KeysOf[c]
    BY DEF KeptBackIsIncomplete, StateIsHeld
  <2>2. combo_state'[c] = combo_state[c] \ {k}
    BY <1>1, StateWithoutKey
  <2> QED
    BY <2>1, <2>2
<1>8. StateIsHeld'
  <2> SUFFICES ASSUME NEW c \in Combo
               PROVE  /\ combo_state'[c] \subseteq KeysOf[c]
                      /\ ~stale => /\ combo_state'[c] \subseteq keys_down'
                                   /\ c \in combos_down' => combo_state'[c] = KeysOf[c]
    BY <1>1 DEF StateIsHeld
  <2>1. combo_state'[c] = combo_state[c] \ {k} /\ combo_state[c] \subseteq KeysOf[c]
    BY <1>1, StateWithoutKey DEF StateIsHeld
  <2>2. ASSUME ~stale, c \in combos_down' PROVE combo_state'[c] = KeysOf[c]
    <3>1. combo_state[c] = KeysOf[c] /\ k \notin KeysOf[c]
      BY <1>1, <2>2 DEF StateIsHeld, Over
    <3> QED
      BY <2>1, <3>1
  <2>3. ASSUME ~stale PROVE combo_state'[c] \subseteq keys_down'
    BY <1>1, <2>1, <2>3 DEF StateIsHeld
  <2> QED
    BY <2>1, <2>2, <2>3
<1> QED
  BY <1>3, <1>4, <1>5, <1>6, <1>7, <1>8

LEMMA ReleasePassedInv ==
  ASSUME ComboInv, NEW k \in ComboKey \cup PlainKey, ReleasePassed(k) PROVE ComboInv'
<1>. USE DEF ComboInv
<1>1. /\ k \in keys_down /\ keys_down' = keys_down \ {k} /\ used' = used \ {k}
      /\ dropped' = dropped \ {k} /\ lost' = lost \ {k}
      /\ b_combo_enable
      /\ combo_state' = StateWithout(k)
      /\ combos_down' = combos_down \ Over(k)
      /\ up_to_host' = (up_to_host \cup Buffered) \ {k}
      /\ key_buffer' = <<>>
      /\ replayed' = (IF is_active THEN replayed \cup Buffered ELSE replayed) \ {k}
      /\ UNCHANGED <<b_combo_enable, stale>>
  BY DEF ReleasePassed, Released, TypedByRelease
<1>2. /\ combo_timer' \in BOOLEAN /\ is_active' \in BOOLEAN
      /\ is_active' => is_active \/ \A c \in Combo : combo_state'[c] = {}
  BY DEF ReleasePassed, Released, ComboTypeOK
<1>3. Buffered' = {} /\ Once' /\ KeptBackIsIncomplete'
  BY <1>1 DEF Buffered, Once, KeptBackIsIncomplete
<1>4. ComboTypeOK'
  BY <1>1, <1>2, BufferedKeys, StateWithoutKey, ComboAssumption DEF ComboTypeOK
<1>5. NoPressLost' /\ KeysComeUp' /\ FateOfHeld'
  BY <1>1, <1>3 DEF NoPressLost, KeysComeUp, FateOfHeld
<1>6. ActiveKeysAreReplayed'
  BY <1>1, <1>2, StateWithoutKey DEF ActiveKeysAreReplayed
<1>7. StateIsHeld'
  <2> SUFFICES ASSUME NEW c \in Combo
               PROVE  /\ combo_state'[c] \subseteq KeysOf[c]
                      /\ ~stale => /\ combo_state'[c] \subseteq keys_down'
                                   /\ c \in combos_down' => combo_state'[c] = KeysOf[c]
    BY <1>1 DEF StateIsHeld
  <2>1. combo_state'[c] = combo_state[c] \ {k} /\ combo_state[c] \subseteq KeysOf[c]
    BY <1>1, StateWithoutKey DEF StateIsHeld
  <2>2. ASSUME ~stale, c \in combos_down' PROVE combo_state'[c] = KeysOf[c]
    <3>1. combo_state[c] = KeysOf[c] /\ k \notin KeysOf[c]
      BY <1>1, <2>2 DEF StateIsHeld, Over
    <3> QED
      BY <2>1, <3>1
  <2>3. ASSUME ~stale PROVE combo_state'[c] \subseteq keys_down'
    BY <1>1, <2>1, <2>3 DEF StateIsHeld
  <2> QED
    BY <2>1, <2>2, <2>3
<1> QED
  BY <1>3, <1>4, <1>5, <1>6, <1>7

LEMMA matrix_scan_comboInv ==
  ASSUME ComboInv, matrix_scan_combo PROVE ComboInv'
<1>. USE DEF ComboInv, matrix_scan_combo
<1>1. Buffered' = {} /\ Once' /\ KeptBackIsIncomplete'
  BY DEF Buffered, Once, KeptBackIsIncomplete
<1>2. ComboTypeOK'
  <2>1. Buffered \subseteq ComboKey
    BY BufferedKeys
  <2>2. b_combo_enable' \in BOOLEAN /\ is_active' \in BOOLEAN /\ combo_timer' \in BOOLEAN
        /\ stale' \in BOOLEAN
    BY DEF ComboTypeOK
  <2> QED
    BY <2>1, <2>2, ComboAssumption DEF ComboTypeOK
<1>3. NoPressLost' /\ KeysComeUp' /\ FateOfHeld'
  BY <1>1 DEF NoPressLost, KeysComeUp, FateOfHeld
<1> QED
  BY <1>1, <1>2, <1>3 DEF ActiveKeysAreReplayed, StateIsHeld

LEMMA combo_enableInv ==
  ASSUME ComboInv, combo_enable \/ combo_disable PROVE ComboInv'
<1>. USE DEF ComboInv
<1>1. CASE combo_enable
  <2>. USE <1>1 DEF combo_enable
  <2>1. Buffered' = Buffered /\ key_buffer = <<>>
    BY DEF Buffered, NoPressLost, ComboTypeOK
  <2> QED
    BY <2>1 DEF ComboTypeOK, Once, FateOfHeld, NoPressLost, KeysComeUp, KeptBackIsIncomplete,
                ActiveKeysAreReplayed, StateIsHeld
<1>2. CASE combo_disable
  <2>. USE <1>2 DEF combo_disable
  <2>1. Buffered' = {} /\ Once' /\ KeptBackIsIncomplete'
    BY DEF Buffered, Once, KeptBackIsIncomplete
  <2>2. ComboTypeOK'
    <3>1. Buffered \subseteq ComboKey
      BY BufferedKeys
    <3>2. b_combo_enable' \in BOOLEAN /\ is_active' \in BOOLEAN /\ combo_timer' \in BOOLEAN
          /\ stale' \in BOOLEAN
      BY ZenonT(30) DEF ComboTypeOK
    <3> QED
      BY <3>1, <3>2, ComboAssumption DEF ComboTypeOK
  <2>3. NoPressLost' /\ KeysComeUp' /\ FateOfHeld'
    BY <2>1 DEF NoPressLost, KeysComeUp, FateOfHeld
  <2> QED
    BY <2>1, <2>2, <2>3 DEF ActiveKeysAreReplayed, StateIsHeld
<1> QED
  BY <1>1, <1>2

LEMMA KeyWhileOffInv ==
  ASSUME ComboInv, NEW k \in ComboKey \cup PlainKey, KeyWhileOff(k) PROVE ComboInv'
<1>. USE DEF ComboInv
<1>1. /\ ~b_combo_enable
      /\ UNCHANGED <<b_combo_enable, is_active, combo_timer, combo_state, key_buffer,
                     combos_down, stale>>
  BY DEF KeyWhileOff
<1>2. Buffered = {} /\ Buffered' = {} /\ key_buffer = <<>>
  BY <1>1 DEF Buffered, NoPressLost
<1>3. \/ /\ keys_down' = keys_down \ {k} /\ used' = used \ {k}
         /\ dropped' = dropped \ {k} /\ lost' = lost \ {k}
         /\ up_to_host' = up_to_host \ {k} /\ replayed' = replayed \ {k}
      \/ /\ k \notin keys_down /\ keys_down' = keys_down \cup {k}
         /\ up_to_host' = up_to_host \cup {k}
         /\ UNCHANGED <<used, dropped, lost, replayed>>
  BY DEF KeyWhileOff, Pressed
<1>4. ComboTypeOK'
  BY <1>1, <1>3 DEF ComboTypeOK
<1>5. NoPressLost' /\ KeysComeUp' /\ FateOfHeld'
  BY <1>1, <1>2, <1>3 DEF NoPressLost, KeysComeUp, FateOfHeld
<1>6. Once' /\ KeptBackIsIncomplete'
  BY <1>1, <1>2 DEF Once, KeptBackIsIncomplete
<1>8. ActiveKeysAreReplayed'
  BY <1>1 DEF ActiveKeysAreReplayed
<1>9. StateIsHeld'
  BY <1>1 DEF StateIsHeld
<1> QED
  BY <1>4, <1>5, <1>6, <1>8, <1>9

-----------------------------------------------------------------------------
LEMMA ComboInvInductive == ComboInv /\ [ComboNext]_combo_vars => ComboInv'
<1> SUFFICES ASSUME ComboInv, [ComboNext]_combo_vars PROVE ComboInv'
  OBVIOUS
<1>1. CASE UNCHANGED combo_vars
  BY <1>1 DEF combo_vars, ComboInv, ComboTypeOK, Once, FateOfHeld, NoPressLost, KeysComeUp, Buffered,
              KeptBackIsIncomplete, ActiveKeysAreReplayed, StateIsHeld
<1> QED
  BY <1>1, KeyTypedInv, KeyKeptBackInv, ComboPressedInv, ReleaseClaimedInv,
     ReleasePassedInv, matrix_scan_comboInv, combo_enableInv, KeyWhileOffInv
  DEF ComboNext

LEMMA ComboInvInit == ComboInit => ComboInv
<1> SUFFICES ASSUME ComboInit PROVE ComboInv
  OBVIOUS
<1>. USE DEF ComboInit
<1>1. Buffered = {} /\ Once /\ KeptBackIsIncomplete
  BY EmptyBuffer
<1>2. ComboTypeOK
  <2>1. {b_combo_enable, is_active, combo_timer, stale} \subseteq BOOLEAN
    BY Zenon
  <2>2. combo_state \in [Combo -> SUBSET ComboKey]
    OBVIOUS
  <2>3. key_buffer \in Seq(ComboKey) /\ Len(key_buffer) <= MAX_COMBO_LENGTH
    BY ComboAssumption
  <2> QED
    BY <2>1, <2>2, <2>3 DEF ComboTypeOK
<1>3. NoPressLost /\ KeysComeUp /\ FateOfHeld /\ ActiveKeysAreReplayed
  BY <1>1 DEF NoPressLost, KeysComeUp, FateOfHeld, ActiveKeysAreReplayed
<1>4. StateIsHeld
  BY DEF StateIsHeld
<1> QED
  BY <1>1, <1>2, <1>3, <1>4 DEF ComboInv

(* No order of presses, releases, timeouts and switching combos on and off *)
(* loses a press where the code does not give it up, or types a key twice  *)
(* (process_combo, matrix_scan_combo), for any combos of any keys, of at   *)
(* most MAX_COMBO_LENGTH keys each: also when all their keys together do   *)
(* not fit in the buffer.                                                  *)
THEOREM PressesAreKept == ComboSpec => []NoPressLost
<1>1. ComboInv => NoPressLost
  BY DEF ComboInv
<1> QED
  BY <1>1, ComboInvInit, ComboInvInductive, PTL DEF ComboSpec

(* A key that is not held is down for the host only if it was typed from   *)
(* the buffer while combos went on being active.                           *)
THEOREM KeysDoComeUp == ComboSpec => []KeysComeUp
<1>1. ComboInv => KeysComeUp
  BY DEF ComboInv
<1> QED
  BY <1>1, ComboInvInit, ComboInvInductive, PTL DEF ComboSpec

(* The code of a combo is down only while all its keys are held, unless    *)
(* combos were switched off with a key of one held.                        *)
THEOREM CombosAreHeld == ComboSpec => []ComboMeansAllHeld
<1>1. ComboInv => ComboMeansAllHeld
  BY DEF ComboInv, StateIsHeld, ComboMeansAllHeld, ComboTypeOK
<1> QED
  BY <1>1, ComboInvInit, ComboInvInductive, PTL DEF ComboSpec

NoneLost == lost = {}

(* The keys of all combos together, if they are not more than one combo    *)
(* may have, are never lost to a full buffer (process_combo.c:175): every  *)
(* press that is consumed is buffered, as line 172 says.                   *)
THEOREM FewKeysFit ==
  ASSUME IsFiniteSet(ComboKey), Cardinality(ComboKey) <= MAX_COMBO_LENGTH
  PROVE  ComboSpec => []ConsumedIsBuffered
<1>1. ComboInit => NoneLost
  BY DEF ComboInit, NoneLost
<1>2. ComboInv /\ NoneLost /\ [ComboNext]_combo_vars => NoneLost'
  <2> SUFFICES ASSUME ComboInv, lost = {}, [ComboNext]_combo_vars PROVE lost' = {}
    BY DEF NoneLost
  <2>1. ASSUME NEW k \in ComboKey \cup PlainKey, KeyKeptBack(k) PROVE lost' = {}
    <3>1. k \in ComboKey /\ k \notin Buffered
      BY <2>1, ComboAssumption
      DEF KeyKeptBack, Pressed, IsComboKey, ComboInv, NoPressLost
    <3>2. BufferRoom
      BY <3>1, BufferHasRoom DEF ComboInv
    <3> QED
      BY <2>1, <3>2 DEF KeyKeptBack
  <2>2. ASSUME NEW k \in ComboKey \cup PlainKey,
               \/ KeyTyped(k) \/ ComboPressed(k) \/ ReleaseClaimed(k)
               \/ ReleasePassed(k) \/ KeyWhileOff(k)
        PROVE  lost' = {}
    BY <2>2
    DEF KeyTyped, ComboPressed, ReleaseClaimed, ReleasePassed, Released, KeyWhileOff
  <2>3. CASE matrix_scan_combo \/ combo_enable \/ combo_disable \/ UNCHANGED combo_vars
    BY <2>3 DEF matrix_scan_combo, combo_enable, combo_disable, combo_vars
  <2> QED
    BY <2>1, <2>2, <2>3 DEF ComboNext
<1>3. ComboInv /\ NoneLost => ConsumedIsBuffered
  BY DEF NoneLost, ComboInv, NoPressLost, ConsumedIsBuffered
<1> QED
  BY <1>1, <1>2, <1>3, ComboInvInit, ComboInvInductive, PTL DEF ComboSpec

-----------------------------------------------------------------------------
(* Dynamic macros                                                          *)

(* Every nonempty set of indices has a greatest element (its proof is the  *)
(* well-foundedness of < on Nat).                                          *)
LEMMA GreatestIndex ==
  ASSUME NEW n \in Nat, NEW S \in SUBSET (1 .. n), S # {}
  PROVE  \E i \in S : \A j \in S : j <= i
<1> DEFINE Less == {p \in Nat \X Nat : p[1] < p[2]}
           T == {n - i : i \in S}
<1>1. IsWellFoundedOn(Less, Nat)
  BY NatLessThanWellFounded DEF OpToRel
<1>2. T \in SUBSET Nat /\ T # {} /\ S \subseteq Nat
  <2>1. \A i \in S : i \in Nat /\ n - i \in Nat
    OBVIOUS
  <2> QED
    BY <2>1
<1>3. PICK x \in T : \A y \in T : ~ (<<y, x>> \in Less)
  <2> HIDE DEF Less, T
  <2> QED
    BY <1>1, <1>2, WFMin
<1>4. PICK i \in S : x = n - i
  BY <1>3
<1>5. ASSUME NEW j \in S PROVE j <= i
  <2>1. n - j \in T /\ n - j \in Nat /\ n - i \in Nat
    BY <1>2
  <2>2. <<n - j, n - i>> \in Nat \X Nat /\ ~ (<<n - j, n - i>> \in Less)
    BY <1>3, <1>4, <2>1
  <2>3. ~ (n - j < n - i) /\ i \in Nat /\ j \in Nat
    BY <1>2, <2>2
  <2> HIDE DEF T, Less
  <2> QED
    BY <2>3
<1> QED
  BY <1>5

(* The last release of a sequence is one of its indices, or 0.             *)
LEMMA LastReleaseRange ==
  ASSUME NEW s, NEW n \in Nat, Len(s) = n
  PROVE  LastRelease(s) \in 0 .. n
<1> DEFINE releases == {i \in 1 .. n : ~s[i].pressed}
<1>1. LastRelease(s) = IF releases = {} THEN 0
                       ELSE CHOOSE i \in releases : \A j \in releases : j <= i
  BY DEF LastRelease
<1>2. CASE releases = {}
  BY <1>1, <1>2
<1>3. CASE releases # {}
  <2>1. releases \in SUBSET (1 .. n)
    OBVIOUS
  <2> HIDE DEF releases
  <2>2. \E i \in releases : \A j \in releases : j <= i
    BY <1>3, <2>1, GreatestIndex
  <2>3. LastRelease(s) \in releases
    BY <1>1, <1>3, <2>2
  <2>4. LastRelease(s) \in 1 .. n
    BY <2>1, <2>3
  <2>5. \A i \in 1 .. n : i \in 0 .. n
    OBVIOUS
  <2> QED
    BY <2>4, <2>5
<1> QED
  BY <1>2, <1>3

(* The number of cells of macro m up to one before `end`.                  *)
Size(m, end) == direction[m] * (end - start[m])

(* Macro m, as it is in the buffer b up to `end`, is the sequence s.       *)
Holds(b, m, end, s) ==
  /\ Size(m, end) = Len(s)
  /\ \A i \in 1 .. Len(s) : b[start[m] + direction[m] * (i - 1)] = s[i]

Room(m) == DYNAMIC_MACRO_SIZE - Len(saved[Other(m)])

(* What there was room for of the session.                                 *)
Cut(s, n) == IF Len(s) <= n THEN s ELSE SubSeq(s, 1, n)

Kept(m) == Cut(session, Room(m))

MacroInv ==
  /\ MacroTypeOK
  /\ MacrosApart
  /\ \A m \in Macro : macro_id # m => Holds(macro_buffer, m, macro_end[m], saved[m])
  /\ macro_id # 0 => Holds(macro_buffer, macro_id, macro_pointer, Kept(macro_id))

(* Macro 1 grows from the first cell upwards, macro 2 from the last one    *)
(* downwards.                                                              *)
LEMMA Sides ==
  /\ \A m \in Macro : m = 1 \/ m = 2
  /\ 1 \in Macro /\ 2 \in Macro /\ \A m \in Macro : Other(m) \in Macro /\ m # 0
  /\ direction[1] = 1 /\ direction[2] = -1
  /\ start[1] = 0 /\ start[2] = DYNAMIC_MACRO_SIZE - 1
  /\ Other(1) = 2 /\ Other(2) = 1
BY DEF Macro, direction, start, Other

(* The same, with the addresses of either macro.                           *)
LEMMA HoldsSides ==
  ASSUME NEW b, NEW end \in Int, NEW s, Len(s) \in Nat
  PROVE  /\ Holds(b, 1, end, s) <=>
              end = Len(s) /\ \A i \in 1 .. Len(s) : b[i - 1] = s[i]
         /\ Holds(b, 2, end, s) <=>
              /\ DYNAMIC_MACRO_SIZE - 1 - end = Len(s)
              /\ \A i \in 1 .. Len(s) : b[DYNAMIC_MACRO_SIZE - i] = s[i]
<1>1. DYNAMIC_MACRO_SIZE \in Nat
  BY DynamicMacroAssumption
<1>2. Size(1, end) = end /\ Size(2, end) = DYNAMIC_MACRO_SIZE - 1 - end
  BY <1>1, Sides DEF Size
<1>3. \A i \in 1 .. Len(s) : /\ start[1] + direction[1] * (i - 1) = i - 1
                             /\ start[2] + direction[2] * (i - 1) = DYNAMIC_MACRO_SIZE - i
  BY <1>1, Sides
<1> QED
  BY <1>2, <1>3 DEF Holds

(* What a macro holds is what its cells are read as.                       *)
LEMMA HoldsCells ==
  ASSUME NEW m \in Macro, NEW end \in Int, NEW s \in Seq(KeyEvent),
         Holds(macro_buffer, m, end, s)
  PROVE  Cells(m, end) = s
<1>1. Cells(m, end) = [i \in 1 .. Size(m, end) |->
                         macro_buffer[start[m] + direction[m] * (i - 1)]]
  BY DEF Cells, Size
<1>2. s = [i \in 1 .. Len(s) |-> s[i]] /\ Len(s) \in Nat
  OBVIOUS
<1>3. /\ Size(m, end) = Len(s)
      /\ \A i \in 1 .. Len(s) : macro_buffer[start[m] + direction[m] * (i - 1)] = s[i]
  BY DEF Holds
<1> QED
  BY <1>1, <1>2, <1>3

(* The room a recording has ends at the other macro.                       *)
LEMMA RoomIs ==
  ASSUME MacroInv, NEW m \in Macro, macro_id # Other(m)
  PROVE  /\ m = 1 => Room(m) = macro_end[2] + 1
         /\ m = 2 => Room(m) = DYNAMIC_MACRO_SIZE - macro_end[1]
         /\ Room(m) \in 0 .. DYNAMIC_MACRO_SIZE
         /\ saved[Other(m)] \in Seq(KeyEvent)
<1> DEFINE o == Other(m)
<1>1. o \in Macro /\ macro_end[o] \in Int /\ saved[o] \in Seq(KeyEvent)
  BY Sides DEF MacroInv, MacroTypeOK
<1>2. Holds(macro_buffer, o, macro_end[o], saved[o]) /\ Len(saved[o]) \in Nat
  BY <1>1 DEF MacroInv
<1>3. DYNAMIC_MACRO_SIZE \in Nat /\ macro_end[1] \in Int /\ macro_end[2] \in Int
  BY DynamicMacroAssumption, Sides DEF MacroInv, MacroTypeOK
<1>4. CASE m = 1
  <2>1. o = 2
    BY <1>4, Sides
  <2>2. Holds(macro_buffer, 2, macro_end[2], saved[2]) /\ Len(saved[2]) \in Nat
    BY <1>2, <2>1
  <2>3. DYNAMIC_MACRO_SIZE - 1 - macro_end[2] = Len(saved[2])
    BY <1>3, <2>2, HoldsSides
  <2>4. /\ 0 <= macro_end[1] /\ macro_end[1] <= macro_end[2] + 1
        /\ macro_end[2] < DYNAMIC_MACRO_SIZE
    BY DEF MacroInv, MacrosApart
  <2>5. Room(m) = DYNAMIC_MACRO_SIZE - Len(saved[2])
    BY <2>1 DEF Room
  <2>6. Room(m) = macro_end[2] + 1 /\ Room(m) \in 0 .. DYNAMIC_MACRO_SIZE
    BY <1>3, <2>2, <2>3, <2>4, <2>5
  <2> QED
    BY <1>1, <1>4, <2>6
<1>5. CASE m = 2
  <2>1. o = 1
    BY <1>5, Sides
  <2>2. Holds(macro_buffer, 1, macro_end[1], saved[1]) /\ Len(saved[1]) \in Nat
    BY <1>2, <2>1
  <2>3. macro_end[1] = Len(saved[1])
    BY <1>3, <2>2, HoldsSides
  <2>4. /\ 0 <= macro_end[1] /\ macro_end[1] <= macro_end[2] + 1
        /\ macro_end[2] < DYNAMIC_MACRO_SIZE
    BY DEF MacroInv, MacrosApart
  <2>5. Room(m) = DYNAMIC_MACRO_SIZE - Len(saved[1])
    BY <2>1 DEF Room
  <2>6. Room(m) = DYNAMIC_MACRO_SIZE - macro_end[1] /\ Room(m) \in 0 .. DYNAMIC_MACRO_SIZE
    BY <1>3, <2>2, <2>3, <2>4, <2>5
  <2> QED
    BY <1>1, <1>5, <2>6
<1> QED
  BY <1>1, <1>4, <1>5, Sides

(* A cut sequence is a prefix of it, of the given length if it was longer. *)
LEMMA CutIs ==
  ASSUME NEW s \in Seq(KeyEvent), NEW n \in Nat
  PROVE  /\ Cut(s, n) \in Seq(KeyEvent)
         /\ Len(Cut(s, n)) = IF Len(s) <= n THEN Len(s) ELSE n
         /\ \A i \in 1 .. Len(Cut(s, n)) : Cut(s, n)[i] = s[i]
<1>1. CASE Len(s) <= n
  BY <1>1 DEF Cut
<1>2. CASE ~(Len(s) <= n)
  <2>1. Cut(s, n) = SubSeq(s, 1, n)
    BY <1>2 DEF Cut
  <2>2. n <= Len(s)
    BY <1>2
  <2>3. /\ SubSeq(s, 1, n) \in Seq(KeyEvent)
        /\ Len(SubSeq(s, 1, n)) = n
        /\ \A i \in 1 .. n : SubSeq(s, 1, n)[i] = s[i]
    BY <2>2
  <2> QED
    BY <1>2, <2>1, <2>3
<1> QED
  BY <1>1, <1>2

(* An event that is appended is cut off if there is no more room.          *)
LEMMA CutAppend ==
  ASSUME NEW s \in Seq(KeyEvent), NEW n \in Nat, NEW e \in KeyEvent
  PROVE  /\ Len(Cut(s, n)) = n => Cut(Append(s, e), n) = Cut(s, n)
         /\ Len(Cut(s, n)) # n =>
              Len(s) < n /\ Cut(s, n) = s /\ Cut(Append(s, e), n) = Append(s, e)
<1>1. Append(s, e) \in Seq(KeyEvent) /\ Len(Append(s, e)) = Len(s) + 1 /\ Len(s) \in Nat
  OBVIOUS
<1>2. ASSUME Len(Cut(s, n)) = n PROVE Cut(Append(s, e), n) = Cut(s, n)
  <2> DEFINE c == Cut(Append(s, e), n)
             k == Cut(s, n)
  <2>3. k \in Seq(KeyEvent) /\ n <= Len(s) /\ Len(k) = n /\ \A i \in 1 .. n : k[i] = s[i]
    BY <1>1, <1>2, CutIs
  <2>4. c \in Seq(KeyEvent) /\ Len(c) = n
    <3>1. Len(c) = IF Len(Append(s, e)) <= n THEN Len(Append(s, e)) ELSE n
      BY <1>1, CutIs
    <3>2. c \in Seq(KeyEvent)
      BY <1>1, CutIs
    <3> HIDE DEF c
    <3> QED
      BY <1>1, <2>3, <3>1, <3>2
  <2>5. \A i \in 1 .. n : c[i] = Append(s, e)[i]
    <3>1. \A i \in 1 .. Len(c) : c[i] = Append(s, e)[i]
      BY <1>1, CutIs
    <3> QED
      BY <2>4, <3>1
  <2>1. /\ c \in Seq(KeyEvent) /\ k \in Seq(KeyEvent) /\ n <= Len(s)
        /\ Len(c) = n /\ Len(k) = n
        /\ \A i \in 1 .. n : c[i] = Append(s, e)[i] /\ k[i] = s[i]
    BY <2>3, <2>4, <2>5
  <2>2. \A i \in 1 .. n : Append(s, e)[i] = s[i]
    BY <1>1, <2>1
  <2> HIDE DEF c, k
  <2>6. c = k
    BY <2>1, <2>2
  <2> QED
    BY <2>6 DEF c, k
<1>3. ASSUME Len(Cut(s, n)) # n
      PROVE  Len(s) < n /\ Cut(s, n) = s /\ Cut(Append(s, e), n) = Append(s, e)
  <2>1. Len(s) < n
    BY <1>1, <1>3, CutIs
  <2> QED
    BY <1>1, <2>1 DEF Cut
<1> QED
  BY <1>2, <1>3

(* What is kept of a session is a sequence of events that fits.            *)
LEMMA KeptIs ==
  ASSUME MacroInv, NEW m \in Macro, macro_id # Other(m)
  PROVE  Kept(m) \in Seq(KeyEvent) /\ Len(Kept(m)) \in 0 .. Room(m) /\ Room(m) \in Nat
         /\ session \in Seq(KeyEvent) /\ Len(session) \in Nat
<1>1. Room(m) \in Nat /\ session \in Seq(KeyEvent) /\ Len(session) \in Nat
  BY RoomIs DEF MacroInv, MacroTypeOK
<1> QED
  BY <1>1, CutIs DEF Kept

(* Two empty macros are apart.                                             *)
LEMMA MacroInvInit == MacroInit => MacroInv
<1> SUFFICES ASSUME MacroInit PROVE MacroInv
  OBVIOUS
<1> USE DEF MacroInit
<1>1. Blank \in KeyEvent
  <2>1. \E e : e \in KeyEvent
    <3>1. PICK k : k \in MacroKey
      BY DynamicMacroAssumption
    <3>2. [key |-> k, pressed |-> TRUE] \in KeyEvent
      BY <3>1 DEF KeyEvent
    <3> QED
      BY <3>2
  <2> QED
    BY <2>1 DEF Blank
<1>2. start \in [Macro -> -1 .. DYNAMIC_MACRO_SIZE] /\ DYNAMIC_MACRO_SIZE \in Nat \ {0}
  BY DynamicMacroAssumption DEF start, Macro
<1>3. <<>> \in Seq(KeyEvent) /\ Len(<<>>) = 0
  OBVIOUS
<1>4. MacroTypeOK
  BY <1>1, <1>2, <1>3, DynamicMacroAssumption DEF MacroTypeOK
<1>5. MacrosApart
  BY <1>2, Sides DEF MacrosApart
<1>6. /\ Holds(macro_buffer, 1, macro_end[1], saved[1])
      /\ Holds(macro_buffer, 2, macro_end[2], saved[2])
  BY <1>2, <1>3, Sides, HoldsSides
<1> QED
  BY <1>4, <1>5, <1>6, Sides DEF MacroInv

(* A recording starts with no cell,                                        *)
LEMMA StartKeeps ==
  ASSUME MacroInv, NEW m \in Macro, dynamic_macro_record_start(m)
  PROVE  MacroInv'
<1> USE DEF dynamic_macro_record_start
<1>1. <<>> \in Seq(KeyEvent) /\ Len(<<>>) = 0 /\ DYNAMIC_MACRO_SIZE \in Nat \ {0} /\ m \in {0, 1, 2}
  BY DynamicMacroAssumption, Sides
<1>2. start[m] \in -1 .. DYNAMIC_MACRO_SIZE
  BY <1>1, Sides
<1>3. MacroTypeOK'
  BY <1>1, <1>2, DynamicMacroAssumption DEF MacroInv, MacroTypeOK
<1>4. MacrosApart'
  <2>1. macro_end[1] \in Int /\ macro_end[2] \in Int
    BY Sides DEF MacroInv, MacroTypeOK
  <2> QED
    BY <1>1, <2>1, Sides DEF MacroInv, MacrosApart
<1>5. \A o \in Macro : Holds(macro_buffer, o, macro_end[o], saved[o])
  BY Sides DEF MacroInv
<1>6. Holds(macro_buffer, m, start[m], <<>>)
  BY <1>1, <1>2, Sides, HoldsSides
<1>7. Kept(m)' = <<>>
  <2>1. Room(m)' = Room(m) /\ Room(m) \in Nat /\ session' = <<>>
    BY RoomIs, Sides DEF Room
  <2> QED
    BY <1>1, <2>1 DEF Kept, Cut
<1> QED
  BY <1>3, <1>4, <1>5, <1>6, <1>7 DEF MacroInv

(* every key that is not ignored is put behind the last one, in a cell of  *)
(* its own, unless the cell would be one of the other macro,               *)
LEMMA KeyKeeps ==
  ASSUME MacroInv, NEW e \in KeyEvent, dynamic_macro_record_key(e)
  PROVE  MacroInv'
<1> DEFINE m == macro_id
           o == Other(macro_id)
           ignored == macro_pointer = start[m] /\ ~e.pressed
<1>0. /\ m \in Macro /\ o \in Macro /\ m # o /\ macro_id # o /\ macro_id # 0
      /\ DYNAMIC_MACRO_SIZE \in Nat \ {0}
      /\ macro_end[1] \in Int /\ macro_end[2] \in Int /\ macro_pointer \in Int
      /\ macro_id' = macro_id /\ macro_end' = macro_end /\ saved' = saved
  BY Sides, DynamicMacroAssumption
     DEF dynamic_macro_record_key, MacroInv, MacroTypeOK, Macro
<1>1. /\ Kept(m) \in Seq(KeyEvent) /\ Len(Kept(m)) \in 0 .. Room(m) /\ Room(m) \in Nat
      /\ session \in Seq(KeyEvent) /\ Len(session) \in Nat
  BY <1>0, KeptIs
<1>2. CASE ignored
  BY <1>2 DEF dynamic_macro_record_key, MacroInv, MacroTypeOK, MacrosApart, Kept, Room
<1>3. CASE ~ignored
  <2>1. /\ Len(session) < SESSION /\ session' = Append(session, e)
        /\ session' \in Seq(KeyEvent) /\ Len(session') = Len(session) + 1
    BY <1>1, <1>3 DEF dynamic_macro_record_key
  <2>2. session' \in Seq(KeyEvent) /\ Len(session') <= SESSION
    BY <1>1, <2>1, DynamicMacroAssumption
  <2>3. Kept(m)' = Cut(Append(session, e), Room(m))
    BY <1>0, <2>1 DEF Kept, Room
  <2>4. Holds(macro_buffer, m, macro_pointer, Kept(m))
    BY <1>0 DEF MacroInv
  <2>5. Full(m) <=> Len(Kept(m)) = Room(m)
    <3>1. CASE m = 1
      <4>1. macro_pointer - direction[m] = macro_pointer - 1 /\ macro_end[o] = macro_end[2]
        BY <1>0, <3>1, Sides
      <4>2. Room(m) = macro_end[2] + 1
        BY <1>0, <3>1, RoomIs
      <4>3. macro_pointer = Len(Kept(m))
        BY <1>0, <1>1, <2>4, <3>1, HoldsSides
      <4> QED
        BY <1>0, <4>1, <4>2, <4>3 DEF Full
    <3>2. CASE m = 2
      <4>1. macro_pointer - direction[m] = macro_pointer + 1 /\ macro_end[o] = macro_end[1]
        BY <1>0, <3>2, Sides
      <4>2. Room(m) = DYNAMIC_MACRO_SIZE - macro_end[1]
        BY <1>0, <3>2, RoomIs
      <4>3. DYNAMIC_MACRO_SIZE - 1 - macro_pointer = Len(Kept(m))
        BY <1>0, <1>1, <2>4, <3>2, HoldsSides
      <4> QED
        BY <1>0, <4>1, <4>2, <4>3 DEF Full
    <3> QED
      BY <1>0, <3>1, <3>2, Sides
  <2>6. Holds(macro_buffer, o, macro_end[o], saved[o])
    BY <1>0 DEF MacroInv
  <2>7. CASE Full(m)
    <3>1. Kept(m)' = Kept(m)
      BY <1>1, <2>3, <2>5, <2>7, CutAppend DEF Kept
    <3>2. macro_buffer' = macro_buffer /\ macro_pointer' = macro_pointer /\ played' = played
      BY <1>3, <2>7 DEF dynamic_macro_record_key
    <3> QED
      BY <1>0, <2>2, <3>1, <3>2 DEF MacroInv, MacroTypeOK, MacrosApart
  <2>8. CASE ~Full(m)
    <3>1. /\ Kept(m) = session /\ Kept(m)' = Append(session, e) /\ Len(session) < Room(m)
      BY <1>1, <2>3, <2>5, <2>8, CutAppend DEF Kept
    <3>2. /\ macro_buffer' = [macro_buffer EXCEPT ![macro_pointer] = e]
          /\ macro_pointer' = macro_pointer + direction[m] /\ played' = played
      BY <1>3, <2>8 DEF dynamic_macro_record_key
    <3>3. macro_buffer \in [Address -> KeyEvent] /\ saved[o] \in Seq(KeyEvent)
      BY <1>0 DEF MacroInv, MacroTypeOK
    <3>4. CASE m = 1
      <4>1. /\ macro_pointer = Len(session) /\ Room(m) = macro_end[2] + 1
            /\ macro_end[2] < DYNAMIC_MACRO_SIZE /\ o = 2
        BY <1>0, <1>1, <2>4, <3>1, <3>4, HoldsSides, RoomIs, Sides DEF MacroInv, MacrosApart
      <4>2. macro_pointer \in Address /\ macro_pointer' = macro_pointer + 1
        BY <1>0, <1>1, <3>1, <3>2, <3>4, <4>1, Sides DEF Address
      <4>3. MacroTypeOK' /\ MacrosApart'
        BY <1>0, <1>1, <2>2, <3>1, <3>2, <3>3, <3>4, <4>1, <4>2
           DEF MacroInv, MacroTypeOK, MacrosApart
      <4>4. Holds(macro_buffer', m, macro_pointer', Append(session, e))
        <5>1. \A i \in 1 .. Len(session) : macro_buffer[i - 1] = session[i]
          BY <1>0, <1>1, <2>4, <3>1, <3>4, HoldsSides
        <5>2. \A i \in 1 .. Len(session) + 1 : macro_buffer'[i - 1] = Append(session, e)[i]
          BY <1>1, <3>2, <3>3, <4>1, <4>2, <5>1 DEF Address
        <5>3. /\ macro_pointer' \in Int /\ Len(Append(session, e)) \in Nat
              /\ macro_pointer' = Len(Append(session, e))
              /\ Len(Append(session, e)) = Len(session) + 1
          BY <1>0, <1>1, <2>1, <4>1, <4>2
        <5>4. Holds(macro_buffer', 1, macro_pointer', Append(session, e))
          BY <5>2, <5>3, HoldsSides
        <5> QED
          BY <3>4, <5>4
      <4>5. Holds(macro_buffer', o, macro_end[o], saved[o])
        <5>1. /\ DYNAMIC_MACRO_SIZE - 1 - macro_end[2] = Len(saved[2]) /\ Len(saved[2]) \in Nat
              /\ \A i \in 1 .. Len(saved[2]) : macro_buffer[DYNAMIC_MACRO_SIZE - i] = saved[2][i]
          BY <1>0, <2>6, <3>3, <4>1, HoldsSides
        <5>2. \A i \in 1 .. Len(saved[2]) :
                 macro_buffer'[DYNAMIC_MACRO_SIZE - i] = macro_buffer[DYNAMIC_MACRO_SIZE - i]
          BY <1>0, <1>1, <3>1, <3>2, <3>3, <4>1, <4>2, <5>1 DEF Address
        <5>4. macro_end[2] \in Int
          BY <1>0
        <5>5. \A i \in 1 .. Len(saved[2]) : macro_buffer'[DYNAMIC_MACRO_SIZE - i] = saved[2][i]
          BY <5>1, <5>2
        <5>3. Holds(macro_buffer', 2, macro_end[2], saved[2])
          BY <5>1, <5>4, <5>5, HoldsSides
        <5> QED
          BY <4>1, <5>3
      <4> QED
        BY <1>0, <3>1, <4>3, <4>4, <4>5, Sides DEF MacroInv
    <3>5. CASE m = 2
      <4>1. /\ DYNAMIC_MACRO_SIZE - 1 - macro_pointer = Len(session) /\ o = 1
            /\ Room(m) = DYNAMIC_MACRO_SIZE - macro_end[1] /\ 0 <= macro_end[1]
        BY <1>0, <1>1, <2>4, <3>1, <3>5, HoldsSides, RoomIs, Sides DEF MacroInv, MacrosApart
      <4>2. macro_pointer \in Address /\ macro_pointer' = macro_pointer - 1
        BY <1>0, <1>1, <3>1, <3>2, <3>5, <4>1, Sides DEF Address
      <4>6. /\ macro_end[1] - 1 <= macro_pointer' /\ macro_pointer' < DYNAMIC_MACRO_SIZE
            /\ macro_pointer' \in -1 .. DYNAMIC_MACRO_SIZE
        BY <1>0, <1>1, <3>1, <4>1, <4>2
      <4>7. macro_buffer' \in [Address -> KeyEvent]
        BY <3>2, <3>3
      <4>3. MacroTypeOK' /\ MacrosApart'
        BY <1>0, <2>2, <3>2, <3>5, <4>6, <4>7 DEF MacroInv, MacroTypeOK, MacrosApart
      <4>4. Holds(macro_buffer', m, macro_pointer', Append(session, e))
        <5>1. \A i \in 1 .. Len(session) : macro_buffer[DYNAMIC_MACRO_SIZE - i] = session[i]
          BY <1>0, <1>1, <2>4, <3>1, <3>5, HoldsSides
        <5>2. \A i \in 1 .. Len(session) + 1 :
                 macro_buffer'[DYNAMIC_MACRO_SIZE - i] = Append(session, e)[i]
          <6>1. ASSUME NEW i \in 1 .. Len(session)
                PROVE  macro_buffer'[DYNAMIC_MACRO_SIZE - i] = Append(session, e)[i]
            <7>1. /\ DYNAMIC_MACRO_SIZE - i \in Address
                  /\ DYNAMIC_MACRO_SIZE - i # macro_pointer
              BY <1>0, <1>1, <4>1, <4>2 DEF Address
            <7>2. Append(session, e)[i] = session[i]
              BY <1>0
            <7> QED
              BY <1>0, <3>2, <3>3, <5>1, <7>1, <7>2
          <6>2. /\ macro_buffer'[macro_pointer] = e /\ Append(session, e)[Len(session) + 1] = e
                /\ macro_pointer = DYNAMIC_MACRO_SIZE - (Len(session) + 1)
            BY <1>0, <1>1, <3>2, <3>3, <4>1, <4>2
          <6> QED
            BY <1>1, <6>1, <6>2
        <5>3. /\ macro_pointer' \in Int /\ Len(Append(session, e)) \in Nat
              /\ DYNAMIC_MACRO_SIZE - 1 - macro_pointer' = Len(Append(session, e))
              /\ Len(Append(session, e)) = Len(session) + 1
          BY <1>0, <1>1, <2>1, <4>1, <4>2
        <5>4. Holds(macro_buffer', 2, macro_pointer', Append(session, e))
          BY <5>2, <5>3, HoldsSides
        <5> QED
          BY <3>5, <5>4
      <4>5. Holds(macro_buffer', o, macro_end[o], saved[o])
        <5>1. /\ macro_end[1] = Len(saved[1]) /\ Len(saved[1]) \in Nat
              /\ \A i \in 1 .. Len(saved[1]) : macro_buffer[i - 1] = saved[1][i]
          BY <1>0, <2>6, <3>3, <4>1, HoldsSides
        <5>2. \A i \in 1 .. Len(saved[1]) : macro_buffer'[i - 1] = macro_buffer[i - 1]
          BY <1>0, <1>1, <3>1, <3>2, <3>3, <4>1, <4>2, <5>1 DEF Address
        <5>4. macro_end[1] \in Int
          BY <1>0
        <5>5. \A i \in 1 .. Len(saved[1]) : macro_buffer'[i - 1] = saved[1][i]
          BY <5>1, <5>2
        <5>3. Holds(macro_buffer', 1, macro_end[1], saved[1])
          BY <5>1, <5>4, <5>5, HoldsSides
        <5> QED
          BY <4>1, <5>3
      <4> QED
        BY <1>0, <3>1, <4>3, <4>4, <4>5, Sides DEF MacroInv
    <3> QED
      BY <1>0, <3>4, <3>5, Sides
  <2> QED
    BY <2>7, <2>8
<1> QED
  BY <1>2, <1>3

(* a macro that is trimmed holds what is left of the sequence,             *)
LEMMA HoldsPrefix ==
  ASSUME NEW b, NEW m \in Macro, NEW end \in Int, NEW s \in Seq(KeyEvent),
         Holds(b, m, end, s), NEW n \in 0 .. Len(s)
  PROVE  Holds(b, m, start[m] + direction[m] * n, SubSeq(s, 1, n))
<1> DEFINE p == SubSeq(s, 1, n)
<1>1. /\ Len(p) = n /\ n \in Nat /\ Len(s) \in Nat /\ DYNAMIC_MACRO_SIZE \in Nat
      /\ \A i \in 1 .. n : p[i] = s[i]
  BY DynamicMacroAssumption
<1>4. \A i \in 1 .. n : i \in 1 .. Len(s)
  OBVIOUS
<1> HIDE DEF p
<1>2. CASE m = 1
  <2>1. start[m] + direction[m] * n = n
    BY <1>1, <1>2, Sides
  <2>4. \A i \in 1 .. Len(s) : b[i - 1] = s[i]
    BY <1>1, <1>2, HoldsSides
  <2>2. \A i \in 1 .. n : b[i - 1] = p[i]
    BY <1>1, <1>4, <2>4
  <2>3. Holds(b, 1, n, p)
    BY <1>1, <2>2, HoldsSides
  <2> QED
    BY <1>2, <2>1, <2>3 DEF p
<1>3. CASE m = 2
  <2>1. start[m] + direction[m] * n = DYNAMIC_MACRO_SIZE - 1 - n
    BY <1>1, <1>3, Sides
  <2>5. \A i \in 1 .. Len(s) : b[DYNAMIC_MACRO_SIZE - i] = s[i]
    BY <1>1, <1>3, HoldsSides
  <2>2. \A i \in 1 .. n : b[DYNAMIC_MACRO_SIZE - i] = p[i]
    BY <1>1, <1>4, <2>5
  <2>3. DYNAMIC_MACRO_SIZE - 1 - n \in Int
        /\ DYNAMIC_MACRO_SIZE - 1 - (DYNAMIC_MACRO_SIZE - 1 - n) = Len(p)
    BY <1>1
  <2>4. Holds(b, 2, DYNAMIC_MACRO_SIZE - 1 - n, p)
    BY <1>1, <2>2, <2>3, HoldsSides
  <2> QED
    BY <1>3, <2>1, <2>4 DEF p
<1> QED
  BY <1>2, <1>3, Sides

(* the end of a recording trims buffer and session at the same release,    *)
LEMMA EndKeeps ==
  ASSUME MacroInv, dynamic_macro_record_end
  PROVE  MacroInv'
<1> DEFINE m == macro_id
           o == Other(macro_id)
           n == LastRelease(Kept(m))
           end == start[m] + direction[m] * n
           text == SubSeq(Kept(m), 1, n)
<1>0. /\ m \in Macro /\ o \in Macro /\ m # o /\ macro_id # o /\ macro_id # 0
      /\ DYNAMIC_MACRO_SIZE \in Nat \ {0}
      /\ macro_end[1] \in Int /\ macro_end[2] \in Int /\ macro_pointer \in Int
  BY Sides, DynamicMacroAssumption
     DEF dynamic_macro_record_end, MacroInv, MacroTypeOK, Macro
<1>1. /\ Kept(m) \in Seq(KeyEvent) /\ Len(Kept(m)) \in 0 .. Room(m) /\ Room(m) \in Nat
      /\ Len(Kept(m)) \in Nat
  BY <1>0, KeptIs
<1>2. Holds(macro_buffer, m, macro_pointer, Kept(m)) /\ Cells(m, macro_pointer) = Kept(m)
  BY <1>0, <1>1, HoldsCells DEF MacroInv
<1>3. n \in 0 .. Len(Kept(m))
  BY <1>1, LastReleaseRange
<1>4. /\ macro_end' = [macro_end EXCEPT ![m] = end]
      /\ saved' = [saved EXCEPT ![m] = text]
      /\ macro_buffer' = macro_buffer /\ macro_pointer' = macro_pointer /\ played' = played
      /\ macro_id' = 0 /\ session' = <<>>
  BY <1>2 DEF dynamic_macro_record_end, Trimmed, Kept, Cut, Room
<1>5. Holds(macro_buffer, m, end, text) /\ text \in Seq(KeyEvent)
  <2>1. \A i \in 0 .. Len(Kept(m)) :
          Holds(macro_buffer, m, start[m] + direction[m] * i, SubSeq(Kept(m), 1, i))
    BY <1>0, <1>1, <1>2, HoldsPrefix
  <2>2. \A i \in 0 .. Len(Kept(m)) : SubSeq(Kept(m), 1, i) \in Seq(KeyEvent)
    BY <1>1
  <2> QED
    BY <1>3, <2>1, <2>2
<1>6. Holds(macro_buffer, o, macro_end[o], saved[o])
  BY <1>0 DEF MacroInv
<1>7. macro_end \in [Macro -> -1 .. DYNAMIC_MACRO_SIZE] /\ saved \in [Macro -> Seq(KeyEvent)]
  BY DEF MacroInv, MacroTypeOK
<1>8. /\ m = 1 => end = n /\ n <= macro_end[2] + 1 /\ end \in -1 .. DYNAMIC_MACRO_SIZE
      /\ m = 2 => /\ end = DYNAMIC_MACRO_SIZE - 1 - n /\ n <= DYNAMIC_MACRO_SIZE - macro_end[1]
                  /\ end \in -1 .. DYNAMIC_MACRO_SIZE
  <2>1. n \in Nat /\ n <= Room(m) /\ Room(m) <= DYNAMIC_MACRO_SIZE
    BY <1>0, <1>1, <1>3, RoomIs
  <2> HIDE DEF n
  <2>2. CASE m = 1
    BY <1>0, <2>1, <2>2, RoomIs, Sides
  <2>3. CASE m = 2
    BY <1>0, <2>1, <2>3, RoomIs, Sides
  <2> QED
    BY <2>2, <2>3
<1>9. end \in -1 .. DYNAMIC_MACRO_SIZE /\ n \in Nat
  BY <1>0, <1>1, <1>3, <1>8, Sides
<1> HIDE DEF n, end, text
<1>10. /\ macro_end'[m] = end /\ saved'[m] = text
       /\ macro_end'[o] = macro_end[o] /\ saved'[o] = saved[o]
  BY <1>0, <1>4, <1>7
<1>11. macro_end' \in [Macro -> -1 .. DYNAMIC_MACRO_SIZE] /\ saved' \in [Macro -> Seq(KeyEvent)]
  BY <1>4, <1>5, <1>7, <1>9
<1>12. <<>> \in Seq(KeyEvent) /\ Len(<<>>) <= SESSION
  BY DynamicMacroAssumption
<1>13. MacroTypeOK'
  BY <1>4, <1>11, <1>12 DEF MacroInv, MacroTypeOK
<1>14. MacrosApart'
  <2>1. CASE m = 1
    BY <1>0, <1>4, <1>8, <1>9, <1>10, <2>1, Sides DEF MacroInv, MacrosApart
  <2>2. CASE m = 2
    BY <1>0, <1>4, <1>8, <1>9, <1>10, <2>2, Sides DEF MacroInv, MacrosApart
  <2> QED
    BY <1>0, <2>1, <2>2, Sides
<1>15. \A x \in Macro : x = m \/ x = o
  BY <1>0, Sides
<1>16. \A x \in Macro : Holds(macro_buffer', x, macro_end'[x], saved'[x])
  BY <1>4, <1>5, <1>6, <1>10, <1>15
<1> QED
  BY <1>4, <1>13, <1>14, <1>16 DEF MacroInv

(* and playing a macro changes none.                                       *)
LEMMA PlayKeeps ==
  ASSUME MacroInv, NEW m \in Macro, dynamic_macro_play(m)
  PROVE  MacroInv'
<1>1. Holds(macro_buffer, m, macro_end[m], saved[m]) /\ macro_end[m] \in Int
      /\ saved[m] \in Seq(KeyEvent)
  BY Sides DEF MacroInv, MacroTypeOK, dynamic_macro_play
<1>2. played' \in Seq(KeyEvent)
  BY <1>1, HoldsCells DEF dynamic_macro_play
<1>3. UNCHANGED <<macro_buffer, macro_end, macro_pointer, macro_id, session, saved>>
  BY DEF dynamic_macro_play
<1> QED
  BY <1>2, <1>3 DEF MacroInv, MacroTypeOK, MacrosApart, Kept, Room

(* So every step keeps the invariant.                                      *)
LEMMA MacroInvNext == MacroInv /\ [MacroNext]_macro_vars => MacroInv'
<1>1. MacroInv /\ UNCHANGED macro_vars => MacroInv'
  BY DEF macro_vars, MacroInv, MacroTypeOK, MacrosApart, Kept, Room
<1> QED
  BY <1>1, StartKeeps, KeyKeeps, EndKeeps, PlayKeeps DEF MacroNext

(* The two macros share no cell and stay inside the buffer, for every size *)
(* of the buffer, any keys and recordings of any length: the comparison of *)
(* macro_pointer with macro2_end is right to the cell.                     *)
THEOREM MacrosDoNotMeet == MacroSpec => []MacrosApart
<1>1. MacroInv => MacrosApart
  BY DEF MacroInv
<1> QED
  BY <1>1, MacroInvInit, MacroInvNext, PTL DEF MacroSpec

(* A macro is what was typed while it was recorded, cut where the other    *)
(* macro begins and after the last release, and recording the other macro  *)
(* anew does not change it.                                                *)
THEOREM MacrosAreTyped == MacroSpec => []MacroIsWhatWasTyped
<1>1. MacroInv => MacroIsWhatWasTyped
  <2> SUFFICES ASSUME MacroInv, NEW m \in Macro, macro_id # m
               PROVE  Cells(m, macro_end[m]) = saved[m]
    BY DEF MacroIsWhatWasTyped
  <2>1. macro_end[m] \in Int /\ saved[m] \in Seq(KeyEvent)
        /\ Holds(macro_buffer, m, macro_end[m], saved[m])
    BY DEF MacroInv, MacroTypeOK
  <2> QED
    BY <2>1, HoldsCells
<1> QED
  BY <1>1, MacroInvInit, MacroInvNext, PTL DEF MacroSpec

=============================================================================
