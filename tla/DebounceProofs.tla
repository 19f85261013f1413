---------------------------- MODULE DebounceProofs ----------------------------
(***************************************************************************)
(* The debouncers lose no change, type no bounce and hold a key off for    *)
(* DEBOUNCE ms, for any matrix, scan rate and width of the timer.          *)
(***************************************************************************)
EXTENDS Debounce, TLAPS

-----------------------------------------------------------------------------
(* Time                                                                    *)

(* A time stamp wraps once at most between two scans.                      *)
LEMMA WrappingAdd ==
  ASSUME NEW c \in 0 .. MAX_DEBOUNCE, NEW d \in 0 .. STEP
  PROVE  /\ c + d <= MAX_DEBOUNCE => (c + d) % (MAX_DEBOUNCE + 1) = c + d
         /\ ~ (c + d <= MAX_DEBOUNCE) =>
              (c + d) % (MAX_DEBOUNCE + 1) = c + d - (MAX_DEBOUNCE + 1)
<1> DEFINE m == MAX_DEBOUNCE + 1
           x == c + d
<1>1. m \in Nat \ {0} /\ x \in Nat /\ x < m + m /\ m = MAX_DEBOUNCE + 1
  BY DebounceAssumption
<1> HIDE DEF m, x
<1>2. x % m = IF x < m THEN x ELSE x - m
  BY <1>1, SMTT(30)
<1>3. /\ x <= MAX_DEBOUNCE => x % m = x
      /\ ~ (x <= MAX_DEBOUNCE) => x % m = x - m
  BY <1>1, <1>2, DebounceAssumption
<1>4. m = MAX_DEBOUNCE + 1 /\ x = c + d
  BY DEF m, x
<1>5. (c + d) % (MAX_DEBOUNCE + 1) = x % m
  BY <1>4, Zenon
<1>6. c + d - (MAX_DEBOUNCE + 1) = x - m
  BY <1>1, <1>4, DebounceAssumption
<1> QED
  BY <1>3, <1>4, <1>5, <1>6, Zenon

(* TIMER_DIFF is the time between two scans, and adds up for as long as no *)
(* time stamp is older than DEBOUNCE: the one place where the byte-wide    *)
(* timer has to be wide enough.                                            *)
LEMMA TimerStep ==
  ASSUME NEW c \in 0 .. MAX_DEBOUNCE, NEW d \in 0 .. STEP,
         NEW n, n = (c + d) % (MAX_DEBOUNCE + 1)
  PROVE  /\ n \in 0 .. MAX_DEBOUNCE
         /\ TIMER_DIFF(n, c) = d
         /\ TIMER_DIFF(n, n) = 0
         /\ \A s \in 0 .. MAX_DEBOUNCE :
              TIMER_DIFF(c, s) < DEBOUNCE => TIMER_DIFF(n, s) = TIMER_DIFF(c, s) + d
<1>1. n = IF c + d <= MAX_DEBOUNCE THEN c + d ELSE c + d - (MAX_DEBOUNCE + 1)
  BY WrappingAdd
<1> QED
  BY <1>1, DebounceAssumption DEF TIMER_DIFF

(* Ages are counted up to LONG, and below it exactly.                      *)
LEMMA UpToLongIs ==
  ASSUME NEW t \in Nat
  PROVE  /\ UpToLong(t) \in 0 .. LONG
         /\ UpToLong(t) <= t
         /\ \A x \in 0 .. LONG : x <= t => x <= UpToLong(t)
         /\ LONG \in Nat /\ LONG = DEBOUNCE + 1
         /\ t < LONG => UpToLong(t) = t
BY DebounceAssumption DEF UpToLong, LONG

-----------------------------------------------------------------------------
(* sym_defer_g                                                             *)

(* It runs no longer than any switch has stood still, and while it matters *)
(* some switch has moved since it was started.                             *)
GlobalInv ==
  /\ \A k \in Key : idle <= raw_age[k]
  /\ ~debouncing => \A k \in Key : cooked[k] = raw[k]
  /\ debouncing => idle <= DEBOUNCE /\ \E k \in Key : raw_age[k] <= idle

(* Two different matrices differ in a switch.                              *)
LEMMA SwitchMoved ==
  ASSUME NEW f \in [Key -> BOOLEAN], NEW g \in [Key -> BOOLEAN], f # g
  PROVE  \E k \in Key : f[k] # g[k]
OBVIOUS

(* A scan sets the switches and how long they have stood still.            *)
LEMMA ScanType ==
  ASSUME DebounceTypeOK, NEW new \in [Key -> BOOLEAN], NEW d \in 0 .. STEP, Scan(new, d)
  PROVE  /\ raw' = new /\ algorithm' = algorithm
         /\ raw_age' \in [Key -> 0 .. LONG]
         /\ \A k \in Key : raw_age'[k] = IF new[k] # raw[k] THEN 0 ELSE UpToLong(raw_age[k] + d)
         /\ \A k \in Key : raw_age[k] + d \in Nat
<1>1. \A k \in Key : raw_age[k] + d \in Nat
  BY DebounceAssumption DEF DebounceTypeOK, LONG
<1>2. ASSUME NEW k \in Key PROVE UpToLong(raw_age[k] + d) \in 0 .. LONG /\ 0 \in 0 .. LONG
  <2>1. raw_age[k] + d \in Nat
    BY <1>1
  <2>2. UpToLong(raw_age[k] + d) \in 0 .. LONG /\ LONG \in Nat
    BY <2>1, UpToLongIs
  <2> QED
    BY <2>2
<1> QED
  BY <1>1, <1>2 DEF Scan

(* sym_defer_g keeps its invariant, and changes a key only after all       *)
(* switches have stood still.                                              *)
LEMMA GlobalKeeps ==
  ASSUME DebounceTypeOK, algorithm = "sym_defer_g" => GlobalInv,
         NEW new \in [Key -> BOOLEAN], NEW d \in 0 .. STEP, sym_defer_g(new, d)
  PROVE  /\ DebounceTypeOK' /\ GlobalInv'
         /\ \A k \in Key : cooked'[k] # cooked[k] => raw_age'[k] >= DEBOUNCE
<1> DEFINE time == IF new # raw THEN 0 ELSE UpToLong(idle + d)
           busy == new # raw \/ debouncing
           done == busy /\ time > DEBOUNCE
<1>1. /\ cooked' = IF done THEN new ELSE cooked
      /\ debouncing' = (busy /\ ~done)
      /\ idle' = time
      /\ Scan(new, d) /\ algorithm = "sym_defer_g"
      /\ UNCHANGED <<current_time, counter, counters_need_update, matrix_need_update,
                     cooked_age, missed>>
  BY DEF sym_defer_g
<1>2. /\ raw' = new /\ algorithm' = algorithm /\ raw_age' \in [Key -> 0 .. LONG]
      /\ \A k \in Key : raw_age'[k] = IF new[k] # raw[k] THEN 0 ELSE UpToLong(raw_age[k] + d)
      /\ \A k \in Key : raw_age[k] + d \in Nat
  BY <1>1, ScanType
<1>3. /\ DEBOUNCE \in Nat /\ LONG = DEBOUNCE + 1 /\ d \in Nat
      /\ idle \in 0 .. LONG /\ idle + d \in Nat /\ raw_age \in [Key -> 0 .. LONG]
      /\ cooked \in [Key -> BOOLEAN] /\ raw \in [Key -> BOOLEAN] /\ debouncing \in BOOLEAN
  BY DebounceAssumption DEF DebounceTypeOK, LONG
<1>4. time \in 0 .. LONG /\ UpToLong(idle + d) <= idle + d
  BY <1>3, UpToLongIs
<1>5. /\ new # raw => time = 0
      /\ new = raw => time = UpToLong(idle + d)
  OBVIOUS
<1> HIDE DEF time
<1>6. DebounceTypeOK'
  <2>1. cooked' \in [Key -> BOOLEAN] /\ debouncing' \in BOOLEAN /\ idle' \in 0 .. LONG
    BY <1>1, <1>3, <1>4
  <2> QED
    BY <1>1, <1>2, <2>1 DEF DebounceTypeOK
<1>7. ASSUME NEW k \in Key PROVE time <= raw_age'[k]
  <2>1. CASE new # raw
    BY <1>2, <1>3, <1>5, <2>1
  <2>2. CASE new = raw
    <3>1. time = UpToLong(idle + d) /\ raw_age'[k] = UpToLong(raw_age[k] + d)
      BY <1>2, <1>5, <2>2
    <3>2. time <= raw_age[k] + d
      BY <1>1, <1>3, <1>4, <3>1 DEF GlobalInv
    <3> QED
      BY <1>2, <1>4, <3>1, <3>2, UpToLongIs
  <2> QED
    BY <2>1, <2>2
<1>8. ASSUME NEW k \in Key, cooked'[k] # cooked[k] PROVE raw_age'[k] >= DEBOUNCE
  <2>1. time > DEBOUNCE /\ time <= raw_age'[k] /\ time \in Int
    BY <1>1, <1>4, <1>7, <1>8
  <2> QED
    BY <1>2, <1>3, <2>1
<1>9. ASSUME ~debouncing', NEW k \in Key PROVE cooked'[k] = new[k]
  <2>1. CASE done
    BY <1>1, <2>1
  <2>2. CASE ~busy
    <3>1. cooked' = cooked /\ new = raw /\ ~debouncing
      BY <1>1, <2>2
    <3> QED
      BY <1>1, <3>1 DEF GlobalInv
  <2> QED
    BY <1>1, <1>9, <2>1, <2>2
<1>10. ASSUME debouncing' PROVE time <= DEBOUNCE /\ \E k \in Key : raw_age'[k] <= time
  <2>1. busy /\ time <= DEBOUNCE
    <3>1. busy /\ ~done
      BY <1>1, <1>10, Zenon
    <3> QED
      BY <1>3, <1>4, <3>1
  <2>2. CASE new # raw
    <3>1. PICK k \in Key : new[k] # raw[k]
      BY <1>3, <2>2, SwitchMoved
    <3> QED
      BY <1>2, <1>4, <2>1, <3>1
  <2>3. CASE new = raw
    <3>1. PICK k \in Key : raw_age[k] <= idle
      BY <1>1, <2>1, <2>3 DEF GlobalInv
    <3>2. time = UpToLong(idle + d) /\ raw_age'[k] = UpToLong(raw_age[k] + d)
      BY <1>2, <1>5, <2>3
    <3>3. UpToLong(raw_age[k] + d) <= UpToLong(idle + d)
      BY <1>2, <1>3, <3>1, DebounceAssumption DEF UpToLong, LONG
    <3> QED
      BY <2>1, <3>2, <3>3
  <2> QED
    BY <2>2, <2>3
<1>11. GlobalInv'
  BY <1>1, <1>2, <1>7, <1>9, <1>10 DEF GlobalInv
<1> QED
  BY <1>6, <1>8, <1>11

-----------------------------------------------------------------------------
(* sym_defer_pk                                                            *)

(* A key has a time stamp while it differs from its switch; the time stamp *)
(* is as old as the last move of the switch, and not yet DEBOUNCE.         *)
PerKeyInv ==
  \A k \in Key :
    /\ counter[k] # ELAPSED <=> cooked[k] # raw[k]
    /\ counter[k] # ELAPSED =>
         /\ counters_need_update
         /\ raw_age[k] < DEBOUNCE
         /\ TIMER_DIFF(current_time, counter[k]) = raw_age[k]

(* sym_defer_pk keeps its invariant, and changes a key only after its      *)
(* switch has stood still.                                                 *)
LEMMA PerKeyKeeps ==
  ASSUME DebounceTypeOK, algorithm = "sym_defer_pk" => PerKeyInv,
         NEW new \in [Key -> BOOLEAN], NEW d \in 0 .. STEP, sym_defer_pk(new, d)
  PROVE  /\ DebounceTypeOK' /\ PerKeyInv'
         /\ \A k \in Key : cooked'[k] # cooked[k] => raw_age'[k] >= DEBOUNCE
<1> DEFINE expired == {k \in Key : counters_need_update /\ HasElapsed(k)}
           left    == [u \in DOMAIN counter |-> IF u \in expired THEN ELAPSED ELSE counter[u]]
<1>1. /\ cooked' = [k \in Key |-> IF k \in expired THEN new[k] ELSE cooked[k]]
      /\ counter' = IF new # raw
                    THEN [u \in DOMAIN left |->
                            IF u \in Key THEN Restarted(new, left, u) ELSE left[u]]
                    ELSE left
      /\ counters_need_update' =
           (\/ counters_need_update /\ \E k \in Key : left[k] # ELAPSED
            \/ new # raw /\ \E k \in Key : new[k] # cooked'[k] /\ left[k] = ELAPSED)
      /\ Scan(new, d) /\ wrapping_timer_read(d) /\ algorithm = "sym_defer_pk"
      /\ UNCHANGED <<matrix_need_update, debouncing, idle, cooked_age, missed>>
  BY DEF sym_defer_pk
<1>2. /\ raw' = new /\ algorithm' = algorithm /\ raw_age' \in [Key -> 0 .. LONG]
      /\ \A k \in Key : raw_age'[k] = IF new[k] # raw[k] THEN 0 ELSE UpToLong(raw_age[k] + d)
      /\ \A k \in Key : raw_age[k] + d \in Nat
  BY <1>1, ScanType
<1>3. /\ DEBOUNCE \in Nat \ {0} /\ LONG = DEBOUNCE + 1 /\ d \in Nat
      /\ raw_age \in [Key -> 0 .. LONG]
      /\ cooked \in [Key -> BOOLEAN] /\ raw \in [Key -> BOOLEAN]
      /\ counter \in [Key \cup Row -> 0 .. MAX_DEBOUNCE \cup {ELAPSED}]
      /\ ELAPSED \notin 0 .. MAX_DEBOUNCE
  BY DebounceAssumption DEF DebounceTypeOK, LONG
<1>4. /\ current_time' \in 0 .. MAX_DEBOUNCE
      /\ TIMER_DIFF(current_time', current_time') = 0
      /\ \A s \in 0 .. MAX_DEBOUNCE :
           TIMER_DIFF(current_time, s) < DEBOUNCE =>
             TIMER_DIFF(current_time', s) = TIMER_DIFF(current_time, s) + d
  BY <1>1, TimerStep DEF wrapping_timer_read, DebounceTypeOK
<1>5. /\ left \in [Key \cup Row -> 0 .. MAX_DEBOUNCE \cup {ELAPSED}]
      /\ \A k \in Key : left[k] = IF k \in expired THEN ELAPSED ELSE counter[k]
  BY <1>3
<1>6. \A k \in Key : counter[k] # ELAPSED =>
         /\ counter[k] \in 0 .. MAX_DEBOUNCE /\ cooked[k] # raw[k]
         /\ TIMER_DIFF(current_time', counter[k]) = raw_age[k] + d
  BY <1>1, <1>3, <1>4 DEF PerKeyInv
<1>7. \A k \in Key : k \in expired <=> counter[k] # ELAPSED /\ raw_age[k] + d >= DEBOUNCE
  BY <1>1, <1>6 DEF HasElapsed, PerKeyInv
<1> HIDE DEF expired, left
<1>8. \A k \in Key :
        counter'[k] = IF new # raw
                      THEN IF new[k] = cooked'[k] THEN ELAPSED
                           ELSE IF left[k] = ELAPSED THEN current_time' ELSE left[k]
                      ELSE left[k]
  BY <1>1, <1>5 DEF Restarted
<1>9. counter' \in [Key \cup Row -> 0 .. MAX_DEBOUNCE \cup {ELAPSED}]
  BY <1>1, <1>4, <1>5 DEF Restarted
<1>10. DebounceTypeOK'
  <2>1. cooked' \in [Key -> BOOLEAN] /\ counters_need_update' \in BOOLEAN
    BY <1>1, <1>3
  <2> QED
    BY <1>1, <1>2, <1>4, <1>9, <2>1 DEF DebounceTypeOK
<1>11. ASSUME NEW k \in Key
       PROVE  cooked'[k] = IF k \in expired THEN new[k] ELSE cooked[k]
  BY <1>1
<1>12. ASSUME NEW k \in Key, new[k] # raw[k]
       PROVE  left[k] # ELAPSED => new[k] = cooked'[k]
  BY <1>3, <1>5, <1>6, <1>11, <1>12
<1>13. ASSUME NEW k \in Key, cooked'[k] # cooked[k]
       PROVE  raw_age'[k] >= DEBOUNCE
  <2>1. k \in expired /\ new[k] # cooked[k]
    BY <1>11, <1>13
  <2>2. cooked[k] # raw[k] /\ raw_age[k] + d >= DEBOUNCE /\ new[k] = raw[k]
    BY <1>3, <1>6, <1>7, <2>1
  <2>3. raw_age'[k] = UpToLong(raw_age[k] + d) /\ DEBOUNCE \in 0 .. LONG
    BY <1>2, <1>3, <2>2
  <2> QED
    BY <1>2, <2>2, <2>3, UpToLongIs
<1>14. ASSUME NEW k \in Key
       PROVE  counter'[k] # ELAPSED <=> cooked'[k] # new[k]
  <2>1. current_time' # ELAPSED
    BY <1>3, <1>4
  <2>2. CASE new # raw
    BY <1>8, <2>1, <2>2
  <2>3. CASE new = raw
    <3>1. counter'[k] = left[k]
      BY <1>8, <2>3
    <3>2. counter[k] # ELAPSED <=> cooked[k] # raw[k]
      BY <1>1 DEF PerKeyInv
    <3> QED
      BY <1>5, <1>11, <2>3, <3>1, <3>2
  <2> QED
    BY <2>2, <2>3
<1>15. ASSUME NEW k \in Key, counter'[k] # ELAPSED
       PROVE  /\ counters_need_update'
              /\ raw_age'[k] < DEBOUNCE
              /\ TIMER_DIFF(current_time', counter'[k]) = raw_age'[k]
  <2>1. CASE left[k] # ELAPSED
    <3>1. counter[k] # ELAPSED /\ left[k] = counter[k] /\ k \notin expired
      BY <1>5, <2>1
    <3>2. new[k] = raw[k] /\ counter'[k] = counter[k]
      BY <1>8, <1>12, <1>15, <2>1, <3>1
    <3>3. raw_age[k] + d < DEBOUNCE /\ raw_age'[k] = UpToLong(raw_age[k] + d)
      BY <1>2, <1>3, <1>7, <3>1, <3>2
    <3>4. raw_age'[k] = raw_age[k] + d
      BY <1>2, <1>3, <3>3, UpToLongIs
    <3>5. counters_need_update
      BY <1>1, <3>1 DEF PerKeyInv
    <3> QED
      BY <1>1, <1>6, <2>1, <3>1, <3>2, <3>3, <3>4, <3>5
  <2>2. CASE left[k] = ELAPSED
    <3>1. new # raw /\ new[k] # cooked'[k] /\ counter'[k] = current_time'
      BY <1>8, <1>15, <2>2
    <3>2. k \notin expired /\ counter[k] = ELAPSED
      BY <1>5, <1>11, <2>2, <3>1
    <3>3. cooked[k] = raw[k] /\ cooked'[k] = cooked[k]
      BY <1>1, <1>11, <3>2 DEF PerKeyInv
    <3>4. raw_age'[k] = 0
      BY <1>2, <3>1, <3>3
    <3> QED
      BY <1>1, <1>3, <1>4, <2>2, <3>1, <3>4
  <2> QED
    BY <2>1, <2>2
<1>16. PerKeyInv'
  BY <1>2, <1>14, <1>15 DEF PerKeyInv
<1> QED
  BY <1>10, <1>13, <1>16

-----------------------------------------------------------------------------
(* sym_eager_pk, sym_eager_pr                                              *)

(* What has the time stamp of a key: the key or its row.                   *)
UnitOf(k) == IF algorithm = "sym_eager_pk" THEN k ELSE RowOf[k]

(* A unit has a time stamp until DEBOUNCE ms after its last change; a key  *)
(* that differs from its switch has one, because the switch moved since.   *)
EagerInv ==
  \A k \in Key :
    /\ counter[UnitOf(k)] = ELAPSED => cooked_age[k] >= DEBOUNCE
    /\ counter[UnitOf(k)] # ELAPSED =>
         /\ counters_need_update
         /\ TIMER_DIFF(current_time, counter[UnitOf(k)]) < DEBOUNCE
         /\ TIMER_DIFF(current_time, counter[UnitOf(k)]) <= cooked_age[k]
    /\ cooked[k] # raw[k] =>
         /\ matrix_need_update /\ counter[UnitOf(k)] # ELAPSED
         /\ raw_age[k] <= TIMER_DIFF(current_time, counter[UnitOf(k)])

(* Every key is in one unit.                                               *)
LEMMA Units ==
  ASSUME NEW Unit, \/ algorithm = "sym_eager_pk" /\ Unit = Key
                   \/ algorithm = "sym_eager_pr" /\ Unit = Row
  PROVE  /\ \A k \in Key : UnitOf(k) \in Unit /\ \A u \in Unit : k \in In(u) <=> u = UnitOf(k)
         /\ \A u \in Unit : In(u) \subseteq Key
         /\ Unit \subseteq Key \cup Row
BY DebounceAssumption DEF UnitOf, In

(* A time is a number.                                                     *)
LEMMA TimerDiffType ==
  ASSUME NEW a \in 0 .. MAX_DEBOUNCE, NEW b \in 0 .. MAX_DEBOUNCE
  PROVE  TIMER_DIFF(a, b) \in Nat
BY DebounceAssumption DEF TIMER_DIFF

(* The eager algorithms keep their invariant, and change no key of a unit  *)
(* that changed less than DEBOUNCE ms ago.                                 *)
LEMMA EagerKeeps ==
  ASSUME DebounceTypeOK, EagerInv, NEW new \in [Key -> BOOLEAN], NEW d \in 0 .. STEP,
         NEW Unit, \/ algorithm = "sym_eager_pk" /\ Unit = Key
                   \/ algorithm = "sym_eager_pr" /\ Unit = Row,
         NEW when_elapsed, SymEager(new, d, Unit, when_elapsed)
  PROVE  /\ DebounceTypeOK' /\ EagerInv'
         /\ \A k, j \in Key :
              cooked'[k] # cooked[k] /\ UnitOf(k) = UnitOf(j) => cooked_age[j] + d >= DEBOUNCE
<1> DEFINE left     == [u \in DOMAIN counter |->
                          IF u \in Unit /\ counters_need_update /\ HasElapsed(u)
                          THEN ELAPSED ELSE counter[u]]
           waiting  == counters_need_update /\ \E u \in Unit : left[u] # ELAPSED
           elapsed  == counters_need_update /\ ~waiting
           transfer == new # raw \/ matrix_need_update \/ (when_elapsed /\ elapsed)
           differ   == {u \in Unit : \E k \in In(u) : new[k] # cooked[k]}
           taken    == {u \in differ : transfer /\ Accepts(left, u)}
<1>1. /\ cooked' = [k \in Key |-> IF \E u \in taken : k \in In(u) THEN new[k] ELSE cooked[k]]
      /\ counter' = [u \in DOMAIN left |-> IF u \in taken THEN current_time' ELSE left[u]]
      /\ counters_need_update' = (waiting \/ taken # {})
      /\ matrix_need_update' = IF transfer THEN differ # taken ELSE matrix_need_update
      /\ cooked_age' = [k \in Key |-> IF cooked'[k] # cooked[k] THEN 0
                                      ELSE UpToLong(cooked_age[k] + d)]
      /\ Scan(new, d) /\ wrapping_timer_read(d)
      /\ UNCHANGED <<debouncing, idle, missed>>
  BY DEF SymEager
<1>2. /\ raw' = new /\ algorithm' = algorithm /\ raw_age' \in [Key -> 0 .. LONG]
      /\ \A k \in Key : raw_age'[k] = IF new[k] # raw[k] THEN 0 ELSE UpToLong(raw_age[k] + d)
      /\ \A k \in Key : raw_age[k] + d \in Nat
  BY <1>1, ScanType
<1>3. /\ DEBOUNCE \in Nat \ {0} /\ LONG = DEBOUNCE + 1 /\ d \in Nat
      /\ raw_age \in [Key -> 0 .. LONG] /\ cooked_age \in [Key -> 0 .. LONG]
      /\ cooked \in [Key -> BOOLEAN] /\ raw \in [Key -> BOOLEAN]
      /\ counter \in [Key \cup Row -> 0 .. MAX_DEBOUNCE \cup {ELAPSED}]
      /\ ELAPSED \notin 0 .. MAX_DEBOUNCE
      /\ matrix_need_update \in BOOLEAN /\ counters_need_update \in BOOLEAN
      /\ current_time \in 0 .. MAX_DEBOUNCE
  BY DebounceAssumption DEF DebounceTypeOK, LONG
<1>4. /\ current_time' \in 0 .. MAX_DEBOUNCE
      /\ TIMER_DIFF(current_time', current_time') = 0
      /\ \A s \in 0 .. MAX_DEBOUNCE :
           TIMER_DIFF(current_time, s) < DEBOUNCE =>
             TIMER_DIFF(current_time', s) = TIMER_DIFF(current_time, s) + d
  BY <1>1, <1>3, TimerStep DEF wrapping_timer_read
<1>5. /\ \A k \in Key : UnitOf(k) \in Unit /\ \A u \in Unit : k \in In(u) <=> u = UnitOf(k)
      /\ \A u \in Unit : In(u) \subseteq Key
      /\ Unit \subseteq Key \cup Row
  BY Units
<1>6. /\ left \in [Key \cup Row -> 0 .. MAX_DEBOUNCE \cup {ELAPSED}]
      /\ \A u \in Unit : left[u] = IF counters_need_update /\ HasElapsed(u)
                                   THEN ELAPSED ELSE counter[u]
  BY <1>3, <1>5
<1>7. \A u \in taken : u \in Unit /\ transfer /\ left[u] = ELAPSED
  BY DEF Accepts
<1>8. ASSUME NEW k \in Key
      PROVE  /\ UnitOf(k) \in taken <=> /\ transfer /\ left[UnitOf(k)] = ELAPSED
                                        /\ UnitOf(k) \in differ
             /\ new[k] # cooked[k] => UnitOf(k) \in differ
             /\ cooked'[k] = IF UnitOf(k) \in taken THEN new[k] ELSE cooked[k]
             /\ counter'[UnitOf(k)] = IF UnitOf(k) \in taken THEN current_time'
                                      ELSE left[UnitOf(k)]
  <2>1. UnitOf(k) \in Unit /\ k \in In(UnitOf(k)) /\ UnitOf(k) \in Key \cup Row
    BY <1>5
  <2>2. (\E u \in taken : k \in In(u)) <=> UnitOf(k) \in taken
    BY <1>5, <2>1
  <2>3. UnitOf(k) \in DOMAIN left
    BY <1>6, <2>1
  <2> QED
    BY <1>1, <2>1, <2>2, <2>3 DEF Accepts
<1>9. taken \subseteq differ /\ \A u \in differ \ taken : differ # taken
  OBVIOUS
<1>10. \A u \in Unit : left[u] # ELAPSED /\ counters_need_update => waiting
  OBVIOUS
<1> HIDE DEF left, waiting, differ, taken
<1>11. ASSUME NEW k \in Key, counter[UnitOf(k)] # ELAPSED
       PROVE  /\ counter[UnitOf(k)] \in 0 .. MAX_DEBOUNCE /\ counters_need_update
              /\ TIMER_DIFF(current_time, counter[UnitOf(k)]) \in Nat
              /\ TIMER_DIFF(current_time', counter[UnitOf(k)])
                   = TIMER_DIFF(current_time, counter[UnitOf(k)]) + d
              /\ left[UnitOf(k)] = IF TIMER_DIFF(current_time, counter[UnitOf(k)]) + d >= DEBOUNCE
                                   THEN ELAPSED ELSE counter[UnitOf(k)]
  <2>1. counter[UnitOf(k)] \in 0 .. MAX_DEBOUNCE
    BY <1>3, <1>5, <1>11
  <2>2. counters_need_update /\ TIMER_DIFF(current_time, counter[UnitOf(k)]) < DEBOUNCE
    BY <1>11 DEF EagerInv
  <2>3. TIMER_DIFF(current_time', counter[UnitOf(k)])
          = TIMER_DIFF(current_time, counter[UnitOf(k)]) + d
    BY <1>4, <2>1, <2>2
  <2>4. UnitOf(k) \in Unit
    BY <1>5
  <2> QED
    BY <1>3, <1>6, <1>11, <2>1, <2>2, <2>3, <2>4, TimerDiffType DEF HasElapsed
<1>12. ASSUME NEW k \in Key, left[UnitOf(k)] = ELAPSED
       PROVE  cooked_age[k] + d >= DEBOUNCE
  <2>1. CASE counter[UnitOf(k)] = ELAPSED
    BY <1>3, <2>1 DEF EagerInv
  <2>2. CASE counter[UnitOf(k)] # ELAPSED
    <3>1. TIMER_DIFF(current_time, counter[UnitOf(k)]) <= cooked_age[k]
      BY <2>2 DEF EagerInv
    <3> QED
      BY <1>3, <1>11, <1>12, <2>2, <3>1
  <2> QED
    BY <2>1, <2>2
<1>13. ASSUME NEW k \in Key, NEW j \in Key, cooked'[k] # cooked[k], UnitOf(k) = UnitOf(j)
       PROVE  cooked_age[j] + d >= DEBOUNCE
  BY <1>8, <1>12, <1>13
<1>14. \A k \in Key : cooked_age[k] + d \in Nat /\ UpToLong(cooked_age[k] + d) \in 0 .. LONG
  <2>1. \A k \in Key : cooked_age[k] + d \in Nat
    BY <1>3
  <2> QED
    BY <2>1, UpToLongIs
<1>15. DebounceTypeOK'
  <2>1. cooked' \in [Key -> BOOLEAN] /\ counter' \in [Key \cup Row -> 0 .. MAX_DEBOUNCE \cup {ELAPSED}]
    BY <1>1, <1>3, <1>4, <1>6
  <2>2. counters_need_update' \in BOOLEAN /\ matrix_need_update' \in BOOLEAN
    BY <1>1, <1>3 DEF waiting
  <2>3. cooked_age' \in [Key -> 0 .. LONG]
    BY <1>1, <1>3, <1>14
  <2> QED
    BY <1>1, <1>2, <1>4, <2>1, <2>2, <2>3 DEF DebounceTypeOK
<1>16. \A k \in Key : UnitOf(k)' = UnitOf(k)
  BY <1>2 DEF UnitOf
<1>17. ASSUME NEW k \in Key
       PROVE  cooked_age'[k] = IF cooked'[k] # cooked[k] THEN 0 ELSE UpToLong(cooked_age[k] + d)
  BY <1>1
<1>18. current_time' # ELAPSED
  BY <1>3, <1>4
<1>19. ASSUME NEW k \in Key, counter'[UnitOf(k)] = ELAPSED
       PROVE  cooked_age'[k] >= DEBOUNCE
  <2>1. UnitOf(k) \notin taken /\ left[UnitOf(k)] = ELAPSED /\ cooked'[k] = cooked[k]
    BY <1>8, <1>18, <1>19
  <2>2. cooked_age'[k] = UpToLong(cooked_age[k] + d) /\ cooked_age[k] + d >= DEBOUNCE
    BY <1>12, <1>17, <2>1
  <2>3. DEBOUNCE \in 0 .. LONG
    BY <1>3
  <2> QED
    BY <1>14, <2>2, <2>3, UpToLongIs
<1>20. ASSUME NEW k \in Key, counter'[UnitOf(k)] # ELAPSED
       PROVE  /\ counters_need_update'
              /\ TIMER_DIFF(current_time', counter'[UnitOf(k)]) < DEBOUNCE
              /\ TIMER_DIFF(current_time', counter'[UnitOf(k)]) <= cooked_age'[k]
  <2>1. cooked_age'[k] \in 0 .. LONG
    BY <1>3, <1>14, <1>17
  <2>2. CASE UnitOf(k) \in taken
    <3>1. counter'[UnitOf(k)] = current_time' /\ counters_need_update'
      BY <1>1, <1>8, <2>2
    <3> QED
      BY <1>3, <1>4, <2>1, <3>1
  <2>3. CASE UnitOf(k) \notin taken
    <3>1. left[UnitOf(k)] # ELAPSED /\ counter'[UnitOf(k)] = left[UnitOf(k)]
          /\ cooked'[k] = cooked[k]
      BY <1>8, <1>20, <2>3
    <3>2. counter[UnitOf(k)] # ELAPSED /\ left[UnitOf(k)] = counter[UnitOf(k)]
      BY <1>5, <1>6, <3>1
    <3>3. counters_need_update /\ counters_need_update'
      BY <1>1, <1>5, <1>10, <1>11, <3>1, <3>2
    <3> DEFINE t == TIMER_DIFF(current_time, counter[UnitOf(k)])
    <3>4. t \in Nat /\ t + d < DEBOUNCE /\ t <= cooked_age[k]
          /\ TIMER_DIFF(current_time', counter[UnitOf(k)]) = t + d
      <4>1. t <= cooked_age[k]
        BY <3>2 DEF EagerInv
      <4> QED
        BY <1>3, <1>11, <3>1, <3>2, <4>1
    <3> HIDE DEF t
    <3>5. t + d \in 0 .. LONG /\ t + d <= cooked_age[k] + d
      BY <1>3, <3>4
    <3>6. t + d <= UpToLong(cooked_age[k] + d)
      BY <1>14, <3>5, UpToLongIs
    <3> QED
      BY <1>17, <3>1, <3>2, <3>3, <3>4, <3>6
  <2> QED
    BY <2>2, <2>3
<1>21. ASSUME NEW k \in Key, cooked'[k] # new[k]
       PROVE  /\ matrix_need_update' /\ counter'[UnitOf(k)] # ELAPSED
              /\ raw_age'[k] <= TIMER_DIFF(current_time', counter'[UnitOf(k)])
  <2>1. UnitOf(k) \notin taken /\ cooked'[k] = cooked[k] /\ UnitOf(k) \in differ
    BY <1>8, <1>21
  <2>2. transfer
    <3>1. CASE new = raw
      BY <1>21, <2>1, <3>1 DEF EagerInv
    <3>2. CASE new # raw
      BY <3>2
    <3> QED
      BY <3>1, <3>2
  <2>3. matrix_need_update' /\ left[UnitOf(k)] # ELAPSED /\ counter'[UnitOf(k)] = left[UnitOf(k)]
    BY <1>1, <1>8, <1>9, <2>1, <2>2
  <2>4. counter[UnitOf(k)] # ELAPSED /\ left[UnitOf(k)] = counter[UnitOf(k)]
    BY <1>5, <1>6, <2>3
  <2> DEFINE t == TIMER_DIFF(current_time, counter[UnitOf(k)])
  <2>5. t \in Nat /\ TIMER_DIFF(current_time', counter[UnitOf(k)]) = t + d
    BY <1>11, <2>4
  <2>6. new[k] = raw[k] => raw_age[k] <= t
    BY <1>21, <2>1 DEF EagerInv
  <2> HIDE DEF t
  <2>7. raw_age'[k] <= t + d
    <3>1. UpToLong(raw_age[k] + d) <= raw_age[k] + d /\ UpToLong(raw_age[k] + d) \in 0 .. LONG
      BY <1>2, UpToLongIs
    <3> QED
      BY <1>2, <1>3, <2>5, <2>6, <3>1
  <2> QED
    BY <2>3, <2>4, <2>5, <2>7
<1>22. EagerInv'
  BY <1>2, <1>16, <1>19, <1>20, <1>21 DEF EagerInv
<1> QED
  BY <1>13, <1>15, <1>22

-----------------------------------------------------------------------------
(* matrix_scan of the Snowfox                                              *)

(* A column has a time stamp until DEBOUNCE ms after the last move of its  *)
(* switches, and is not older than it; without one its keys are what the   *)
(* switches are, unless the column's change was missed.                    *)
ColumnInv ==
  \A r \in Row :
    /\ counter[r] = ELAPSED /\ r \notin missed => \A k \in In(r) : cooked[k] = raw[k]
    /\ counter[r] # ELAPSED =>
         /\ TIMER_DIFF(current_time, counter[r]) < DEBOUNCE
         /\ \A k \in In(r) : TIMER_DIFF(current_time, counter[r]) <= raw_age[k]
         /\ \E k \in In(r) : raw_age[k] <= TIMER_DIFF(current_time, counter[r])

(* Every key is in one column.                                             *)
LEMMA Columns ==
  /\ \A r \in Row : In(r) \subseteq Key
  /\ \A k \in Key : RowOf[k] \in Row /\ \A r \in Row : k \in In(r) <=> RowOf[k] = r
BY DebounceAssumption DEF In

(* The Snowfox keeps its invariant, and changes a key only after the       *)
(* switches of its column have stood still; a change it missed is          *)
(* remembered.                                                             *)
LEMMA ColumnKeeps ==
  ASSUME DebounceTypeOK, ColumnInv, NEW new \in [Key -> BOOLEAN], NEW d \in 0 .. STEP,
         snowfox_scan(new, d)
  PROVE  /\ DebounceTypeOK' /\ ColumnInv'
         /\ \A k \in Key : cooked'[k] # cooked[k] => raw_age'[k] >= DEBOUNCE
<1> DEFINE changed == {r \in Row : \E k \in In(r) : new[k] # raw[k]}
           done    == {r \in Row \ changed : HasElapsed(r)}
           stamp   == IF current_time' = 0 THEN ELAPSED ELSE current_time'
<1>1. /\ cooked' = [k \in Key |-> IF RowOf[k] \in done THEN raw[k] ELSE cooked[k]]
      /\ counter' = [u \in DOMAIN counter |->
                       IF u \in changed THEN stamp ELSE IF u \in done THEN ELAPSED ELSE counter[u]]
      /\ missed' = (missed \ changed) \cup {r \in changed : stamp = ELAPSED}
      /\ Scan(new, d) /\ wrapping_timer_read(d)
      /\ UNCHANGED <<counters_need_update, matrix_need_update, debouncing, idle, cooked_age>>
  BY DEF snowfox_scan
<1>2. /\ raw' = new /\ algorithm' = algorithm /\ raw_age' \in [Key -> 0 .. LONG]
      /\ \A k \in Key : raw_age'[k] = IF new[k] # raw[k] THEN 0 ELSE UpToLong(raw_age[k] + d)
      /\ \A k \in Key : raw_age[k] + d \in Nat
  BY <1>1, ScanType
<1>3. /\ DEBOUNCE \in Nat \ {0} /\ LONG = DEBOUNCE + 1 /\ d \in Nat
      /\ raw_age \in [Key -> 0 .. LONG]
      /\ cooked \in [Key -> BOOLEAN] /\ raw \in [Key -> BOOLEAN] /\ missed \subseteq Row
      /\ counter \in [Key \cup Row -> 0 .. MAX_DEBOUNCE \cup {ELAPSED}]
      /\ ELAPSED \notin 0 .. MAX_DEBOUNCE /\ current_time \in 0 .. MAX_DEBOUNCE
  BY DebounceAssumption DEF DebounceTypeOK, LONG
<1>4. /\ current_time' \in 0 .. MAX_DEBOUNCE
      /\ TIMER_DIFF(current_time', current_time') = 0
      /\ \A s \in 0 .. MAX_DEBOUNCE :
           TIMER_DIFF(current_time, s) < DEBOUNCE =>
             TIMER_DIFF(current_time', s) = TIMER_DIFF(current_time, s) + d
  BY <1>1, <1>3, TimerStep DEF wrapping_timer_read
<1>5. /\ \A r \in changed : r \in Row /\ \E k \in In(r) : new[k] # raw[k]
      /\ \A r \in Row \ changed : \A k \in In(r) : new[k] = raw[k]
      /\ \A r \in Row : r \in done <=> r \notin changed /\ HasElapsed(r)
      /\ stamp \in {ELAPSED, current_time'}
  OBVIOUS
<1> HIDE DEF changed, done, stamp
<1>6. DebounceTypeOK'
  <2>1. cooked' \in [Key -> BOOLEAN] /\ missed' \subseteq Row
    BY <1>1, <1>3, <1>5
  <2>2. counter' \in [Key \cup Row -> 0 .. MAX_DEBOUNCE \cup {ELAPSED}]
    BY <1>1, <1>3, <1>4, <1>5
  <2> QED
    BY <1>1, <1>2, <1>4, <2>1, <2>2 DEF DebounceTypeOK
<1>7. ASSUME NEW r \in Row, NEW k \in In(r)
      PROVE  k \in Key /\ cooked'[k] = IF r \in done THEN raw[k] ELSE cooked[k]
  BY <1>1, Columns
<1>8. ASSUME NEW r \in Row, counter[r] # ELAPSED
      PROVE  /\ counter[r] \in 0 .. MAX_DEBOUNCE
             /\ TIMER_DIFF(current_time, counter[r]) \in Nat
             /\ TIMER_DIFF(current_time', counter[r]) = TIMER_DIFF(current_time, counter[r]) + d
  <2>1. counter[r] \in 0 .. MAX_DEBOUNCE
    BY <1>3, <1>8
  <2> QED
    BY <1>3, <1>4, <1>8, <2>1, TimerDiffType DEF ColumnInv
<1>9. ASSUME NEW k \in Key, cooked'[k] # cooked[k] PROVE raw_age'[k] >= DEBOUNCE
  <2> DEFINE r == RowOf[k]
  <2>1. r \in Row /\ k \in In(r)
    BY Columns
  <2> HIDE DEF r
  <2>2. r \in done /\ r \notin changed /\ counter[r] # ELAPSED
        /\ TIMER_DIFF(current_time', counter[r]) >= DEBOUNCE
    BY <1>5, <1>7, <1>9, <2>1 DEF HasElapsed
  <2>3. new[k] = raw[k] /\ TIMER_DIFF(current_time, counter[r]) <= raw_age[k]
    BY <1>5, <2>1, <2>2 DEF ColumnInv
  <2>4. raw_age[k] + d >= DEBOUNCE /\ raw_age'[k] = UpToLong(raw_age[k] + d)
        /\ DEBOUNCE \in 0 .. LONG
    BY <1>2, <1>3, <1>8, <2>1, <2>2, <2>3
  <2> QED
    BY <1>2, <2>4, UpToLongIs
<1>10. ASSUME NEW r \in Row
       PROVE  counter'[r] = IF r \in changed THEN stamp
                            ELSE IF r \in done THEN ELAPSED ELSE counter[r]
  BY <1>1, <1>3
<1>11. ASSUME NEW r \in Row, counter'[r] = ELAPSED, r \notin missed', NEW k \in In(r)
       PROVE  cooked'[k] = new[k]
  <2>1. r \notin changed /\ new[k] = raw[k] /\ r \notin missed
    BY <1>1, <1>5, <1>10, <1>11
  <2>2. r \in done \/ counter[r] = ELAPSED
    BY <1>10, <1>11, <2>1
  <2> QED
    BY <1>7, <2>1, <2>2 DEF ColumnInv
<1>12. ASSUME NEW r \in Row, counter'[r] # ELAPSED
       PROVE  /\ TIMER_DIFF(current_time', counter'[r]) < DEBOUNCE
              /\ \A k \in In(r) : TIMER_DIFF(current_time', counter'[r]) <= raw_age'[k]
              /\ \E k \in In(r) : raw_age'[k] <= TIMER_DIFF(current_time', counter'[r])
  <2>1. CASE r \in changed
    <3>1. TIMER_DIFF(current_time', counter'[r]) = 0
      BY <1>4, <1>5, <1>10, <1>12, <2>1
    <3>2. PICK k \in In(r) : new[k] # raw[k]
      BY <1>5, <2>1
    <3>3. raw_age'[k] = 0
      BY <1>2, <3>2, Columns
    <3>4. \A j \in In(r) : raw_age'[j] \in Nat
      BY <1>2, <1>3, <1>7
    <3> QED
      BY <1>3, <3>1, <3>3, <3>4
  <2>2. CASE r \notin changed
    <3> DEFINE t == TIMER_DIFF(current_time, counter[r])
    <3>1. counter'[r] = counter[r] /\ r \notin done /\ counter[r] # ELAPSED
      BY <1>10, <1>12, <2>2
    <3>2. t \in Nat /\ TIMER_DIFF(current_time', counter'[r]) = t + d
      BY <1>8, <3>1
    <3>3. /\ \A k \in In(r) : t <= raw_age[k]
          /\ \E k \in In(r) : raw_age[k] <= t
      BY <3>1 DEF ColumnInv
    <3>4. t + d < DEBOUNCE
      BY <1>3, <1>5, <2>2, <3>1, <3>2 DEF HasElapsed
    <3> HIDE DEF t
    <3>5. \A k \in In(r) : k \in Key /\ raw_age'[k] = UpToLong(raw_age[k] + d)
      BY <1>2, <1>5, <1>7, <2>2
    <3>6. ASSUME NEW k \in In(r) PROVE t + d <= raw_age'[k]
      <4>1. t + d \in 0 .. LONG /\ t + d <= raw_age[k] + d
        BY <1>3, <3>2, <3>3, <3>4, <3>5
      <4> QED
        BY <1>2, <3>5, <4>1, UpToLongIs
    <3>7. \E k \in In(r) : raw_age'[k] <= t + d
      <4>1. PICK k \in In(r) : raw_age[k] <= t
        BY <3>3
      <4>2. UpToLong(raw_age[k] + d) <= raw_age[k] + d /\ UpToLong(raw_age[k] + d) \in 0 .. LONG
        BY <1>2, <3>5, UpToLongIs
      <4> QED
        BY <1>3, <3>2, <3>5, <4>1, <4>2
    <3> QED
      BY <3>2, <3>4, <3>6, <3>7
  <2> QED
    BY <2>1, <2>2
<1>13. ColumnInv'
  <2>1. \A r \in Row : In(r)' = In(r)
    BY DEF In
  <2> QED
    BY <1>2, <1>11, <1>12, <2>1 DEF ColumnInv
<1> QED
  BY <1>6, <1>9, <1>13

-----------------------------------------------------------------------------
(* All of them                                                             *)

DebounceInv ==
  /\ DebounceTypeOK
  /\ algorithm = "sym_defer_g" => GlobalInv
  /\ algorithm = "sym_defer_pk" => PerKeyInv
  /\ Eager => EagerInv
  /\ algorithm = "snowfox" => ColumnInv

(* What a step may change of a key.                                        *)
MayChange ==
  /\ Deferring => \A k \in Key : cooked'[k] # cooked[k] => raw_age'[k] >= DEBOUNCE
  /\ Eager => \A k, j \in Key :
                cooked'[k] # cooked[k] /\ UnitOf(k) = UnitOf(j) =>
                  cooked_age[j] + TIMER_DIFF(current_time', current_time) >= DEBOUNCE

(* All of them start settled.                                              *)
LEMMA DebounceInvInit == DebounceInit => DebounceInv
<1> SUFFICES ASSUME DebounceInit PROVE DebounceInv
  OBVIOUS
<1> USE DEF DebounceInit
<1>1. LONG \in Nat /\ LONG = DEBOUNCE + 1 /\ 0 \in 0 .. LONG /\ LONG \in 0 .. LONG
  BY DebounceAssumption DEF LONG
<1>2. DebounceTypeOK
  <2>1. raw \in [Key -> BOOLEAN] /\ cooked \in [Key -> BOOLEAN]
    OBVIOUS
  <2>2. counter \in [Key \cup Row -> 0 .. MAX_DEBOUNCE \cup {ELAPSED}]
    OBVIOUS
  <2>3. /\ idle \in 0 .. LONG
        /\ raw_age \in [Key -> 0 .. LONG] /\ cooked_age \in [Key -> 0 .. LONG]
    BY <1>1
  <2>4. current_time \in 0 .. MAX_DEBOUNCE
    BY DebounceAssumption
  <2>5. /\ missed \subseteq Row /\ algorithm \in Algorithm
        /\ {counters_need_update, matrix_need_update, debouncing} \subseteq BOOLEAN
    OBVIOUS
  <2> QED
    BY <2>1, <2>2, <2>3, <2>4, <2>5 DEF DebounceTypeOK
<1>3. \A k \in Key : /\ raw_age[k] = LONG /\ cooked_age[k] = LONG /\ cooked[k] = raw[k]
                     /\ counter[UnitOf(k)] = ELAPSED /\ counter[k] = ELAPSED
                     /\ RowOf[k] \in Row
  BY DebounceAssumption DEF UnitOf
<1>4. GlobalInv
  BY <1>1, <1>3 DEF GlobalInv
<1>5. PerKeyInv
  BY <1>3 DEF PerKeyInv
<1>6. EagerInv
  <2> HIDE DEF DebounceInit
  <2> SUFFICES ASSUME NEW k \in Key
               PROVE  /\ counter[UnitOf(k)] = ELAPSED /\ cooked_age[k] >= DEBOUNCE
                      /\ cooked[k] = raw[k]
    BY DEF EagerInv
  <2>1. counter[UnitOf(k)] = ELAPSED /\ cooked_age[k] = LONG /\ cooked[k] = raw[k]
    BY <1>3
  <2>2. LONG >= DEBOUNCE
    BY <1>1, DebounceAssumption
  <2> QED
    BY <2>1, <2>2
<1>7. ColumnInv
  BY <1>1, <1>3, Columns DEF ColumnInv
<1> QED
  BY <1>2, <1>4, <1>5, <1>6, <1>7 DEF DebounceInv

(* Whichever algorithm runs keeps its invariant.                           *)
LEMMA DebounceInvNext ==
  ASSUME DebounceInv, DebounceNext
  PROVE  DebounceInv' /\ MayChange
<1>1. PICK new \in [Key -> BOOLEAN], d \in 0 .. STEP :
        \/ sym_defer_g(new, d) \/ sym_defer_pk(new, d)
        \/ sym_eager_pk(new, d) \/ sym_eager_pr(new, d)
        \/ snowfox_scan(new, d)
  BY DEF DebounceNext
<1>2. CASE sym_defer_g(new, d)
  <2>1. algorithm = "sym_defer_g" /\ algorithm' = algorithm
    BY <1>2 DEF sym_defer_g, Scan
  <2> QED
    BY <1>2, <2>1, GlobalKeeps DEF DebounceInv, MayChange, Eager
<1>3. CASE sym_defer_pk(new, d)
  <2>1. algorithm = "sym_defer_pk" /\ algorithm' = algorithm
    BY <1>3 DEF sym_defer_pk, Scan
  <2> QED
    BY <1>3, <2>1, PerKeyKeeps DEF DebounceInv, MayChange, Eager
<1>4. CASE sym_eager_pk(new, d) \/ sym_eager_pr(new, d)
  <2>1. PICK Unit, when_elapsed :
          /\ \/ algorithm = "sym_eager_pk" /\ Unit = Key
             \/ algorithm = "sym_eager_pr" /\ Unit = Row
          /\ SymEager(new, d, Unit, when_elapsed)
    BY <1>4 DEF sym_eager_pk, sym_eager_pr
  <2>2. /\ DebounceTypeOK' /\ EagerInv'
        /\ \A k, j \in Key :
             cooked'[k] # cooked[k] /\ UnitOf(k) = UnitOf(j) => cooked_age[j] + d >= DEBOUNCE
    BY <2>1, EagerKeeps DEF DebounceInv, Eager
  <2>3. algorithm' = algorithm /\ TIMER_DIFF(current_time', current_time) = d
    BY <2>1, TimerStep DEF SymEager, Scan, wrapping_timer_read, DebounceInv, DebounceTypeOK
  <2> QED
    BY <2>1, <2>2, <2>3 DEF DebounceInv, MayChange, Eager, Deferring
<1>5. CASE snowfox_scan(new, d)
  <2>1. algorithm = "snowfox" /\ algorithm' = algorithm
    BY <1>5 DEF snowfox_scan, Scan
  <2>2. /\ DebounceTypeOK' /\ ColumnInv'
        /\ \A k \in Key : cooked'[k] # cooked[k] => raw_age'[k] >= DEBOUNCE
    BY <1>5, <2>1, ColumnKeeps DEF DebounceInv
  <2> QED
    BY <2>1, <2>2 DEF DebounceInv, MayChange, Eager
<1> QED
  BY <1>1, <1>2, <1>3, <1>4, <1>5

(* A step of somebody else does, too.                                      *)
LEMMA DebounceStutter == DebounceInv /\ UNCHANGED debounce_vars => DebounceInv'
<1> SUFFICES ASSUME DebounceInv, UNCHANGED debounce_vars PROVE DebounceInv'
  OBVIOUS
<1> USE DEF debounce_vars
<1>1. DebounceTypeOK'
  BY DEF DebounceInv, DebounceTypeOK
<1>2. GlobalInv => GlobalInv'
  BY DEF GlobalInv
<1>3. PerKeyInv => PerKeyInv'
  BY DEF PerKeyInv
<1>4. EagerInv => EagerInv'
  BY DEF EagerInv, UnitOf
<1>5. ColumnInv => ColumnInv'
  BY DEF ColumnInv, In
<1> QED
  BY <1>1, <1>2, <1>3, <1>4, <1>5 DEF DebounceInv, Eager

(* The invariants leave no key behind its switch.                          *)
LEMMA DebounceSettled == DebounceInv => Settles
<1> SUFFICES ASSUME DebounceInv, NEW k \in Key, StoodStill(k) PROVE cooked[k] = raw[k]
  BY DEF Settles
<1>1. /\ RowOf[k] \in Row /\ k \in In(RowOf[k]) /\ algorithm \in Algorithm
      /\ raw_age \in [Key -> 0 .. LONG] /\ idle \in 0 .. LONG
      /\ current_time \in 0 .. MAX_DEBOUNCE
      /\ counter \in [Key \cup Row -> 0 .. MAX_DEBOUNCE \cup {ELAPSED}]
      /\ DEBOUNCE \in Nat /\ LONG = DEBOUNCE + 1
  BY Columns, DebounceAssumption DEF DebounceInv, DebounceTypeOK, LONG
<1>2. CASE algorithm = "sym_defer_g"
  <2>1. \A j \in Key : raw_age[j] > DEBOUNCE
    BY <1>2 DEF StoodStill
  <2>2. GlobalInv
    BY <1>2 DEF DebounceInv
  <2>3. ~debouncing
    BY <1>1, <2>1, <2>2 DEF GlobalInv
  <2> QED
    BY <1>1, <2>2, <2>3 DEF GlobalInv
<1>3. CASE algorithm = "snowfox"
  <2>1. RowOf[k] \notin missed /\ \A j \in In(RowOf[k]) : raw_age[j] >= DEBOUNCE
    BY <1>3 DEF StoodStill
  <2>2. ColumnInv
    BY <1>3 DEF DebounceInv
  <2>3. counter[RowOf[k]] = ELAPSED
    <3> SUFFICES ASSUME counter[RowOf[k]] # ELAPSED PROVE FALSE
      OBVIOUS
    <3>1. PICK j \in In(RowOf[k]) :
                 raw_age[j] <= TIMER_DIFF(current_time, counter[RowOf[k]])
      BY <1>1, <2>2 DEF ColumnInv
    <3>2. /\ j \in Key /\ raw_age[j] >= DEBOUNCE
          /\ TIMER_DIFF(current_time, counter[RowOf[k]]) < DEBOUNCE
      BY <1>1, <2>1, <2>2, <3>1, Columns DEF ColumnInv
    <3>3. TIMER_DIFF(current_time, counter[RowOf[k]]) \in Nat
      BY <1>1, TimerDiffType
    <3> QED
      BY <1>1, <3>1, <3>2, <3>3
  <2> QED
    BY <1>1, <2>1, <2>2, <2>3 DEF ColumnInv
<1>4. CASE algorithm = "sym_defer_pk"
  <2>1. raw_age[k] >= DEBOUNCE /\ PerKeyInv
    BY <1>4 DEF StoodStill, DebounceInv
  <2> QED
    BY <1>1, <2>1 DEF PerKeyInv
<1>5. CASE Eager
  <2>1. raw_age[k] >= DEBOUNCE /\ EagerInv
    BY <1>5 DEF StoodStill, DebounceInv, Eager
  <2>2. counter[UnitOf(k)] # ELAPSED => counter[UnitOf(k)] \in 0 .. MAX_DEBOUNCE
    BY <1>1 DEF DebounceInv, DebounceTypeOK, UnitOf
  <2>3. current_time \in 0 .. MAX_DEBOUNCE
    BY DEF DebounceInv, DebounceTypeOK
  <2> DEFINE t == TIMER_DIFF(current_time, counter[UnitOf(k)])
  <2>4. cooked[k] # raw[k] => t \in Nat /\ t < DEBOUNCE /\ raw_age[k] <= t
    BY <2>1, <2>2, <2>3, TimerDiffType DEF EagerInv
  <2> HIDE DEF t
  <2> QED
    BY <1>1, <2>1, <2>4
<1> QED
  BY <1>1, <1>2, <1>3, <1>4, <1>5 DEF Algorithm, Eager

(* No change is forgotten, by any of the five algorithms, for any matrix,  *)
(* DEBOUNCE, scan rate and timer width that leaves a scan between the two: *)
(* a switch that has stood still for DEBOUNCE ms has its key (on the       *)
(* Snowfox unless the time stamp of its column was 0).                     *)
THEOREM SwitchesSettle == DebounceSpec => []Settles
<1>1. DebounceInv /\ [DebounceNext]_debounce_vars => DebounceInv'
  BY DebounceInvNext, DebounceStutter
<1> QED
  BY <1>1, DebounceInvInit, DebounceSettled, PTL DEF DebounceSpec

(* The deferring debouncers type no bounce shorter than DEBOUNCE ms,       *)
(* wherever the timer wraps.                                               *)
THEOREM DeferringWaits == DebounceSpec => DeferWaits
<1>1. DebounceInv /\ [DebounceNext]_debounce_vars => DebounceInv'
  BY DebounceInvNext, DebounceStutter
<1>2. DebounceInv /\ [DebounceNext]_debounce_vars =>
        [Deferring => \A k \in Key : cooked'[k] # cooked[k] => raw_age'[k] >= DEBOUNCE]_debounce_vars
  BY DebounceInvNext DEF MayChange
<1> QED
  BY <1>1, <1>2, DebounceInvInit, PTL DEF DebounceSpec, DeferWaits

(* The eager ones change a key, or a row, at most once in DEBOUNCE ms.     *)
THEOREM EagerWaits == DebounceSpec => EagerHoldsOff
<1> DEFINE Holds == Eager =>
             \A k, j \in Key :
               /\ cooked'[k] # cooked[k]
               /\ k = j \/ (algorithm = "sym_eager_pr" /\ RowOf[k] = RowOf[j])
               => cooked_age[j] + TIMER_DIFF(current_time', current_time) >= DEBOUNCE
<1>1. DebounceInv /\ [DebounceNext]_debounce_vars => DebounceInv'
  BY DebounceInvNext, DebounceStutter
<1>2. MayChange => Holds
  BY DEF MayChange, UnitOf, Eager
<1>3. DebounceInv /\ [DebounceNext]_debounce_vars => [Holds]_debounce_vars
  BY <1>2, DebounceInvNext
<1> QED
  BY <1>1, <1>3, DebounceInvInit, PTL DEF DebounceSpec, EagerHoldsOff

=============================================================================
