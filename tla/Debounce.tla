------------------------------- MODULE Debounce -------------------------------
(***************************************************************************)
(* The debouncers of quantum/debounce and of the Snowfox.  Each scan reads *)
(* the raw matrix, finds out which time it is and updates the debounced    *)
(* ("cooked") matrix.  Time stamps wrap: those of the per-key and per-row  *)
(* algorithms are bytes, milliseconds modulo MAX_DEBOUNCE + 1, those of    *)
(* the Snowfox have 32 bits, and 0 says that there is none.                *)
(***************************************************************************)
EXTENDS Integers

CONSTANTS
  Key, Row,
  RowOf,             \* which row a key is in; on the Snowfox, which column
  DEBOUNCE,
  MAX_DEBOUNCE,      \* 250; for the Snowfox, UINT32_MAX
  ELAPSED,           \* DEBOUNCE_ELAPSED: no time stamp
  STEP               \* bound: the ms between two scans

ASSUME DebounceAssumption ==
  /\ RowOf \in [Key -> Row] /\ Key \cap Row = {}
  /\ DEBOUNCE \in Nat \ {0} /\ STEP \in Nat \ {0} /\ MAX_DEBOUNCE \in Nat
  /\ DEBOUNCE + STEP <= MAX_DEBOUNCE + 1     \* a scan falls between the two
  /\ ELAPSED \notin 0 .. MAX_DEBOUNCE

Algorithm == {"sym_defer_g", "sym_defer_pk", "sym_eager_pk", "sym_eager_pr", "snowfox"}

VARIABLES
  algorithm,
  raw, cooked,
  current_time,           \* wrapping_timer_read; timer_read32 of the Snowfox
  counter,                \* debounce_counters per key or row, debounce_times
  counters_need_update, matrix_need_update,
  debouncing,
  idle,                   \* ms since debouncing_time, up to LONG
  raw_age,                \* ms since the switch last changed, up to LONG
  cooked_age,             \* the same of the key (of an eager algorithm)
  missed                  \* Snowfox: columns that changed at time 0

debounce_vars == <<algorithm, raw, cooked, current_time, counter, counters_need_update,
                   matrix_need_update, debouncing, idle, raw_age, cooked_age, missed>>

LONG == DEBOUNCE + 1

UpToLong(t) == IF t < LONG THEN t ELSE LONG

DebounceInit ==
  /\ algorithm \in Algorithm
  /\ raw = [k \in Key |-> FALSE] /\ cooked = raw
  /\ current_time = 0
  /\ counter = [u \in Key \cup Row |-> ELAPSED]
  /\ counters_need_update = FALSE /\ matrix_need_update = FALSE
  /\ debouncing = FALSE /\ idle = 0 /\ missed = {}
  /\ raw_age = [k \in Key |-> LONG] /\ cooked_age = [k \in Key |-> LONG]

-----------------------------------------------------------------------------
(* matrix_scan reads `new` d ms after the last scan.                       *)
wrapping_timer_read(d) ==
  current_time' = (current_time + d) % (MAX_DEBOUNCE + 1)

Scan(new, d) ==
  /\ raw' = new
  /\ raw_age' = [k \in Key |-> IF new[k] # raw[k] THEN 0 ELSE UpToLong(raw_age[k] + d)]
  /\ UNCHANGED algorithm

(* Mutant: the timer does not wrap.                                        *)
TIMER_DIFF_unwrapped(a, b) == IF a >= b THEN a - b ELSE 0

TIMER_DIFF(a, b) == IF a >= b THEN a - b ELSE MAX_DEBOUNCE + 1 - b + a

HasElapsed(u) ==
  counter[u] # ELAPSED /\ TIMER_DIFF(current_time', counter[u]) >= DEBOUNCE

(* sym_defer_g: one timer, restarted by any change.                        *)
sym_defer_g(new, d) ==
  LET time == IF new # raw THEN 0 ELSE UpToLong(idle + d)
      busy == new # raw \/ debouncing
      done == busy /\ time > DEBOUNCE
  IN /\ algorithm = "sym_defer_g"
     /\ Scan(new, d)
     /\ cooked' = IF done THEN new ELSE cooked
     /\ debouncing' = (busy /\ ~done)
     /\ idle' = time
     /\ UNCHANGED <<current_time, counter, counters_need_update, matrix_need_update,
                    cooked_age, missed>>

(* Mutant: a key that bounced back keeps its time stamp.                   *)
Restarted_kept(new, c, k) ==
  IF new[k] = cooked'[k] \/ c[k] # ELAPSED THEN c[k] ELSE current_time'

(* sym_defer_pk: a key that differs keeps the time stamp of the first scan *)
(* that saw it, and loses it when it bounces back.                         *)
Restarted(new, c, k) ==
  IF new[k] = cooked'[k] THEN ELAPSED ELSE IF c[k] = ELAPSED THEN current_time' ELSE c[k]

sym_defer_pk(new, d) ==
  LET expired == {k \in Key : counters_need_update /\ HasElapsed(k)}
      left    == [u \in DOMAIN counter |-> IF u \in expired THEN ELAPSED ELSE counter[u]]
  IN /\ algorithm = "sym_defer_pk"
     /\ Scan(new, d) /\ wrapping_timer_read(d)
     /\ cooked' = [k \in Key |-> IF k \in expired THEN new[k] ELSE cooked[k]]
     /\ counter' = IF new # raw
                   THEN [u \in DOMAIN left |->
                           IF u \in Key THEN Restarted(new, left, u) ELSE left[u]]
                   ELSE left
     /\ counters_need_update' =
          \/ counters_need_update /\ \E k \in Key : left[k] # ELAPSED
          \/ new # raw /\ \E k \in Key : new[k] # cooked'[k] /\ left[k] = ELAPSED
     /\ UNCHANGED <<matrix_need_update, debouncing, idle, cooked_age, missed>>

(* sym_eager_pk, sym_eager_pr: a key, or a row, takes a change at once and *)
(* then none until its time stamp has elapsed.                             *)
In(u) == IF u \in Key THEN {u} ELSE {k \in Key : RowOf[k] = u}

(* Mutant: the row of sym_eager_pr is transferred although it still waits. *)
Accepts_always(left, u) == TRUE

Accepts(left, u) == left[u] = ELAPSED

SymEager(new, d, Unit, when_elapsed) ==
  LET left     == [u \in DOMAIN counter |->
                     IF u \in Unit /\ counters_need_update /\ HasElapsed(u)
                     THEN ELAPSED ELSE counter[u]]
      waiting  == counters_need_update /\ \E u \in Unit : left[u] # ELAPSED
      elapsed  == counters_need_update /\ ~waiting
      transfer == new # raw \/ matrix_need_update \/ (when_elapsed /\ elapsed)
      differ   == {u \in Unit : \E k \in In(u) : new[k] # cooked[k]}
      taken    == {u \in differ : transfer /\ Accepts(left, u)}
  IN /\ Scan(new, d) /\ wrapping_timer_read(d)
     /\ cooked' = [k \in Key |-> IF \E u \in taken : k \in In(u) THEN new[k] ELSE cooked[k]]
     /\ counter' = [u \in DOMAIN left |-> IF u \in taken THEN current_time' ELSE left[u]]
     /\ counters_need_update' = (waiting \/ taken # {})
     /\ matrix_need_update' = IF transfer THEN differ # taken ELSE matrix_need_update
     /\ cooked_age' = [k \in Key |-> IF cooked'[k] # cooked[k] THEN 0
                                     ELSE UpToLong(cooked_age[k] + d)]
     /\ UNCHANGED <<debouncing, idle, missed>>

sym_eager_pk(new, d) == algorithm = "sym_eager_pk" /\ SymEager(new, d, Key, FALSE)

sym_eager_pr(new, d) == algorithm = "sym_eager_pr" /\ SymEager(new, d, Row, TRUE)

(* matrix_scan of the Snowfox: a timer for each column.                    *)
snowfox_scan(new, d) ==
  LET changed == {r \in Row : \E k \in In(r) : new[k] # raw[k]}
      done    == {r \in Row \ changed : HasElapsed(r)}
      stamp   == IF current_time' = 0 THEN ELAPSED ELSE current_time'
  IN /\ algorithm = "snowfox"
     /\ Scan(new, d) /\ wrapping_timer_read(d)
     /\ cooked' = [k \in Key |-> IF RowOf[k] \in done THEN raw[k] ELSE cooked[k]]
     /\ counter' = [u \in DOMAIN counter |->
                      IF u \in changed THEN stamp ELSE IF u \in done THEN ELAPSED ELSE counter[u]]
     /\ missed' = (missed \ changed) \cup {r \in changed : stamp = ELAPSED}
     /\ UNCHANGED <<counters_need_update, matrix_need_update, debouncing, idle, cooked_age>>

DebounceNext ==
  \E new \in [Key -> BOOLEAN], d \in 0 .. STEP :
    \/ sym_defer_g(new, d)
    \/ sym_defer_pk(new, d)
    \/ sym_eager_pk(new, d)
    \/ sym_eager_pr(new, d)
    \/ snowfox_scan(new, d)

DebounceSpec == DebounceInit /\ [][DebounceNext]_debounce_vars

-----------------------------------------------------------------------------
DebounceTypeOK ==
  /\ algorithm \in Algorithm
  /\ raw \in [Key -> BOOLEAN] /\ cooked \in [Key -> BOOLEAN]
  /\ current_time \in 0 .. MAX_DEBOUNCE
  /\ counter \in [Key \cup Row -> 0 .. MAX_DEBOUNCE \cup {ELAPSED}]
  /\ {counters_need_update, matrix_need_update, debouncing} \subseteq BOOLEAN
  /\ idle \in 0 .. LONG /\ missed \subseteq Row
  /\ raw_age \in [Key -> 0 .. LONG] /\ cooked_age \in [Key -> 0 .. LONG]

Deferring == algorithm \in {"sym_defer_g", "sym_defer_pk", "snowfox"}
Eager     == algorithm \in {"sym_eager_pk", "sym_eager_pr"}

(* The deferring debouncers let a key change only after the switch has     *)
(* stood still for DEBOUNCE ms: no bounce shorter than that is typed,      *)
(* whatever the other keys do and wherever the byte-wide timer wraps.      *)
DeferWaits ==
  [][Deferring =>
       \A k \in Key : cooked'[k] # cooked[k] => raw_age'[k] >= DEBOUNCE]_debounce_vars

(* The eager ones let a key, or a whole row, change at most once in        *)
(* DEBOUNCE ms.                                                            *)
EagerHoldsOff ==
  [][Eager =>
       \A k, j \in Key :
         /\ cooked'[k] # cooked[k]
         /\ k = j \/ (algorithm = "sym_eager_pr" /\ RowOf[k] = RowOf[j])
         => cooked_age[j] + TIMER_DIFF(current_time', current_time) >= DEBOUNCE
    ]_debounce_vars

(* No change is forgotten, by any of them: once a switch has stood still   *)
(* for DEBOUNCE ms (sym_defer_g: all of them, and one ms more; Snowfox:    *)
(* the whole column), its key is what it is.  The one exception is a       *)
(* column of the Snowfox that changed in the very ms in which the timer    *)
(* read 0, until it changes again.  snowfox/matrix.c:60-61 says something  *)
(* else: that an event less than 5 ms before the timer rolls over "will    *)
(* "never" debounce".  It does, and is not left out here: the subtraction  *)
(* of line 67 wraps with the timer.                                        *)
StoodStill(k) ==
  CASE algorithm = "sym_defer_g" -> \A j \in Key : raw_age[j] > DEBOUNCE
    [] algorithm = "snowfox" -> /\ RowOf[k] \notin missed
                                /\ \A j \in In(RowOf[k]) : raw_age[j] >= DEBOUNCE
    [] OTHER -> raw_age[k] >= DEBOUNCE

Settles == \A k \in Key : StoodStill(k) => cooked[k] = raw[k]
=============================================================================
