------------------------- MODULE ActionTappingProofs -------------------------
(***************************************************************************)
(* The tap/hold machine keeps its types, its waiting buffer stays within   *)
(* its size, and the host is in step with the report, for every keymap,    *)
(* every configuration and any number of keys.  Modifiers go to the key    *)
(* they are meant for, a one-shot layer is on as long as it is active, and *)
(* on a keyboard without dual-role keys nothing outlives the keys that are *)
(* down.  With one dual-role key, a key typed inside it decides it at once *)
(* or, without permissive hold, only its term does, and nothing outlives   *)
(* the keys that are down either.  Presses are decided in their order.     *)
(***************************************************************************)
EXTENDS ActionTappingProperties, ActionProofs, SequenceTheorems

(* What process_tapping is called with: an event of the matrix, a TICK     *)
(* included, or the head of a buffer that is not empty.                    *)
Input(src, r) ==
  \/ src = "matrix" /\ (r \in Record \/ r.key = NO_KEY)
  \/ src = "buffer" /\ r \in Record /\ waiting_buffer # <<>>

BufferOK(b) == b \in Seq(Record) /\ Len(b) <= WAITING_BUFFER_SIZE - 1

(* The part of the invariant process_tapping has to keep.                  *)
TappingOK ==
  /\ dev \in Synced
  /\ tapping_key \in Record \cup {NONE}
  /\ BufferOK(waiting_buffer)
  /\ pc \in {"scan", "drain"}
  /\ pc = "drain" => waiting_buffer # <<>>

IInv == TypeOK /\ HostInSync

(* The inductive invariant is a predicate on four variables, so that the   *)
(* lemmas below can speak of the values a branch gives them.               *)
LEMMA IInvIsTappingOK ==
  IInv <=> TappingOK /\ matrix_prev \in SUBSET Key /\ gap \in 0 .. MAX_SCAN_GAP
BY DEF IInv, TypeOK, HostInSync, TappingOK, Synced, BufferOK

-----------------------------------------------------------------------------
(* The ways a branch ends                                                  *)

(* The drain loop goes on with a buffer that is within its size.           *)
LEMMA ContinueKeeps ==
  ASSUME NEW b, BufferOK(b), Continue(b)
  PROVE  /\ BufferOK(waiting_buffer')
         /\ pc' \in {"scan", "drain"}
         /\ pc' = "drain" => waiting_buffer' # <<>>
BY DEF Continue

(* A consumed record leaves the buffer, or never entered it.               *)
LEMMA ConsumeKeeps ==
  ASSUME NEW src, NEW b, BufferOK(b), src = "buffer" => b # <<>>, Consume(src, b)
  PROVE  /\ BufferOK(waiting_buffer')
         /\ pc' \in {"scan", "drain"}
         /\ pc' = "drain" => waiting_buffer' # <<>>
<1>1. ASSUME b # <<>> PROVE BufferOK(Tail(b))
  <2>1. b \in Seq(Record) /\ Len(b) \in Nat
    BY LenProperties DEF BufferOK
  <2>2. Tail(b) \in Seq(Record) /\ Len(Tail(b)) = Len(b) - 1
    BY <1>1, <2>1, HeadTailProperties
  <2> QED
    BY <2>1, <2>2, TappingAssumption DEF BufferOK
<1> QED
  BY <1>1, ContinueKeeps DEF Consume

(* waiting_buffer_enq never overruns the ring; when it is full everything  *)
(* is cleared, and the host is told.                                       *)
LEMMA DeferKeeps ==
  ASSUME TappingOK, NEW src, NEW r, Input(src, r),
         NEW d \in Synced, NEW t \in Record \cup {NONE}, Defer(src, r, d, t)
  PROVE  TappingOK'
<1> USE DEF Input
<1>1. BufferOK(waiting_buffer)
  BY DEF TappingOK
<1>2. CASE src = "buffer"
  <2>1. BufferOK(waiting_buffer')
    <3>1. waiting_buffer' = [waiting_buffer EXCEPT ![1] = r] /\ r \in Record
      BY <1>2 DEF Defer
    <3>2. 1 \in 1 .. Len(waiting_buffer)
      BY <1>1, <1>2, EmptySeq DEF BufferOK
    <3>3. waiting_buffer' \in Seq(Record) /\ Len(waiting_buffer') = Len(waiting_buffer)
      BY <1>1, <3>1, <3>2, ExceptSeq DEF BufferOK
    <3> QED
      BY <1>1, <3>3 DEF BufferOK
  <2> QED
    BY <1>2, <2>1 DEF Defer, TappingOK
<1>3. CASE src = "matrix" /\ r.key = NO_KEY
  BY <1>1, <1>3, ContinueKeeps DEF Defer, TappingOK
<1>4. CASE src = "matrix" /\ r.key # NO_KEY /\ Len(waiting_buffer) < WAITING_BUFFER_SIZE - 1
  <2>1. BufferOK(Append(waiting_buffer, r))
    <3>1. Append(waiting_buffer, r) \in Seq(Record)
          /\ Len(Append(waiting_buffer, r)) = Len(waiting_buffer) + 1
      BY <1>1, <1>4, AppendProperties DEF BufferOK
    <3>2. Len(waiting_buffer) \in Nat
      BY <1>1, LenProperties DEF BufferOK
    <3> QED
      BY <1>4, <3>1, <3>2, TappingAssumption DEF BufferOK
  <2>2. Continue(Append(waiting_buffer, r)) /\ dev' = d /\ tapping_key' = t
    BY <1>4, <1>1, LenProperties, TappingAssumption DEF Defer, BufferOK
  <2> QED
    BY <2>1, <2>2, ContinueKeeps DEF TappingOK
<1>5. CASE src = "matrix" /\ r.key # NO_KEY /\ Len(waiting_buffer) >= WAITING_BUFFER_SIZE - 1
  <2>1. BufferOK(<< >>)
    BY TappingAssumption DEF BufferOK
  <2>2. clear_keyboard(d) \in Synced
    BY ClearKeyboard, SyncedIsDev
  <2>3. Continue(<< >>) /\ dev' = clear_keyboard(d) /\ tapping_key' = NONE
    BY <1>5, <1>1, LenProperties, TappingAssumption DEF Defer, BufferOK
  <2> QED
    BY <2>1, <2>2, <2>3, ContinueKeeps DEF TappingOK
<1> QED
  <2>1. Len(waiting_buffer) \in Nat
    BY <1>1, LenProperties DEF BufferOK
  <2> QED
    BY <1>2, <1>3, <1>4, <1>5, <2>1, TappingAssumption

(* process_record on a key or a TICK keeps the host in step.               *)
LEMMA ProcessedKeeps ==
  ASSUME NEW d \in Synced, NEW r, r \in Record \/ r.key = NO_KEY
  PROVE  processed(d, r).dev \in Synced
BY ProcessRecord, TappingAssumption DEF processed, Record

(* A branch that processes its record and consumes it.                     *)
LEMMA ProcessAndConsumeKeeps ==
  ASSUME TappingOK, NEW src, NEW r, Input(src, r), NEW q,
         q = r \/ q \in Record,
         ProcessAndConsume(src, q),
         tapping_key' \in Record \cup {NONE}
  PROVE  TappingOK'
<1>1. dev' \in Synced
  BY ProcessedKeeps DEF ProcessAndConsume, TappingOK, Input
<1>2. BufferOK(waiting_buffer) /\ (src = "buffer" => waiting_buffer # <<>>)
  BY DEF TappingOK, Input
<1> QED
  BY <1>1, <1>2, ConsumeKeeps DEF ProcessAndConsume, TappingOK

(* The same for a record of the pending key, which may stay the pending    *)
(* key as it comes back.                                                   *)
LEMMA ProcessTapKeeps ==
  ASSUME TappingOK, NEW src, NEW r, Input(src, r), NEW tap \in Record, NEW keep,
         ProcessTap(src, tap, keep)
  PROVE  TappingOK'
<1>1. process_record(dev, tap).dev \in Synced /\ process_record(dev, tap).rec \in Record
  BY ProcessRecord DEF TappingOK
<1>2. /\ dev' = process_record(dev, tap).dev
      /\ tapping_key' \in {process_record(dev, tap).rec, NONE}
      /\ Consume(src, waiting_buffer)
  BY DEF ProcessTap
<1>3. BufferOK(waiting_buffer) /\ (src = "buffer" => waiting_buffer # <<>>)
  BY DEF TappingOK, Input
<1> QED
  BY <1>1, <1>2, <1>3, ConsumeKeeps DEF TappingOK

(* A branch that makes its record the pending key, with the tap that       *)
(* waiting_buffer_scan_tap may find in the buffer.                         *)
LEMMA StartTappingKeeps ==
  ASSUME TappingOK, NEW src, NEW r \in Record, Input(src, r), NEW d \in Synced,
         StartTapping(src, r, d)
  PROVE  TappingOK'
<1> DEFINE own_release(i) == /\ waiting_buffer[i].key = r.key
                             /\ ~waiting_buffer[i].pressed
                             /\ within_tapping_term_of(d, waiting_buffer[i], r)
           found == {i \in DOMAIN waiting_buffer : own_release(i)}
           first == CHOOSE i \in found : \A j \in found : i <= j
           tap   == process_record(d, [r EXCEPT !.count = 1])
           marked == [waiting_buffer EXCEPT ![first].count = 1]
<1>1. BufferOK(waiting_buffer) /\ (src = "buffer" => waiting_buffer # <<>>)
  BY DEF TappingOK, Input
<1>2. CASE found = {} \/ r.count > 0
  <2>1. dev' = d /\ tapping_key' = r /\ Consume(src, waiting_buffer)
    BY <1>2 DEF StartTapping
  <2> QED
    BY <1>1, <2>1, ConsumeKeeps DEF TappingOK
<1>3. CASE ~(found = {} \/ r.count > 0)
  <2>1. dev' = tap.dev /\ tapping_key' = tap.rec /\ Consume(src, marked)
    BY <1>3 DEF StartTapping
  <2>2. tap.dev \in Synced /\ tap.rec \in Record
    <3>1. [r EXCEPT !.count = 1] \in Record
      BY DEF Record
    <3> QED
      BY <3>1, ProcessRecord
  <2>3. first \in 1 .. Len(waiting_buffer)
    <3>1. found \in SUBSET Nat /\ found # {} /\ DOMAIN waiting_buffer = 1 .. Len(waiting_buffer)
      BY <1>1, <1>3, LenProperties DEF BufferOK
    <3>2. \E i \in found : \A j \in found : i <= j
      <4> HIDE DEF found
      <4> QED
        BY <3>1, NatHasMinimum
    <3>3. first \in found
      <4> HIDE DEF found
      <4> QED
        BY <3>2
    <3> QED
      BY <3>1, <3>3
  <2> HIDE DEF first, found
  <2>4. BufferOK(marked) /\ marked # <<>>
    <3>1. waiting_buffer[first] \in Record
      BY <1>1, <2>3, ElementOfSeq DEF BufferOK
    <3>2. [waiting_buffer[first] EXCEPT !.count = 1] \in Record
      BY <3>1 DEF Record
    <3>3. marked = [waiting_buffer EXCEPT ![first] =
                      [waiting_buffer[first] EXCEPT !.count = 1]]
      BY <1>1, <2>3, LenProperties DEF BufferOK
    <3>4. marked \in Seq(Record) /\ Len(marked) = Len(waiting_buffer)
      <4> HIDE DEF marked
      <4> QED
        BY <1>1, <2>3, <3>2, <3>3, ExceptSeq DEF BufferOK
    <3>5. marked # <<>>
      <4> HIDE DEF marked
      <4> QED
        BY <1>1, <2>3, <3>4, EmptySeq, LenProperties DEF BufferOK
    <3> HIDE DEF marked
    <3> QED
      BY <1>1, <3>4, <3>5 DEF BufferOK
  <2> HIDE DEF marked, tap
  <2> QED
    BY <2>1, <2>2, <2>4, ConsumeKeeps DEF TappingOK
<1> QED
  BY <1>2, <1>3

-----------------------------------------------------------------------------
(* Every branch of process_tapping keeps the invariant                     *)

(* Every branch of process_tapping keeps the invariant: one step for each. *)
LEMMA ProcessTappingKeeps ==
  ASSUME TappingOK, NEW src, NEW r, Input(src, r), process_tapping(src, r)
  PROVE  TappingOK'
<1>1. dev \in Synced /\ tapping_key \in Record \cup {NONE}
  BY DEF TappingOK
<1>2. tapping_key # NONE => tapping_key \in Record /\ tapping_key.key \in Key
  BY <1>1 DEF Record
<1>3. r \in Record \/ r.key = NO_KEY
  BY DEF Input
<1>4. IsTappingKey(r) \/ IsPressed(r) \/ IsReleased(r) => r \in Record
  BY <1>2, <1>3, TappingAssumption DEF IsTappingKey, IsPressed, IsReleased
<1>5. ASSUME NEW q \in Record
      PROVE  process_record(dev, q).dev \in Synced /\ process_record(dev, q).rec \in Record
  BY <1>1, ProcessRecord
<1>6. CASE FirstTap(src, r)
  <2> DEFINE tap  == process_record(dev, [tapping_key EXCEPT !.count = 1])
             copy == [r EXCEPT !.count = tap.rec.count, !.interrupted = tap.rec.interrupted]
  <2>1. r \in Record /\ tapping_key \in Record
    BY <1>2, <1>4, <1>6 DEF FirstTap, Undecided
  <2>2. tap.dev \in Synced /\ tap.rec \in Record
    <3>1. [tapping_key EXCEPT !.count = 1] \in Record
      BY <2>1 DEF Record
    <3> QED
      BY <1>5, <3>1
  <2>3. Defer(src, copy, tap.dev, tap.rec)
    BY <1>6 DEF FirstTap
  <2> HIDE DEF tap
  <2>4. copy \in Record
    BY <2>1, <2>2 DEF Record
  <2>5. Input(src, copy)
    BY <2>4 DEF Input
  <2> HIDE DEF copy
  <2> QED
    BY <2>2, <2>3, <2>5, DeferKeeps
<1>7. CASE InterferedByTyping(src, r)
  BY <1>2, <1>5, <1>7, DeferKeeps DEF InterferedByTyping, Undecided
<1>8. CASE ReleaseOfEarlierKey(src, r)
  BY <1>1, <1>8, ProcessAndConsumeKeeps DEF ReleaseOfEarlierKey
<1>9. CASE RetainModifier(src, r)
  BY <1>1, <1>9, DeferKeeps DEF RetainModifier
<1>10. CASE QueueBehindTap(src, r)
  <2>1. [tapping_key EXCEPT !.interrupted = @ \/ r.pressed] \in Record
    BY <1>2, <1>10 DEF QueueBehindTap, Undecided, Record
  <2> QED
    BY <1>1, <1>10, <2>1, DeferKeeps DEF QueueBehindTap
<1>11. CASE HoldTimeout(src, r)
  BY <1>2, <1>5, <1>11, DeferKeeps DEF HoldTimeout, Undecided
<1>12. CASE TapRelease(src, r)
  <2>1. with_taps_of_tapping_key(r) \in Record
    BY <1>2, <1>4, <1>12 DEF TapRelease, Tapped, with_taps_of_tapping_key, Record
  <2> QED
    BY <1>12, <2>1, ProcessTapKeeps DEF TapRelease
<1>13. CASE NewTapWhileTapped(src, r)
  <2> DEFINE synthetic == [tapping_key EXCEPT !.pressed = FALSE, !.age = r.age]
             d == IF tapping_key.count > 1 THEN process_record(dev, synthetic).dev ELSE dev
  <2>1. r \in Record /\ tapping_key \in Record
    BY <1>2, <1>4, <1>13 DEF NewTapWhileTapped, Tapped
  <2>2. synthetic \in Record
    BY <2>1 DEF Record
  <2>3. d \in Synced
    <3> HIDE DEF synthetic
    <3> QED
      BY <1>1, <1>5, <2>2
  <2>4. StartTapping(src, r, d)
    BY <1>13 DEF NewTapWhileTapped
  <2> HIDE DEF d
  <2> QED
    BY <2>1, <2>3, <2>4, StartTappingKeeps
<1>14. CASE KeyDuringTap(src, r)
  BY <1>1, <1>14, ProcessAndConsumeKeeps DEF KeyDuringTap
<1>15. CASE SequentialTap(src, r)
  <2> DEFINE tap == [r EXCEPT !.count = IF tapping_key.count < 15
                                        THEN tapping_key.count + 1 ELSE tapping_key.count,
                              !.interrupted = FALSE]
  <2>1. tap \in Record
    <3>1. r \in Record /\ tapping_key.count \in 0 .. 15
      BY <1>2, <1>4, <1>15 DEF SequentialTap, Released, Record
    <3>2. (IF tapping_key.count < 15 THEN tapping_key.count + 1 ELSE tapping_key.count)
            \in 0 .. 15
      BY <3>1
    <3> QED
      BY <3>1, <3>2 DEF Record
  <2>2. ProcessTap(src, tap, TRUE)
    BY <1>15 DEF SequentialTap
  <2> HIDE DEF tap
  <2> QED
    BY <2>1, <2>2, ProcessTapKeeps
<1>16. CASE RestartTap(src, r)
  <2>1. r \in Record /\ tapping_key' = r /\ Consume(src, waiting_buffer) /\ dev' = dev
    BY <1>4, <1>16 DEF RestartTap
  <2>2. BufferOK(waiting_buffer) /\ (src = "buffer" => waiting_buffer # <<>>)
    BY DEF TappingOK, Input
  <2> QED
    BY <1>1, <2>1, <2>2, ConsumeKeeps DEF TappingOK
<1>17. CASE InterferingTap(src, r)
  BY <1>1, <1>4, <1>17, StartTappingKeeps DEF InterferingTap
<1>18. CASE OtherKeyAfterTap(src, r)
  <2>1. [tapping_key EXCEPT !.interrupted = TRUE] \in Record
    BY <1>2, <1>18 DEF OtherKeyAfterTap, Released, Record
  <2> QED
    BY <1>18, <2>1, ProcessAndConsumeKeeps DEF OtherKeyAfterTap
<1>19. CASE ReleaseAfterTap(src, r)
  BY <1>1, <1>19, ProcessAndConsumeKeeps DEF ReleaseAfterTap
<1>20. CASE TapExpired(src, r)
  BY <1>1, <1>20, DeferKeeps DEF TapExpired
<1>21. CASE StartTap(src, r)
  BY <1>1, <1>4, <1>21, StartTappingKeeps DEF StartTap
<1>22. CASE PlainEvent(src, r)
  BY <1>1, <1>22, ProcessAndConsumeKeeps DEF PlainEvent
<1> QED
  BY <1>6, <1>7, <1>8, <1>9, <1>10, <1>11, <1>12, <1>13, <1>14, <1>15, <1>16, <1>17,
     <1>18, <1>19, <1>20, <1>21, <1>22 DEF process_tapping

-----------------------------------------------------------------------------
(* The steps of the main loop                                              *)

(* A time stamp that wraps around stays a time stamp.                      *)
LEMMA OlderType ==
  ASSUME NEW r \in Record
  PROVE  older(r) \in Record
<1>1. (r.age + 1) % TIMER_WRAP \in Age
  BY ActionAssumption DEF Record, Age
<1> QED
  BY <1>1 DEF older, Record

(* The firmware starts with nothing pressed, pending or waiting.           *)
LEMMA InitIInv == Init => IInv
<1> SUFFICES ASSUME Init PROVE IInv
  OBVIOUS
<1>1. InitDev \in Synced
  <2>1. {0} \in SUBSET Layer /\ 0 \in Layer
    BY ZeroIsALayer
  <2> QED
    BY <2>1 DEF InitDev, NoOneshotLayer, Synced, Dev, Report
<1>2. BufferOK(<< >>)
  BY TappingAssumption DEF BufferOK
<1> QED
  BY <1>1, <1>2, TappingAssumption, IInvIsTappingOK DEF Init, TappingOK

(* The passage of time changes time stamps only.                           *)
LEMMA ClockKeeps ==
  ASSUME TappingOK, Clock
  PROVE  TappingOK'
<1> DEFINE aged == [i \in DOMAIN waiting_buffer |-> older(waiting_buffer[i])]
<1>1. BufferOK(waiting_buffer)
  BY DEF TappingOK
<1>2. DOMAIN waiting_buffer = 1 .. Len(waiting_buffer) /\ Len(waiting_buffer) \in Nat
  BY <1>1, LenProperties DEF BufferOK
<1>3. \A i \in 1 .. Len(waiting_buffer) : older(waiting_buffer[i]) \in Record
  BY <1>1, ElementOfSeq, OlderType DEF BufferOK
<1>4. aged \in [1 .. Len(waiting_buffer) -> Record]
  BY <1>2, <1>3
<1>5. aged \in Seq(Record) /\ Len(aged) = Len(waiting_buffer)
  BY <1>2, <1>4, SeqDef
<1>6. tapping_key' \in Record \cup {NONE}
  BY OlderType DEF Clock, TappingOK
<1>7. waiting_buffer' = aged /\ dev' = dev /\ pc' = pc /\ pc = "scan"
  BY DEF Clock
<1> HIDE DEF aged
<1> QED
  BY <1>1, <1>5, <1>6, <1>7 DEF TappingOK, BufferOK

(* The invariant is inductive.                                             *)
LEMMA NextIInv == IInv /\ [Next]_vars => IInv'
<1> SUFFICES ASSUME IInv, [Next]_vars PROVE IInv'
  OBVIOUS
<1>1. TappingOK /\ matrix_prev \in SUBSET Key /\ gap \in 0 .. MAX_SCAN_GAP
  BY IInvIsTappingOK
<1>2. TappingOK' /\ matrix_prev' \in SUBSET Key /\ gap' \in 0 .. MAX_SCAN_GAP => IInv'
  BY DEF IInv, TypeOK, HostInSync, TappingOK, Synced, BufferOK
<1>3. ASSUME NEW k \in Key, KeyTask(k) PROVE IInv'
  <2>1. Event(k, k \notin matrix_prev) \in Record
    BY ActionAssumption DEF Event, Record, Age
  <2>2. Input("matrix", Event(k, k \notin matrix_prev))
    BY <2>1 DEF Input
  <2>3. TappingOK'
    BY <1>1, <1>3, <2>2, ProcessTappingKeeps DEF KeyTask
  <2>4. matrix_prev' \in SUBSET Key /\ gap' \in 0 .. MAX_SCAN_GAP
    BY <1>1, <1>3, TappingAssumption DEF KeyTask
  <2> QED
    BY <1>2, <2>3, <2>4
<1>4. CASE TickTask
  <2>1. Input("matrix", Event(NO_KEY, FALSE))
    BY DEF Input, Event
  <2>2. TappingOK'
    BY <1>1, <1>4, <2>1, ProcessTappingKeeps DEF TickTask
  <2> QED
    BY <1>1, <1>2, <1>4, <2>2, TappingAssumption DEF TickTask
<1>5. CASE Drain
  <2>1. waiting_buffer # <<>> /\ waiting_buffer \in Seq(Record)
    BY <1>1, <1>5 DEF Drain, TappingOK, BufferOK
  <2>2. Input("buffer", Head(waiting_buffer))
    BY <2>1, HeadTailProperties DEF Input
  <2>3. TappingOK'
    BY <1>1, <1>5, <2>2, ProcessTappingKeeps DEF Drain
  <2> QED
    BY <1>1, <1>2, <1>5, <2>3 DEF Drain
<1>6. CASE Clock
  <2>1. TappingOK'
    BY <1>1, <1>6, ClockKeeps
  <2>2. matrix_prev' \in SUBSET Key /\ gap' \in 0 .. MAX_SCAN_GAP
    BY <1>1, <1>6, TappingAssumption DEF Clock
  <2> QED
    BY <1>2, <2>1, <2>2
<1>7. CASE UNCHANGED vars
  BY <1>1, <1>2, <1>7 DEF vars, TappingOK
<1> QED
  BY <1>3, <1>4, <1>5, <1>6, <1>7 DEF Next

(* The variables keep the types of their C counterparts; in particular no  *)
(* event is ever written beyond the ring of the waiting buffer.            *)
THEOREM TypeIsInvariant == Spec => []TypeOK
<1>1. IInv => TypeOK
  BY DEF IInv
<1> QED
  BY <1>1, InitIInv, NextIInv, PTL DEF Spec

(* No path through the tap/hold machine and the actions changes the keys   *)
(* of the report without telling the host.                                 *)
THEOREM HostIsInSync == Spec => []HostInSync
<1>1. IInv => HostInSync
  BY DEF IInv
<1> QED
  BY <1>1, InitIInv, NextIInv, PTL DEF Spec

-----------------------------------------------------------------------------
(* What a step does to the device                                         *)

(* What one call of process_tapping has process_record do: at most the     *)
(* release a repeated tap still owes and one record after it.              *)
DeviceStep(d, e) ==
  \/ e = d
  \/ \E q \in Record : e = process_record(d, q).dev
  \/ \E p, q \in Record :
       ~p.pressed /\ e = process_record(process_record(d, p).dev, q).dev

(* A record that is left in the buffer does nothing to the device, unless  *)
(* the buffer is full: then everything is cleared.                         *)
LEMMA DeferDevice ==
  ASSUME NEW src, NEW r, NEW d, NEW t, Defer(src, r, d, t)
  PROVE  dev' = d \/ dev' = clear_keyboard(d)
BY DEF Defer

(* A consumed record is processed once, a TICK not at all.                 *)
LEMMA ProcessedDevice ==
  ASSUME NEW src, NEW r, Input(src, r), ProcessAndConsume(src, r)
  PROVE  DeviceStep(dev, dev')
BY TappingAssumption DEF ProcessAndConsume, processed, DeviceStep, Input, Record

(* Starting a tap processes at most the press that starts it.              *)
LEMMA StartTappingDevice ==
  ASSUME NEW src, NEW r \in Record, NEW d, StartTapping(src, r, d)
  PROVE  dev' = d \/ \E q \in Record : dev' = process_record(d, q).dev
<1>1. dev' = d \/ dev' = process_record(d, [r EXCEPT !.count = 1]).dev
  BY DEF StartTapping
<1>2. [r EXCEPT !.count = 1] \in Record
  BY DEF Record
<1> QED
  BY <1>1, <1>2

(* Every branch of process_tapping is one device step, followed by         *)
(* clear_keyboard if the buffer was full.                                  *)
LEMMA ProcessTappingDevice ==
  ASSUME TappingOK, NEW src, NEW r, Input(src, r), process_tapping(src, r)
  PROVE  \E e : DeviceStep(dev, e) /\ (dev' = e \/ dev' = clear_keyboard(e))
<1>1. tapping_key \in Record \cup {NONE}
  BY DEF TappingOK
<1>2. tapping_key # NONE => tapping_key \in Record /\ tapping_key.key \in Key
  BY <1>1 DEF Record
<1>3. r \in Record \/ r.key = NO_KEY
  BY DEF Input
<1>4. IsTappingKey(r) \/ IsPressed(r) \/ IsReleased(r) => r \in Record
  BY <1>2, <1>3, TappingAssumption DEF IsTappingKey, IsPressed, IsReleased
<1>5. DeviceStep(dev, dev) /\ \A q \in Record : DeviceStep(dev, process_record(dev, q).dev)
  BY DEF DeviceStep
<1>6. CASE FirstTap(src, r)
  <2>1. [tapping_key EXCEPT !.count = 1] \in Record
    BY <1>2, <1>6 DEF FirstTap, Undecided, Record
  <2>2. PICK q : Defer(src, q, process_record(dev, [tapping_key EXCEPT !.count = 1]).dev,
                       process_record(dev, [tapping_key EXCEPT !.count = 1]).rec)
    BY <1>6 DEF FirstTap
  <2> QED
    BY <1>5, <2>1, <2>2, DeferDevice
<1>7. CASE InterferedByTyping(src, r) \/ HoldTimeout(src, r)
  <2>1. tapping_key \in Record /\ Defer(src, r, process_record(dev, tapping_key).dev, NONE)
    BY <1>2, <1>7 DEF InterferedByTyping, HoldTimeout, Undecided
  <2> QED
    BY <1>5, <2>1, DeferDevice
<1>8. CASE \/ ReleaseOfEarlierKey(src, r) \/ KeyDuringTap(src, r) \/ OtherKeyAfterTap(src, r)
           \/ ReleaseAfterTap(src, r) \/ PlainEvent(src, r)
  <2>1. ProcessAndConsume(src, r)
    BY <1>8 DEF ReleaseOfEarlierKey, KeyDuringTap, OtherKeyAfterTap, ReleaseAfterTap, PlainEvent
  <2> QED
    BY <2>1, ProcessedDevice
<1>9. CASE RetainModifier(src, r) \/ QueueBehindTap(src, r) \/ TapExpired(src, r)
  <2>1. PICK t : Defer(src, r, dev, t)
    BY <1>9 DEF RetainModifier, QueueBehindTap, TapExpired
  <2> QED
    BY <1>5, <2>1, DeferDevice
<1>10. CASE TapRelease(src, r)
  <2>1. with_taps_of_tapping_key(r) \in Record
    BY <1>2, <1>4, <1>10 DEF TapRelease, Tapped, with_taps_of_tapping_key, Record
  <2>2. dev' = process_record(dev, with_taps_of_tapping_key(r)).dev
    BY <1>10 DEF TapRelease, ProcessTap
  <2> QED
    BY <1>5, <2>1, <2>2
<1>11. CASE NewTapWhileTapped(src, r)
  <2> DEFINE synthetic == [tapping_key EXCEPT !.pressed = FALSE, !.age = r.age]
             d == IF tapping_key.count > 1 THEN process_record(dev, synthetic).dev ELSE dev
  <2>1. r \in Record /\ tapping_key \in Record
    BY <1>2, <1>4, <1>11 DEF NewTapWhileTapped, Tapped
  <2>2. synthetic \in Record /\ ~synthetic.pressed
    BY <2>1 DEF Record
  <2>3. StartTapping(src, r, d)
    BY <1>11 DEF NewTapWhileTapped
  <2>4. dev' = d \/ \E q \in Record : dev' = process_record(d, q).dev
    <3> HIDE DEF d
    <3> QED
      BY <2>1, <2>3, StartTappingDevice
  <2> HIDE DEF synthetic
  <2>5. DeviceStep(dev, dev')
    BY <2>2, <2>4 DEF DeviceStep
  <2> QED
    BY <2>5
<1>12. CASE SequentialTap(src, r)
  <2> DEFINE tap == [r EXCEPT !.count = IF tapping_key.count < 15
                                        THEN tapping_key.count + 1 ELSE tapping_key.count,
                              !.interrupted = FALSE]
  <2>1. tap \in Record
    <3>1. r \in Record /\ tapping_key.count \in 0 .. 15
      BY <1>2, <1>4, <1>12 DEF SequentialTap, Released, Record
    <3>2. (IF tapping_key.count < 15 THEN tapping_key.count + 1 ELSE tapping_key.count)
            \in 0 .. 15
      BY <3>1
    <3> QED
      BY <3>1, <3>2 DEF Record
  <2>2. dev' = process_record(dev, tap).dev
    BY <1>12 DEF SequentialTap, ProcessTap
  <2> HIDE DEF tap
  <2> QED
    BY <1>5, <2>1, <2>2
<1>13. CASE RestartTap(src, r)
  BY <1>5, <1>13 DEF RestartTap
<1>14. CASE InterferingTap(src, r) \/ StartTap(src, r)
  <2>1. r \in Record /\ StartTapping(src, r, dev)
    BY <1>4, <1>14 DEF InterferingTap, StartTap
  <2>2. DeviceStep(dev, dev')
    BY <2>1, StartTappingDevice DEF DeviceStep
  <2> QED
    BY <2>2
<1> QED
  BY <1>6, <1>7, <1>8, <1>9, <1>10, <1>11, <1>12, <1>13, <1>14 DEF process_tapping

(* So is every step of the machine.                                        *)
LEMMA NextDevice ==
  ASSUME IInv, [Next]_vars
  PROVE  \E e : DeviceStep(dev, e) /\ (dev' = e \/ dev' = clear_keyboard(e))
<1>1. TappingOK
  BY IInvIsTappingOK
<1>2. ASSUME NEW k \in Key, KeyTask(k)
      PROVE  \E e : DeviceStep(dev, e) /\ (dev' = e \/ dev' = clear_keyboard(e))
  <2>1. Event(k, k \notin matrix_prev) \in Record
    BY ActionAssumption DEF Event, Record, Age
  <2>2. Input("matrix", Event(k, k \notin matrix_prev))
    BY <2>1 DEF Input
  <2> QED
    BY <1>1, <1>2, <2>2, ProcessTappingDevice DEF KeyTask
<1>3. CASE TickTask
  <2>1. Input("matrix", Event(NO_KEY, FALSE))
    BY DEF Input, Event
  <2> QED
    BY <1>1, <1>3, <2>1, ProcessTappingDevice DEF TickTask
<1>4. CASE Drain
  <2>1. waiting_buffer # <<>> /\ waiting_buffer \in Seq(Record)
    BY <1>1, <1>4 DEF Drain, TappingOK, BufferOK
  <2>2. Input("buffer", Head(waiting_buffer))
    BY <2>1, HeadTailProperties DEF Input
  <2> QED
    BY <1>1, <1>4, <2>2, ProcessTappingDevice DEF Drain
<1>5. CASE Clock \/ UNCHANGED vars
  <2>1. dev' = dev
    BY <1>5 DEF Clock, vars
  <2> QED
    BY <2>1 DEF DeviceStep
<1> QED
  BY <1>2, <1>3, <1>4, <1>5 DEF Next

-----------------------------------------------------------------------------
(* Modifiers go to the key they are meant for                              *)

(* A step is calm, or it is the press of a key on some layer.              *)
Outcome(d, e) ==
  \/ Calmer(d, e)
  \/ \E k \in Key : \E a \in ActionsOf(k) : Pressed(d, e, a)

(* A processed record is calm or the press of a key.                       *)
LEMMA RecordOutcome ==
  ASSUME NEW d \in Synced, NEW q \in Record
  PROVE  Outcome(d, process_record(d, q).dev)
<1>1. CASE q.pressed
  <2>1. /\ q.key \in Key
        /\ action_for_key(source_layer(d, q), q.key) \in ActionsOf(q.key)
    BY KeymapAction DEF ActionsOf
  <2>2. Pressed(d, process_record(d, q).dev, action_for_key(source_layer(d, q), q.key))
    BY <1>1, PressOutcome
  <2> QED
    BY <2>1, <2>2 DEF Outcome
<1>2. CASE ~q.pressed
  BY <1>2, ReleaseOutcome DEF Outcome
<1> QED
  BY <1>1, <1>2

(* So is what one call of process_tapping has done,                        *)
LEMMA StepOutcome ==
  ASSUME NEW d \in Synced, NEW e, DeviceStep(d, e)
  PROVE  e \in Synced /\ Outcome(d, e)
<1>1. CASE e = d
  BY <1>1, CalmerSelf DEF Outcome
<1>2. CASE \E q \in Record : e = process_record(d, q).dev
  BY <1>2, ProcessRecord, RecordOutcome
<1>3. CASE \E p, q \in Record :
             ~p.pressed /\ e = process_record(process_record(d, p).dev, q).dev
  <2>1. PICK p \in Record, q \in Record :
          ~p.pressed /\ e = process_record(process_record(d, p).dev, q).dev
    BY <1>3
  <2> DEFINE f == process_record(d, p).dev
  <2>2. f \in Synced /\ Calmer(d, f)
    BY <2>1, ProcessRecord, ReleaseOutcome
  <2>3. e = process_record(f, q).dev
    BY <2>1
  <2> HIDE DEF f
  <2>4. e \in Synced /\ Outcome(f, e)
    BY <2>2, <2>3, ProcessRecord, RecordOutcome
  <2>5. ASSUME NEW a, Pressed(f, e, a) PROVE Pressed(d, e, a)
    BY <2>2, <2>5 DEF Pressed, Calmer
  <2>6. Calmer(f, e) => Calmer(d, e)
    BY <2>2, CalmerTwice
  <2> QED
    BY <2>4, <2>5, <2>6 DEF Outcome
<1> QED
  BY <1>1, <1>2, <1>3 DEF DeviceStep

(* and so is every step of the machine.                                    *)
LEMMA NextOutcome ==
  ASSUME IInv, [Next]_vars
  PROVE  Outcome(dev, dev')
<1>1. dev \in Synced
  BY IInvIsTappingOK DEF TappingOK
<1>2. PICK e : DeviceStep(dev, e) /\ (dev' = e \/ dev' = clear_keyboard(e))
  BY NextDevice
<1>3. e \in Synced /\ Outcome(dev, e)
  BY <1>1, <1>2, StepOutcome
<1>4. CASE dev' = clear_keyboard(e)
  <2>1. dev'.keys = {} /\ Calmer(e, dev')
    BY <1>3, <1>4, ClearEffect, SyncedIsDev
  <2>2. Calmer(dev, e) => Calmer(dev, dev')
    BY <2>1, CalmerTwice
  <2>3. ASSUME NEW a, Pressed(dev, e, a) PROVE Pressed(dev, dev', a)
    BY <2>1, <2>3 DEF Pressed, Calmer
  <2> QED
    BY <1>3, <2>2, <2>3 DEF Outcome
<1> QED
  BY <1>2, <1>3, <1>4

(* One-shot modifiers go with one key: whenever a new key reaches the      *)
(* host, action_exec has left no one-shot modifier behind                  *)
(* (send_keyboard_report clears them), for every keymap, configuration and *)
(* number of keys.                                                         *)
THEOREM OneshotModsAreUsedOnce == Spec => OneshotModsUsedOnce
<1>1. IInv /\ [Next]_vars =>
        (dev'.host.keys \ dev.host.keys # {} => dev'.oneshot_mods = {})
  <2> SUFFICES ASSUME IInv, [Next]_vars, dev'.host.keys \ dev.host.keys # {}
               PROVE  dev'.oneshot_mods = {}
    OBVIOUS
  <2>1. dev.host.keys = dev.keys /\ dev'.host.keys = dev'.keys
    BY NextIInv DEF IInv, HostInSync
  <2>2. ~ (dev'.keys \subseteq dev.keys)
    BY <2>1
  <2>3. PICK k \in Key : \E a \in ActionsOf(k) : Pressed(dev, dev', a)
    BY <2>2, NextOutcome DEF Outcome, Calmer
  <2> QED
    BY <2>2, <2>3 DEF Pressed
<1> QED
  BY <1>1, InitIInv, NextIInv, PTL DEF Spec, OneshotModsUsedOnce

NoOneshotMods == \A l \in Layer : \A k \in Key : Keymap[l][k].kind # "MODS_ONESHOT"

(* On a keyboard without one-shot modifier keys a new key reaches the host *)
(* with its own modifiers and the real ones only: the weak modifiers of an *)
(* earlier key (process_record clears them on every press, and only there) *)
(* never end up on it. With OSM keys the claim is not meant: they are      *)
(* there to add modifiers to the next key.                                 *)
THEOREM NoForeignMods ==
  ASSUME NoOneshotMods
  PROVE  Spec => NoForeignWeakMods
<1> DEFINE J == IInv /\ dev.oneshot_mods = {}
<1>1. Init => J
  BY InitIInv DEF Init, InitDev
<1>2. IInv /\ [Next]_vars => Outcome(dev, dev')
  BY NextOutcome
<1>3. \A k \in Key : \A a \in ActionsOf(k) : a.kind # "MODS_ONESHOT"
  BY DEF NoOneshotMods, ActionsOf
<1>4. J /\ [Next]_vars => J'
  <2> SUFFICES ASSUME J, [Next]_vars PROVE dev'.oneshot_mods = {}
    BY NextIInv
  <2> QED
    BY <1>2, <1>3 DEF Outcome, Calmer, Pressed
<1>5. J /\ [Next]_vars =>
        \A c \in dev'.host.keys \ dev.host.keys :
          \E k \in Key : \E a \in ActionsOf(k) :
            a.code = c /\ dev'.host.mods \subseteq a.mods \cup dev'.real_mods
  <2> SUFFICES ASSUME J, [Next]_vars, NEW c \in dev'.host.keys \ dev.host.keys
               PROVE  \E k \in Key : \E a \in ActionsOf(k) :
                        a.code = c /\ dev'.host.mods \subseteq a.mods \cup dev'.real_mods
    OBVIOUS
  <2>1. c \in dev'.keys /\ c \notin dev.keys
    BY NextIInv DEF IInv, HostInSync
  <2>2. PICK k \in Key : \E a \in ActionsOf(k) : Pressed(dev, dev', a)
    BY <1>2, <2>1 DEF Outcome, Calmer
  <2>3. PICK a \in ActionsOf(k) : Pressed(dev, dev', a)
    BY <2>2
  <2>4. a.code = c /\ dev'.host.mods \subseteq dev'.real_mods \cup a.mods
    BY <1>3, <2>1, <2>3 DEF Pressed
  <2> QED
    BY <2>4
<1> QED
  BY <1>1, <1>4, <1>5, PTL DEF Spec, NoForeignWeakMods

-----------------------------------------------------------------------------
(* One-shot layers                                                         *)

(* Whenever a one-shot layer is active its layer is on. The keyboard has   *)
(* one-shot keys for one layer L, next to any keys that switch no layer: a *)
(* second OSL key replaces the first, and a key that switches layers may   *)
(* switch L off, and then the code really leaves an active one-shot layer  *)
(* that is off. With a lock on several taps (ONESHOT_TAP_TOGGLE > 1) and   *)
(* STRICT_LAYER_RELEASE the synthetic release of process_action is looked  *)
(* up on layer 0 and may lock the layer anew, so that pair of options is   *)
(* excluded.                                                               *)
THEOREM OneshotLayerIsKept ==
  ASSUME NEW L \in Layer, OnlyOneshotLayer(L),
         ONESHOT_TAP_TOGGLE > 1 => ~STRICT_LAYER_RELEASE
  PROVE  Spec => []OneshotLayerIsOn
<1> DEFINE J == IInv /\ OneshotInv(dev, L)
<1>1. Init => J
  BY InitIInv DEF Init, InitDev, NoOneshotLayer, OneshotInv, is_oneshot_layer_active
<1>2. J /\ [Next]_vars => J'
  <2> SUFFICES ASSUME J, [Next]_vars PROVE OneshotInv(dev', L)
    BY NextIInv DEF OneshotInv
  <2>1. dev \in Synced
    BY IInvIsTappingOK DEF TappingOK
  <2>2. PICK e : DeviceStep(dev, e) /\ (dev' = e \/ dev' = clear_keyboard(e))
    BY NextDevice
  <2>3. ASSUME NEW d \in Synced, OneshotInv(d, L), NEW q \in Record
        PROVE  process_record(d, q).dev \in Synced /\ OneshotInv(process_record(d, q).dev, L)
    BY <2>3, ProcessRecord, RecordKeepsOneshot
  <2>4. e \in Synced /\ OneshotInv(e, L)
    BY <2>1, <2>2, <2>3 DEF DeviceStep
  <2>5. SameLayers(e, clear_keyboard(e))
    BY <2>4, ClearEffect, SyncedIsDev
  <2>6. OneshotInv(clear_keyboard(e), L)
    BY <2>4, <2>5 DEF SameLayers, OneshotInv, is_oneshot_layer_active
  <2> QED
    BY <2>2, <2>4, <2>6
<1>3. J => OneshotLayerIsOn
  BY DEF OneshotInv, OneshotLayerIsOn
<1> QED
  BY <1>1, <1>2, <1>3, PTL DEF Spec

-----------------------------------------------------------------------------
(* Keyboards without dual-role keys                                        *)

TapFree == \A l \in Layer : \A k \in Key : ~is_tap_action(Keymap[l][k])

(* ... that switch layers with MO and LM only.                             *)
OnlyMomentaryLayers ==
  \A l \in Layer : \A k \in Key :
    Keymap[l][k].kind \in {"LMODS", "USAGE", "TRANSPARENT", "ON_OFF", "LAYER_MODS"}

(* The action the key k was pressed with.                                  *)
PressedAction(d, k) == Keymap[d.source_layers_cache[k]][k]

(* Everything that is on belongs to a key that is down.                    *)
Accounted(d, down) ==
  /\ d.oneshot_layer.state = {}
  /\ \A c \in d.keys : \E k \in down : c \in CodesOf(PressedAction(d, k))
  /\ \A m \in d.real_mods : \E k \in down : m \in ModsOf(PressedAction(d, k))
  /\ OnlyMomentaryLayers =>
       \A l \in d.layer_state : \E k \in down : l \in LayersOf(PressedAction(d, k))

(* The record of a key keeps the account: a press enters what it adds, a   *)
(* release removes all that its press added, because the layer of the      *)
(* press was remembered (read_source_layers_cache).                        *)
LEMMA RecordKeepsAccount ==
  ASSUME NEW d \in Synced, NEW r \in Record, NEW down \in SUBSET Key,
         TapFree, ~STRICT_LAYER_RELEASE, Accounted(d, down),
         r.pressed <=> r.key \notin down
  PROVE  Accounted(process_record(d, r).dev,
                   IF r.pressed THEN down \cup {r.key} ELSE down \ {r.key})
<1> DEFINE e == process_record(d, r).dev
           a == action_for_key(source_layer(d, r), r.key)
           l == source_layer(d, r)
<1>1. l \in Layer /\ r.key \in Key /\ a = Keymap[l][r.key] /\ a \in KeyAction
  BY KeymapAction
<1>2. ~is_tap_action(a)
  BY <1>1 DEF TapFree
<1>3. PICK u \in Synced : u = update_source_layers_cache(d, r) /\ Pairs(u, e, r.pressed, a)
  BY <1>2, PlainRecordEffect DEF Accounted
<1>4. /\ u.keys = d.keys /\ u.real_mods = d.real_mods /\ SameLayers(d, u)
      /\ u.source_layers_cache = IF r.pressed
           THEN [d.source_layers_cache EXCEPT ![r.key] = layer_switch_get_layer(d, r.key)]
           ELSE d.source_layers_cache
  BY ONLY <1>3, UpdateCacheEffect, d \in Synced, r \in Record, ~STRICT_LAYER_RELEASE
<1>5. l = IF r.pressed THEN layer_switch_get_layer(d, r.key)
                       ELSE d.source_layers_cache[r.key]
  BY DEF source_layer
<1>6. d.source_layers_cache \in [Key -> Layer]
  BY DEF Synced, Dev
<1> HIDE DEF e, a, l
<1>7. e.source_layers_cache = u.source_layers_cache /\ e.oneshot_layer.state = {}
  BY <1>3, <1>4 DEF Pairs, Accounted, SameLayers
<1>8. PressedAction(e, r.key) = a
  BY <1>1, <1>4, <1>5, <1>6, <1>7 DEF PressedAction
<1>9. \A k \in Key \ {r.key} : PressedAction(e, k) = PressedAction(d, k)
  BY <1>1, <1>4, <1>6, <1>7 DEF PressedAction
<1>10. OnlyMomentaryLayers =>
         a.kind \in {"LMODS", "USAGE", "TRANSPARENT", "ON_OFF", "LAYER_MODS"}
  BY <1>1 DEF OnlyMomentaryLayers
<1>11. CASE r.pressed
  <2>1. /\ e.keys \subseteq d.keys \cup CodesOf(a)
        /\ e.real_mods \subseteq d.real_mods \cup ModsOf(a)
        /\ OnlyMomentaryLayers => e.layer_state \subseteq d.layer_state \cup LayersOf(a)
    BY <1>3, <1>4, <1>10, <1>11 DEF Pairs, SameLayers
  <2>2. \A k \in down : k \in Key \ {r.key}
    BY <1>11
  <2>3. Accounted(e, down \cup {r.key})
    BY <1>7, <1>8, <1>9, <2>1, <2>2 DEF Accounted
  <2> QED
    BY <1>11, <2>3 DEF e
<1>12. CASE ~r.pressed
  <2>1. /\ e.keys \subseteq d.keys \ CodesOf(a)
        /\ e.real_mods \subseteq d.real_mods \ ModsOf(a)
        /\ OnlyMomentaryLayers => e.layer_state \subseteq d.layer_state \ LayersOf(a)
    BY <1>3, <1>4, <1>10, <1>12 DEF Pairs, SameLayers
  <2>2. PressedAction(d, r.key) = a
    BY <1>1, <1>5, <1>12 DEF PressedAction
  <2>3. Accounted(e, down \ {r.key})
    BY <1>7, <1>9, <2>1, <2>2 DEF Accounted
  <2> QED
    BY <1>12, <2>3 DEF e
<1> QED
  BY <1>11, <1>12

TapFreeInv ==
  /\ IInv
  /\ tapping_key = NONE /\ waiting_buffer = <<>> /\ pc = "scan"
  /\ Accounted(dev, matrix_prev)

(* Without dual-role keys process_tapping passes every event on at once.   *)
LEMMA TapFreeEvent ==
  ASSUME TapFreeInv, TapFree, NEW r, r \in Record \/ r.key = NO_KEY,
         process_tapping("matrix", r)
  PROVE  /\ dev' = processed(dev, r).dev
         /\ tapping_key' = NONE /\ waiting_buffer' = <<>> /\ pc' = "scan"
<1>1. ~Undecided /\ ~Tapped /\ ~Released
  BY DEF TapFreeInv, Undecided, Tapped, Released
<1>2. ~(IsPressed(r) /\ is_tap_key(dev, r.key))
  <2>1. SUFFICES ASSUME IsPressed(r) PROVE ~is_tap_key(dev, r.key)
    OBVIOUS
  <2>2. dev \in Dev /\ r.key \in Key
    BY <2>1 DEF IsPressed, Record, TapFreeInv, IInv, TypeOK
  <2> QED
    BY <2>2, LookupType DEF is_tap_key, layer_switch_get_action, action_for_key, TapFree
<1>3. PlainEvent("matrix", r)
  BY <1>1, <1>2 DEF process_tapping, FirstTap, InterferedByTyping, ReleaseOfEarlierKey,
     RetainModifier, QueueBehindTap, HoldTimeout, TapRelease, NewTapWhileTapped,
     KeyDuringTap, SequentialTap, RestartTap, InterferingTap, OtherKeyAfterTap,
     ReleaseAfterTap, TapExpired, StartTap
<1> QED
  BY <1>3 DEF PlainEvent, ProcessAndConsume, Consume, Continue, TapFreeInv

(* What the matrix reports is a record.                                    *)
LEMMA EventType ==
  ASSUME NEW k \in Key, NEW down \in BOOLEAN
  PROVE  Event(k, down) \in Record /\ Event(k, down).key = k /\ Event(k, down).pressed = down
BY ActionAssumption DEF Event, Record, Age

(* The account is an invariant,                                            *)
LEMMA NextTapFree ==
  ASSUME TapFree, ~STRICT_LAYER_RELEASE
  PROVE  TapFreeInv /\ [Next]_vars => TapFreeInv'
<1> SUFFICES ASSUME TapFreeInv, [Next]_vars PROVE TapFreeInv'
  OBVIOUS
<1>1. IInv' /\ dev \in Synced /\ matrix_prev \in SUBSET Key
  BY NextIInv, IInvIsTappingOK DEF TapFreeInv, TappingOK
<1>2. ASSUME NEW k \in Key, KeyTask(k) PROVE TapFreeInv'
  <2> DEFINE r == Event(k, k \notin matrix_prev)
  <2>1. r \in Record /\ r.key = k /\ (r.pressed <=> k \notin matrix_prev)
    BY EventType
  <2>2. process_tapping("matrix", r)
    BY <1>2 DEF KeyTask
  <2> HIDE DEF r
  <2>3. /\ dev' = process_record(dev, r).dev
        /\ tapping_key' = NONE /\ waiting_buffer' = <<>> /\ pc' = "scan"
    BY <2>1, <2>2, TapFreeEvent, TappingAssumption DEF processed
  <2>4. matrix_prev' = IF r.pressed THEN matrix_prev \cup {r.key} ELSE matrix_prev \ {r.key}
    BY <1>2, <2>1 DEF KeyTask
  <2>5. Accounted(dev', matrix_prev')
    <3>1. Accounted(dev, matrix_prev) /\ (r.pressed <=> r.key \notin matrix_prev)
      BY <2>1 DEF TapFreeInv
    <3>2. Accounted(process_record(dev, r).dev,
                    IF r.pressed THEN matrix_prev \cup {r.key} ELSE matrix_prev \ {r.key})
      BY <1>1, <2>1, <3>1, RecordKeepsAccount
    <3> QED
      BY <2>3, <2>4, <3>2
  <2> QED
    BY <1>1, <2>3, <2>5 DEF TapFreeInv
<1>3. CASE TickTask
  <2>1. process_tapping("matrix", Event(NO_KEY, FALSE)) /\ Event(NO_KEY, FALSE).key = NO_KEY
    BY <1>3 DEF TickTask, Event
  <2>2. /\ dev' = dev
        /\ tapping_key' = NONE /\ waiting_buffer' = <<>> /\ pc' = "scan"
    BY <2>1, TapFreeEvent DEF processed
  <2>3. matrix_prev' = matrix_prev
    BY <1>3 DEF TickTask
  <2> QED
    BY <1>1, <2>2, <2>3 DEF TapFreeInv
<1>4. CASE Drain
  BY <1>4 DEF Drain, TapFreeInv
<1>5. CASE Clock
  <2>1. waiting_buffer' = <<>>
    <3>1. waiting_buffer' = [i \in DOMAIN <<>> |-> older(<<>>[i])]
      BY <1>5 DEF Clock, TapFreeInv
    <3> QED
      BY <3>1
  <2> QED
    BY <1>1, <1>5, <2>1 DEF Clock, TapFreeInv
<1>6. CASE UNCHANGED vars
  BY <1>1, <1>6 DEF vars, TapFreeInv
<1> QED
  BY <1>2, <1>3, <1>4, <1>5, <1>6 DEF Next

(* from the start.                                                         *)
LEMMA InitTapFree == Init => TapFreeInv
BY InitIInv DEF Init, InitDev, NoOneshotLayer, TapFreeInv, Accounted

(* What is accounted for is held by a key that is down.                    *)
LEMMA AccountedIsHeld ==
  ASSUME TapFreeInv
  PROVE  /\ EveryCodeIsHeld /\ EveryModIsHeld
         /\ OnlyMomentaryLayers => EveryMomentaryLayerIsHeld
<1>1. \A k \in matrix_prev : k \in Key /\ Holding(k) /\ PressedAction(dev, k) \in ActionsOf(k)
  BY DEF TapFreeInv, IInv, TypeOK, Dev, Holding, PressedAction, ActionsOf
<1>2. \A c \in dev.keys : \E k \in matrix_prev : c \in CodesOf(PressedAction(dev, k))
  BY DEF TapFreeInv, Accounted
<1>3. \A m \in dev.real_mods : \E k \in matrix_prev : m \in ModsOf(PressedAction(dev, k))
  BY DEF TapFreeInv, Accounted
<1>4. EveryCodeIsHeld
  BY <1>1, <1>2 DEF EveryCodeIsHeld, CodesOf
<1>5. EveryModIsHeld
  BY <1>1, <1>3 DEF EveryModIsHeld, ModsOf
<1>6. OnlyMomentaryLayers => EveryMomentaryLayerIsHeld
  BY <1>1 DEF TapFreeInv, Accounted, EveryMomentaryLayerIsHeld, LayersOf, Momentary
<1> QED
  BY <1>4, <1>5, <1>6

(* On a keyboard without dual-role keys no key code of the report outlives *)
(* the keys that were pressed for it, whatever layers are switched while   *)
(* they are down: the release is looked up on the layer of the press.      *)
THEOREM NothingIsStuck ==
  ASSUME TapFree, ~STRICT_LAYER_RELEASE
  PROVE  Spec => []EveryCodeIsHeld
<1>1. TapFreeInv => EveryCodeIsHeld
  BY AccountedIsHeld
<1> QED
  BY <1>1, InitTapFree, NextTapFree, PTL DEF Spec

(* Nor does a modifier, a real one of the report.  (With                   *)
(* STRICT_LAYER_RELEASE the release is looked up on the layers of its own  *)
(* time, and a modifier stays behind.)                                     *)
THEOREM NoModIsStuck ==
  ASSUME TapFree, ~STRICT_LAYER_RELEASE
  PROVE  Spec => []EveryModIsHeld
<1>1. TapFreeInv => EveryModIsHeld
  BY AccountedIsHeld
<1> QED
  BY <1>1, InitTapFree, NextTapFree, PTL DEF Spec

(* On a keyboard whose only layer keys are MO and LM a layer is on only    *)
(* while one of its keys is down, whichever order they are released in.    *)
THEOREM NobodyIsLockedIn ==
  ASSUME OnlyMomentaryLayers, ~STRICT_LAYER_RELEASE
  PROVE  Spec => []EveryMomentaryLayerIsHeld
<1>0. TapFree
  BY DEF TapFree, OnlyMomentaryLayers, is_tap_action
<1>1. TapFreeInv => EveryMomentaryLayerIsHeld
  BY AccountedIsHeld
<1>2. TapFreeInv /\ [Next]_vars => TapFreeInv'
  BY <1>0, NextTapFree
<1> QED
  BY <1>1, <1>2, InitTapFree, PTL DEF Spec

-----------------------------------------------------------------------------
(* Keyboards with one dual-role key                                        *)

(* One key K has tap actions, none of them OSL, and its taps are not       *)
(* cancelled by other keys (only MT's are, without                         *)
(* IGNORE_MOD_TAP_INTERRUPT).                                              *)
OneDualRoleKey(K) ==
  \A l \in Layer : \A k \in Key :
    is_tap_action(Keymap[l][k]) =>
      /\ k = K /\ Keymap[l][k].kind # "ONESHOT"
      /\ Keymap[l][k].kind = "MODS_TAP" => IGNORE_MOD_TAP_INTERRUPT

NoneOf(k, b) == \A i \in DOMAIN b : b[i].key # k

(* The release of k is the last record of b and the only one of k.         *)
EndsWithRelease(k, b) ==
  /\ b # <<>> /\ ~b[Len(b)].pressed
  /\ \A i \in DOMAIN b : b[i].key = k <=> i = Len(b)

(* Where the records of the dual-role key are: while it is undecided it is *)
(* down and none of its records waits; its release waits, as the last      *)
(* record, only while the buffer is gone through.                          *)
OneKeyShape(K) ==
  /\ tapping_key # NONE => tapping_key.key = K
  /\ Undecided => K \in matrix_prev /\ NoneOf(K, waiting_buffer)
  /\ Tapped => \/ pc = "scan" /\ waiting_buffer = <<>> /\ K \in matrix_prev
               \/ pc = "drain" /\ K \notin matrix_prev /\ EndsWithRelease(K, waiting_buffer)
  /\ Released => waiting_buffer = <<>> /\ K \notin matrix_prev
  /\ tapping_key = NONE =>
       \/ NoneOf(K, waiting_buffer)
          /\ (pc = "scan" => waiting_buffer = <<>> \/ K \in matrix_prev)
       \/ pc = "drain" /\ K \notin matrix_prev /\ EndsWithRelease(K, waiting_buffer)
       \/ pc = "drain" /\ K \in matrix_prev /\ waiting_buffer = <<Event(K, TRUE)>>

OneKeyInv(K) == IInv /\ dev.oneshot_layer.state = {} /\ OneKeyShape(K)

(* What a step of the main loop hands to process_tapping.                  *)
Arrives(src, r) ==
  \/ /\ src = "matrix" /\ pc = "scan" /\ r = Event(NO_KEY, FALSE)
     /\ matrix_prev' = matrix_prev /\ gap' = 0
  \/ /\ src = "matrix" /\ pc = "scan" /\ r.key \in Key
     /\ Len(waiting_buffer) <= MAX_WAITING
     /\ FAST_SCAN => Undecided \/ waiting_buffer = <<>>
     /\ r = Event(r.key, r.key \notin matrix_prev)
     /\ matrix_prev' = IF r.pressed THEN matrix_prev \cup {r.key} ELSE matrix_prev \ {r.key}
     /\ gap' = 0
  \/ /\ src = "buffer" /\ pc = "drain" /\ r = Head(waiting_buffer) /\ r \in Record
     /\ matrix_prev' = matrix_prev /\ gap' = gap

-----------------------------------------------------------------------------
(* The records of one key in the buffer                                    *)

(* A record appended behind others.                                        *)
LEMMA AppendNoneOf ==
  ASSUME NEW b \in Seq(Record), NEW r \in Record, NEW k, NoneOf(k, b)
  PROVE  /\ r.key # k => NoneOf(k, Append(b, r))
         /\ r.key = k /\ ~r.pressed => EndsWithRelease(k, Append(b, r))
<1> DEFINE c == Append(b, r)
<1>1. /\ Len(c) = Len(b) + 1 /\ c[Len(b) + 1] = r /\ Len(b) \in Nat
      /\ \A i \in 1 .. Len(b) : c[i] = b[i]
      /\ DOMAIN b = 1 .. Len(b) /\ DOMAIN c = 1 .. Len(c) /\ c # <<>>
  BY AppendProperties, LenProperties
<1> HIDE DEF c
<1>2. r.key # k => NoneOf(k, c)
  BY <1>1 DEF NoneOf
<1>3. r.key = k /\ ~r.pressed => EndsWithRelease(k, c)
  BY <1>1 DEF NoneOf, EndsWithRelease
<1> QED
  BY <1>2, <1>3 DEF c

(* The record at the head is taken out.                                    *)
LEMMA TailNoneOf ==
  ASSUME NEW b \in Seq(Record), b # <<>>, NEW k
  PROVE  /\ NoneOf(k, b) => Head(b).key # k /\ NoneOf(k, Tail(b))
         /\ EndsWithRelease(k, b) =>
              IF Head(b).key = k THEN Tail(b) = <<>> /\ ~Head(b).pressed
                                 ELSE EndsWithRelease(k, Tail(b)) /\ Tail(b) # <<>>
<1> DEFINE c == Tail(b)
<1>1. /\ Head(b) = b[1] /\ Len(b) \in Nat \ {0}
      /\ DOMAIN b = 1 .. Len(b)
  BY EmptySeq, LenProperties, HeadTailProperties
<1>2. /\ c \in Seq(Record) /\ Len(c) = Len(b) - 1
      /\ \A i \in 1 .. Len(c) : c[i] = b[i + 1]
      /\ DOMAIN c = 1 .. Len(c)
  BY HeadTailProperties, LenProperties
<1>3. Len(c) = 0 <=> c = <<>>
  BY <1>2, EmptySeq
<1> HIDE DEF c
<1>4. NoneOf(k, b) => b[1].key # k /\ NoneOf(k, c)
  BY <1>1, <1>2 DEF NoneOf
<1>5. ASSUME EndsWithRelease(k, b), b[1].key = k PROVE c = <<>> /\ ~b[1].pressed
  BY <1>1, <1>2, <1>3, <1>5 DEF EndsWithRelease
<1>6. ASSUME EndsWithRelease(k, b), b[1].key # k PROVE EndsWithRelease(k, c)
  <2>1. Len(b) # 1 /\ Len(c) \in Nat \ {0} /\ c # <<>>
    BY <1>1, <1>2, <1>3, <1>6 DEF EndsWithRelease
  <2>2. c[Len(c)] = b[Len(b)]
    BY <1>1, <1>2, <2>1
  <2>3. \A i \in 1 .. Len(c) : c[i].key = k <=> i = Len(c)
    <3> SUFFICES ASSUME NEW i \in 1 .. Len(c) PROVE c[i].key = k <=> i = Len(c)
      OBVIOUS
    <3>1. i + 1 \in 1 .. Len(b) /\ c[i] = b[i + 1] /\ (i + 1 = Len(b) <=> i = Len(c))
      BY <1>1, <1>2
    <3> QED
      BY <1>1, <1>6, <3>1 DEF EndsWithRelease
  <2> QED
    BY <1>2, <1>6, <2>1, <2>2, <2>3 DEF EndsWithRelease
<1> QED
  BY <1>1, <1>4, <1>5, <1>6 DEF c, EndsWithRelease

(* The record at the head comes back with the same key and direction.      *)
LEMMA HeadNoneOf ==
  ASSUME NEW b \in Seq(Record), b # <<>>, NEW r \in Record, NEW k,
         r.key = Head(b).key, r.pressed = Head(b).pressed
  PROVE  /\ NoneOf(k, b) <=> NoneOf(k, [b EXCEPT ![1] = r])
         /\ [b EXCEPT ![1] = r] # <<>>
<1> DEFINE c == [b EXCEPT ![1] = r]
<1>1. /\ Head(b) = b[1] /\ Len(b) \in Nat \ {0} /\ 1 \in 1 .. Len(b)
      /\ DOMAIN b = 1 .. Len(b)
  BY EmptySeq, LenProperties, HeadTailProperties
<1>2. /\ c \in Seq(Record) /\ Len(c) = Len(b) /\ DOMAIN c = DOMAIN b
      /\ c[1] = r /\ \A i \in 2 .. Len(b) : c[i] = b[i]
  BY <1>1, ExceptSeq
<1>3. c # <<>>
  BY <1>1, <1>2, EmptySeq
<1> HIDE DEF c
<1>4. \A i \in DOMAIN b : c[i].key = b[i].key
  BY <1>1, <1>2
<1> QED
  BY <1>2, <1>3, <1>4 DEF NoneOf, c

(* Time passes.                                                            *)
LEMMA OlderNoneOf ==
  ASSUME NEW b \in Seq(Record), NEW k
  PROVE  NoneOf(k, b) <=> NoneOf(k, [i \in DOMAIN b |-> older(b[i])])
<1>1. \A i \in DOMAIN b : b[i] \in Record
  BY LenProperties, ElementOfSeq
<1>2. \A i \in DOMAIN b : older(b[i]).key = b[i].key
  BY <1>1 DEF older, Record
<1> QED
  BY <1>2 DEF NoneOf

-----------------------------------------------------------------------------
(* process_record without one-shot layers                                  *)

(* A key that is no OSL leaves the one-shot layer alone.                   *)
LEMMA SwitchKeepsNoOneshot ==
  ASSUME NEW d \in Synced, NEW r \in Record, NEW a \in KeyAction, NEW e,
         e = action_switch(d, r, a), a.kind # "ONESHOT"
  PROVE  e.oneshot_layer = d.oneshot_layer
<1>0. d \in Dev /\ a.code \in Code /\ a.layer \in Layer
  BY DEF KeyAction, Synced
<1>1. CASE ~is_tap_action(a)
  BY <1>1, PlainSwitchEffect DEF Pairs
<1>2. CASE a.kind \in OneshotKinds
  BY <1>2, QuietSwitch DEF SameLayers
<1>3. CASE a.kind = "LAYER_TAP"
  <2>1. e \in {register_code(d, a.code), unregister_code(d, a.code),
               layer_on(d, a.layer), layer_off(d, a.layer)}
    BY <1>3 DEF action_switch, action_layer_tap
  <2> QED
    BY <1>0, <2>1, RegisterCodeEffect, UnregisterCodeEffect, LayerOnOffEffect DEF SameLayers
<1>4. CASE a.kind = "TAP_TOGGLE"
  <2>1. e \in {d, layer_on(d, a.layer), layer_off(d, a.layer)}
    BY <1>4 DEF action_switch, action_tap_toggle, layer_invert
  <2> QED
    BY <1>0, <2>1, LayerOnOffEffect
<1> QED
  BY <1>1, <1>2, <1>3, <1>4 DEF is_tap_action, OneshotKinds

(* While no one-shot layer is active process_record leaves it at that, and *)
(* gives the record back as it was unless it was a cancelled tap.          *)
LEMMA RecordComesBack ==
  ASSUME NEW d \in Synced, NEW r \in Record, d.oneshot_layer.state = {},
         action_for_key(source_layer(d, r), r.key).kind # "ONESHOT",
         ~is_cancelled_tap(r, action_for_key(source_layer(d, r), r.key))
  PROVE  /\ process_record(d, r).rec = r
         /\ process_record(d, r).dev.oneshot_layer.state = {}
<1> DEFINE a == action_for_key(source_layer(d, r), r.key)
           u == update_source_layers_cache(d, r)
           w == clear_weak_mods(u, r)
           s == action_switch(w, r, a)
<1>1. a \in KeyAction /\ a.kind # "ONESHOT"
  BY KeymapAction
<1>2. u \in Synced /\ u.oneshot_layer = d.oneshot_layer
  <2>1. layer_switch_get_layer(d, r.key) \in Layer /\ r.key \in Key
    BY LookupType, SyncedIsDev DEF Record
  <2>2. u \in Synced
    BY <2>1 DEF update_source_layers_cache, Synced, Dev
  <2> QED
    BY <2>2, UpdateCacheEffect DEF SameLayers
<1>3. ~uses_oneshot_layer(u, r, a) /\ uses_oneshot_layer(u, r, a) \in BOOLEAN
  BY <1>2 DEF uses_oneshot_layer, is_oneshot_layer_active, Record
<1>4. process_record(d, r) = after_switch(action_switch(clear_other_key_pressed(w, uses_oneshot_layer(u, r, a)), r, a),
                                          r, FALSE)
  BY <1>3 DEF process_record, process_action, with_oneshot_layer_used
<1>5. clear_other_key_pressed(w, uses_oneshot_layer(u, r, a)) = w
  BY <1>3 DEF clear_other_key_pressed
<1>6. process_record(d, r).dev = s /\ process_record(d, r).rec = r
  BY <1>4, <1>5 DEF after_switch
<1>7. w \in Synced /\ w.oneshot_layer = u.oneshot_layer
  <2>1. w \in Synced
    BY <1>2 DEF clear_weak_mods, Synced, Dev
  <2> QED
    BY <1>2, <2>1, ClearWeakEffect DEF SameLayers
<1> HIDE DEF a, u, w
<1>8. s.oneshot_layer = w.oneshot_layer
  BY <1>1, <1>7, SwitchKeepsNoOneshot
<1> HIDE DEF s
<1> QED
  BY <1>2, <1>6, <1>7, <1>8

(* On a keyboard with one dual-role key neither of the two happens.        *)
LEMMA OneKeyRecord ==
  ASSUME NEW K, OneDualRoleKey(K),
         NEW d \in Synced, NEW r \in Record, d.oneshot_layer.state = {}
  PROVE  /\ process_record(d, r).rec = r
         /\ process_record(d, r).dev.oneshot_layer.state = {}
<1> DEFINE a == action_for_key(source_layer(d, r), r.key)
<1>1. source_layer(d, r) \in Layer /\ r.key \in Key /\ a = Keymap[source_layer(d, r)][r.key]
  BY KeymapAction
<1> HIDE DEF a
<1>2. a.kind # "ONESHOT" /\ (a.kind = "MODS_TAP" => IGNORE_MOD_TAP_INTERRUPT)
  BY <1>1 DEF OneDualRoleKey, is_tap_action
<1>3. ~is_cancelled_tap(r, a)
  BY <1>2 DEF is_cancelled_tap
<1> QED
  BY <1>2, <1>3, RecordComesBack DEF a

-----------------------------------------------------------------------------
(* The eight moves the branches of process_tapping come down to            *)

(* The event is processed as it comes.                                     *)
PassOn(K, src, r) ==
  /\ ProcessAndConsume(src, r)
  /\ \/ tapping_key = NONE /\ tapping_key' = NONE
     \/ /\ tapping_key # NONE /\ r.key # K
        /\ Undecided => /\ IsReleased(r) /\ ~waiting_buffer_typed(r)
                        /\ WithinTappingTerm(r)
        /\ \E i \in BOOLEAN : tapping_key' = [tapping_key EXCEPT !.interrupted = i]

(* It waits until the dual-role key is decided.                            *)
Wait(K, src, r) ==
  /\ Undecided /\ WithinTappingTerm(r) /\ r.key # K
  /\ IsReleased(r) /\ waiting_buffer_typed(r) => ~interferes_by_typing(K)
  /\ \E i \in BOOLEAN : Defer(src, r, dev, [tapping_key EXCEPT !.interrupted = i])

(* It decides that the key is held.                                        *)
Hold(K, src, r) ==
  /\ Undecided
  /\ src = "buffer" => r.key # K
  /\ \/ ~WithinTappingTerm(r)
     \/ r.key # K /\ interferes_by_typing(K)
  /\ Defer(src, r, process_record(dev, tapping_key).dev, NONE)

(* It comes too late for another tap.                                      *)
Expire(src, r) == Released /\ src = "matrix" /\ Defer(src, r, dev, NONE)

Settled == waiting_buffer' = <<>> /\ pc' = "scan"

(* The key goes down, and may become anything,                             *)
Start(K, r) ==
  /\ tapping_key = NONE \/ Released
  /\ r = Event(K, TRUE)
  /\ dev' = dev /\ tapping_key' = r /\ Settled

(* or goes down once more after a tap;                                     *)
Retap(K, src, r) ==
  /\ Released /\ src = "matrix"
  /\ r = Event(K, TRUE)
  /\ \E tap \in Record :
       /\ tap.key = K /\ tap.pressed /\ tap.count > 0
       /\ dev' = process_record(dev, tap).dev /\ tapping_key' = tap
  /\ Settled

(* it comes up as a tap,                                                   *)
Tap(K, src, r) ==
  /\ Undecided /\ src = "matrix"
  /\ r.key = K /\ ~r.pressed
  /\ \E q \in Record :
       /\ q.key = K /\ ~q.pressed
       /\ Defer(src, q, process_record(dev, [tapping_key EXCEPT !.count = 1]).dev,
                [tapping_key EXCEPT !.count = 1])

(* and its release is processed after all that waits before it.            *)
Untap(K, r) ==
  /\ Tapped
  /\ r.key = K /\ ~r.pressed
  /\ \E q \in Record :
       /\ q.key = K /\ ~q.pressed /\ q.count > 0
       /\ dev' = process_record(dev, q).dev /\ tapping_key' \in {NONE, q}
  /\ Settled

Move(K, src, r) ==
  \/ PassOn(K, src, r)
  \/ Wait(K, src, r)
  \/ Hold(K, src, r)
  \/ Expire(src, r)
  \/ Start(K, r)
  \/ Retap(K, src, r)
  \/ Tap(K, src, r)
  \/ Untap(K, r)

(* What arrives: an event of the matrix or the head of the buffer, and if  *)
(* it is one of the dual-role key, where that key stands.                  *)
Arrival(K, src, r) ==
  /\ Input(src, r)
  /\ r.key # NO_KEY => r \in Record
  /\ r.key = NO_KEY => ~r.pressed /\ src = "matrix" /\ r.age = 0
  /\ src = "matrix" => r.age = 0 /\ r.count = 0 /\ pc = "scan"
  /\ src = "buffer" => waiting_buffer # <<>> /\ r = Head(waiting_buffer)
  /\ src \in {"matrix", "buffer"}
  /\ Undecided /\ r.key = K => src = "matrix" /\ ~r.pressed
  /\ Tapped /\ r.key = K => ~r.pressed
  /\ Released /\ r.key = K => src = "matrix" /\ r = Event(K, TRUE)
  /\ Released => src = "matrix"
  /\ tapping_key = NONE /\ r.key = K /\ r.pressed =>
       /\ r = Event(K, TRUE)
       /\ src = "matrix" => waiting_buffer = <<>>
       /\ src = "buffer" => waiting_buffer = <<Event(K, TRUE)>>

(* Anything that arrives is such.                                         *)
LEMMA ArrivesFacts ==
  ASSUME NEW K \in Key, OneKeyInv(K), NEW src, NEW r, Arrives(src, r)
  PROVE  Arrival(K, src, r)
<1>0. waiting_buffer \in Seq(Record) /\ matrix_prev \in SUBSET Key
  BY DEF OneKeyInv, OneKeyShape, IInv, TypeOK
<1>1. CASE src = "matrix" /\ pc = "scan" /\ r = Event(NO_KEY, FALSE)
  <2>1. r.key = NO_KEY /\ ~r.pressed /\ r.age = 0 /\ r.count = 0
    BY <1>1 DEF Event
  <2>2. r.key \notin Key /\ r.key # K
    BY <2>1, TappingAssumption
  <2> QED
    BY <1>1, <2>1, <2>2 DEF Arrival, Input
<1>2. CASE src = "matrix" /\ r.key \in Key /\ r = Event(r.key, r.key \notin matrix_prev)
           /\ pc = "scan"
  <2>1. r \in Record /\ r.pressed = (r.key \notin matrix_prev) /\ r.age = 0 /\ r.count = 0
    <3>1. (r.key \notin matrix_prev) \in BOOLEAN
      OBVIOUS
    <3>2. Event(r.key, r.key \notin matrix_prev) \in Record
          /\ Event(r.key, r.key \notin matrix_prev).pressed = (r.key \notin matrix_prev)
      BY <1>2, <3>1, EventType
    <3>3. Event(r.key, r.key \notin matrix_prev).age = 0
          /\ Event(r.key, r.key \notin matrix_prev).count = 0
      BY DEF Event
    <3> QED
      BY <1>2, <3>2, <3>3
  <2>2. r.key # NO_KEY /\ r.key = K /\ r.pressed => r = Event(K, TRUE)
    BY <1>2, <2>1, TappingAssumption
  <2> QED
    BY <1>2, <2>1, <2>2, TappingAssumption DEF Arrival, Input, OneKeyInv, OneKeyShape
<1>3. CASE src = "buffer" /\ pc = "drain" /\ r = Head(waiting_buffer) /\ r \in Record
  <2>1. waiting_buffer # <<>> /\ r.key \in Key
    BY <1>3 DEF OneKeyInv, OneKeyShape, IInv, TypeOK, Record
  <2>2. NoneOf(K, waiting_buffer) => r.key # K
    BY <1>0, <1>3, <2>1, TailNoneOf
  <2>3. EndsWithRelease(K, waiting_buffer) /\ r.key = K => ~r.pressed
    BY <1>0, <1>3, <2>1, TailNoneOf
  <2>4. waiting_buffer = <<Event(K, TRUE)>> => r = Event(K, TRUE)
    BY <1>3
  <2> QED
    BY <1>3, <2>1, <2>2, <2>3, <2>4, TappingAssumption DEF Arrival, Input, OneKeyInv, OneKeyShape
<1> QED
  BY <1>1, <1>2, <1>3 DEF Arrives

(* With nothing of its own waiting a press just becomes the tapping key.   *)
LEMMA StartsAlone ==
  ASSUME NEW src, NEW r, NEW d, StartTapping(src, r, d), src \in {"matrix", "buffer"},
         r.pressed,
         src = "matrix" => waiting_buffer = <<>>,
         src = "buffer" => waiting_buffer = <<r>>
  PROVE  dev' = d /\ tapping_key' = r /\ Settled
<1> DEFINE own_release(i) == /\ waiting_buffer[i].key = r.key
                             /\ ~waiting_buffer[i].pressed
                             /\ within_tapping_term_of(d, waiting_buffer[i], r)
           found == {i \in DOMAIN waiting_buffer : own_release(i)}
<1>1. found = {}
  <2>1. \A i \in DOMAIN waiting_buffer : waiting_buffer[i].pressed
    <3>1. CASE waiting_buffer = <<>>
      BY <3>1
    <3>2. CASE waiting_buffer = <<r>>
      <4>1. DOMAIN <<r>> = {1} /\ <<r>>[1] = r
        OBVIOUS
      <4> QED
        BY <3>2, <4>1
    <3> QED
      BY <3>1, <3>2
  <2> QED
    BY <2>1
<1>2. dev' = d /\ tapping_key' = r /\ Consume(src, waiting_buffer)
  BY <1>1 DEF StartTapping
<1>3. Tail(<<r>>) = <<>>
  OBVIOUS
<1>4. Settled
  BY <1>2, <1>3 DEF Consume, Continue, Settled
<1> QED
  BY <1>2, <1>4

(* A record consumed as the last one of the buffer settles it.             *)
LEMMA ConsumedSettles ==
  ASSUME NEW src, src \in {"matrix", "buffer"},
         src = "matrix" => waiting_buffer = <<>>,
         src = "buffer" => Tail(waiting_buffer) = <<>>,
         Consume(src, waiting_buffer)
  PROVE  Settled
BY DEF Consume, Continue, Settled

(* Every branch is one of the eight moves.                                 *)
LEMMA MoveOf ==
  ASSUME NEW K \in Key, OneDualRoleKey(K), OneKeyInv(K), NEW src, NEW r,
         Arrives(src, r), process_tapping(src, r)
  PROVE  Move(K, src, r)
<1>0. Arrival(K, src, r)
  BY ArrivesFacts
<1>1. /\ dev \in Synced /\ dev.oneshot_layer.state = {}
      /\ tapping_key \in Record \cup {NONE}
      /\ waiting_buffer \in Seq(Record)
  BY IInvIsTappingOK DEF OneKeyInv, OneKeyShape, TappingOK, BufferOK
<1>2. tapping_key # NONE => tapping_key \in Record /\ tapping_key.key = K
  BY <1>1 DEF OneKeyInv, OneKeyShape
<1>3. ASSUME NEW q \in Record PROVE process_record(dev, q).rec = q
  BY <1>1, OneKeyRecord
<1>4. IsPressed(r) /\ is_tap_key(dev, r.key) => r.key = K
  <2> SUFFICES ASSUME IsPressed(r), is_tap_key(dev, r.key) PROVE r.key = K
    OBVIOUS
  <2>1. r.key \in Key
    BY <1>0 DEF Arrival, IsPressed, Record
  <2>2. layer_switch_get_layer(dev, r.key) \in Layer
    BY <1>1, <2>1, LookupType, SyncedIsDev
  <2> QED
    BY <2>1, <2>2 DEF is_tap_key, layer_switch_get_action, action_for_key, OneDualRoleKey
<1>5. tapping_key # NONE => \E i \in BOOLEAN : tapping_key = [tapping_key EXCEPT !.interrupted = i]
  <2> SUFFICES ASSUME tapping_key \in Record
               PROVE  \E i \in BOOLEAN : tapping_key = [tapping_key EXCEPT !.interrupted = i]
    BY <1>2
  <2>1. tapping_key = [tapping_key EXCEPT !.interrupted = tapping_key.interrupted]
        /\ tapping_key.interrupted \in BOOLEAN
    BY DEF Record
  <2> QED
    BY <2>1
<1>6. K # NO_KEY
  BY TappingAssumption
<1>7. src \in {"matrix", "buffer"} /\ (r.key = K => r \in Record)
  BY <1>6, <1>0 DEF Arrival
<1>8. CASE FirstTap(src, r)
  <2> DEFINE one == [tapping_key EXCEPT !.count = 1]
             tap == process_record(dev, one)
             q   == [r EXCEPT !.count = tap.rec.count, !.interrupted = tap.rec.interrupted]
  <2>1. Undecided /\ r.key = K /\ ~r.pressed /\ tapping_key \in Record
    BY <1>2, <1>8 DEF FirstTap, IsTappingKey, Undecided
  <2>2. src = "matrix" /\ r \in Record
    BY <1>7, <2>1, <1>0 DEF Arrival
  <2>3. one \in Record
    BY <2>1 DEF Record
  <2>4. tap.rec = one
    <3> HIDE DEF one
    <3> QED
      BY <1>3, <2>3
  <2>5. q \in Record /\ q.key = K /\ ~q.pressed
    <3>1. tap.rec.count \in 0 .. 15 /\ tap.rec.interrupted \in BOOLEAN
      BY <2>3, <2>4 DEF Record
    <3> HIDE DEF tap
    <3> QED
      BY <2>1, <2>2, <3>1 DEF Record
  <2>6. Defer(src, q, tap.dev, one)
    BY <1>8, <2>4 DEF FirstTap
  <2> HIDE DEF q
  <2>7. Tap(K, src, r)
    BY <2>1, <2>2, <2>5, <2>6 DEF Tap
  <2> QED
    BY <2>7 DEF Move
<1>9. CASE InterferedByTyping(src, r)
  BY <1>2, <1>9 DEF InterferedByTyping, Hold, Move, IsTappingKey, Undecided
<1>10. CASE ReleaseOfEarlierKey(src, r)
  BY <1>2, <1>5, <1>10 DEF ReleaseOfEarlierKey, PassOn, Move, IsTappingKey, Undecided
<1>11. CASE RetainModifier(src, r)
  <2>1. Undecided /\ tapping_key # NONE /\ r.key # K /\ ~waiting_buffer_typed(r)
        /\ WithinTappingTerm(r) /\ Defer(src, r, dev, tapping_key)
    BY <1>2, <1>11 DEF RetainModifier, IsTappingKey, Undecided
  <2> QED
    BY <1>5, <2>1 DEF Wait, Move
<1>12. CASE QueueBehindTap(src, r)
  <2>1. Undecided /\ WithinTappingTerm(r) /\ tapping_key # NONE /\ tapping_key.key = K
    BY <1>2, <1>12 DEF QueueBehindTap, Undecided
  <2>2. r.key # K /\ (IsReleased(r) /\ waiting_buffer_typed(r) => ~interferes_by_typing(K))
    BY <1>6, <1>12, <2>1, <1>0 DEF Arrival, QueueBehindTap, IsTappingKey, IsReleased
  <2>3. (tapping_key.interrupted \/ r.pressed) \in BOOLEAN
    OBVIOUS
  <2>4. Defer(src, r, dev, [tapping_key EXCEPT !.interrupted = tapping_key.interrupted \/ r.pressed])
    BY <1>12 DEF QueueBehindTap
  <2> QED
    BY <2>1, <2>2, <2>3, <2>4 DEF Wait, Move
<1>13. CASE HoldTimeout(src, r)
  <2>1. src = "buffer" => r.key # K
    BY <1>13, <1>0 DEF Arrival, HoldTimeout
  <2> QED
    BY <1>13, <2>1 DEF HoldTimeout, Hold, Move
<1>14. CASE TapRelease(src, r)
  <2> DEFINE q == with_taps_of_tapping_key(r)
  <2>1. Tapped /\ tapping_key \in Record /\ r.key = K /\ ~r.pressed /\ r \in Record
    BY <1>2, <1>7, <1>14 DEF TapRelease, IsTappingKey, Tapped
  <2>2. q \in Record /\ q.key = K /\ ~q.pressed /\ q.count > 0
    BY <2>1 DEF with_taps_of_tapping_key, Record, Tapped
  <2> HIDE DEF q
  <2>3. process_record(dev, q).rec = q
    BY <1>3, <2>2
  <2>4. ProcessTap(src, q, WithinTappingTerm(r))
    BY <1>14 DEF TapRelease, q
  <2>5. dev' = process_record(dev, q).dev /\ tapping_key' \in {NONE, q}
        /\ Consume(src, waiting_buffer)
    BY <2>3, <2>4 DEF ProcessTap
  <2>6. src = "matrix" => waiting_buffer = <<>>
    BY <2>1, <1>0 DEF Arrival, OneKeyInv, OneKeyShape
  <2>7. src = "buffer" => Tail(waiting_buffer) = <<>>
    <3> SUFFICES ASSUME src = "buffer" PROVE Tail(waiting_buffer) = <<>>
      OBVIOUS
    <3>1. waiting_buffer # <<>> /\ r = Head(waiting_buffer)
      BY <1>0 DEF Arrival
    <3>2. EndsWithRelease(K, waiting_buffer)
      BY <2>1, <3>1 DEF OneKeyInv, OneKeyShape
    <3> QED
      BY <1>1, <2>1, <3>1, <3>2, TailNoneOf
  <2>8. Settled
    BY <1>7, <2>5, <2>6, <2>7, ConsumedSettles
  <2>9. Untap(K, r)
    BY <2>1, <2>2, <2>5, <2>8 DEF Untap
  <2> QED
    BY <2>9 DEF Move
<1>15. CASE NewTapWhileTapped(src, r)
  BY <1>4, <1>15, <1>0 DEF Arrival, NewTapWhileTapped, IsPressed
<1>16. CASE KeyDuringTap(src, r)
  <2>1. r.key # K
    BY <1>2, <1>16, <1>0 DEF Arrival, KeyDuringTap, IsTappingKey, Tapped
  <2>2. tapping_key # NONE /\ ~Undecided
    BY <1>1, <1>16 DEF KeyDuringTap, Tapped, Undecided, Record
  <2> QED
    BY <1>5, <1>16, <2>1, <2>2 DEF KeyDuringTap, PassOn, Move
<1>17. CASE SequentialTap(src, r)
  <2> DEFINE tap == [r EXCEPT !.count = IF tapping_key.count < 15
                                        THEN tapping_key.count + 1 ELSE tapping_key.count,
                              !.interrupted = FALSE]
  <2>1. Released /\ r.key = K /\ r.pressed /\ r \in Record /\ tapping_key \in Record
    BY <1>2, <1>7, <1>17 DEF SequentialTap, IsTappingKey, Released
  <2>2. src = "matrix" /\ r = Event(K, TRUE) /\ waiting_buffer = <<>>
    BY <2>1, <1>0 DEF Arrival, OneKeyInv, OneKeyShape
  <2>3. tap \in Record /\ tap.key = K /\ tap.pressed /\ tap.count > 0
    <3>1. tapping_key.count \in 0 .. 15 /\ tapping_key.count > 0
      BY <1>17, <2>1 DEF SequentialTap, Record
    <3>2. (IF tapping_key.count < 15 THEN tapping_key.count + 1 ELSE tapping_key.count)
            \in 1 .. 15
      BY <3>1
    <3> DEFINE n == IF tapping_key.count < 15 THEN tapping_key.count + 1 ELSE tapping_key.count
    <3>3. n \in 0 .. 15 /\ n > 0
      BY <3>2
    <3> HIDE DEF n
    <3>4. [r EXCEPT !.count = n, !.interrupted = FALSE] \in Record
      BY <2>1, <3>3 DEF Record
    <3>5. tap = [r EXCEPT !.count = n, !.interrupted = FALSE]
      BY DEF n
    <3> HIDE DEF tap
    <3> QED
      BY <2>1, <3>3, <3>4, <3>5 DEF Record
  <2>4. ProcessTap(src, tap, TRUE)
    BY <1>17 DEF SequentialTap
  <2> HIDE DEF tap
  <2>5. dev' = process_record(dev, tap).dev /\ tapping_key' = tap /\ Consume(src, waiting_buffer)
    BY <1>3, <2>3, <2>4 DEF ProcessTap
  <2>6. Settled
    BY <1>7, <2>2, <2>5, ConsumedSettles
  <2>7. Retap(K, src, r)
    BY <2>1, <2>2, <2>3, <2>5, <2>6 DEF Retap
  <2> QED
    BY <2>7 DEF Move
<1>18. CASE RestartTap(src, r)
  <2>1. Released /\ r.key = K
    BY <1>2, <1>18 DEF RestartTap, IsTappingKey, Released
  <2>2. src = "matrix" /\ r = Event(K, TRUE) /\ waiting_buffer = <<>>
    BY <2>1, <1>0 DEF Arrival, OneKeyInv, OneKeyShape
  <2>3. Settled
    BY <1>7, <1>18, <2>2, ConsumedSettles DEF RestartTap
  <2> QED
    BY <1>18, <2>1, <2>2, <2>3 DEF RestartTap, Start, Move
<1>19. CASE InterferingTap(src, r)
  BY <1>2, <1>4, <1>19 DEF InterferingTap, IsTappingKey, Released
<1>20. CASE OtherKeyAfterTap(src, r)
  <2>1. Released /\ r.key # K /\ ~Undecided /\ tapping_key # NONE
    BY <1>2, <1>20 DEF OtherKeyAfterTap, IsTappingKey, Released, Undecided
  <2> QED
    BY <1>20, <2>1 DEF OtherKeyAfterTap, PassOn, Move
<1>21. CASE ReleaseAfterTap(src, r)
  <2>1. Released /\ ~Undecided /\ tapping_key # NONE /\ ~r.pressed
    BY <1>21 DEF ReleaseAfterTap, Released, Undecided
  <2>2. r.key # K
    BY <2>1, <1>0 DEF Arrival, Event
  <2> QED
    BY <1>5, <1>21, <2>1, <2>2 DEF ReleaseAfterTap, PassOn, Move
<1>22. CASE TapExpired(src, r)
  <2>1. Released /\ src = "matrix"
    BY <1>22, <1>0 DEF Arrival, TapExpired
  <2> QED
    BY <1>22, <2>1 DEF TapExpired, Expire, Move
<1>23. CASE StartTap(src, r)
  <2>1. tapping_key = NONE /\ r.key = K /\ r.pressed /\ StartTapping(src, r, dev)
    BY <1>4, <1>23 DEF StartTap, IsPressed
  <2>2. /\ r = Event(K, TRUE)
        /\ src = "matrix" => waiting_buffer = <<>>
        /\ src = "buffer" => waiting_buffer = <<Event(K, TRUE)>>
    BY <2>1, <1>0 DEF Arrival
  <2>3. dev' = dev /\ tapping_key' = r /\ Settled
    BY <1>7, <2>1, <2>2, StartsAlone
  <2> QED
    BY <2>1, <2>2, <2>3 DEF Start, Move
<1>24. CASE PlainEvent(src, r)
  BY <1>24 DEF PlainEvent, PassOn, Move
<1> QED
  BY <1>8, <1>9, <1>10, <1>11, <1>12, <1>13, <1>14, <1>15, <1>16, <1>17, <1>18, <1>19, <1>20,
     <1>21, <1>22, <1>23, <1>24 DEF process_tapping

-----------------------------------------------------------------------------
(* Where the records of the dual-role key are                              *)

(* How an event that arrives changes which keys are down.                  *)
LEMMA ArrivesKeys ==
  ASSUME NEW K \in Key, NEW src, NEW r, Arrives(src, r)
  PROVE  /\ r.key # K => (K \in matrix_prev' <=> K \in matrix_prev)
         /\ src = "matrix" /\ r.key = K => (K \in matrix_prev' <=> r.pressed)
         /\ src = "buffer" => (K \in matrix_prev' <=> K \in matrix_prev)
<1>1. Event(NO_KEY, FALSE).key # K
  BY TappingAssumption DEF Event
<1> QED
  BY <1>1 DEF Arrives

(* What Defer leaves in the buffer.                                        *)
LEMMA DeferBuffer ==
  ASSUME NEW src, NEW r, NEW d, NEW t, Defer(src, r, d, t),
         waiting_buffer \in Seq(Record),
         src \in {"matrix", "buffer"},
         r.key # NO_KEY => r \in Record,
         src = "buffer" => /\ waiting_buffer # <<>> /\ r.key # NO_KEY
                           /\ r.key = Head(waiting_buffer).key
                           /\ r.pressed = Head(waiting_buffer).pressed
  PROVE  \/ tapping_key' = NONE /\ waiting_buffer' = <<>> /\ pc' = "scan"
         \/ /\ tapping_key' = t
            /\ \A k : NoneOf(k, waiting_buffer) /\ r.key # k => NoneOf(k, waiting_buffer')
            /\ \A k : /\ NoneOf(k, waiting_buffer) /\ r.key = k /\ r.key # NO_KEY
                     /\ src = "matrix" /\ ~r.pressed
                     => EndsWithRelease(k, waiting_buffer')
            /\ src = "matrix" => (pc' = "scan" <=> waiting_buffer' = <<>>)
            /\ src = "matrix" /\ r.key # NO_KEY => waiting_buffer' = Append(waiting_buffer, r)
            /\ src = "matrix" /\ r.key = NO_KEY => waiting_buffer' = waiting_buffer
            /\ pc' \in {"scan", "drain"}
<1>1. CASE src = "buffer"
  <2>1. /\ waiting_buffer' = [waiting_buffer EXCEPT ![1] = r]
        /\ pc' = "scan" /\ tapping_key' = t
    BY <1>1 DEF Defer
  <2>2. \A k : NoneOf(k, waiting_buffer) => NoneOf(k, [waiting_buffer EXCEPT ![1] = r])
    BY <1>1, HeadNoneOf
  <2> QED
    BY <1>1, <2>1, <2>2
<1>2. CASE src = "matrix" /\ r.key = NO_KEY
  <2>1. Continue(waiting_buffer) /\ tapping_key' = t
    BY <1>2 DEF Defer
  <2> QED
    BY <1>2, <2>1 DEF Continue
<1>3. CASE src = "matrix" /\ r.key # NO_KEY
  <2>1. \/ Continue(<<>>) /\ tapping_key' = NONE
        \/ Continue(Append(waiting_buffer, r)) /\ tapping_key' = t
    BY <1>3 DEF Defer
  <2>2. CASE Continue(<<>>) /\ tapping_key' = NONE
    BY <2>2 DEF Continue
  <2>3. CASE Continue(Append(waiting_buffer, r)) /\ tapping_key' = t
    <3>1. Append(waiting_buffer, r) # <<>>
      BY <1>3, AppendProperties
    <3>2. waiting_buffer' = Append(waiting_buffer, r) /\ pc' = "drain"
      BY <2>3, <3>1 DEF Continue
    <3>3. \A k : NoneOf(k, waiting_buffer) =>
             /\ r.key # k => NoneOf(k, Append(waiting_buffer, r))
             /\ r.key = k /\ ~r.pressed => EndsWithRelease(k, Append(waiting_buffer, r))
      BY <1>3, AppendNoneOf
    <3> QED
      BY <1>3, <2>3, <3>1, <3>2, <3>3
  <2> QED
    BY <2>1, <2>2, <2>3
<1> QED
  BY <1>1, <1>2, <1>3

(* The same for the events that arrive.                                    *)
Deferred(K, src, r, t) ==
  \/ tapping_key' = NONE /\ waiting_buffer' = <<>> /\ pc' = "scan"
  \/ /\ tapping_key' = t
     /\ NoneOf(K, waiting_buffer) /\ r.key # K => NoneOf(K, waiting_buffer')
     /\ NoneOf(K, waiting_buffer) /\ r.key = K /\ src = "matrix" /\ ~r.pressed
          => EndsWithRelease(K, waiting_buffer')
     /\ src = "matrix" => (pc' = "scan" <=> waiting_buffer' = <<>>)
     /\ src = "matrix" /\ r.key # NO_KEY => waiting_buffer' = Append(waiting_buffer, r)
     /\ src = "matrix" /\ r.key = NO_KEY => waiting_buffer' = waiting_buffer
     /\ pc' \in {"scan", "drain"}

LEMMA DeferArrival ==
  ASSUME NEW K \in Key, OneKeyInv(K), NEW src, NEW r, Arrival(K, src, r),
         NEW d, NEW t, Defer(src, r, d, t)
  PROVE  Deferred(K, src, r, t)
<1>1. waiting_buffer \in Seq(Record) /\ K # NO_KEY
  BY TappingAssumption DEF OneKeyInv, OneKeyShape, IInv, TypeOK
<1>2. /\ src \in {"matrix", "buffer"}
      /\ r.key # NO_KEY => r \in Record
      /\ src = "buffer" => /\ waiting_buffer # <<>> /\ r.key # NO_KEY
                           /\ r.key = Head(waiting_buffer).key
                           /\ r.pressed = Head(waiting_buffer).pressed
  BY DEF Arrival
<1>3. \/ tapping_key' = NONE /\ waiting_buffer' = <<>> /\ pc' = "scan"
      \/ /\ tapping_key' = t
         /\ \A k : NoneOf(k, waiting_buffer) /\ r.key # k => NoneOf(k, waiting_buffer')
         /\ \A k : /\ NoneOf(k, waiting_buffer) /\ r.key = k /\ r.key # NO_KEY
                  /\ src = "matrix" /\ ~r.pressed
                  => EndsWithRelease(k, waiting_buffer')
         /\ src = "matrix" => (pc' = "scan" <=> waiting_buffer' = <<>>)
         /\ src = "matrix" /\ r.key # NO_KEY => waiting_buffer' = Append(waiting_buffer, r)
         /\ src = "matrix" /\ r.key = NO_KEY => waiting_buffer' = waiting_buffer
         /\ pc' \in {"scan", "drain"}
  BY <1>1, <1>2, DeferBuffer
<1> QED
  BY <1>1, <1>3 DEF Deferred

(* Every move keeps the records of the key where they belong.              *)
LEMMA MoveKeepsShape ==
  ASSUME NEW K \in Key, OneKeyInv(K), NEW src, NEW r, Arrives(src, r), Move(K, src, r)
  PROVE  OneKeyShape(K)'
<1>0. Arrival(K, src, r)
  BY ArrivesFacts
<1>1. /\ r.key # K => (K \in matrix_prev' <=> K \in matrix_prev)
      /\ src = "matrix" /\ r.key = K => (K \in matrix_prev' <=> r.pressed)
      /\ src = "buffer" => (K \in matrix_prev' <=> K \in matrix_prev)
  BY ArrivesKeys
<1>2. tapping_key \in Record \cup {NONE} /\ waiting_buffer \in Seq(Record)
      /\ pc \in {"scan", "drain"} /\ src \in {"matrix", "buffer"} /\ K # NO_KEY
  BY <1>0, TappingAssumption DEF OneKeyInv, IInv, TypeOK, Arrival
<1>3. OneKeyShape(K)
  BY DEF OneKeyInv
<1>4. tapping_key # NONE => tapping_key \in Record /\ tapping_key.key = K
  BY <1>2, <1>3 DEF OneKeyShape
<1>5. ASSUME NEW d, NEW t, Defer(src, r, d, t) PROVE Deferred(K, src, r, t)
  BY <1>0, <1>5, DeferArrival
<1>6. NONE \notin Record
  BY TappingAssumption
<1>7. CASE PassOn(K, src, r)
  <2>1. Consume(src, waiting_buffer)
    BY <1>7 DEF PassOn, ProcessAndConsume
  <2>2. src = "matrix" => waiting_buffer' = waiting_buffer /\ pc = "scan"
    BY <1>0, <2>1 DEF Consume, Continue, Arrival
  <2>3. src = "buffer" => /\ waiting_buffer' = Tail(waiting_buffer)
                         /\ waiting_buffer # <<>> /\ r = Head(waiting_buffer)
    BY <1>0, <2>1 DEF Consume, Continue, Arrival
  <2>4. pc' = IF waiting_buffer' = <<>> THEN "scan" ELSE "drain"
    BY <2>1 DEF Consume, Continue
  <2>5. /\ NoneOf(K, waiting_buffer) => NoneOf(K, waiting_buffer')
        /\ EndsWithRelease(K, waiting_buffer) /\ src = "buffer" =>
             IF r.key = K THEN waiting_buffer' = <<>>
             ELSE EndsWithRelease(K, waiting_buffer') /\ waiting_buffer' # <<>>
    <3>1. CASE src = "matrix"
      BY <2>2, <3>1
    <3>2. CASE src = "buffer"
      <4>1. /\ NoneOf(K, waiting_buffer) => NoneOf(K, Tail(waiting_buffer))
            /\ EndsWithRelease(K, waiting_buffer) =>
                 IF Head(waiting_buffer).key = K THEN Tail(waiting_buffer) = <<>>
                 ELSE EndsWithRelease(K, Tail(waiting_buffer)) /\ Tail(waiting_buffer) # <<>>
        BY <1>2, <2>3, <3>2, TailNoneOf
      <4> QED
        BY <2>3, <3>2, <4>1
    <3> QED
      BY <1>2, <3>1, <3>2
  <2>6. CASE tapping_key = NONE /\ tapping_key' = NONE
    <3>1. NoneOf(K, <<>>)
      BY DEF NoneOf
    <3>2. waiting_buffer = <<Event(K, TRUE)>> /\ src = "buffer" => waiting_buffer' = <<>>
      BY <2>3
    <3>3. src = "matrix" => NoneOf(K, waiting_buffer)
      BY <1>3, <2>2, <2>6 DEF OneKeyShape
    <3>4. ~Undecided' /\ ~Tapped' /\ ~Released'
      BY <2>6 DEF Undecided, Tapped, Released
    <3>5. CASE src = "matrix"
      BY <2>4, <2>5, <2>6, <3>3, <3>4, <3>5 DEF OneKeyShape
    <3>6. CASE src = "buffer"
      BY <1>1, <1>3, <2>4, <2>5, <2>6, <3>1, <3>2, <3>4, <3>6 DEF OneKeyShape
    <3> QED
      BY <1>2, <3>5, <3>6
  <2>7. CASE tapping_key # NONE /\ r.key # K
    <3>1. PICK i \in BOOLEAN : tapping_key' = [tapping_key EXCEPT !.interrupted = i]
      BY <1>7, <2>7 DEF PassOn
    <3>2. /\ tapping_key' \in Record /\ tapping_key'.key = K /\ tapping_key' # NONE
          /\ tapping_key'.pressed = tapping_key.pressed /\ tapping_key'.count = tapping_key.count
      BY <1>4, <1>6, <2>7, <3>1 DEF Record
    <3>3. (Undecided' <=> Undecided) /\ (Tapped' <=> Tapped) /\ (Released' <=> Released)
      BY <2>7, <3>2 DEF Undecided, Tapped, Released
    <3>4. CASE src = "matrix"
      BY <1>1, <1>3, <2>2, <2>4, <2>5, <2>7, <3>2, <3>3, <3>4 DEF OneKeyShape
    <3>5. CASE src = "buffer"
      BY <1>0, <1>1, <1>3, <2>3, <2>4, <2>5, <2>7, <3>2, <3>3, <3>5 DEF OneKeyShape, Arrival
    <3> QED
      BY <1>2, <3>4, <3>5
  <2> QED
    BY <1>7, <2>6, <2>7 DEF PassOn
<1>8. ASSUME tapping_key' = NONE, waiting_buffer' = <<>>, pc' = "scan"
      PROVE  OneKeyShape(K)'
  BY <1>8 DEF OneKeyShape, Undecided, Tapped, Released, NoneOf
<1>9. CASE Wait(K, src, r)
  <2>1. PICK i \in BOOLEAN : Defer(src, r, dev, [tapping_key EXCEPT !.interrupted = i])
    BY <1>9 DEF Wait
  <2> DEFINE t == [tapping_key EXCEPT !.interrupted = i]
  <2>2. t \in Record /\ t.key = K /\ t.pressed /\ t.count = 0 /\ t # NONE /\ r.key # K
    BY <1>4, <1>6, <1>9 DEF Wait, Undecided, Record
  <2>3. Deferred(K, src, r, t)
    BY <1>5, <2>1
  <2> HIDE DEF t
  <2>4. K \in matrix_prev' /\ NoneOf(K, waiting_buffer)
    BY <1>1, <1>3, <1>9, <2>2 DEF OneKeyShape, Wait
  <2>5. CASE tapping_key' = t /\ NoneOf(K, waiting_buffer')
    <3>1. Undecided' /\ ~Tapped' /\ ~Released' /\ tapping_key' # NONE /\ tapping_key'.key = K
      BY <2>2, <2>5 DEF Undecided, Tapped, Released
    <3> QED
      BY <2>4, <2>5, <3>1 DEF OneKeyShape
  <2> QED
    BY <1>8, <2>2, <2>3, <2>4, <2>5 DEF Deferred
<1>10. CASE Hold(K, src, r)
  <2>1. Undecided /\ (src = "buffer" => r.key # K)
        /\ Defer(src, r, process_record(dev, tapping_key).dev, NONE)
    BY <1>10 DEF Hold
  <2>2. Deferred(K, src, r, NONE)
    BY <1>5, <2>1
  <2>3. NoneOf(K, waiting_buffer) /\ K \in matrix_prev
    BY <1>3, <2>1 DEF OneKeyShape
  <2>4. r.key = K => src = "matrix" /\ ~r.pressed
    BY <1>0, <2>1 DEF Arrival
  <2>5. tapping_key' = NONE /\ ~Undecided' /\ ~Tapped' /\ ~Released'
    BY <2>2 DEF Deferred, Undecided, Tapped, Released
  <2>6. CASE r.key # K
    BY <1>1, <1>2, <1>8, <2>2, <2>3, <2>5, <2>6 DEF Deferred, OneKeyShape
  <2>7. CASE r.key = K
    <3>1. waiting_buffer' # <<>> => EndsWithRelease(K, waiting_buffer') /\ pc' = "drain"
      BY <2>2, <2>3, <2>4, <2>7 DEF Deferred
    <3> QED
      BY <1>1, <1>8, <2>2, <2>4, <2>5, <2>7, <3>1 DEF Deferred, OneKeyShape
  <2> QED
    BY <2>6, <2>7
<1>11. CASE Expire(src, r)
  <2>1. Released /\ src = "matrix" /\ Deferred(K, src, r, NONE)
    BY <1>5, <1>11 DEF Expire
  <2>2. waiting_buffer = <<>> /\ (r.key = K => r = Event(K, TRUE))
    BY <1>0, <1>3, <2>1 DEF OneKeyShape, Arrival
  <2>3. tapping_key' = NONE /\ ~Undecided' /\ ~Tapped' /\ ~Released'
    BY <2>1 DEF Deferred, Undecided, Tapped, Released
  <2>4. NoneOf(K, <<>>) /\ Append(<<>>, r) = <<r>>
    BY DEF NoneOf
  <2>5. CASE r.key # K
    BY <1>8, <2>1, <2>2, <2>3, <2>4, <2>5 DEF Deferred, OneKeyShape
  <2>6. CASE r.key = K
    <3>1. r.pressed
      BY <2>2, <2>6 DEF Event
    <3>2. K \in matrix_prev'
      BY <1>1, <2>1, <2>6, <3>1
    <3>3. waiting_buffer' # <<>> => waiting_buffer' = <<Event(K, TRUE)>> /\ pc' = "drain"
      BY <1>2, <2>1, <2>2, <2>4, <2>6 DEF Deferred
    <3> QED
      BY <1>8, <2>1, <2>3, <3>2, <3>3 DEF Deferred, OneKeyShape
  <2> QED
    BY <2>5, <2>6
<1>12. CASE Start(K, r)
  <2>1. /\ tapping_key' = Event(K, TRUE) /\ waiting_buffer' = <<>> /\ pc' = "scan"
        /\ tapping_key = NONE \/ Released
        /\ r = Event(K, TRUE)
    BY <1>12 DEF Start, Settled
  <2>2. /\ Event(K, TRUE) \in Record /\ Event(K, TRUE).key = K /\ Event(K, TRUE).pressed
        /\ Event(K, TRUE).count = 0
    BY EventType DEF Event
  <2>3. Undecided' /\ ~Tapped' /\ ~Released' /\ tapping_key' # NONE /\ tapping_key'.key = K
    <3> DEFINE e == Event(K, TRUE)
    <3>1. e # NONE /\ e.key = K /\ e.pressed /\ e.count = 0 /\ tapping_key' = e
      BY <1>6, <2>1, <2>2
    <3> HIDE DEF e
    <3> QED
      BY <3>1 DEF Undecided, Tapped, Released
  <2>4. K \in matrix_prev'
    <3>1. CASE src = "matrix"
      BY <1>1, <2>1, <2>2, <3>1
    <3>2. CASE src = "buffer"
      <4>1. tapping_key = NONE /\ waiting_buffer # <<>> /\ r = Head(waiting_buffer)
        BY <1>0, <2>1, <3>2 DEF Arrival
      <4>2. ~NoneOf(K, waiting_buffer) /\ ~EndsWithRelease(K, waiting_buffer)
        BY <1>2, <2>1, <2>2, <4>1, TailNoneOf
      <4> QED
        BY <1>1, <1>3, <3>2, <4>1, <4>2 DEF OneKeyShape
    <3> QED
      BY <1>2, <3>1, <3>2
  <2>5. NoneOf(K, <<>>)
    BY DEF NoneOf
  <2> QED
    BY <2>1, <2>3, <2>4, <2>5 DEF OneKeyShape
<1>13. CASE Retap(K, src, r)
  <2>1. PICK tap \in Record : tap.key = K /\ tap.pressed /\ tap.count > 0 /\ tapping_key' = tap
    BY <1>13 DEF Retap
  <2>2. src = "matrix" /\ r = Event(K, TRUE) /\ waiting_buffer' = <<>> /\ pc' = "scan"
    BY <1>13 DEF Retap, Settled
  <2>3. K \in matrix_prev'
    BY <1>1, <2>2 DEF Event
  <2>4. Tapped' /\ ~Undecided' /\ ~Released' /\ tapping_key' # NONE /\ tapping_key'.key = K
    BY <1>6, <2>1 DEF Undecided, Tapped, Released, Record
  <2> QED
    BY <2>2, <2>3, <2>4 DEF OneKeyShape
<1>14. CASE Tap(K, src, r)
  <2> DEFINE one == [tapping_key EXCEPT !.count = 1]
  <2>1. Undecided /\ src = "matrix" /\ r.key = K /\ ~r.pressed
    BY <1>14 DEF Tap
  <2>2. PICK q \in Record : q.key = K /\ ~q.pressed
                           /\ Defer(src, q, process_record(dev, one).dev, one)
    BY <1>14 DEF Tap
  <2>3. one \in Record /\ one.key = K /\ one.pressed /\ one.count > 0 /\ one # NONE
    BY <1>4, <1>6, <2>1 DEF Record, Undecided
  <2>4. NoneOf(K, waiting_buffer) /\ K \notin matrix_prev'
    BY <1>1, <1>3, <2>1 DEF OneKeyShape
  <2> HIDE DEF one
  <2>5. \/ tapping_key' = NONE /\ waiting_buffer' = <<>> /\ pc' = "scan"
        \/ /\ tapping_key' = one /\ EndsWithRelease(K, waiting_buffer')
           /\ (pc' = "scan" <=> waiting_buffer' = <<>>) /\ pc' \in {"scan", "drain"}
    BY <1>2, <2>1, <2>2, <2>4, DeferBuffer
  <2>6. CASE tapping_key' = one /\ EndsWithRelease(K, waiting_buffer')
             /\ (pc' = "scan" <=> waiting_buffer' = <<>>) /\ pc' \in {"scan", "drain"}
    <3>1. pc' = "drain"
      BY <2>6 DEF EndsWithRelease
    <3>2. Tapped' /\ ~Undecided' /\ ~Released' /\ tapping_key' # NONE /\ tapping_key'.key = K
      BY <2>3, <2>6 DEF Undecided, Tapped, Released, Record
    <3> QED
      BY <2>4, <2>6, <3>1, <3>2 DEF OneKeyShape
  <2> QED
    BY <1>8, <2>5, <2>6
<1>15. CASE Untap(K, r)
  <2>1. PICK q \in Record : q.key = K /\ ~q.pressed /\ tapping_key' \in {NONE, q}
    BY <1>15 DEF Untap
  <2>2. Tapped /\ r.key = K /\ ~r.pressed /\ waiting_buffer' = <<>> /\ pc' = "scan"
    BY <1>15 DEF Untap, Settled
  <2>3. K \notin matrix_prev'
    <3>1. src = "buffer" => waiting_buffer # <<>>
      BY <1>0 DEF Arrival
    <3> QED
      BY <1>1, <1>2, <1>3, <2>2, <3>1 DEF OneKeyShape
  <2>4. CASE tapping_key' = q
    BY <1>6, <2>1, <2>2, <2>3, <2>4 DEF OneKeyShape, Undecided, Tapped, Released
  <2> QED
    BY <1>8, <2>1, <2>2, <2>4
<1> QED
  BY <1>7, <1>9, <1>10, <1>11, <1>12, <1>13, <1>14, <1>15 DEF Move

(* A step of the machine handles what arrives, or is the clock's.          *)
LEMMA StepArrives ==
  ASSUME IInv, Next
  PROVE  Clock \/ \E src, r : Arrives(src, r) /\ process_tapping(src, r)
<1>1. SUFFICES ASSUME ~Clock PROVE \E src, r : Arrives(src, r) /\ process_tapping(src, r)
  OBVIOUS
<1>2. CASE TickTask
  BY <1>2 DEF TickTask, Arrives
<1>3. ASSUME NEW k \in Key, KeyTask(k)
      PROVE  \E src, r : Arrives(src, r) /\ process_tapping(src, r)
  <2> DEFINE r == Event(k, k \notin matrix_prev)
  <2>1. (k \notin matrix_prev) \in BOOLEAN
    OBVIOUS
  <2>2. r.key = k /\ r.pressed = (k \notin matrix_prev)
    BY <2>1, EventType
  <2>3. r = Event(r.key, r.key \notin matrix_prev) /\ process_tapping("matrix", r)
    BY <1>3, <2>2 DEF KeyTask
  <2> HIDE DEF r
  <2>4. Arrives("matrix", r)
    BY <1>3, <2>2, <2>3 DEF KeyTask, Arrives
  <2> QED
    BY <2>3, <2>4
<1>4. CASE Drain
  <2>1. waiting_buffer # <<>> /\ waiting_buffer \in Seq(Record)
    BY <1>4 DEF Drain, IInv, TypeOK
  <2>2. Head(waiting_buffer) \in Record
    BY <2>1, HeadTailProperties
  <2> QED
    BY <1>4, <2>2 DEF Drain, Arrives
<1> QED
  BY <1>1, <1>2, <1>3, <1>4 DEF Next

(* On a keyboard with one dual-role key it makes a move on it.             *)
LEMMA StepMoves ==
  ASSUME NEW K \in Key, OneDualRoleKey(K), OneKeyInv(K), Next
  PROVE  Clock \/ \E src, r : Arrives(src, r) /\ Move(K, src, r)
<1>1. IInv
  BY DEF OneKeyInv
<1> QED
  BY <1>1, StepArrives, MoveOf

(* The account of the one dual-role key is an invariant,                   *)
LEMMA NextOneKey ==
  ASSUME NEW K \in Key, OneDualRoleKey(K)
  PROVE  OneKeyInv(K) /\ [Next]_vars => OneKeyInv(K)'
<1> SUFFICES ASSUME OneKeyInv(K), [Next]_vars PROVE OneKeyInv(K)'
  OBVIOUS
<1>1. IInv' /\ dev \in Synced /\ IInv
  BY NextIInv, IInvIsTappingOK DEF OneKeyInv, TappingOK
<1>2. dev'.oneshot_layer.state = {}
  <2>1. PICK e : DeviceStep(dev, e) /\ (dev' = e \/ dev' = clear_keyboard(e))
    BY <1>1, NextDevice
  <2>2. ASSUME NEW d \in Synced, d.oneshot_layer.state = {}, NEW q \in Record
        PROVE  /\ process_record(d, q).dev \in Synced
               /\ process_record(d, q).dev.oneshot_layer.state = {}
    BY <2>2, ProcessRecord, OneKeyRecord
  <2>3. e \in Synced /\ e.oneshot_layer.state = {}
    BY <1>1, <2>1, <2>2 DEF DeviceStep, OneKeyInv
  <2>4. SameLayers(e, clear_keyboard(e))
    BY <2>3, ClearEffect, SyncedIsDev
  <2> QED
    BY <2>1, <2>3, <2>4 DEF SameLayers
<1>3. CASE Next /\ ~Clock
  <2>1. PICK src, r : Arrives(src, r) /\ Move(K, src, r)
    BY <1>3, StepMoves
  <2>2. OneKeyShape(K)'
    BY <2>1, MoveKeepsShape
  <2> QED
    BY <1>1, <1>2, <2>2 DEF OneKeyInv
<1>4. CASE Clock
  <2> DEFINE aged == [i \in DOMAIN waiting_buffer |-> older(waiting_buffer[i])]
  <2>1. /\ waiting_buffer \in Seq(Record) /\ tapping_key \in Record \cup {NONE}
        /\ OneKeyShape(K) /\ pc = "scan" /\ pc' = "scan" /\ matrix_prev' = matrix_prev
        /\ waiting_buffer' = aged
    BY <1>1, <1>4 DEF Clock, OneKeyInv, IInv, TypeOK
  <2>2. NoneOf(K, waiting_buffer) <=> NoneOf(K, aged)
    BY <2>1, OlderNoneOf
  <2>3. waiting_buffer = <<>> => aged = <<>>
    OBVIOUS
  <2> HIDE DEF aged
  <2>4. ASSUME tapping_key = NONE PROVE OneKeyShape(K)'
    <3>1. tapping_key' = NONE /\ ~Undecided' /\ ~Tapped' /\ ~Released'
      BY <1>4, <2>4 DEF Clock, Undecided, Tapped, Released
    <3> QED
      BY <2>1, <2>2, <2>3, <2>4, <3>1 DEF OneKeyShape
  <2>5. ASSUME tapping_key \in Record PROVE OneKeyShape(K)'
    <3>1. tapping_key # NONE /\ tapping_key.key = K
      BY <2>1, <2>5, TappingAssumption DEF OneKeyShape
    <3>2. /\ tapping_key' # NONE /\ tapping_key'.key = K
          /\ tapping_key'.pressed = tapping_key.pressed /\ tapping_key'.count = tapping_key.count
      <4>1. tapping_key' = older(tapping_key)
        BY <1>4, <3>1 DEF Clock
      <4>2. older(tapping_key) \in Record
        BY <2>5, OlderType
      <4> QED
        BY <2>5, <3>1, <4>1, <4>2, TappingAssumption DEF older, Record
    <3>3. (Undecided' <=> Undecided) /\ (Tapped' <=> Tapped) /\ (Released' <=> Released)
      BY <3>1, <3>2 DEF Undecided, Tapped, Released
    <3> QED
      BY <2>1, <2>2, <2>3, <3>1, <3>2, <3>3 DEF OneKeyShape
  <2>6. OneKeyShape(K)'
    BY <2>1, <2>4, <2>5
  <2> QED
    BY <1>1, <1>2, <2>6 DEF OneKeyInv
<1>5. CASE UNCHANGED vars
  BY <1>1, <1>2, <1>5 DEF vars, OneKeyInv, OneKeyShape, Undecided, Tapped, Released
<1> QED
  BY <1>3, <1>4, <1>5

(* from the start.                                                         *)
LEMMA InitOneKey ==
  ASSUME NEW K \in Key
  PROVE  Init => OneKeyInv(K)
BY InitIInv DEF Init, InitDev, NoOneshotLayer, OneKeyInv, OneKeyShape, NoneOf,
   Undecided, Tapped, Released

-----------------------------------------------------------------------------
(* Permissive hold                                                         *)

HasTyped(b) ==
  \E i, j \in DOMAIN b :
    i < j /\ b[i].key = b[j].key /\ b[i].pressed /\ ~b[j].pressed

(* A key is typed inside the buffer only when its release is appended.     *)
LEMMA AppendTyped ==
  ASSUME NEW b \in Seq(Record), NEW r \in Record, HasTyped(Append(b, r)), ~HasTyped(b)
  PROVE  ~r.pressed /\ \E i \in DOMAIN b : b[i].key = r.key /\ b[i].pressed
<1> DEFINE c == Append(b, r)
<1>1. /\ Len(c) = Len(b) + 1 /\ c[Len(b) + 1] = r /\ Len(b) \in Nat
      /\ \A i \in 1 .. Len(b) : c[i] = b[i]
      /\ DOMAIN b = 1 .. Len(b) /\ DOMAIN c = 1 .. Len(c)
  BY AppendProperties, LenProperties
<1>2. PICK i \in DOMAIN c, j \in DOMAIN c :
        i < j /\ c[i].key = c[j].key /\ c[i].pressed /\ ~c[j].pressed
  BY DEF HasTyped
<1> HIDE DEF c
<1>3. i \in 1 .. Len(b) /\ c[i] = b[i]
  BY <1>1, <1>2
<1>4. j \notin 1 .. Len(b)
  <2> SUFFICES ASSUME j \in 1 .. Len(b) PROVE FALSE
    OBVIOUS
  <2> QED
    BY <1>1, <1>2, <1>3 DEF HasTyped
<1>5. c[j] = r
  BY <1>1, <1>2, <1>4
<1> QED
  BY <1>1, <1>2, <1>3, <1>5

(* What is typed inside the rest was typed inside the whole.               *)
LEMMA TailTyped ==
  ASSUME NEW b \in Seq(Record), b # <<>>, HasTyped(Tail(b))
  PROVE  HasTyped(b)
<1> DEFINE c == Tail(b)
<1>1. /\ Len(c) = Len(b) - 1 /\ Len(b) \in Nat \ {0}
      /\ \A i \in 1 .. Len(c) : c[i] = b[i + 1]
      /\ DOMAIN b = 1 .. Len(b) /\ DOMAIN c = 1 .. Len(c)
  BY EmptySeq, HeadTailProperties, LenProperties
<1>2. PICK i \in DOMAIN c, j \in DOMAIN c :
        i < j /\ c[i].key = c[j].key /\ c[i].pressed /\ ~c[j].pressed
  BY DEF HasTyped
<1> HIDE DEF c
<1>3. i + 1 \in 1 .. Len(b) /\ j + 1 \in 1 .. Len(b) /\ i + 1 < j + 1
      /\ c[i] = b[i + 1] /\ c[j] = b[j + 1]
  BY <1>1, <1>2
<1> QED
  BY <1>1, <1>2, <1>3 DEF HasTyped

(* Records with the same keys and directions have the same keys typed.     *)
LEMMA SameTyped ==
  ASSUME NEW b, NEW c, DOMAIN b = DOMAIN c,
         \A i \in DOMAIN b : b[i].key = c[i].key /\ b[i].pressed = c[i].pressed
  PROVE  HasTyped(b) <=> HasTyped(c)
BY DEF HasTyped

(* The record at the head comes back with the same key and direction.      *)
LEMMA HeadSame ==
  ASSUME NEW b \in Seq(Record), b # <<>>, NEW r \in Record,
         r.key = Head(b).key, r.pressed = Head(b).pressed
  PROVE  LET c == [b EXCEPT ![1] = r] IN
         /\ DOMAIN b = DOMAIN c
         /\ \A i \in DOMAIN b : b[i].key = c[i].key /\ b[i].pressed = c[i].pressed
<1> DEFINE c == [b EXCEPT ![1] = r]
<1>1. /\ Head(b) = b[1] /\ Len(b) \in Nat \ {0} /\ 1 \in 1 .. Len(b)
      /\ DOMAIN b = 1 .. Len(b)
  BY EmptySeq, LenProperties, HeadTailProperties
<1>2. /\ c \in Seq(Record) /\ Len(c) = Len(b) /\ DOMAIN c = DOMAIN b
      /\ c[1] = r /\ \A i \in 2 .. Len(b) : c[i] = b[i]
  BY <1>1, ExceptSeq
<1> HIDE DEF c
<1>3. \A i \in DOMAIN b : b[i].key = c[i].key /\ b[i].pressed = c[i].pressed
  BY <1>1, <1>2
<1> QED
  BY <1>2, <1>3 DEF c

(* Time passes.                                                            *)
LEMMA OlderSame ==
  ASSUME NEW b \in Seq(Record)
  PROVE  LET c == [i \in DOMAIN b |-> older(b[i])] IN
         /\ DOMAIN b = DOMAIN c
         /\ \A i \in DOMAIN b : b[i].key = c[i].key /\ b[i].pressed = c[i].pressed
<1>1. \A i \in DOMAIN b : b[i] \in Record
  BY LenProperties, ElementOfSeq
<1> QED
  BY <1>1 DEF older, Record

(* The four ways Defer leaves the buffer.                                  *)
DeferForm(src, r) ==
  \/ waiting_buffer' = <<>> /\ pc' = "scan"
  \/ /\ src = "buffer" /\ pc' = "scan"
     /\ waiting_buffer' = [waiting_buffer EXCEPT ![1] = r]
  \/ /\ src = "matrix" /\ r.key = NO_KEY
     /\ waiting_buffer' = waiting_buffer
     /\ pc' = IF waiting_buffer' = <<>> THEN "scan" ELSE "drain"
  \/ /\ src = "matrix" /\ r.key # NO_KEY
     /\ waiting_buffer' = Append(waiting_buffer, r)
     /\ pc' = IF waiting_buffer' = <<>> THEN "scan" ELSE "drain"

(* Defer has no other.                                                     *)
LEMMA DeferForms ==
  ASSUME NEW src, NEW r, NEW d, NEW t, Defer(src, r, d, t)
  PROVE  /\ DeferForm(src, r)
         /\ \/ tapping_key' = t
            \/ tapping_key' = NONE /\ waiting_buffer' = <<>>
BY DEF Defer, Continue, DeferForm

(* In every layer the options let a key typed inside decide K.             *)
PermissiveHoldOf(K) ==
  \A l \in Layer :
    /\ \/ TAPPING_TERM_PER_KEY
       \/ TAPPING_TERM[l][K] >= LONG_TAPPING_TERM
       \/ PERMISSIVE_HOLD
       \/ PERMISSIVE_HOLD_PER_KEY
    /\ TAPPING_TERM_PER_KEY => TAPPING_TERM[l][K] >= LONG_TAPPING_TERM
    /\ PERMISSIVE_HOLD_PER_KEY => ~get_permissive_hold[l][K]

(* The options of a key are looked up in some layer.                       *)
LEMMA KeycodeLayerType ==
  ASSUME NEW d \in Synced, NEW k \in Key
  PROVE  keycode_layer(d, k) \in Layer
<1>1. layer_switch_get_layer(d, k) \in Layer /\ d.source_layers_cache[k] \in Layer
  BY LookupType, SyncedIsDev DEF Synced, Dev
<1> QED
  BY <1>1 DEF keycode_layer

(* A key is typed inside only a buffer that is being gone through.         *)
TypedOnlyInDrain == HasTyped(waiting_buffer) => pc = "drain" /\ ~Undecided

(* Every move keeps it so.                                                 *)
LEMMA MoveKeepsTyped ==
  ASSUME NEW K \in Key, OneKeyInv(K), PermissiveHoldOf(K), TypedOnlyInDrain,
         NEW src, NEW r, Arrives(src, r), Move(K, src, r)
  PROVE  TypedOnlyInDrain'
<1>0. Arrival(K, src, r)
  BY ArrivesFacts
<1>1. /\ waiting_buffer \in Seq(Record) /\ dev \in Synced /\ OneKeyShape(K)
      /\ src \in {"matrix", "buffer"} /\ tapping_key \in Record \cup {NONE}
  BY <1>0, IInvIsTappingOK DEF OneKeyInv, TappingOK, BufferOK, Arrival
<1>2. interferes_by_typing(K)
  BY <1>1, KeycodeLayerType DEF PermissiveHoldOf, interferes_by_typing, get_tapping_term
<1>3. ~HasTyped(<<>>)
  BY DEF HasTyped
<1>4. src = "matrix" => pc = "scan"
  BY <1>0 DEF Arrival
<1>5. src = "buffer" => /\ waiting_buffer # <<>> /\ r = Head(waiting_buffer) /\ r \in Record
                        /\ (HasTyped([waiting_buffer EXCEPT ![1] = r]) <=> HasTyped(waiting_buffer))
  <2> SUFFICES ASSUME src = "buffer"
               PROVE  /\ waiting_buffer # <<>> /\ r = Head(waiting_buffer) /\ r \in Record
                      /\ (HasTyped([waiting_buffer EXCEPT ![1] = r]) <=> HasTyped(waiting_buffer))
    OBVIOUS
  <2>1. waiting_buffer # <<>> /\ r = Head(waiting_buffer) /\ r \in Record
    BY <1>0 DEF Arrival
  <2> QED
    BY <1>1, <2>1, HeadSame, SameTyped
<1>6. ASSUME NEW d, NEW t, Defer(src, r, d, t), Undecided, t = NONE \/ t \in Record,
             src = "buffer" \/ t = NONE \/ t.count > 0 \/ ~HasTyped(waiting_buffer')
      PROVE  TypedOnlyInDrain'
  <2>1. DeferForm(src, r) /\ (tapping_key' = t \/ tapping_key' = NONE)
    BY <1>6, DeferForms
  <2>2. ~HasTyped(waiting_buffer)
    BY <1>6 DEF TypedOnlyInDrain
  <2>3. t = NONE \/ t.count > 0 => ~Undecided'
    BY <1>6, <2>1, TappingAssumption DEF Undecided, Record
  <2>4. CASE src = "buffer"
    BY <1>3, <1>5, <2>1, <2>2, <2>4 DEF TypedOnlyInDrain, DeferForm
  <2>5. CASE src = "matrix"
    BY <1>3, <1>6, <2>1, <2>3, <2>5 DEF TypedOnlyInDrain, DeferForm
  <2> QED
    BY <1>1, <2>4, <2>5
<1>7. CASE PassOn(K, src, r)
  <2>1. Consume(src, waiting_buffer)
    BY <1>7 DEF PassOn, ProcessAndConsume
  <2>2. HasTyped(waiting_buffer') => src = "buffer" /\ HasTyped(waiting_buffer) /\ pc' = "drain"
    BY <1>1, <1>3, <1>4, <1>5, <2>1, TailTyped DEF Consume, Continue, TypedOnlyInDrain
  <2>3. Undecided' => Undecided
    <3>1. CASE tapping_key' = NONE
      BY <3>1 DEF Undecided
    <3>2. CASE tapping_key \in Record /\ tapping_key' # NONE
      <4>1. PICK i \in BOOLEAN : tapping_key' = [tapping_key EXCEPT !.interrupted = i]
        BY <1>7, <3>2 DEF PassOn
      <4>2. tapping_key'.pressed = tapping_key.pressed /\ tapping_key'.count = tapping_key.count
            /\ tapping_key # NONE
        BY <3>2, <4>1, TappingAssumption DEF Record
      <4> QED
        BY <4>2 DEF Undecided
    <3> QED
      BY <1>1, <1>7, <3>1, <3>2 DEF PassOn
  <2> QED
    BY <2>2, <2>3 DEF TypedOnlyInDrain
<1>8. CASE Wait(K, src, r)
  <2>1. PICK i \in BOOLEAN : Defer(src, r, dev, [tapping_key EXCEPT !.interrupted = i])
    BY <1>8 DEF Wait
  <2>2. Undecided /\ ~HasTyped(waiting_buffer) /\ tapping_key \in Record
    BY <1>1, <1>8 DEF Wait, TypedOnlyInDrain, Undecided
  <2>3. [tapping_key EXCEPT !.interrupted = i] \in Record
    BY <2>2 DEF Record
  <2>4. src = "matrix" => ~HasTyped(waiting_buffer')
    <3>1. CASE r.key = NO_KEY
      <4>1. DeferForm(src, r)
        BY <2>1, DeferForms
      <4> QED
        BY <1>3, <2>2, <3>1, <4>1 DEF DeferForm
    <3>2. CASE r.key # NO_KEY
      <4>1. r \in Record
        BY <1>0, <3>2 DEF Arrival
      <4>2. ~(IsReleased(r) /\ waiting_buffer_typed(r))
        BY <1>2, <1>8 DEF Wait
      <4>3. ~HasTyped(Append(waiting_buffer, r))
        <5> SUFFICES ASSUME HasTyped(Append(waiting_buffer, r)) PROVE FALSE
          OBVIOUS
        <5>1. ~r.pressed /\ \E j \in DOMAIN waiting_buffer :
                waiting_buffer[j].key = r.key /\ waiting_buffer[j].pressed
          BY <1>1, <2>2, <4>1, AppendTyped
        <5> QED
          BY <3>2, <4>2, <5>1 DEF IsReleased, waiting_buffer_typed
      <4>4. DeferForm(src, r)
        BY <2>1, DeferForms
      <4> QED
        BY <1>3, <3>2, <4>3, <4>4 DEF DeferForm
    <3> QED
      BY <3>1, <3>2
  <2> QED
    BY <1>1, <1>6, <2>1, <2>2, <2>3, <2>4
<1>9. CASE Hold(K, src, r)
  BY <1>6, <1>9 DEF Hold
<1>10. CASE Expire(src, r)
  <2>1. src = "matrix" /\ DeferForm(src, r) /\ tapping_key' = NONE
    BY <1>10, DeferForms DEF Expire
  <2>2. ~HasTyped(waiting_buffer)
    BY <1>4, <2>1 DEF TypedOnlyInDrain
  <2> QED
    BY <1>3, <2>1, <2>2 DEF DeferForm, TypedOnlyInDrain, Undecided
<1>11. CASE Start(K, r) \/ Retap(K, src, r) \/ Untap(K, r)
  BY <1>3, <1>11 DEF Start, Retap, Untap, Settled, TypedOnlyInDrain
<1>12. CASE Tap(K, src, r)
  <2> DEFINE one == [tapping_key EXCEPT !.count = 1]
  <2>1. Undecided /\ tapping_key \in Record /\ src = "matrix"
    BY <1>1, <1>12 DEF Tap, Undecided
  <2>2. PICK q \in Record : Defer(src, q, process_record(dev, one).dev, one)
    BY <1>12 DEF Tap
  <2>3. one \in Record /\ one.count > 0
    BY <2>1 DEF Record
  <2> HIDE DEF one
  <2>4. DeferForm(src, q) /\ (tapping_key' = one \/ tapping_key' = NONE)
    BY <2>2, DeferForms
  <2>5. ~Undecided'
    BY <2>3, <2>4 DEF Undecided, Record
  <2> QED
    BY <1>3, <2>1, <2>4, <2>5 DEF DeferForm, TypedOnlyInDrain
<1> QED
  BY <1>7, <1>8, <1>9, <1>10, <1>11, <1>12 DEF Move

(* On a keyboard with one dual-role key and permissive hold, that key is   *)
(* never left undecided once another key has been typed inside it, however *)
(* the events are queued and gone through again.  (With several the next   *)
(* pending key is started from the buffer and what was typed behind it is  *)
(* not looked at again before its term is over.)                           *)
THEOREM TypedKeyAlwaysDecides ==
  ASSUME NEW K \in Key, OneDualRoleKey(K), PermissiveHoldOf(K)
  PROVE  Spec => []TypedKeyDecides
<1> DEFINE J == OneKeyInv(K) /\ TypedOnlyInDrain
<1>1. Init => J
  BY InitOneKey DEF Init, TypedOnlyInDrain, HasTyped
<1>2. J /\ [Next]_vars => J'
  <2> SUFFICES ASSUME J, [Next]_vars PROVE TypedOnlyInDrain'
    BY NextOneKey
  <2>1. CASE Next /\ ~Clock
    BY <2>1, StepMoves, MoveKeepsTyped
  <2>2. CASE Clock
    <3>1. waiting_buffer \in Seq(Record) /\ pc = "scan"
      BY <2>2 DEF OneKeyInv, IInv, TypeOK, Clock
    <3>2. ~HasTyped(waiting_buffer)
      BY <3>1 DEF TypedOnlyInDrain
    <3>3. ~HasTyped([i \in DOMAIN waiting_buffer |-> older(waiting_buffer[i])])
      BY <3>1, <3>2, OlderSame, SameTyped
    <3> QED
      BY <2>2, <3>3 DEF Clock, TypedOnlyInDrain
  <2>3. CASE UNCHANGED vars
    BY <2>3 DEF vars, TypedOnlyInDrain, Undecided
  <2> QED
    BY <2>1, <2>2, <2>3
<1>3. J => TypedKeyDecides
  BY DEF TypedOnlyInDrain, HasTyped, TypedKeyDecides, TypedInside
<1> QED
  BY <1>1, <1>2, <1>3, PTL DEF Spec

-----------------------------------------------------------------------------
(* No permissive hold                                                      *)

(* In no layer the options let a key typed inside decide K.                *)
NoPermissiveHoldOf(K) ==
  \A l \in Layer :
    ~ /\ \/ TAPPING_TERM_PER_KEY
         \/ TAPPING_TERM[l][K] >= LONG_TAPPING_TERM
         \/ PERMISSIVE_HOLD
         \/ PERMISSIVE_HOLD_PER_KEY
      /\ TAPPING_TERM_PER_KEY => TAPPING_TERM[l][K] >= LONG_TAPPING_TERM
      /\ PERMISSIVE_HOLD_PER_KEY => ~get_permissive_hold[l][K]

(* The 16-bit timer does not wrap round within a tapping term of K and the *)
(* scan that ends it.                                                      *)
TermFitsTimer(K) ==
  \A l \in Layer : TAPPING_TERM[l][K] + MAX_SCAN_GAP < TIMER_WRAP

(* Key changes leave room in the waiting buffer.                           *)
BufferHasRoom == MAX_WAITING < WAITING_BUFFER_SIZE - 1

AgedWithin(b, age) == \A i \in DOMAIN b : b[i].age <= age

(* The pending key is older than all that waits behind it, and not older   *)
(* than a tapping term and the time since the last scan.                   *)
TermIsRunning(K) ==
  Undecided =>
    /\ \E l \in Layer : tapping_key.age <= TAPPING_TERM[l][K] + gap
    /\ AgedWithin(waiting_buffer, tapping_key.age)

(* A number below the modulus is its own remainder.                        *)
LEMMA SmallRemainder ==
  ASSUME NEW n \in Nat \ {0}, NEW x \in Nat, x < n
  PROVE  x % n = x
OBVIOUS

(* The tapping term of a key is that of some layer.                        *)
LEMMA TermType ==
  ASSUME NEW d \in Synced, NEW k \in Key
  PROVE  /\ get_tapping_term(d, k) \in Nat
         /\ \E l \in Layer : get_tapping_term(d, k) = TAPPING_TERM[l][k]
BY KeycodeLayerType, TappingAssumption DEF get_tapping_term

(* A younger event is within the term as long as the term has not passed.  *)
LEMMA YoungerIsWithin ==
  ASSUME dev \in Synced, tapping_key \in Record, WithinItsTerm, NEW r, r.age \in Nat,
         r.age <= tapping_key.age
  PROVE  WithinTappingTerm(r)
<1> DEFINE n == TIMER_WRAP
           x == tapping_key.age - r.age
<1>1. n \in Nat \ {0} /\ tapping_key.age \in 0 .. n - 1
  BY ActionAssumption DEF Record, Age
<1>2. x \in Nat /\ x < n /\ x <= tapping_key.age
  BY <1>1
<1> HIDE DEF n, x
<1>3. x % n = x
  BY <1>1, <1>2, SmallRemainder
<1>4. TimerDiff16(r, tapping_key) = x
  BY <1>3 DEF TimerDiff16, n, x
<1> DEFINE term == get_tapping_term(dev, tapping_key.key)
<1>5. tapping_key.age < term /\ term \in Nat /\ tapping_key.age \in Nat
  BY <1>1, TermType DEF WithinItsTerm, Record
<1> HIDE DEF term
<1>6. x < term
  BY <1>2, <1>5
<1> QED
  BY <1>4, <1>6 DEF term, WithinTappingTerm, within_tapping_term_of

(* The ages of the records in a buffer, as it changes.                     *)
LEMMA AgesOfBuffer ==
  ASSUME NEW b \in Seq(Record), NEW age, AgedWithin(b, age)
  PROVE  /\ \A r \in Record : r.age <= age => AgedWithin(Append(b, r), age)
         /\ b # <<>> => /\ AgedWithin(Tail(b), age)
                        /\ AgedWithin([b EXCEPT ![1] = Head(b)], age)
                        /\ Head(b).age <= age
<1>1. DOMAIN b = 1 .. Len(b) /\ Len(b) \in Nat
  BY LenProperties
<1>2. ASSUME NEW r \in Record, r.age <= age PROVE AgedWithin(Append(b, r), age)
  <2> DEFINE c == Append(b, r)
  <2>1. /\ DOMAIN c = 1 .. Len(b) + 1 /\ c[Len(b) + 1] = r
        /\ \A i \in 1 .. Len(b) : c[i] = b[i]
    BY AppendProperties, LenProperties
  <2> HIDE DEF c
  <2>2. ASSUME NEW i \in DOMAIN c PROVE c[i].age <= age
    <3>1. i \in 1 .. Len(b) \/ i = Len(b) + 1
      BY <1>1, <2>1
    <3> QED
      BY <1>1, <1>2, <2>1, <3>1 DEF AgedWithin
  <2> QED
    BY <2>2 DEF AgedWithin, c
<1>3. ASSUME b # <<>>
      PROVE  /\ AgedWithin(Tail(b), age)
             /\ AgedWithin([b EXCEPT ![1] = Head(b)], age)
             /\ Head(b).age <= age
  <2> DEFINE c == Tail(b)
  <2>1. /\ Head(b) = b[1] /\ Len(b) \in Nat \ {0} /\ 1 \in DOMAIN b
        /\ DOMAIN c = 1 .. Len(b) - 1
        /\ \A i \in 1 .. Len(b) - 1 : c[i] = b[i + 1]
    BY <1>1, <1>3, EmptySeq, HeadTailProperties, LenProperties
  <2> HIDE DEF c
  <2>2. ASSUME NEW i \in DOMAIN c PROVE c[i].age <= age
    <3>1. i + 1 \in 1 .. Len(b) /\ c[i] = b[i + 1]
      BY <2>1
    <3> QED
      BY <1>1, <3>1 DEF AgedWithin
  <2>3. [b EXCEPT ![1] = Head(b)] = b
    BY <2>1
  <2> QED
    BY <2>1, <2>2, <2>3 DEF AgedWithin, c
<1> QED
  BY <1>2, <1>3

(* Whatever is left undecided keeps the tapping key, or the buffer was     *)
(* full.                                                                   *)
LEMMA RoomIsKept ==
  ASSUME NEW K \in Key, OneKeyInv(K), BufferHasRoom, NEW src, NEW r, Arrives(src, r),
         NEW d, NEW t, Defer(src, r, d, t)
  PROVE  tapping_key' = t
<1>1. src \in {"matrix", "buffer"} /\ (src = "matrix" /\ r.key # NO_KEY => Len(waiting_buffer) <= MAX_WAITING)
  BY DEF Arrives, Event
<1>2. Len(waiting_buffer) \in Nat
  BY LenProperties DEF OneKeyInv, IInv, TypeOK
<1>3. src = "matrix" /\ r.key # NO_KEY => ~(Len(waiting_buffer) >= WAITING_BUFFER_SIZE - 1)
  BY <1>1, <1>2, TappingAssumption DEF BufferHasRoom
<1> QED
  BY <1>1, <1>3 DEF Defer

(* An event of the matrix that comes within the term finds the pending key *)
(* younger than the term.                                                  *)
LEMMA NewEventIsWithin ==
  ASSUME dev \in Synced, NEW r, r.age = 0,
         tapping_key \in Record, WithinTappingTerm(r)
  PROVE  \E l \in Layer : tapping_key.age <= TAPPING_TERM[l][tapping_key.key] + 0
<1> DEFINE n == TIMER_WRAP
           x == tapping_key.age
<1>1. n \in Nat \ {0} /\ x \in 0 .. n - 1 /\ tapping_key.key \in Key
  BY ActionAssumption DEF Record, Age
<1>2. x \in Nat /\ x < n /\ x - r.age = x
  BY <1>1
<1> HIDE DEF n, x
<1>3. x % n = x
  BY <1>1, <1>2, SmallRemainder
<1>4. TimerDiff16(r, tapping_key) = x
  BY <1>2, <1>3 DEF TimerDiff16, n, x
<1>5. x < get_tapping_term(dev, tapping_key.key)
  BY <1>4 DEF WithinTappingTerm, within_tapping_term_of
<1>6. PICK l \in Layer : get_tapping_term(dev, tapping_key.key) = TAPPING_TERM[l][tapping_key.key]
  BY <1>1, TermType
<1> DEFINE term == TAPPING_TERM[l][tapping_key.key]
<1>7. term \in Nat /\ x < term
  BY <1>1, <1>5, <1>6, TappingAssumption
<1> HIDE DEF term
<1>8. x <= term + 0
  BY <1>2, <1>7
<1> QED
  BY <1>8 DEF term, x

(* Every move keeps what waits younger than the pending key.               *)
LEMMA MoveKeepsTerm ==
  ASSUME NEW K \in Key, OneKeyInv(K), TermIsRunning(K),
         NEW src, NEW r, Arrives(src, r), Move(K, src, r)
  PROVE  TermIsRunning(K)'
<1>0. Arrival(K, src, r)
  BY ArrivesFacts
<1>1. /\ waiting_buffer \in Seq(Record) /\ dev \in Synced /\ OneKeyShape(K)
      /\ src \in {"matrix", "buffer"} /\ tapping_key \in Record \cup {NONE}
      /\ NONE \notin Record
  BY <1>0, IInvIsTappingOK, TappingAssumption
  DEF OneKeyInv, TappingOK, BufferOK, Arrival
<1>2. (src = "matrix" => gap' = 0) /\ (src = "buffer" => gap' = gap)
  BY DEF Arrives
<1>3. /\ src = "matrix" => r.age = 0
      /\ src = "buffer" => waiting_buffer # <<>> /\ r = Head(waiting_buffer)
      /\ r.key # NO_KEY => r \in Record
  BY <1>0 DEF Arrival
(* What PassOn and Wait have in common: K stays pending.                   *)
<1>4. ASSUME Undecided, src = "matrix" => WithinTappingTerm(r),
             NEW i \in BOOLEAN, tapping_key' = [tapping_key EXCEPT !.interrupted = i],
             AgedWithin(waiting_buffer', tapping_key.age)
      PROVE  TermIsRunning(K)'
  <2>1. tapping_key \in Record /\ tapping_key.key = K
    BY <1>1, <1>4 DEF Undecided, OneKeyShape
  <2>2. tapping_key'.age = tapping_key.age
    BY <1>4, <2>1 DEF Record
  <2>3. \E l \in Layer : tapping_key.age <= TAPPING_TERM[l][K] + gap'
    <3>1. CASE src = "matrix"
      BY <1>1, <1>2, <1>3, <1>4, <2>1, <3>1, NewEventIsWithin
    <3>2. CASE src = "buffer"
      BY <1>2, <1>4, <3>2 DEF TermIsRunning
    <3> QED
      BY <1>1, <3>1, <3>2
  <2> QED
    BY <1>4, <2>2, <2>3 DEF TermIsRunning
<1>5. ASSUME ~Undecided' PROVE TermIsRunning(K)'
  BY <1>5 DEF TermIsRunning
<1>6. tapping_key' = NONE => ~Undecided'
  BY DEF Undecided
<1>7. Undecided => AgedWithin(waiting_buffer, tapping_key.age)
  BY DEF TermIsRunning
<1>8. CASE PassOn(K, src, r)
  <2>1. CASE tapping_key' = NONE
    BY <1>5, <1>6, <2>1
  <2>2. CASE tapping_key' # NONE
    <3>1. PICK i \in BOOLEAN : tapping_key' = [tapping_key EXCEPT !.interrupted = i]
      BY <1>8, <2>2 DEF PassOn
    <3>2. tapping_key # NONE /\ (Undecided => WithinTappingTerm(r)) /\ tapping_key \in Record
      BY <1>1, <1>8, <2>2 DEF PassOn
    <3>3. CASE Undecided
      <4>1. Consume(src, waiting_buffer)
        BY <1>8 DEF PassOn, ProcessAndConsume
      <4>2. AgedWithin(waiting_buffer', tapping_key.age)
        BY <1>1, <1>3, <1>7, <3>3, <4>1, AgesOfBuffer DEF Consume, Continue
      <4> QED
        BY <1>4, <3>1, <3>2, <3>3, <4>2
    <3>4. CASE ~Undecided
      <4>1. tapping_key'.pressed = tapping_key.pressed /\ tapping_key'.count = tapping_key.count
        BY <3>1, <3>2 DEF Record
      <4>2. ~Undecided'
        BY <3>2, <3>4, <4>1 DEF Undecided
      <4> QED
        BY <1>5, <4>2
    <3> QED
      BY <3>3, <3>4
  <2> QED
    BY <2>1, <2>2
<1>9. CASE Wait(K, src, r)
  <2>1. PICK i \in BOOLEAN : Defer(src, r, dev, [tapping_key EXCEPT !.interrupted = i])
    BY <1>9 DEF Wait
  <2>2. Undecided /\ WithinTappingTerm(r) /\ tapping_key \in Record
    BY <1>1, <1>9 DEF Wait, Undecided
  <2>3. DeferForm(src, r)
        /\ (tapping_key' = NONE \/ tapping_key' = [tapping_key EXCEPT !.interrupted = i])
    BY <2>1, DeferForms
  <2>4. AgedWithin(waiting_buffer', tapping_key.age)
    <3>1. AgedWithin(<<>>, tapping_key.age)
      BY DEF AgedWithin
    <3>2. tapping_key.age \in Nat
      BY <2>2, ActionAssumption DEF Record, Age
    <3>3. src = "matrix" /\ r.key # NO_KEY => r \in Record /\ r.age <= tapping_key.age
      BY <1>3, <3>2
    <3> QED
      BY <1>1, <1>3, <1>7, <2>2, <2>3, <3>1, <3>3, AgesOfBuffer DEF DeferForm
  <2> QED
    BY <1>4, <1>5, <1>6, <2>2, <2>3, <2>4
<1>10. CASE Hold(K, src, r)
  BY <1>5, <1>6, <1>10, DeferForms DEF Hold
<1>11. CASE Expire(src, r)
  BY <1>5, <1>6, <1>11, DeferForms DEF Expire
<1>12. CASE Start(K, r)
  <2>1. tapping_key'.age = 0 /\ waiting_buffer' = <<>> /\ gap' \in Nat
    <3>1. gap \in Nat /\ gap' \in Nat
      BY <1>1, <1>2, TappingAssumption DEF OneKeyInv, IInv, TypeOK
    <3> QED
      BY <1>12, <3>1 DEF Start, Settled, Event
  <2>2. AgedWithin(waiting_buffer', tapping_key'.age)
    BY <2>1 DEF AgedWithin
  <2>3. PICK l \in Layer : TRUE
    BY <1>1, KeycodeLayerType
  <2>4. TAPPING_TERM[l][K] \in Nat
    BY TappingAssumption
  <2>5. 0 <= TAPPING_TERM[l][K] + gap'
    BY <2>1, <2>4
  <2> QED
    BY <2>1, <2>2, <2>5 DEF TermIsRunning
<1>13. CASE Retap(K, src, r)
  BY <1>5, <1>13 DEF Retap, Undecided, Record
<1>14. CASE Tap(K, src, r)
  <2> DEFINE one == [tapping_key EXCEPT !.count = 1]
  <2>1. Undecided /\ tapping_key \in Record
    BY <1>1, <1>14 DEF Tap, Undecided
  <2>2. PICK q \in Record : Defer(src, q, process_record(dev, one).dev, one)
    BY <1>14 DEF Tap
  <2>3. one \in Record /\ one.count > 0
    BY <2>1 DEF Record
  <2> HIDE DEF one
  <2>4. tapping_key' = one \/ tapping_key' = NONE
    BY <2>2, DeferForms
  <2> QED
    BY <1>5, <2>3, <2>4 DEF Undecided, Record
<1>15. CASE Untap(K, r)
  BY <1>5, <1>15 DEF Untap, Undecided, Record
<1> QED
  BY <1>8, <1>9, <1>10, <1>11, <1>12, <1>13, <1>14, <1>15 DEF Move

(* The clock makes the pending key and what waits older alike.             *)
LEMMA ClockKeepsTerm ==
  ASSUME NEW K \in Key, OneKeyInv(K), TermFitsTimer(K), TermIsRunning(K), Clock
  PROVE  TermIsRunning(K)'
<1>1. /\ waiting_buffer \in Seq(Record) /\ tapping_key \in Record \cup {NONE}
      /\ gap \in Nat /\ gap < MAX_SCAN_GAP /\ gap' = gap + 1 /\ MAX_SCAN_GAP \in Nat
      /\ waiting_buffer' = [i \in DOMAIN waiting_buffer |-> older(waiting_buffer[i])]
  BY TappingAssumption DEF OneKeyInv, IInv, TypeOK, Clock
<1>2. SUFFICES ASSUME Undecided' PROVE TermIsRunning(K)'
  BY DEF TermIsRunning
<1>3. tapping_key \in Record /\ tapping_key # NONE /\ tapping_key' = older(tapping_key)
  BY <1>1, <1>2 DEF Clock, Undecided
<1>4. older(tapping_key).pressed = tapping_key.pressed
      /\ older(tapping_key).count = tapping_key.count
  BY <1>3 DEF older, Record
<1>5. Undecided
  BY <1>2, <1>3, <1>4 DEF Undecided
<1> DEFINE n == TIMER_WRAP
           x == tapping_key.age
<1>6. PICK l \in Layer : x <= TAPPING_TERM[l][K] + gap
  BY <1>5 DEF TermIsRunning
<1> DEFINE term == TAPPING_TERM[l][K]
<1>7. n \in Nat \ {0} /\ x \in Nat /\ term \in Nat /\ term + MAX_SCAN_GAP < n
  BY <1>3, ActionAssumption, TappingAssumption DEF TermFitsTimer, Record, Age
<1>8. x <= term + gap
  BY <1>6
<1> HIDE DEF n, x, term
<1>9. x + 1 < n /\ x + 1 \in Nat /\ x + 1 <= term + (gap + 1)
  BY <1>1, <1>7, <1>8
<1>10. (x + 1) % n = x + 1
  BY <1>7, <1>9, SmallRemainder
<1>11. \A r \in Record : older(r).age = (r.age + 1) % n
  BY DEF older, Record, n
<1>12. tapping_key'.age = x + 1
  BY <1>3, <1>10, <1>11 DEF x
<1>13. AgedWithin(waiting_buffer', tapping_key'.age)
  <2> SUFFICES ASSUME NEW i \in DOMAIN waiting_buffer
               PROVE  older(waiting_buffer[i]).age <= x + 1
    BY <1>1, <1>12 DEF AgedWithin
  <2> DEFINE y == waiting_buffer[i].age
  <2>1. waiting_buffer[i] \in Record
    BY <1>1, LenProperties, ElementOfSeq
  <2>2. y \in Nat
    BY <2>1, ActionAssumption DEF Record, Age
  <2>3. y <= x
    BY <1>5 DEF TermIsRunning, AgedWithin, x
  <2> HIDE DEF y
  <2>4. y + 1 \in Nat /\ y + 1 < n /\ y + 1 <= x + 1
    BY <1>7, <1>9, <2>2, <2>3
  <2>5. (y + 1) % n = y + 1
    BY <1>7, <2>4, SmallRemainder
  <2> QED
    BY <1>11, <2>1, <2>4, <2>5 DEF y
<1>14. tapping_key'.age <= TAPPING_TERM[l][K] + gap'
  BY <1>1, <1>9, <1>12 DEF term
<1> QED
  BY <1>13, <1>14 DEF TermIsRunning

(* Without permissive hold a pending key that stays down stays pending     *)
(* until its term is over.                                                 *)
LEMMA MoveKeepsPending ==
  ASSUME NEW K \in Key, OneKeyInv(K), NoPermissiveHoldOf(K), BufferHasRoom,
         TermIsRunning(K), NEW src, NEW r, Arrives(src, r), Move(K, src, r),
         Undecided, WithinItsTerm, tapping_key.key \in matrix_prev'
  PROVE  Undecided' /\ tapping_key'.key = tapping_key.key
<1>0. Arrival(K, src, r)
  BY ArrivesFacts
<1>1. /\ waiting_buffer \in Seq(Record) /\ dev \in Synced
      /\ src \in {"matrix", "buffer"} /\ tapping_key \in Record /\ tapping_key.key = K
      /\ tapping_key # NONE /\ tapping_key.pressed /\ tapping_key.count = 0
      /\ NONE \notin Record
  BY <1>0, IInvIsTappingOK, TappingAssumption
  DEF OneKeyInv, TappingOK, BufferOK, Arrival, OneKeyShape, Undecided
<1>2. ~(src = "matrix" /\ r.key = K /\ ~r.pressed)
  BY <1>1, ArrivesKeys
<1>3. ASSUME NEW i \in BOOLEAN, tapping_key' = [tapping_key EXCEPT !.interrupted = i]
      PROVE  Undecided' /\ tapping_key'.key = tapping_key.key
  <2>1. /\ tapping_key' \in Record /\ tapping_key'.key = tapping_key.key
        /\ tapping_key'.pressed = tapping_key.pressed
        /\ tapping_key'.count = tapping_key.count
    BY <1>1, <1>3 DEF Record
  <2> QED
    BY <1>1, <2>1 DEF Undecided
<1>4. CASE PassOn(K, src, r)
  BY <1>1, <1>3, <1>4 DEF PassOn
<1>5. CASE Wait(K, src, r)
  <2>1. PICK i \in BOOLEAN : Defer(src, r, dev, [tapping_key EXCEPT !.interrupted = i])
    BY <1>5 DEF Wait
  <2>2. tapping_key' = [tapping_key EXCEPT !.interrupted = i]
    BY <2>1, RoomIsKept
  <2> QED
    BY <1>3, <2>2
<1>6. CASE Hold(K, src, r)
  <2>1. ~interferes_by_typing(K)
    BY <1>1, KeycodeLayerType DEF NoPermissiveHoldOf, interferes_by_typing, get_tapping_term
  <2>2. r.age \in Nat /\ r.age <= tapping_key.age
    <3>1. tapping_key.age \in Nat
      BY <1>1, ActionAssumption DEF Record, Age
    <3>2. CASE src = "matrix"
      BY <1>0, <3>1, <3>2 DEF Arrival
    <3>3. CASE src = "buffer"
      <4>1. waiting_buffer # <<>> /\ r = Head(waiting_buffer) /\ r \in Record
        BY <1>0, <1>1, <3>3, HeadTailProperties DEF Arrival
      <4>2. r.age \in Nat
        BY <4>1, ActionAssumption DEF Record, Age
      <4>3. r.age <= tapping_key.age
        BY <1>1, <4>1, AgesOfBuffer DEF TermIsRunning
      <4> QED
        BY <4>2, <4>3
    <3> QED
      BY <1>1, <3>2, <3>3
  <2>3. WithinTappingTerm(r)
    BY <1>1, <2>2, YoungerIsWithin
  <2> QED
    BY <1>6, <2>1, <2>3 DEF Hold
<1>7. CASE Tap(K, src, r)
  BY <1>2, <1>7 DEF Tap
<1>8. ~Released
  BY <1>1 DEF Released
<1>9. ~Tapped
  BY <1>1 DEF Tapped
<1> QED
  BY <1>1, <1>4, <1>5, <1>6, <1>7, <1>8, <1>9 DEF Move, Expire, Start, Retap, Untap

(* On a keyboard with one dual-role key that no typing decides             *)
(* (process_tapping without permissive hold), whose tapping term the 16-bit*)
(* timer can tell and behind which the waiting buffer has room, the key    *)
(* stays pending for its whole term while it is down.  It is neither taken *)
(* for a hold too early nor dropped, whatever is typed meanwhile and       *)
(* however often the events held back are gone through again.              *)
THEOREM PendingForTheTerm ==
  ASSUME NEW K \in Key, OneDualRoleKey(K), NoPermissiveHoldOf(K), TermFitsTimer(K),
         BufferHasRoom
  PROVE  Spec => UndecidedForTheTerm
<1> DEFINE J == OneKeyInv(K) /\ TermIsRunning(K)
           Stays == Undecided /\ WithinItsTerm /\ tapping_key.key \in matrix_prev'
                    => Undecided' /\ tapping_key'.key = tapping_key.key
<1>1. Init => J
  BY InitOneKey DEF Init, TermIsRunning, Undecided
<1>2. J /\ [Next]_vars => J'
  <2> SUFFICES ASSUME J, [Next]_vars PROVE TermIsRunning(K)'
    BY NextOneKey
  <2>1. CASE Next /\ ~Clock
    BY <2>1, StepMoves, MoveKeepsTerm
  <2>2. CASE Clock
    BY <2>2, ClockKeepsTerm
  <2>3. CASE UNCHANGED vars
    BY <2>3 DEF vars, TermIsRunning, Undecided, AgedWithin
  <2> QED
    BY <2>1, <2>2, <2>3
<1>3. J /\ Next => Stays
  <2> SUFFICES ASSUME J, Next, Undecided, WithinItsTerm, tapping_key.key \in matrix_prev'
               PROVE  Undecided' /\ tapping_key'.key = tapping_key.key
    OBVIOUS
  <2>1. CASE ~Clock
    BY <2>1, StepMoves, MoveKeepsPending
  <2>2. CASE Clock
    <3>1. tapping_key \in Record /\ tapping_key # NONE /\ tapping_key' = older(tapping_key)
      BY <2>2 DEF OneKeyInv, IInv, TypeOK, Clock, Undecided
    <3>2. /\ tapping_key'.pressed = tapping_key.pressed
          /\ tapping_key'.count = tapping_key.count
          /\ tapping_key'.key = tapping_key.key
      BY <3>1 DEF older, Record
    <3>3. tapping_key' \in Record
      BY <3>1, OlderType
    <3> QED
      BY <3>1, <3>2, <3>3, TappingAssumption DEF Undecided
  <2> QED
    BY <2>1, <2>2
<1>4. J /\ [Next]_vars => [Stays]_vars
  BY <1>3
<1> QED
  BY <1>1, <1>2, <1>4, PTL DEF Spec, UndecidedForTheTerm

-----------------------------------------------------------------------------
(* The presses in a buffer                                                 *)

NoKeys == <<>>

WithPress(b, i, s) == IF b[i].pressed THEN Append(s, b[i].key) ELSE s

(* The function behind `presses`: upto[i] are the presses among the first  *)
(* i records.                                                              *)
IsUpto(b, n, upto) ==
  upto = [i \in 0 .. n |-> IF i = 0 THEN NoKeys ELSE WithPress(b, i, upto[i - 1])]

(* It is the function with these values.                                   *)
LEMMA UptoSteps ==
  ASSUME NEW b, NEW n \in Nat, NEW f, IsUpto(b, n, f)
  PROVE  f[0] = NoKeys /\ \A i \in 1 .. n : f[i] = WithPress(b, i, f[i - 1])
<1> DEFINE value(i) == IF i = 0 THEN NoKeys ELSE WithPress(b, i, f[i - 1])
<1>1. f = [i \in 0 .. n |-> value(i)]
  BY Zenon DEF IsUpto
<1> HIDE DEF value
<1>2. \A i \in 0 .. n : f[i] = value(i)
  BY <1>1, Zenon
<1>3. 0 \in 0 .. n /\ \A i \in 1 .. n : i \in 0 .. n /\ i # 0
  OBVIOUS
<1>4. value(0) = NoKeys /\ \A i : i # 0 => value(i) = WithPress(b, i, f[i - 1])
  BY Zenon DEF value
<1> QED
  BY <1>2, <1>3, <1>4, Zenon

LEMMA UptoIs ==
  ASSUME NEW b, NEW n \in Nat, NEW f, f = [i \in 0 .. n |-> f[i]],
         f[0] = NoKeys, \A i \in 1 .. n : f[i] = WithPress(b, i, f[i - 1])
  PROVE  IsUpto(b, n, f)
<1> DEFINE value(i) == IF i = 0 THEN NoKeys ELSE WithPress(b, i, f[i - 1])
<1>1. ASSUME NEW i \in 0 .. n PROVE f[i] = value(i)
  <2>1. i = 0 \/ i \in 1 .. n
    OBVIOUS
  <2> QED
    BY <2>1
<1> HIDE DEF value
<1>2. [i \in 0 .. n |-> f[i]] = [i \in 0 .. n |-> value(i)]
  BY <1>1, Zenon
<1>3. f = [i \in 0 .. n |-> value(i)]
  BY <1>2, Zenon
<1> QED
  BY <1>3, Zenon DEF IsUpto, value

(* One for n records makes one for n + 1.                                  *)
LEMMA UptoExtends ==
  ASSUME NEW b, NEW n \in Nat, NEW f,
         f[0] = NoKeys, \A i \in 1 .. n : f[i] = WithPress(b, i, f[i - 1])
  PROVE  \E g : IsUpto(b, n + 1, g) /\ g[n + 1] = WithPress(b, n + 1, f[n])
<1> DEFINE last == WithPress(b, n + 1, f[n])
<1> HIDE DEF last
<1> DEFINE g == [i \in 0 .. n + 1 |-> IF i = n + 1 THEN last ELSE f[i]]
<1>1. /\ g = [i \in 0 .. n + 1 |-> g[i]]
      /\ \A i \in 0 .. n : g[i] = f[i]
      /\ g[n + 1] = last
  OBVIOUS
<1> HIDE DEF g
<1>2. g[0] = NoKeys
  <2>1. 0 \in 0 .. n
    OBVIOUS
  <2> QED
    BY <1>1, <2>1, Zenon
<1>3. ASSUME NEW i \in 1 .. n + 1 PROVE g[i] = WithPress(b, i, g[i - 1])
  <2>1. i - 1 \in 0 .. n /\ (i \in 1 .. n \/ i = n + 1) /\ (n + 1) - 1 = n
        /\ \A j \in 1 .. n : j \in 0 .. n
    OBVIOUS
  <2>2. g[i - 1] = f[i - 1]
    BY <1>1, <2>1
  <2>3. CASE i = n + 1
    BY <1>1, <2>1, <2>2, <2>3, Zenon DEF last
  <2>4. CASE i \in 1 .. n
    <3>1. g[i] = f[i]
      BY <1>1, <2>1, <2>4, Zenon
    <3>2. f[i] = WithPress(b, i, f[i - 1])
      BY <2>4, Zenon
    <3> QED
      BY <2>2, <3>1, <3>2, Zenon
  <2> QED
    BY <2>1, <2>3, <2>4
<1>4. IsUpto(b, n + 1, g)
  BY <1>1, <1>2, <1>3, UptoIs
<1> QED
  BY <1>1, <1>4 DEF last

(* There is one for every number: if not, take the least it fails at.      *)
LEMMA UptoExists ==
  ASSUME NEW b, NEW n \in Nat
  PROVE  \E upto : IsUpto(b, n, upto)
<1> DEFINE Fails == {k \in Nat : ~ \E upto : IsUpto(b, k, upto)}
<1> SUFFICES ASSUME Fails # {} PROVE FALSE
  OBVIOUS
<1>1. PICK k \in Fails : \A y \in Fails : k <= y
  <2> Fails \in SUBSET Nat
    OBVIOUS
  <2> HIDE DEF Fails
  <2> QED
    BY NatHasMinimum
<1>2. k \in Nat /\ ~ \E upto : IsUpto(b, k, upto)
  OBVIOUS
<1>3. CASE k = 0
  <2> DEFINE f == [i \in 0 .. 0 |-> NoKeys]
  <2>1. f = [i \in 0 .. 0 |-> f[i]] /\ f[0] = NoKeys /\ 1 .. 0 = {}
    OBVIOUS
  <2> HIDE DEF f
  <2>2. IsUpto(b, 0, f)
    BY <2>1, UptoIs
  <2> QED
    BY <1>2, <1>3, <2>2
<1>4. CASE k # 0
  <2>1. k - 1 \in Nat /\ ~ (k <= k - 1) /\ (k - 1) + 1 = k
    BY <1>2, <1>4
  <2>2. PICK f : IsUpto(b, k - 1, f)
    BY <1>1, <2>1
  <2> HIDE DEF Fails
  <2>3. f[0] = NoKeys /\ \A i \in 1 .. k - 1 : f[i] = WithPress(b, i, f[i - 1])
    BY <2>1, <2>2, UptoSteps
  <2>4. \E g : IsUpto(b, (k - 1) + 1, g)
    BY <2>1, <2>3, UptoExtends
  <2> QED
    BY <1>2, <2>1, <2>4
<1> QED
  BY <1>3, <1>4

(* It is a sequence of keys at every length.                               *)
LEMMA UptoType ==
  ASSUME NEW b \in Seq(Record), NEW f, IsUpto(b, Len(b), f), NEW j \in 0 .. Len(b)
  PROVE  f[j] \in Seq(Key)
<1> DEFINE Fails == {i \in 0 .. Len(b) : f[i] \notin Seq(Key)}
<1>0. Len(b) \in Nat
  BY LenProperties
<1> SUFFICES ASSUME Fails # {} PROVE FALSE
  OBVIOUS
<1>1. PICK k \in Fails : \A y \in Fails : k <= y
  <2> Fails \in SUBSET Nat
    BY <1>0
  <2> HIDE DEF Fails
  <2> QED
    BY NatHasMinimum
<1>2. k \in 0 .. Len(b) /\ f[k] \notin Seq(Key)
  OBVIOUS
<1>3. k # 0
  <2>1. f[0] = NoKeys
    BY <1>0, UptoSteps
  <2>2. NoKeys \in Seq(Key)
    BY EmptySeq DEF NoKeys
  <2> QED
    BY <1>2, <2>1, <2>2
<1>4. k - 1 \in 0 .. Len(b) /\ ~ (k <= k - 1) /\ k \in 1 .. Len(b)
  BY <1>0, <1>2, <1>3
<1>5. f[k - 1] \in Seq(Key)
  BY <1>1, <1>4
<1> HIDE DEF Fails
<1>6. b[k] \in Record
  BY <1>4, ElementOfSeq
<1>7. Append(f[k - 1], b[k].key) \in Seq(Key)
  BY <1>5, <1>6, AppendProperties DEF Record
<1>8. f[k] = WithPress(b, k, f[k - 1])
  BY <1>0, <1>4, UptoSteps
<1> QED
  BY <1>2, <1>5, <1>7, <1>8 DEF WithPress

(* There is only one.                                                      *)
LEMMA UptoUnique ==
  ASSUME NEW b, NEW n \in Nat, NEW f, NEW g, IsUpto(b, n, f), IsUpto(b, n, g)
  PROVE  f[n] = g[n]
<1> DEFINE Fails == {i \in 0 .. n : f[i] # g[i]}
<1> SUFFICES ASSUME Fails # {} PROVE FALSE
  OBVIOUS
<1>1. PICK k \in Fails : \A y \in Fails : k <= y
  <2> Fails \in SUBSET Nat
    OBVIOUS
  <2> HIDE DEF Fails
  <2> QED
    BY NatHasMinimum
<1>2. k \in 0 .. n /\ f[k] # g[k]
  OBVIOUS
<1>3. k # 0
  BY <1>2, UptoSteps
<1>4. k - 1 \in 0 .. n /\ ~ (k <= k - 1) /\ k \in 1 .. n
  BY <1>2, <1>3
<1>5. f[k - 1] = g[k - 1]
  BY <1>1, <1>4
<1> HIDE DEF Fails
<1>6. f[k] = WithPress(b, k, f[k - 1]) /\ g[k] = WithPress(b, k, g[k - 1])
  BY <1>4, UptoSteps
<1> QED
  BY <1>2, <1>5, <1>6, Zenon

(* So `presses` is the value of any of them.                               *)
LEMMA PressesAre ==
  ASSUME NEW b \in Seq(Record)
  PROVE  /\ \E f : IsUpto(b, Len(b), f)
         /\ \A f : IsUpto(b, Len(b), f) => presses(b) = f[Len(b)]
         /\ presses(b) \in Seq(Key)
<1>0. Len(b) \in Nat
  BY LenProperties
<1>1. \E f : IsUpto(b, Len(b), f)
  BY <1>0, UptoExists
<1> DEFINE h == CHOOSE f : IsUpto(b, Len(b), f)
<1>2. IsUpto(b, Len(b), h)
  BY <1>1, Zenon
<1>3. presses(b) = h[Len(b)]
  BY Zenon DEF presses, IsUpto, NoKeys, WithPress
<1> HIDE DEF h
<1>5. ASSUME NEW f, IsUpto(b, Len(b), f) PROVE presses(b) = f[Len(b)]
  BY <1>0, <1>2, <1>3, <1>5, UptoUnique
<1>6. presses(b) \in Seq(Key)
  BY <1>0, <1>2, <1>3, UptoType
<1> QED
  BY <1>1, <1>5, <1>6

(* The empty buffer has none; a record appended adds its own.              *)
LEMMA PressesOfNone == presses(<<>>) = <<>>
<1>1. <<>> \in Seq(Record) /\ Len(<<>>) = 0
  BY EmptySeq
<1>2. PICK f : IsUpto(<<>>, Len(<<>>), f)
  BY <1>1, PressesAre
<1>3. f[0] = NoKeys
  BY <1>1, <1>2, UptoSteps
<1> QED
  BY <1>1, <1>2, <1>3, PressesAre DEF NoKeys

LEMMA PressesOfAppend ==
  ASSUME NEW b \in Seq(Record), NEW r \in Record
  PROVE  presses(Append(b, r)) =
           IF r.pressed THEN Append(presses(b), r.key) ELSE presses(b)
<1> DEFINE c == Append(b, r)
           n == Len(b)
<1>1. /\ c \in Seq(Record) /\ n \in Nat /\ Len(c) = n + 1 /\ c[n + 1] = r
      /\ \A i \in 1 .. n : c[i] = b[i]
  BY AppendProperties, LenProperties
<1>2. PICK f : IsUpto(b, n, f)
  BY PressesAre
<1>3. presses(b) = f[n]
  BY <1>2, PressesAre
<1> HIDE DEF c, n
<1>4. f[0] = NoKeys /\ \A i \in 1 .. n : f[i] = WithPress(c, i, f[i - 1])
  <2>1. f[0] = NoKeys /\ \A i \in 1 .. n : f[i] = WithPress(b, i, f[i - 1])
    BY <1>1, <1>2, UptoSteps
  <2>2. ASSUME NEW i \in 1 .. n PROVE WithPress(b, i, f[i - 1]) = WithPress(c, i, f[i - 1])
    BY <1>1, Zenon DEF WithPress
  <2> QED
    BY <2>1, <2>2, Zenon
<1>5. PICK g : IsUpto(c, n + 1, g) /\ g[n + 1] = WithPress(c, n + 1, f[n])
  BY <1>1, <1>4, UptoExtends
<1>6. presses(c) = g[n + 1]
  BY <1>1, <1>5, PressesAre
<1>7. g[n + 1] = IF r.pressed THEN Append(presses(b), r.key) ELSE presses(b)
  BY <1>1, <1>3, <1>5 DEF WithPress
<1> QED
  BY <1>6, <1>7 DEF c

(* The presses of a record and of those behind it.                         *)
LEMMA PressesOfTail ==
  ASSUME NEW b \in Seq(Record), b # <<>>
  PROVE  presses(b) = (IF Head(b).pressed THEN <<Head(b).key>> ELSE <<>>) \o presses(Tail(b))
<1> DEFINE c == Tail(b)
           n == Len(c)
           first == IF Head(b).pressed THEN <<Head(b).key>> ELSE <<>>
<1>1. /\ c \in Seq(Record) /\ n \in Nat /\ Len(b) = n + 1 /\ Head(b) = b[1]
      /\ \A i \in 1 .. n : c[i] = b[i + 1]
  BY EmptySeq, HeadTailProperties, LenProperties
<1>2. PICK f : IsUpto(c, n, f)
  BY <1>1, PressesAre
<1>3. presses(c) = f[n] /\ \A i \in 0 .. n : f[i] \in Seq(Key)
  BY <1>1, <1>2, PressesAre, UptoType
<1>4. first \in Seq(Key) /\ \A i \in 1 .. n + 1 : b[i].key \in Key
  <2>1. \A i \in 1 .. n + 1 : b[i] \in Record
    BY <1>1, ElementOfSeq
  <2>2. \A i \in 1 .. n + 1 : b[i].key \in Key
    BY <2>1 DEF Record
  <2>3. b[1].key \in Key
    BY <1>1, <2>2
  <2>4. <<b[1].key>> \in Seq(Key) /\ <<>> \in Seq(Key)
    BY <2>3, EmptySeq
  <2> QED
    BY <1>1, <2>2, <2>4
<1>5. first = IF b[1].pressed THEN <<b[1].key>> ELSE <<>>
  BY <1>1
<1> HIDE DEF c, n, first
<1>6. f[0] = NoKeys /\ \A i \in 1 .. n : f[i] = WithPress(c, i, f[i - 1])
  <2>1. n \in Nat
    BY <1>1, Zenon
  <2> QED
    BY <1>2, <2>1, UptoSteps, Zenon
<1>7. WithPress(b, 1, NoKeys) = first \o f[0]
  <2>1. first \o NoKeys = first
    BY <1>4, ConcatEmptySeq DEF NoKeys
  <2>2. Append(<<>>, b[1].key) = <<b[1].key>>
    OBVIOUS
  <2> QED
    BY <1>5, <1>6, <2>1, <2>2, Zenon DEF NoKeys, WithPress
<1>8. ASSUME NEW i \in 1 .. n PROVE first \o f[i] = WithPress(b, i + 1, first \o f[i - 1])
  <2> DEFINE s == f[i - 1]
             k == b[i + 1].key
  <2>1. i - 1 \in 0 .. n /\ i + 1 \in 1 .. n + 1 /\ c[i] = b[i + 1]
    BY <1>1
  <2>2. s \in Seq(Key) /\ k \in Key
    BY <1>3, <1>4, <2>1, Zenon
  <2>3. f[i] = IF b[i + 1].pressed THEN Append(s, k) ELSE s
    BY <1>6, <2>1, Zenon DEF WithPress
  <2> HIDE DEF s, k
  <2>4. first \o s \in Seq(Key) /\ <<k>> \in Seq(Key)
    BY <1>4, <2>2, ConcatProperties
  <2>5. Append(first \o s, k) = (first \o s) \o <<k>> /\ Append(s, k) = s \o <<k>>
    BY <2>2, <2>4, AppendIsConcat
  <2> DEFINE last == <<k>>
  <2>6. last \in Seq(Key)
    BY <2>4
  <2> HIDE DEF last
  <2>7. (first \o s) \o last = first \o (s \o last)
    BY <1>4, <2>2, <2>6, ConcatAssociative
  <2> QED
    BY <2>3, <2>5, <2>7, Zenon DEF WithPress, s, k, last
<1> DEFINE g == [i \in 0 .. n + 1 |-> IF i = 0 THEN NoKeys ELSE first \o f[i - 1]]
<1>9. /\ g = [i \in 0 .. n + 1 |-> g[i]]
      /\ g[0] = NoKeys
      /\ \A i \in 1 .. n + 1 : g[i] = first \o f[i - 1]
  <2> DEFINE after(i) == first \o f[i - 1]
  <2> HIDE DEF after
  <2> DEFINE h == [i \in 0 .. n + 1 |-> IF i = 0 THEN NoKeys ELSE after(i)]
  <2>1. /\ h = [i \in 0 .. n + 1 |-> h[i]] /\ h[0] = NoKeys
        /\ \A i \in 1 .. n + 1 : h[i] = after(i)
    BY <1>1
  <2> QED
    BY <2>1, Zenon DEF after
<1> HIDE DEF g
<1>10. ASSUME NEW i \in 1 .. n + 1 PROVE g[i] = WithPress(b, i, g[i - 1])
  <2>1. CASE i = 1
    <3>1. i - 1 = 0
      BY <2>1
    <3> QED
      BY <1>7, <1>9, <2>1, <3>1, Zenon
  <2>2. CASE i # 1
    <3> DEFINE j == i - 1
    <3>1. j \in 1 .. n /\ j \in 1 .. n + 1 /\ j + 1 = i
      BY <1>1, <2>2
    <3>2. g[i] = first \o f[j] /\ g[j] = first \o f[j - 1]
      BY <1>9, <3>1, Zenon
    <3>3. first \o f[j] = WithPress(b, j + 1, first \o f[j - 1])
      BY <1>8, <3>1, Zenon
    <3> QED
      BY <3>1, <3>2, <3>3, Zenon
  <2> QED
    BY <2>1, <2>2
<1>11. g[n + 1] = first \o f[n]
  <2>1. n + 1 \in 1 .. n + 1 /\ (n + 1) - 1 = n
    BY <1>1
  <2> QED
    BY <1>9, <2>1, Zenon
<1>12. n + 1 \in Nat
  BY <1>1
<1>13. IsUpto(b, n + 1, g)
  BY <1>9, <1>10, <1>12, UptoIs
<1>14. presses(b) = g[n + 1]
  BY <1>1, <1>13, PressesAre
<1> QED
  BY <1>3, <1>11, <1>14 DEF first, c

(* Only the keys and directions of the records count.                      *)
SameTyping(b, c) ==
  /\ Len(b) = Len(c)
  /\ \A i \in 1 .. Len(b) : b[i].key = c[i].key /\ b[i].pressed = c[i].pressed

LEMMA PressesOfSame ==
  ASSUME NEW b \in Seq(Record), NEW c \in Seq(Record), SameTyping(b, c)
  PROVE  presses(b) = presses(c)
<1>1. PICK f : IsUpto(b, Len(b), f)
  BY PressesAre
<1>2. Len(b) \in Nat /\ Len(c) = Len(b)
  BY LenProperties DEF SameTyping
<1>3. f = [i \in 0 .. Len(b) |->
            IF i = 0 THEN NoKeys ELSE WithPress(b, i, f[i - 1])]
  BY <1>1 DEF IsUpto
<1>4. \A i \in 0 .. Len(b) : i # 0 => WithPress(b, i, f[i - 1]) = WithPress(c, i, f[i - 1])
  BY <1>2 DEF SameTyping, WithPress
<1>5. f = [i \in 0 .. Len(b) |->
            IF i = 0 THEN NoKeys ELSE WithPress(c, i, f[i - 1])]
  BY <1>3, <1>4
<1>6. IsUpto(c, Len(c), f)
  BY <1>2, <1>5 DEF IsUpto
<1> QED
  BY <1>1, <1>2, <1>6, PressesAre

-----------------------------------------------------------------------------
(* Presses are decided in order                                            *)

(* The press a tapping key t leaves open.                                  *)
Open(t) == IF t # NONE /\ t.pressed /\ t.count = 0 THEN <<t.key>> ELSE <<>>

(* What arrives, for any keymap.                                           *)
Came(src, r) ==
  /\ src \in {"matrix", "buffer"} /\ Input(src, r)
  /\ r.key = NO_KEY => src = "matrix" /\ ~r.pressed
  /\ r.key # NO_KEY => r \in Record
  /\ src = "buffer" => waiting_buffer # <<>> /\ r = Head(waiting_buffer)
  /\ src = "matrix" /\ r.key # NO_KEY /\ FAST_SCAN => Undecided \/ waiting_buffer = <<>>

(* Every branch either defers the event and keeps or decides the pending   *)
(* key, or takes the event in; then a press finds no undecided key and may *)
(* become the pending one.                                                 *)
DefersInOrder(src, r) ==
  \E q, d, t :
    /\ Defer(src, q, d, t)
    /\ q.key = r.key /\ q.pressed = r.pressed /\ (r.key # NO_KEY => q \in Record)
    /\ Open(t) \in {Open(tapping_key), <<>>}

ConsumesInOrder(src, r) ==
  \E b \in Seq(Record) :
    /\ SameTyping(b, waiting_buffer) /\ Consume(src, b)
    /\ r.pressed => Open(tapping_key) = <<>> /\ Open(tapping_key') \in {<<>>, <<r.key>>}
    /\ ~r.pressed => Open(tapping_key') = Open(tapping_key)

(* Two forms of an event that is taken in.                                 *)
LEMMA ConsumedPlain ==
  ASSUME TappingOK, NEW src, NEW r, Consume(src, waiting_buffer),
         r.pressed => Open(tapping_key) = <<>> /\ Open(tapping_key') \in {<<>>, <<r.key>>},
         ~r.pressed => Open(tapping_key') = Open(tapping_key)
  PROVE  ConsumesInOrder(src, r)
<1>1. SameTyping(waiting_buffer, waiting_buffer) /\ waiting_buffer \in Seq(Record)
  BY DEF SameTyping, TappingOK, BufferOK
<1> QED
  BY <1>1 DEF ConsumesInOrder

LEMMA StartConsumes ==
  ASSUME TappingOK, NEW src, NEW r \in Record, r.pressed, NEW d \in Synced,
         StartTapping(src, r, d), Open(tapping_key) = <<>>
  PROVE  ConsumesInOrder(src, r)
<1> DEFINE own_release(i) == /\ waiting_buffer[i].key = r.key
                             /\ ~waiting_buffer[i].pressed
                             /\ within_tapping_term_of(d, waiting_buffer[i], r)
           found == {i \in DOMAIN waiting_buffer : own_release(i)}
           first == CHOOSE i \in found : \A j \in found : i <= j
           tap   == process_record(d, [r EXCEPT !.count = 1])
           marked == [waiting_buffer EXCEPT ![first].count = 1]
<1>1. waiting_buffer \in Seq(Record)
  BY DEF TappingOK, BufferOK
<1>2. CASE found = {} \/ r.count > 0
  <2>1. tapping_key' = r /\ Consume(src, waiting_buffer)
    BY <1>2 DEF StartTapping
  <2>2. Open(tapping_key') \in {<<>>, <<r.key>>}
    BY <2>1 DEF Open
  <2> QED
    BY <2>1, <2>2, ConsumedPlain
<1>3. CASE ~(found = {} \/ r.count > 0)
  <2>1. tapping_key' = tap.rec /\ Consume(src, marked)
    BY <1>3 DEF StartTapping
  <2>2. tap.rec \in Record /\ tap.rec.key = r.key
    <3>1. [r EXCEPT !.count = 1] \in Record /\ [r EXCEPT !.count = 1].key = r.key
      BY DEF Record
    <3> QED
      BY <3>1, ProcessRecord
  <2>3. first \in 1 .. Len(waiting_buffer)
    <3>1. found \in SUBSET Nat /\ found # {} /\ DOMAIN waiting_buffer = 1 .. Len(waiting_buffer)
      BY <1>1, <1>3, LenProperties
    <3>2. \E i \in found : \A j \in found : i <= j
      <4> HIDE DEF found
      <4> QED
        BY <3>1, NatHasMinimum
    <3>3. first \in found
      <4> HIDE DEF found
      <4> QED
        BY <3>2
    <3> QED
      BY <3>1, <3>3
  <2> HIDE DEF first, found
  <2>4. marked \in Seq(Record) /\ SameTyping(marked, waiting_buffer)
    <3> DEFINE m == [waiting_buffer[first] EXCEPT !.count = 1]
    <3>1. waiting_buffer[first] \in Record
      BY <1>1, <2>3, ElementOfSeq
    <3>2. m \in Record /\ m.key = waiting_buffer[first].key
          /\ m.pressed = waiting_buffer[first].pressed
      BY <3>1 DEF Record
    <3>3. marked = [waiting_buffer EXCEPT ![first] = m]
      BY <1>1, <2>3, LenProperties
    <3> HIDE DEF m, marked
    <3>4. /\ marked \in Seq(Record) /\ Len(marked) = Len(waiting_buffer)
          /\ marked[first] = m
          /\ \A i \in 1 .. Len(waiting_buffer) : i # first => marked[i] = waiting_buffer[i]
      BY <1>1, <2>3, <3>2, <3>3, ExceptSeq
    <3> QED
      BY <3>2, <3>4 DEF SameTyping
  <2> HIDE DEF marked, tap
  <2>5. Open(tapping_key') \in {<<>>, <<r.key>>}
    BY <2>1, <2>2 DEF Open
  <2> QED
    BY <2>1, <2>4, <2>5 DEF ConsumesInOrder
<1> QED
  BY <1>2, <1>3

(* The record process_record gives back is no press unless it was one.     *)
LEMMA ReleaseComesBack ==
  ASSUME NEW d \in Synced, NEW r \in Record, ~r.pressed
  PROVE  ~process_record(d, r).rec.pressed
<1>1. PICK u \in Synced, w \in Synced, o \in Synced, s \in Synced, a \in KeyAction,
           rec \in Record, uses \in BOOLEAN, do_release \in BOOLEAN :
             RecordParts(d, r, u, w, o, s, a, rec, uses, do_release)
  BY ProcessRecordParts
<1>2. process_record(d, r) = after_switch(s, rec, do_release) /\ ~rec.pressed
  BY <1>1 DEF RecordParts
<1>3. ~[rec EXCEPT !.pressed = FALSE].pressed
  BY DEF Record
<1> QED
  BY <1>2, <1>3 DEF after_switch, release_oneshot

(* Every branch of process_tapping has one of the two forms.               *)
LEMMA BranchInOrder ==
  ASSUME TappingOK, NEW src, NEW r, Came(src, r), process_tapping(src, r)
  PROVE  DefersInOrder(src, r) \/ ConsumesInOrder(src, r)
<1>1. /\ dev \in Synced /\ tapping_key \in Record \cup {NONE}
      /\ NONE \notin Record /\ NO_KEY \notin Key
      /\ tapping_key # NONE => tapping_key \in Record
      /\ r.key # NO_KEY => r \in Record
      /\ r.pressed => r \in Record
  BY TappingAssumption DEF TappingOK, Came
<1>2. Undecided => Open(tapping_key) = <<tapping_key.key>>
  BY DEF Undecided, Open
<1>3. ~Undecided => Open(tapping_key) = <<>>
  BY DEF Undecided, Open
<1>4. Tapped \/ Released => Open(tapping_key) = <<>>
  BY <1>1 DEF Tapped, Released, Open, Record
<1>5. tapping_key = NONE => Open(tapping_key) = <<>> /\ Open(NONE) = <<>>
  BY DEF Open
<1>6. Open(NONE) = <<>>
  BY DEF Open
<1>7. ASSUME NEW d, NEW t, Defer(src, r, d, t), Open(t) \in {Open(tapping_key), <<>>}
      PROVE  DefersInOrder(src, r)
  BY <1>1, <1>7 DEF DefersInOrder
<1>8. CASE FirstTap(src, r)
  <2> DEFINE one == [tapping_key EXCEPT !.count = 1]
             tap == process_record(dev, one)
             q   == [r EXCEPT !.count = tap.rec.count, !.interrupted = tap.rec.interrupted]
  <2>1. /\ Undecided /\ tapping_key \in Record /\ r.key = tapping_key.key
        /\ Defer(src, q, tap.dev, tap.rec)
    BY <1>1, <1>8 DEF FirstTap, Undecided, IsTappingKey
  <2>2. one \in Record /\ one.key = tapping_key.key
    BY <2>1 DEF Record
  <2> HIDE DEF one
  <2>3. tap.rec \in Record /\ tap.rec.key = tapping_key.key
    BY <1>1, <2>2, ProcessRecord
  <2>4. r \in Record
    BY <1>1, <2>1 DEF Record
  <2> HIDE DEF tap
  <2>5. q \in Record /\ q.key = r.key /\ q.pressed = r.pressed
    BY <2>3, <2>4 DEF Record
  <2>6. Open(tap.rec) \in {Open(tapping_key), <<>>}
    BY <1>2, <2>1, <2>3 DEF Open
  <2> QED
    BY <2>1, <2>5, <2>6 DEF DefersInOrder
<1>9. CASE InterferedByTyping(src, r) \/ HoldTimeout(src, r) \/ TapExpired(src, r)
  BY <1>6, <1>7, <1>9 DEF InterferedByTyping, HoldTimeout, TapExpired
<1>10. CASE RetainModifier(src, r)
  BY <1>7, <1>10 DEF RetainModifier
<1>11. CASE QueueBehindTap(src, r)
  <2> DEFINE t == [tapping_key EXCEPT !.interrupted = @ \/ r.pressed]
  <2>1. Undecided /\ tapping_key \in Record /\ Defer(src, r, dev, t)
    BY <1>1, <1>11 DEF QueueBehindTap, Undecided
  <2>2. t.key = tapping_key.key
    BY <2>1 DEF Record
  <2> HIDE DEF t
  <2>3. Open(t) \in {Open(tapping_key), <<>>}
    BY <1>2, <2>1, <2>2 DEF Open
  <2> QED
    BY <1>7, <2>1, <2>3
<1>12. CASE ReleaseOfEarlierKey(src, r) \/ ReleaseAfterTap(src, r)
  BY <1>12, ConsumedPlain
  DEF ReleaseOfEarlierKey, ReleaseAfterTap, ProcessAndConsume, IsReleased
<1>13. CASE TapRelease(src, r)
  <2> DEFINE q == with_taps_of_tapping_key(r)
             done == process_record(dev, q)
  <2>1. /\ Tapped /\ tapping_key \in Record /\ ~r.pressed /\ r.key = tapping_key.key
        /\ tapping_key' \in {done.rec, NONE} /\ Consume(src, waiting_buffer)
    BY <1>1, <1>13 DEF TapRelease, ProcessTap, Tapped, IsTappingKey
  <2>2. r \in Record
    BY <1>1, <2>1 DEF Record
  <2>3. q \in Record /\ ~q.pressed
    BY <2>1, <2>2 DEF with_taps_of_tapping_key, Record
  <2> HIDE DEF q
  <2>4. ~done.rec.pressed
    BY <1>1, <2>3, ReleaseComesBack
  <2> HIDE DEF done
  <2>5. Open(tapping_key') = <<>>
    BY <2>1, <2>4 DEF Open
  <2> QED
    BY <1>4, <2>1, <2>5, ConsumedPlain
<1>14. CASE NewTapWhileTapped(src, r)
  <2> DEFINE up == [tapping_key EXCEPT !.pressed = FALSE, !.age = r.age]
             d == IF tapping_key.count > 1 THEN process_record(dev, up).dev ELSE dev
  <2>1. /\ Tapped /\ tapping_key \in Record /\ r \in Record /\ r.pressed
        /\ StartTapping(src, r, d)
    BY <1>1, <1>14 DEF NewTapWhileTapped, Tapped, IsPressed
  <2>2. up \in Record
    BY <2>1 DEF Record
  <2>3. d \in Synced
    BY <1>1, <2>2, ProcessRecord
  <2> HIDE DEF d
  <2> QED
    BY <1>4, <2>1, <2>3, StartConsumes
<1>15. CASE KeyDuringTap(src, r)
  BY <1>4, <1>15, ConsumedPlain DEF KeyDuringTap, ProcessAndConsume
<1>16. CASE SequentialTap(src, r)
  <2> DEFINE taps == IF tapping_key.count < 15 THEN tapping_key.count + 1
                                               ELSE tapping_key.count
             tap == [r EXCEPT !.count = taps, !.interrupted = FALSE]
             done == process_record(dev, tap)
  <2>1. /\ Released /\ tapping_key \in Record /\ r \in Record /\ r.pressed
        /\ tapping_key' = done.rec /\ Consume(src, waiting_buffer)
    BY <1>1, <1>16 DEF SequentialTap, ProcessTap, Released
  <2>2. tap \in Record /\ tap.key = r.key
    <3>1. taps \in 0 .. 15
      <4> DEFINE n == tapping_key.count
      <4>1. n \in 0 .. 15
        BY <2>1 DEF Record
      <4> HIDE DEF n
      <4>2. (IF n < 15 THEN n + 1 ELSE n) \in 0 .. 15
        BY <4>1
      <4> QED
        BY <4>2 DEF n
    <3> HIDE DEF taps
    <3> QED
      BY <2>1, <3>1 DEF Record
  <2> HIDE DEF tap
  <2>3. done.rec \in Record /\ done.rec.key = r.key
    BY <1>1, <2>2, ProcessRecord
  <2> HIDE DEF done
  <2>4. Open(tapping_key') \in {<<>>, <<r.key>>}
    BY <2>1, <2>3 DEF Open
  <2> QED
    BY <1>4, <2>1, <2>4, ConsumedPlain
<1>17. CASE RestartTap(src, r)
  <2>1. Open(tapping_key') \in {<<>>, <<r.key>>}
    BY <1>17 DEF RestartTap, Open
  <2> QED
    BY <1>4, <1>17, <2>1, ConsumedPlain DEF RestartTap
<1>18. CASE InterferingTap(src, r)
  BY <1>1, <1>4, <1>18, StartConsumes DEF InterferingTap, IsPressed
<1>19. CASE OtherKeyAfterTap(src, r)
  <2>1. /\ Released /\ tapping_key \in Record
        /\ tapping_key' = [tapping_key EXCEPT !.interrupted = TRUE]
        /\ Consume(src, waiting_buffer)
    BY <1>1, <1>19 DEF OtherKeyAfterTap, ProcessAndConsume, Released
  <2>2. ~tapping_key'.pressed
    BY <2>1 DEF Released, Record
  <2>3. Open(tapping_key') = <<>>
    BY <2>2 DEF Open
  <2> QED
    BY <1>4, <2>1, <2>3, ConsumedPlain
<1>20. CASE StartTap(src, r)
  BY <1>1, <1>5, <1>20, StartConsumes DEF StartTap, IsPressed
<1>21. CASE PlainEvent(src, r)
  BY <1>5, <1>21, ConsumedPlain DEF PlainEvent, ProcessAndConsume
<1> QED
  BY <1>8, <1>9, <1>10, <1>11, <1>12, <1>13, <1>14, <1>15, <1>16, <1>17, <1>18, <1>19,
     <1>20, <1>21 DEF process_tapping

(* What is decided, oldest first, and what stays open are together what    *)
(* was open and what has arrived.                                          *)
Arrived(src, r) == IF src = "matrix" /\ r.pressed THEN <<r.key>> ELSE <<>>

StaysInOrder(src, r) ==
  \E decided \in Seq(Key) :
    (Open(tapping_key) \o presses(waiting_buffer)) \o Arrived(src, r)
      = decided \o (Open(tapping_key') \o presses(waiting_buffer'))

LEMMA OpenType ==
  ASSUME NEW t, t \in Record \cup {NONE}
  PROVE  Open(t) \in Seq(Key)
<1>1. CASE t \in Record
  <2>1. t.key \in Key
    BY <1>1 DEF Record
  <2>2. <<t.key>> \in Seq(Key) /\ <<>> \in Seq(Key)
    BY <2>1, EmptySeq
  <2> QED
    BY <2>2 DEF Open
<1>2. CASE t = NONE
  BY <1>2, EmptySeq DEF Open
<1> QED
  BY <1>1, <1>2

LEMMA DeferInOrder ==
  ASSUME TappingOK, NEW src, NEW r, Came(src, r), DefersInOrder(src, r)
  PROVE  StaysInOrder(src, r)
<1> DEFINE P == presses(waiting_buffer)
           O == Open(tapping_key)
           A == Arrived(src, r)
<1>1. /\ waiting_buffer \in Seq(Record) /\ tapping_key \in Record \cup {NONE}
      /\ src \in {"matrix", "buffer"}
      /\ r.key # NO_KEY => r \in Record
      /\ src = "buffer" => waiting_buffer # <<>> /\ r = Head(waiting_buffer) /\ r.key # NO_KEY
      /\ r.key = NO_KEY => ~r.pressed
  BY DEF TappingOK, BufferOK, Came
<1>2. PICK q, d, t :
        /\ Defer(src, q, d, t)
        /\ q.key = r.key /\ q.pressed = r.pressed /\ (r.key # NO_KEY => q \in Record)
        /\ Open(t) \in {O, <<>>}
  BY DEF DefersInOrder
<1>3. A \in Seq(Key)
  <2>1. r.pressed => r.key \in Key
    BY <1>1 DEF Record
  <2>2. r.pressed => <<r.key>> \in Seq(Key)
    BY <2>1
  <2> QED
    BY <2>2, EmptySeq DEF Arrived
<1>4. P \in Seq(Key) /\ O \in Seq(Key)
  BY <1>1, PressesAre, OpenType
<1>5. P \o A \in Seq(Key) /\ O \o P \in Seq(Key) /\ (O \o P) \o A \in Seq(Key)
  BY <1>3, <1>4, ConcatProperties
<1>6. (O \o P) \o A = O \o (P \o A)
  <2> HIDE DEF O, P, A
  <2> QED
    BY <1>3, <1>4, ConcatAssociative
<1>7. \/ tapping_key' = NONE /\ waiting_buffer' = <<>>
      \/ tapping_key' = t /\ presses(waiting_buffer') = P \o A
  <2>1. CASE src = "buffer"
    <3>1. waiting_buffer' = [waiting_buffer EXCEPT ![1] = q] /\ tapping_key' = t
      BY <1>2, <2>1 DEF Defer
    <3>2. waiting_buffer # <<>> /\ q \in Record /\ q.key = Head(waiting_buffer).key
          /\ q.pressed = Head(waiting_buffer).pressed
      BY <1>1, <1>2, <2>1
    <3> DEFINE c == [waiting_buffer EXCEPT ![1] = q]
    <3>3. c \in Seq(Record) /\ SameTyping(c, waiting_buffer)
      <4>1. 1 \in 1 .. Len(waiting_buffer) /\ Head(waiting_buffer) = waiting_buffer[1]
        BY <1>1, <3>2, EmptySeq
      <4> DEFINE b == waiting_buffer
      <4> HIDE DEF b
      <4>2. b \in Seq(Record) /\ 1 \in 1 .. Len(b)
        BY <1>1, <4>1 DEF b
      <4>3. /\ [b EXCEPT ![1] = q] \in Seq(Record)
            /\ Len([b EXCEPT ![1] = q]) = Len(b)
            /\ \A i \in 1 .. Len(b) : [b EXCEPT ![1] = q][i] = IF i = 1 THEN q ELSE b[i]
        BY <3>2, <4>2, ExceptSeq
      <4> QED
        BY <3>2, <4>1, <4>3 DEF SameTyping, b
    <3> HIDE DEF c
    <3>4. presses(c) = P
      BY <1>1, <3>3, PressesOfSame
    <3>5. A = <<>> /\ P \o <<>> = P
      BY <1>4, <2>1, ConcatEmptySeq DEF Arrived
    <3> QED
      BY <3>1, <3>4, <3>5 DEF c
  <2>2. CASE src = "matrix" /\ r.key = NO_KEY
    <3>1. waiting_buffer' = waiting_buffer /\ tapping_key' = t
      BY <1>2, <2>2 DEF Defer, Continue
    <3>2. A = <<>> /\ P \o <<>> = P
      BY <1>1, <1>4, <2>2, ConcatEmptySeq DEF Arrived
    <3> QED
      BY <3>1, <3>2
  <2>3. CASE src = "matrix" /\ r.key # NO_KEY
    <3>1. \/ tapping_key' = NONE /\ waiting_buffer' = <<>>
          \/ tapping_key' = t /\ waiting_buffer' = Append(waiting_buffer, q)
      BY <1>2, <2>3 DEF Defer, Continue
    <3>2. q \in Record /\ q.key \in Key
      BY <1>2, <2>3 DEF Record
    <3>3. presses(Append(waiting_buffer, q)) = IF q.pressed THEN Append(P, q.key) ELSE P
      BY <1>1, <3>2, PressesOfAppend
    <3>4. Append(P, q.key) = P \o <<q.key>>
      BY <1>4, <3>2, AppendIsConcat
    <3>5. P \o A = IF q.pressed THEN P \o <<q.key>> ELSE P
      BY <1>2, <1>4, <2>3, ConcatEmptySeq DEF Arrived
    <3> QED
      BY <3>1, <3>3, <3>4, <3>5
  <2> QED
    BY <1>1, <2>1, <2>2, <2>3
<1> HIDE DEF P, O, A
<1>8. CASE tapping_key' = NONE /\ waiting_buffer' = <<>>
  <2>1. Open(tapping_key') \o presses(waiting_buffer') = <<>>
    <3>1. Open(tapping_key') = <<>> /\ presses(waiting_buffer') = <<>>
      BY <1>8, PressesOfNone DEF Open
    <3> QED
      BY <3>1, ConcatEmptySeq, EmptySeq
  <2>2. ((O \o P) \o A) \o <<>> = (O \o P) \o A
    BY <1>5, ConcatEmptySeq
  <2> QED
    BY <1>5, <2>1, <2>2 DEF StaysInOrder, O, P, A
<1>9. CASE tapping_key' = t /\ presses(waiting_buffer') = P \o A
  <2>1. <<>> \in Seq(Key) /\ <<>> \o (O \o (P \o A)) = O \o (P \o A)
        /\ <<>> \o (P \o A) = P \o A
    BY <1>5, <1>6, ConcatEmptySeq, EmptySeq
  <2>2. CASE Open(t) = O
    BY <1>6, <1>9, <2>1, <2>2 DEF StaysInOrder, O, P, A
  <2>3. CASE Open(t) = <<>>
    BY <1>4, <1>6, <1>9, <2>1, <2>3 DEF StaysInOrder, O, P, A
  <2> QED
    BY <1>2, <2>2, <2>3
<1> QED
  BY <1>7, <1>8, <1>9

LEMMA ConsumeInOrder ==
  ASSUME FAST_SCAN, TappingOK, NEW src, NEW r, Came(src, r), ConsumesInOrder(src, r)
  PROVE  StaysInOrder(src, r)
<1> DEFINE P == presses(waiting_buffer)
           Q == presses(waiting_buffer')
           O == Open(tapping_key)
           N == Open(tapping_key')
           A == Arrived(src, r)
           F == IF r.pressed THEN <<r.key>> ELSE <<>>
<1>1. /\ waiting_buffer \in Seq(Record) /\ tapping_key \in Record \cup {NONE}
      /\ src \in {"matrix", "buffer"}
      /\ r.pressed => r \in Record /\ r.key # NO_KEY
      /\ src = "buffer" => waiting_buffer # <<>> /\ r = Head(waiting_buffer)
      /\ r.key = NO_KEY => ~r.pressed
  BY DEF TappingOK, BufferOK, Came
<1>2. PICK b \in Seq(Record) :
        /\ SameTyping(b, waiting_buffer) /\ Consume(src, b)
        /\ r.pressed => O = <<>> /\ N \in {<<>>, <<r.key>>}
        /\ ~r.pressed => N = O
  BY DEF ConsumesInOrder
<1>3. presses(b) = P
  BY <1>1, <1>2, PressesOfSame
<1>4. F \in Seq(Key) /\ O \in Seq(Key) /\ P \in Seq(Key) /\ <<>> \in Seq(Key)
  <2>1. r.pressed => r.key \in Key
    BY <1>1 DEF Record
  <2>2. r.pressed => <<r.key>> \in Seq(Key)
    BY <2>1
  <2> QED
    BY <1>1, <2>2, EmptySeq, PressesAre, OpenType
<1>5. Q \in Seq(Key) /\ P = (IF src = "buffer" THEN F ELSE <<>>) \o Q
  <2>1. CASE src = "buffer"
    <3>1. waiting_buffer' = Tail(b)
      BY <1>2, <2>1 DEF Consume, Continue
    <3>2. /\ b # <<>> /\ Head(b).key = r.key /\ Head(b).pressed = r.pressed
      <4>1. Len(waiting_buffer) \in Nat \ {0} /\ Len(b) = Len(waiting_buffer)
            /\ r = waiting_buffer[1] /\ 1 \in 1 .. Len(b)
        BY <1>1, <1>2, <2>1, EmptySeq DEF SameTyping
      <4>2. b # <<>>
        BY <4>1, EmptySeq
      <4>3. b[1].key = r.key /\ b[1].pressed = r.pressed
        BY <1>2, <4>1 DEF SameTyping
      <4> QED
        BY <4>2, <4>3
    <3>3. presses(b) = (IF Head(b).pressed THEN <<Head(b).key>> ELSE <<>>) \o presses(Tail(b))
      BY <3>2, PressesOfTail
    <3>4. Tail(b) \in Seq(Record)
      BY <3>2, HeadTailProperties
    <3> QED
      BY <1>3, <2>1, <3>1, <3>2, <3>3, <3>4, PressesAre
  <2>2. CASE src = "matrix"
    <3>1. waiting_buffer' = b
      BY <1>2, <2>2 DEF Consume, Continue
    <3> QED
      BY <1>3, <1>4, <2>2, <3>1, ConcatEmptySeq
  <2> QED
    BY <1>1, <2>1, <2>2
<1>6. A = IF src = "matrix" THEN F ELSE <<>>
  BY DEF Arrived
<1>7. r.pressed /\ src = "matrix" => P = <<>>
  <2> SUFFICES ASSUME r.pressed, src = "matrix" PROVE P = <<>>
    OBVIOUS
  <2>1. O = <<>>
    BY <1>2
  <2>2. ~Undecided
    BY <2>1 DEF Undecided, Open
  <2>3. waiting_buffer = <<>>
    BY <1>1, <2>2 DEF Came
  <2> QED
    BY <2>3, PressesOfNone
<1> HIDE DEF P, Q, O, N, A, F
<1>8. /\ O \o P \in Seq(Key) /\ (O \o P) \o <<>> = O \o P /\ <<>> \o (O \o P) = O \o P
      /\ <<>> \o Q = Q /\ <<>> \o P = P /\ <<>> \o F = F /\ F \o <<>> = F
      /\ F \o Q \in Seq(Key) /\ <<>> \o (F \o Q) = F \o Q
      /\ (F \o Q) \o <<>> = F \o Q /\ <<>> \o <<>> = <<>>
  BY <1>4, <1>5, ConcatProperties, ConcatEmptySeq
<1>9. \E decided \in Seq(Key) : (O \o P) \o A = decided \o (N \o Q)
  <2>1. CASE ~r.pressed
    <3>1. N = O /\ F = <<>>
      BY <1>2, <2>1 DEF F
    <3>2. Q = P /\ A = <<>>
      BY <1>5, <1>6, <1>8, <3>1
    <3> QED
      BY <1>4, <1>8, <3>1, <3>2
  <2>2. CASE r.pressed
    <3>1. O = <<>> /\ (N = <<>> \/ N = F)
      BY <1>2, <2>2 DEF F
    <3>2. (O \o P) \o A = F \o Q
      <4>1. CASE src = "matrix"
        <5>1. P = <<>> /\ Q = <<>> /\ A = F
          BY <1>5, <1>6, <1>7, <1>8, <2>2, <4>1
        <5> QED
          BY <1>8, <3>1, <5>1
      <4>2. CASE src = "buffer"
        <5>1. P = F \o Q /\ A = <<>>
          BY <1>5, <1>6, <4>2
        <5> QED
          BY <1>8, <3>1, <5>1
      <4> QED
        BY <1>1, <4>1, <4>2
    <3> QED
      BY <1>4, <1>8, <3>1, <3>2
  <2> QED
    BY <2>1, <2>2
<1> QED
  BY <1>9 DEF StaysInOrder, O, P, A, N, Q

(* What the steps of the main loop hand over is of that kind.              *)
LEMMA ArrivesCame ==
  ASSUME IInv, NEW src, NEW r, Arrives(src, r)
  PROVE  Came(src, r)
<1>1. CASE src = "matrix" /\ r = Event(NO_KEY, FALSE)
  <2>1. r.key = NO_KEY /\ ~r.pressed
    BY <1>1 DEF Event
  <2> QED
    BY <1>1, <2>1 DEF Came, Input
<1>2. CASE src = "matrix" /\ r.key \in Key /\ r = Event(r.key, r.key \notin matrix_prev)
           /\ (FAST_SCAN => Undecided \/ waiting_buffer = <<>>)
  <2>1. (r.key \notin matrix_prev) \in BOOLEAN
    OBVIOUS
  <2>2. r \in Record /\ r.key # NO_KEY
    BY <1>2, <2>1, EventType, TappingAssumption
  <2> QED
    BY <1>2, <2>2 DEF Came, Input
<1>3. CASE src = "buffer" /\ pc = "drain" /\ r = Head(waiting_buffer) /\ r \in Record
  <2>1. waiting_buffer # <<>>
    BY <1>3 DEF IInv, TypeOK
  <2>2. r.key # NO_KEY
    BY <1>3, TappingAssumption DEF Record
  <2> QED
    BY <1>3, <2>1, <2>2 DEF Came, Input
<1> QED
  BY <1>1, <1>2, <1>3 DEF Arrives

(* What follows some elements of a sequence is a SubSeq of it.             *)
LEMMA RestIsSubSeq ==
  ASSUME NEW S, NEW u \in Seq(S), NEW s \in Seq(S)
  PROVE  \E n \in 0 .. Len(u \o s) : s = SubSeq(u \o s, n + 1, Len(u \o s))
<1>1. Len(u) \in Nat /\ Len(s) \in Nat /\ Len(u \o s) = Len(u) + Len(s) /\ u \o s \in Seq(S)
  BY LenProperties, ConcatProperties
<1>2. Len(u) \in 0 .. Len(u \o s)
  BY <1>1
<1>3. SubSeq(u \o s, Len(u) + 1, Len(u) + Len(s)) = s
  <2>1. CASE s = <<>>
    <3>1. Len(s) = 0
      BY <2>1, EmptySeq
    <3>2. Len(u) + 1 > Len(u) + Len(s)
      BY <1>1, <3>1
    <3>3. SubSeq(u \o s, Len(u) + 1, Len(u) + Len(s)) = <<>>
      BY <1>1, <3>2, SubSeqEmpty
    <3> QED
      BY <2>1, <3>3
  <2>2. CASE s # <<>>
    <3> DEFINE m == Len(u) + 1
               n == Len(u) + Len(s)
    <3>1. Len(s) \in Nat \ {0}
      BY <2>2, EmptySeq
    <3>2. /\ m \in Len(u) + 1 .. Len(u) + Len(s) /\ n \in Len(u) + 1 .. Len(u) + Len(s)
          /\ m - Len(u) = 1 /\ n - Len(u) = Len(s)
      BY <1>1, <3>1
    <3> HIDE DEF m, n
    <3>3. SubSeq(u \o s, m, n) = SubSeq(s, m - Len(u), n - Len(u))
      BY <3>2, SubSeqOfConcat2
    <3>4. SubSeq(s, 1, Len(s)) = s
      BY SubSeqFull
    <3> QED
      BY <3>2, <3>3, <3>4 DEF m, n
  <2> QED
    BY <2>1, <2>2
<1> QED
  BY <1>1, <1>2, <1>3

(* The pending key and the presses that wait behind it.                    *)
LEMMA PendingPresses ==
  ASSUME IInv
  PROVE  /\ pending_presses = Open(tapping_key) \o presses(waiting_buffer)
         /\ pending_presses \in Seq(Key)
<1>1. tapping_key \in Record \cup {NONE} /\ waiting_buffer \in Seq(Record)
  BY DEF IInv, TypeOK
<1>2. Open(tapping_key) \in Seq(Key) /\ presses(waiting_buffer) \in Seq(Key)
  BY <1>1, OpenType, PressesAre
<1>3. pending_presses = Open(tapping_key) \o presses(waiting_buffer)
  BY DEF pending_presses, Open, Undecided
<1> QED
  BY <1>2, <1>3, ConcatProperties

(* What an event does is a step of PressOrder, or none.                    *)
LEMMA EventInOrder ==
  ASSUME FAST_SCAN, IInv, IInv', NEW src, NEW r, Arrives(src, r), process_tapping(src, r)
  PROVE  Order!Next \/ UNCHANGED <<matrix_prev, pending_presses>>
<1>1. Came(src, r) /\ TappingOK
  BY ArrivesCame, IInvIsTappingOK
<1>2. StaysInOrder(src, r)
  BY <1>1, BranchInOrder, DeferInOrder, ConsumeInOrder
<1> DEFINE p == pending_presses
           q == pending_presses'
           A == Arrived(src, r)
<1>3. /\ p = Open(tapping_key) \o presses(waiting_buffer) /\ p \in Seq(Key)
      /\ q = Open(tapping_key') \o presses(waiting_buffer') /\ q \in Seq(Key)
  <2>1. tapping_key' \in Record \cup {NONE} /\ waiting_buffer' \in Seq(Record)
    BY DEF IInv, TypeOK
  <2>2. Open(tapping_key') \in Seq(Key) /\ presses(waiting_buffer') \in Seq(Key)
    BY <2>1, OpenType, PressesAre
  <2>3. q = Open(tapping_key') \o presses(waiting_buffer')
    BY DEF pending_presses, Open, Undecided
  <2>4. q \in Seq(Key)
    BY <2>2, <2>3, ConcatProperties
  <2> QED
    BY <2>3, <2>4, PendingPresses
<1>4. PICK decided \in Seq(Key) : p \o A = decided \o q
  BY <1>2, <1>3 DEF StaysInOrder
<1>5. \E n \in 0 .. Len(p \o A) : q = SubSeq(p \o A, n + 1, Len(p \o A))
  <2>1. q \in Seq(Key)
    BY <1>3
  <2> HIDE DEF p, q, A
  <2>2. \E n \in 0 .. Len(decided \o q) : q = SubSeq(decided \o q, n + 1, Len(decided \o q))
    BY <2>1, RestIsSubSeq
  <2> QED
    BY <1>4, <2>2
<1>6. CASE matrix_prev' = matrix_prev /\ A = <<>>
  <2>1. p \o A = p
    BY <1>3, <1>6, ConcatEmptySeq
  <2>2. \E n \in 0 .. Len(p) : q = SubSeq(p, n + 1, Len(p))
    BY <1>5, <2>1
  <2>3. Order!DecideOldest(p)
    BY <2>2 DEF Order!DecideOldest
  <2>4. p = <<>> => q = <<>>
    <3>1. SubSeq(<<>>, 1, 0) = <<>> /\ Len(<<>>) = 0
      BY EmptySeq, SubSeqEmpty
    <3> HIDE DEF p, q
    <3>2. ASSUME p = <<>> PROVE q = <<>>
      <4>1. PICK n \in 0 .. 0 : q = SubSeq(<<>>, n + 1, 0)
        BY <2>2, <3>1, <3>2
      <4>2. n + 1 = 1
        BY <4>1
      <4> QED
        BY <3>1, <4>1, <4>2
    <3> QED
      BY <3>2
  <2>5. CASE q = p
    BY <1>6, <2>5
  <2>6. CASE q # p
    <3>1. pending_presses # <<>> /\ pending_presses' # pending_presses
      BY <2>4, <2>6
    <3> QED
      BY <1>6, <2>3, <3>1 DEF Order!Next, Order!Decide
  <2> QED
    BY <2>5, <2>6
<1>7. ASSUME src = "matrix", r.key \in Key,
             r.pressed = (r.key \notin matrix_prev),
             matrix_prev' = IF r.pressed THEN matrix_prev \cup {r.key}
                                         ELSE matrix_prev \ {r.key}
      PROVE  Order!Next
  <2>1. CASE r.pressed
    <3>1. A = <<r.key>>
      BY <1>7, <2>1 DEF Arrived
    <3>2. p \o A = Append(p, r.key)
      BY <1>3, <1>7, <3>1, AppendIsConcat
    <3>3. Order!DecideOldest(Append(p, r.key))
      BY <1>5, <3>2 DEF Order!DecideOldest
    <3>4. Order!Press(r.key)
      BY <1>7, <2>1, <3>3 DEF Order!Press
    <3> QED
      BY <1>7, <3>4 DEF Order!Next
  <2>2. CASE ~r.pressed
    <3>1. A = <<>>
      BY <2>2 DEF Arrived
    <3>2. p \o A = p
      BY <1>3, <3>1, ConcatEmptySeq
    <3>3. Order!DecideOldest(p)
      BY <1>5, <3>2 DEF Order!DecideOldest
    <3>4. Order!Release(r.key)
      BY <1>7, <2>2, <3>3 DEF Order!Release
    <3> QED
      BY <1>7, <3>4 DEF Order!Next
  <2> QED
    BY <2>1, <2>2
<1>8. CASE src = "matrix" /\ r = Event(NO_KEY, FALSE) /\ matrix_prev' = matrix_prev
  <2>1. ~r.pressed
    BY <1>8 DEF Event
  <2>2. A = <<>>
    BY <2>1 DEF Arrived
  <2> QED
    BY <1>6, <1>8, <2>2
<1>9. CASE src = "matrix" /\ r.key \in Key /\ r = Event(r.key, r.key \notin matrix_prev)
           /\ matrix_prev' = IF r.pressed THEN matrix_prev \cup {r.key}
                                          ELSE matrix_prev \ {r.key}
  <2>1. (r.key \notin matrix_prev) \in BOOLEAN
    OBVIOUS
  <2>2. r.pressed = (r.key \notin matrix_prev)
    BY <1>9, <2>1, EventType
  <2> QED
    BY <1>7, <1>9, <2>2
<1>10. CASE src = "buffer" /\ matrix_prev' = matrix_prev
  <2>1. A = <<>>
    BY <1>10 DEF Arrived
  <2> QED
    BY <1>6, <1>10, <2>1
<1> QED
  BY <1>8, <1>9, <1>10 DEF Arrives

(* The clock makes the records older and leaves their order alone.         *)
LEMMA ClockInOrder ==
  ASSUME IInv, IInv', Clock
  PROVE  UNCHANGED <<matrix_prev, pending_presses>>
<1> DEFINE aged == [i \in DOMAIN waiting_buffer |-> older(waiting_buffer[i])]
<1>1. /\ waiting_buffer \in Seq(Record) /\ waiting_buffer' \in Seq(Record)
      /\ tapping_key \in Record \cup {NONE}
      /\ waiting_buffer' = aged /\ matrix_prev' = matrix_prev
  BY DEF IInv, TypeOK, Clock
<1>2. SameTyping(aged, waiting_buffer)
  <2>1. /\ DOMAIN waiting_buffer = DOMAIN aged
        /\ \A i \in DOMAIN waiting_buffer :
             waiting_buffer[i].key = aged[i].key /\ waiting_buffer[i].pressed = aged[i].pressed
    BY <1>1, OlderSame
  <2>2. DOMAIN waiting_buffer = 1 .. Len(waiting_buffer) /\ Len(waiting_buffer) \in Nat
    BY <1>1, LenProperties
  <2>3. \A i \in 1 .. Len(waiting_buffer) : older(waiting_buffer[i]) \in Record
    BY <1>1, ElementOfSeq, OlderType
  <2>4. aged \in [1 .. Len(waiting_buffer) -> Record]
    BY <2>2, <2>3
  <2>5. Len(aged) = Len(waiting_buffer)
    BY <2>2, <2>4, SeqDef
  <2> HIDE DEF aged
  <2> QED
    BY <2>1, <2>2, <2>5 DEF SameTyping
<1> HIDE DEF aged
<1>3. presses(waiting_buffer') = presses(waiting_buffer)
  BY <1>1, <1>2, PressesOfSame
<1>4. Open(tapping_key') = Open(tapping_key)
  <2>1. CASE tapping_key = NONE
    BY <2>1 DEF Clock
  <2>2. CASE tapping_key \in Record
    <3>1. tapping_key # NONE /\ tapping_key' = older(tapping_key)
      BY <2>2, TappingAssumption DEF Clock
    <3>2. older(tapping_key) \in Record /\ older(tapping_key) # NONE
      BY <2>2, OlderType, TappingAssumption
    <3>3. /\ older(tapping_key).key = tapping_key.key
          /\ older(tapping_key).pressed = tapping_key.pressed
          /\ older(tapping_key).count = tapping_key.count
      BY <2>2 DEF older, Record
    <3> QED
      BY <3>1, <3>2, <3>3 DEF Open
  <2> QED
    BY <1>1, <2>1, <2>2
<1>5. pending_presses' = Open(tapping_key') \o presses(waiting_buffer')
  BY DEF pending_presses, Open, Undecided
<1>6. pending_presses = Open(tapping_key) \o presses(waiting_buffer)
  BY PendingPresses
<1> QED
  BY <1>1, <1>3, <1>4, <1>5, <1>6

(* When the scans keep up (a TICK comes between a time-out that left       *)
(* events waiting and the next key change), the machine implements         *)
(* PressOrder for every keymap and every option: however presses are held  *)
(* back, decided as taps or holds, started again from the buffer or        *)
(* cleared with it, they are decided in the order the keys went down.      *)
THEOREM PressesInOrder ==
  ASSUME FAST_SCAN
  PROVE  Spec => InPressOrder
<1>1. Init => Order!Init
  <2> SUFFICES ASSUME Init PROVE Order!Init
    OBVIOUS
  <2>1. ~Undecided /\ waiting_buffer = <<>> /\ matrix_prev = {}
    BY DEF Init, Undecided
  <2>2. pending_presses = <<>>
    BY <2>1, PressesOfNone, ConcatEmptySeq, EmptySeq DEF pending_presses
  <2> QED
    BY <2>1, <2>2 DEF Order!Init
<1>2. IInv /\ [Next]_vars => IInv'
  BY NextIInv
<1>3. IInv /\ IInv' /\ [Next]_vars => [Order!Next]_<<matrix_prev, pending_presses>>
  <2> SUFFICES ASSUME IInv, IInv', [Next]_vars
               PROVE  Order!Next \/ UNCHANGED <<matrix_prev, pending_presses>>
    OBVIOUS
  <2>1. CASE Next /\ ~Clock
    BY <2>1, StepArrives, EventInOrder
  <2>2. CASE Clock
    BY <2>2, ClockInOrder
  <2>3. CASE UNCHANGED vars
    BY <2>3 DEF vars, pending_presses, Undecided
  <2> QED
    BY <2>1, <2>2, <2>3
<1> QED
  BY <1>1, <1>2, <1>3, InitIInv, PTL DEF Spec, InPressOrder, Order!Spec

-----------------------------------------------------------------------------
(* Nothing gets stuck with one dual-role key                               *)

(* The dual-role key is MT or LT: it does one thing while it is held and   *)
(* another when it is tapped.                                              *)
HoldTapOnly ==
  \A l \in Layer : \A k \in Key :
    is_tap_action(Keymap[l][k]) => Keymap[l][k].kind \in {"MODS_TAP", "LAYER_TAP"}

(* No layer outlives its key by design: no TG, OSL, TO or TT in the        *)
(* keymap.                                                                 *)
OnlyHeldLayers ==
  \A l \in Layer : \A k \in Key :
    Keymap[l][k].kind \in {"LMODS", "USAGE", "TRANSPARENT", "ON_OFF", "LAYER_MODS",
                           "MODS_TAP", "LAYER_TAP"}

(* The key without tap that a dual-role key stands for once it has been    *)
(* decided.                                                                *)
Role(a, tapped) ==
  CASE a.kind \in {"MODS_TAP", "LAYER_TAP"} /\ tapped ->
         [a EXCEPT !.kind = "LMODS", !.mods = {}]
    [] a.kind = "MODS_TAP" /\ ~tapped  -> [a EXCEPT !.kind = "LMODS", !.code = KC_NO]
    [] a.kind = "LAYER_TAP" /\ ~tapped -> [a EXCEPT !.kind = "ON_OFF"]
    [] OTHER -> a

(* The role of key k, on the layer of its press.                           *)
RoleOf(d, k, tapped) == Role(PressedAction(d, k), tapped)

(* Each code, modifier and layer has a key among down whose role registers *)
(* it; tapped is what the dual-role key was decided to be.                 *)
Accounts(d, down, tapped) ==
  /\ \A c \in d.keys : \E k \in down : c \in CodesOf(RoleOf(d, k, tapped))
  /\ \A m \in d.real_mods : \E k \in down : m \in ModsOf(RoleOf(d, k, tapped))
  /\ OnlyHeldLayers /\ BufferHasRoom =>
       \A l \in d.layer_state : \E k \in down : l \in LayersOf(RoleOf(d, k, tapped))

(* The keys that are down after the event r.                               *)
Toggled(s, r) == IF r.pressed THEN s \cup {r.key} ELSE s \ {r.key}

(* The events of b, in their order, press keys that are up and release     *)
(* keys that are down, and lead from the one set of keys down to the       *)
(* other.                                                                  *)
Leads(b, from, to) ==
  \E path \in [0 .. Len(b) -> SUBSET Key] :
    /\ path[0] = from /\ path[Len(b)] = to
    /\ \A i \in 1 .. Len(b) : /\ b[i].pressed <=> b[i].key \notin path[i - 1]
                              /\ path[i] = Toggled(path[i - 1], b[i])

(* No event of K in b has been marked as a tap.                            *)
Uncounted(K, b) == \A i \in DOMAIN b : b[i].key = K => b[i].count = 0

(* The keys the events of the buffer lead to. The pending key is down, but *)
(* it has not been handed on yet, and nothing of it waits in the buffer.   *)
Handed(K) == IF Undecided THEN matrix_prev \ {K} ELSE matrix_prev

(* There is a set of keys, those whose presses have been processed and     *)
(* whose releases have not, that accounts for the report; the events of    *)
(* the buffer lead from it to the keys that are down now.                  *)
Balanced(K) ==
  /\ tapping_key = NONE => Uncounted(K, waiting_buffer)
  /\ \E down \in SUBSET Key :
       /\ Leads(waiting_buffer, down, Handed(K))
       /\ Accounts(dev, down, Tapped)

RoleInv(K) == OneKeyInv(K) /\ Balanced(K)

(* A key without tap acts as itself.                                       *)
LEMMA RolePlain ==
  ASSUME NEW a, ~is_tap_action(a), NEW t
  PROVE  Role(a, t) = a
BY DEF Role, is_tap_action

(* A dual-role key does what the key it stands for does.                   *)
LEMMA SwitchOfRole ==
  ASSUME NEW d \in Synced, NEW r \in Record, NEW a \in KeyAction, NEW e,
         e = action_switch(d, r, a), NEW b, b = Role(a, r.count > 0),
         is_tap_action(a) => a.kind \in {"MODS_TAP", "LAYER_TAP"} /\ ~is_cancelled_tap(r, a)
  PROVE  Pairs(d, e, r.pressed, b)
<1>0. /\ d \in Dev /\ a.code \in Code /\ a.mods \in SUBSET Mod /\ a.layer \in Layer
      /\ d.keys \subseteq KeyCode /\ d.real_mods \subseteq Mod /\ KC_NO \notin KeyCode \cup Mod
      /\ r.count \in Nat /\ (~(r.count > 0) <=> r.count = 0) /\ r.pressed \in BOOLEAN
  BY ActionAssumption DEF KeyAction, Synced, Dev, Record
<1>1. CASE ~is_tap_action(a)
  BY <1>1, RolePlain, PlainSwitchEffect
<1>2. CASE a.kind \in {"MODS_TAP", "LAYER_TAP"} /\ r.count > 0
  <2>1. e = IF r.pressed THEN register_code(d, a.code) ELSE unregister_code(d, a.code)
    <3>1. ~is_cancelled_tap(r, a)
      BY <1>2 DEF is_tap_action
    <3> QED
      BY <1>0, <1>2, <3>1 DEF action_switch, action_mods_tap, action_layer_tap
  <2>2. b.kind = "LMODS" /\ b.code = a.code /\ b.mods = {}
    BY <1>2 DEF Role, KeyAction
  <2>3. /\ CodesOf(b) = {a.code} /\ {a.code} \cap Mod \subseteq ModsOf(b)
        /\ ModsOf(b) \subseteq {a.code} /\ LayersOf(b) = {}
    BY <2>2 DEF CodesOf, ModsOf, LayersOf, are_real_mods
  <2>4. CASE r.pressed
    <3>1. /\ e.keys \subseteq d.keys \cup {a.code}
          /\ e.real_mods \subseteq d.real_mods \cup ({a.code} \cap Mod)
          /\ e.source_layers_cache = d.source_layers_cache /\ SameLayers(d, e)
      BY <1>0, <2>1, <2>4, RegisterCodeEffect DEF Types
    <3> QED
      BY <2>3, <2>4, <3>1 DEF Pairs, SameLayers
  <2>5. CASE ~r.pressed
    <3>1. /\ e.keys \subseteq d.keys \ {a.code} /\ e.real_mods \subseteq d.real_mods \ {a.code}
          /\ e.source_layers_cache = d.source_layers_cache /\ SameLayers(d, e)
      BY <1>0, <2>1, <2>5, UnregisterCodeEffect DEF Calmer
    <3> QED
      BY <2>3, <2>5, <3>1 DEF Pairs, SameLayers
  <2> QED
    BY <2>4, <2>5
<1>3. CASE a.kind = "MODS_TAP" /\ r.count = 0
  <2>1. e = IF r.pressed THEN register_mods(d, a.mods) ELSE unregister_mods(d, a.mods)
    BY <1>0, <1>3 DEF action_switch, action_mods_tap
  <2>2. b.kind = "LMODS" /\ b.code = KC_NO /\ b.mods = a.mods
    BY <1>0, <1>3 DEF Role, KeyAction
  <2>3. CodesOf(b) = {KC_NO} /\ ModsOf(b) = a.mods \cup {KC_NO} /\ LayersOf(b) = {}
    BY <2>2 DEF CodesOf, ModsOf, LayersOf, are_real_mods
  <2>4. CASE r.pressed
    <3>1. /\ e.keys \subseteq d.keys /\ e.real_mods = d.real_mods \cup a.mods
          /\ e.source_layers_cache = d.source_layers_cache /\ SameLayers(d, e)
      BY <1>0, <2>1, <2>4, RegisterModsEffect DEF Calmer
    <3> QED
      BY <2>3, <2>4, <3>1 DEF Pairs, SameLayers
  <2>5. CASE ~r.pressed
    <3>1. /\ e.keys \subseteq d.keys /\ e.real_mods = d.real_mods \ a.mods
          /\ e.source_layers_cache = d.source_layers_cache /\ SameLayers(d, e)
      BY <1>0, <2>1, <2>5, RegisterModsEffect DEF Calmer
    <3>2. KC_NO \notin d.keys /\ KC_NO \notin d.real_mods
      BY <1>0
    <3> QED
      BY <2>3, <2>5, <3>1, <3>2 DEF Pairs, SameLayers
  <2> QED
    BY <2>4, <2>5, <1>0
<1>4. CASE a.kind = "LAYER_TAP" /\ r.count = 0
  <2>1. e = IF r.pressed THEN layer_on(d, a.layer) ELSE layer_off(d, a.layer)
    BY <1>0, <1>4 DEF action_switch, action_layer_tap
  <2>2. b.kind = "ON_OFF" /\ b.layer = a.layer
    BY <1>0, <1>4 DEF Role, KeyAction
  <2>3. CodesOf(b) = {} /\ ModsOf(b) = {} /\ LayersOf(b) = {a.layer}
    BY <2>2 DEF CodesOf, ModsOf, LayersOf
  <2>4. CASE r.pressed
    <3>1. /\ e.layer_state = d.layer_state \cup {a.layer} /\ e.oneshot_layer = d.oneshot_layer
          /\ e.real_mods = d.real_mods /\ e.keys \subseteq d.keys
          /\ e.source_layers_cache = d.source_layers_cache
      BY <1>0, <2>1, <2>4, LayerOnOffEffect DEF Calmer
    <3> QED
      BY <2>3, <2>4, <3>1 DEF Pairs
  <2>5. CASE ~r.pressed
    <3>1. /\ e.layer_state = d.layer_state \ {a.layer} /\ e.oneshot_layer = d.oneshot_layer
          /\ e.real_mods = d.real_mods /\ e.keys \subseteq d.keys
          /\ e.source_layers_cache = d.source_layers_cache
      BY <1>0, <2>1, <2>5, LayerOnOffEffect DEF Calmer
    <3> QED
      BY <2>3, <2>5, <3>1 DEF Pairs
  <2> QED
    BY <2>4, <2>5, <1>0
<1> QED
  BY <1>0, <1>1, <1>2, <1>3, <1>4

(* And so does process_record while no one-shot layer is active.           *)
LEMMA RecordOfRole ==
  ASSUME NEW d \in Synced, NEW r \in Record, d.oneshot_layer.state = {},
         NEW b, b = action_for_key(source_layer(d, r), r.key),
         is_tap_action(b) => b.kind \in {"MODS_TAP", "LAYER_TAP"} /\ ~is_cancelled_tap(r, b)
  PROVE  \E u \in Synced :
           /\ u = update_source_layers_cache(d, r)
           /\ Pairs(u, process_record(d, r).dev, r.pressed, Role(b, r.count > 0))
<1> DEFINE e == process_record(d, r).dev
<1>1. PICK u \in Synced, w \in Synced, o \in Synced, s \in Synced, a \in KeyAction,
           rec \in Record, uses \in BOOLEAN, do_release \in BOOLEAN :
        RecordParts(d, r, u, w, o, s, a, rec, uses, do_release)
  BY ProcessRecordParts
<1> USE DEF RecordParts
<1>2. ~uses
  <2>1. u.oneshot_layer = d.oneshot_layer
    BY ONLY <1>1, UpdateCacheEffect, d \in Synced, r \in Record DEF RecordParts, SameLayers
  <2> QED
    BY <1>1, <2>1 DEF uses_oneshot_layer, is_oneshot_layer_active
<1>3. o = w /\ e = s
  BY <1>1, <1>2 DEF clear_other_key_pressed, after_switch
<1>4. Pairs(w, s, r.pressed, Role(b, r.count > 0))
  <2>1. s = action_switch(w, r, a) /\ a = b
    BY <1>1, <1>3
  <2> QED
    BY <2>1, SwitchOfRole
<1>5. /\ SameLayers(u, w) /\ w.real_mods = u.real_mods /\ w.keys = u.keys
      /\ w.source_layers_cache = u.source_layers_cache
  BY <1>1, ClearWeakEffect DEF Calmer
<1> HIDE DEF e
<1>6. Pairs(u, e, r.pressed, Role(b, r.count > 0))
  BY <1>3, <1>4, <1>5 DEF Pairs, SameLayers
<1> QED
  BY <1>1, <1>6 DEF e

(* The role of a key that is not the dual-role one is its action.          *)
LEMMA OtherRoles ==
  ASSUME NEW K, OneDualRoleKey(K), NEW d \in Dev, NEW k \in Key, k # K, NEW t
  PROVE  RoleOf(d, k, t) = PressedAction(d, k)
<1>1. d.source_layers_cache[k] \in Layer
  BY DEF Dev
<1>2. ~is_tap_action(PressedAction(d, k))
  BY <1>1 DEF PressedAction, OneDualRoleKey
<1> QED
  BY <1>2, RolePlain DEF RoleOf

(* The record of a key keeps the account, if the release of the dual-role  *)
(* key says the same as its press.                                         *)
LEMMA RecordKeepsRoles ==
  ASSUME NEW K, OneDualRoleKey(K), HoldTapOnly, ~STRICT_LAYER_RELEASE,
         NEW d \in Synced, NEW r \in Record, NEW down \in SUBSET Key,
         NEW t \in BOOLEAN, NEW v \in BOOLEAN,
         d.oneshot_layer.state = {}, Accounts(d, down, t),
         r.pressed <=> r.key \notin down,
         r.key = K /\ r.pressed => v = (r.count > 0),
         r.key = K /\ ~r.pressed => t = (r.count > 0),
         r.key # K => v = t \/ K \notin down
  PROVE  Accounts(process_record(d, r).dev, Toggled(down, r), v)
<1> DEFINE e == process_record(d, r).dev
           a == action_for_key(source_layer(d, r), r.key)
           l == source_layer(d, r)
           n == r.count > 0
           b == Role(a, n)
<1>1. l \in Layer /\ r.key \in Key /\ a = Keymap[l][r.key] /\ a \in KeyAction
  BY KeymapAction
<1>2. is_tap_action(a) => /\ a.kind \in {"MODS_TAP", "LAYER_TAP"} /\ ~is_cancelled_tap(r, a)
                          /\ r.key = K
  BY <1>1 DEF OneDualRoleKey, HoldTapOnly, is_cancelled_tap
<1>3. PICK u \in Synced : u = update_source_layers_cache(d, r) /\ Pairs(u, e, r.pressed, b)
  BY <1>2, RecordOfRole
<1>4. /\ u.keys = d.keys /\ u.real_mods = d.real_mods /\ SameLayers(d, u)
      /\ u.source_layers_cache = IF r.pressed
           THEN [d.source_layers_cache EXCEPT ![r.key] = layer_switch_get_layer(d, r.key)]
           ELSE d.source_layers_cache
  BY ONLY <1>3, UpdateCacheEffect, d \in Synced, r \in Record, ~STRICT_LAYER_RELEASE
<1>5. l = IF r.pressed THEN layer_switch_get_layer(d, r.key)
                       ELSE d.source_layers_cache[r.key]
  BY DEF source_layer
<1>6. d.source_layers_cache \in [Key -> Layer] /\ d \in Dev
  BY DEF Synced, Dev
<1>7. e \in Dev
  BY ProcessRecord, SyncedIsDev
<1>8. OnlyHeldLayers =>
        b.kind \in {"LMODS", "USAGE", "TRANSPARENT", "ON_OFF", "LAYER_MODS"}
  <2>1. OnlyHeldLayers => a.kind \in {"LMODS", "USAGE", "TRANSPARENT", "ON_OFF", "LAYER_MODS",
                                      "MODS_TAP", "LAYER_TAP"}
    BY <1>1 DEF OnlyHeldLayers
  <2> HIDE DEF a
  <2> QED
    BY <1>1, <2>1 DEF Role, KeyAction
<1> HIDE DEF e, a, l
<1>9. e.source_layers_cache = u.source_layers_cache
  BY <1>3 DEF Pairs
<1>10. PressedAction(e, r.key) = a
  BY <1>1, <1>4, <1>5, <1>6, <1>9 DEF PressedAction
<1>11. \A k \in Key \ {r.key} : PressedAction(e, k) = PressedAction(d, k)
  BY <1>1, <1>4, <1>6, <1>9 DEF PressedAction
<1>12. ASSUME NEW k \in down \ {r.key} PROVE RoleOf(e, k, v) = RoleOf(d, k, t)
  <2>1. PressedAction(e, k) = PressedAction(d, k)
    BY <1>11
  <2>2. CASE k = K
    <3>1. v = t
      BY <1>12, <2>2
    <3> QED
      BY <2>1, <3>1 DEF RoleOf
  <2>3. CASE k # K
    BY <1>6, <1>7, <2>1, <2>3, OtherRoles
  <2> QED
    BY <2>2, <2>3
<1> HIDE DEF n, b
<1>13. /\ r.pressed => RoleOf(e, r.key, v) = b
       /\ ~r.pressed => RoleOf(d, r.key, t) = b
  <2>1. r.pressed => RoleOf(e, r.key, v) = Role(a, v)
    BY <1>10 DEF RoleOf
  <2>2. ~r.pressed => RoleOf(d, r.key, t) = Role(a, t)
    BY <1>1, <1>5 DEF RoleOf, PressedAction
  <2>3. CASE r.key = K
    BY <2>1, <2>2, <2>3 DEF n, b
  <2>4. CASE r.key # K
    <3>1. ~is_tap_action(a)
      BY <1>2, <2>4
    <3> QED
      BY <2>1, <2>2, <3>1, RolePlain DEF b
  <2> QED
    BY <2>3, <2>4
<1>14. CASE r.pressed
  <2>1. /\ e.keys \subseteq d.keys \cup CodesOf(b)
        /\ e.real_mods \subseteq d.real_mods \cup ModsOf(b)
        /\ OnlyHeldLayers => e.layer_state \subseteq d.layer_state \cup LayersOf(b)
    BY <1>3, <1>4, <1>8, <1>14 DEF Pairs, SameLayers
  <2>2. down = down \ {r.key} /\ Toggled(down, r) = down \cup {r.key}
    BY <1>14 DEF Toggled
  <2>3. Accounts(e, down \cup {r.key}, v)
    BY <1>12, <1>13, <1>14, <2>1, <2>2 DEF Accounts
  <2> QED
    BY <2>2, <2>3 DEF e
<1>15. CASE ~r.pressed
  <2>1. /\ e.keys \subseteq d.keys \ CodesOf(b)
        /\ e.real_mods \subseteq d.real_mods \ ModsOf(b)
        /\ OnlyHeldLayers => e.layer_state \subseteq d.layer_state \ LayersOf(b)
    BY <1>3, <1>4, <1>8, <1>15 DEF Pairs, SameLayers
  <2>2. Toggled(down, r) = down \ {r.key}
    BY <1>15 DEF Toggled
  <2>3. Accounts(e, down \ {r.key}, v)
    BY <1>12, <1>13, <1>15, <2>1 DEF Accounts
  <2> QED
    BY <2>2, <2>3 DEF e
<1> QED
  BY <1>14, <1>15

(* clear_keyboard leaves no code and no modifier.                          *)
LEMMA ClearedAccounts ==
  ASSUME NEW d \in Synced, NEW down, NEW t, ~BufferHasRoom
  PROVE  Accounts(clear_keyboard(d), down, t)
<1>1. clear_keyboard(d).keys = {} /\ clear_keyboard(d).real_mods = {}
  <2> DEFINE c == [[d EXCEPT !.real_mods = {}] EXCEPT !.keys = {}]
             f == [c EXCEPT !.weak_mods = {}]
             g == send_keyboard_report(f)
  <2>1. clear_keyboard(d) = [g EXCEPT !.consumer = KC_NO]
    BY DEF clear_keyboard, clear_keyboard_but_mods, clear_keyboard_but_mods_and_keys
  <2>2. f \in Dev /\ f.keys = {} /\ f.real_mods = {}
    BY DEF Synced, Dev
  <2> HIDE DEF f
  <2>3. g \in Dev /\ g.keys = {} /\ g.real_mods = {}
    BY <2>2, SendReportEffect, SendReport, SyncedIsDev
  <2> HIDE DEF g
  <2> QED
    BY <2>1, <2>3 DEF Dev
<1> QED
  BY <1>1 DEF Accounts

-----------------------------------------------------------------------------
(* From the keys accounted for to the keys that are down                   *)

(* What holds at one place and goes on from each place to the next holds   *)
(* from there on.                                                          *)
LEMMA GoesOn ==
  ASSUME NEW n \in Nat, NEW good \in SUBSET (0 .. n), NEW a \in good,
         \A i \in (a + 1) .. n : i - 1 \in good => i \in good
  PROVE  n \in good
<1> DEFINE bad == (a .. n) \ good
<1>1. SUFFICES ASSUME bad # {} PROVE FALSE
  BY a \in 0 .. n
<1>2. bad \in SUBSET Nat
  BY a \in 0 .. n
<1>3. PICK m \in bad : \A i \in bad : m <= i
  <2> HIDE DEF bad
  <2> QED
    BY <1>1, <1>2, NatHasMinimum
<1>4. m # a /\ m \in (a + 1) .. n /\ m - 1 \in a .. n /\ m \notin good
  BY a \in 0 .. n
<1>5. m - 1 \notin bad
  BY <1>2, <1>3, <1>4
<1> QED
  BY <1>4, <1>5

(* The path is the set of keys that are down after each of the events.     *)
PathOf(path, b, from, to) ==
  /\ path \in [0 .. Len(b) -> SUBSET Key]
  /\ path[0] = from /\ path[Len(b)] = to
  /\ \A i \in 1 .. Len(b) : /\ b[i].pressed <=> b[i].key \notin path[i - 1]
                            /\ path[i] = Toggled(path[i - 1], b[i])

(* It is what Leads says there is.                                         *)
LEMMA LeadsPath ==
  ASSUME NEW b, NEW from, NEW to
  PROVE  Leads(b, from, to) <=> \E path : PathOf(path, b, from, to)
BY DEF Leads, PathOf

(* The empty buffer leads nowhere else.                                    *)
LEMMA LeadsEmpty ==
  ASSUME NEW from \in SUBSET Key, NEW to
  PROVE  Leads(<<>>, from, to) <=> from = to
<1>1. ASSUME Leads(<<>>, from, to) PROVE from = to
  BY <1>1 DEF Leads
<1>2. Leads(<<>>, from, from)
  <2> DEFINE path == [i \in 0 .. 0 |-> from]
  <2>1. path \in [0 .. Len(<<>>) -> SUBSET Key] /\ path[0] = from /\ path[Len(<<>>)] = from
    OBVIOUS
  <2>2. 1 .. Len(<<>>) = {}
    OBVIOUS
  <2> HIDE DEF path
  <2> QED
    BY <2>1, <2>2 DEF Leads
<1> QED
  BY <1>1, <1>2

(* An event that waits behind the others is the last step.                 *)
LEMMA LeadsAppend ==
  ASSUME NEW b \in Seq(Record), NEW r \in Record, NEW from, NEW to \in SUBSET Key,
         Leads(b, from, to), r.pressed <=> r.key \notin to
  PROVE  Leads(Append(b, r), from, Toggled(to, r))
<1>1. PICK path : PathOf(path, b, from, to)
  BY LeadsPath
<1> DEFINE c == Append(b, r)
           n == Len(b)
           more == [i \in 0 .. n + 1 |-> IF i <= n THEN path[i] ELSE Toggled(to, r)]
<1>2. /\ Len(c) = n + 1 /\ n \in Nat /\ c[n + 1] = r
      /\ \A i \in 1 .. n : c[i] = b[i]
  BY AppendProperties, LenProperties
<1>3. Toggled(to, r) \in SUBSET Key
  BY DEF Toggled, Record
<1>4. /\ path \in [0 .. n -> SUBSET Key] /\ path[0] = from /\ path[n] = to
      /\ \A i \in 1 .. n : /\ b[i].pressed <=> b[i].key \notin path[i - 1]
                           /\ path[i] = Toggled(path[i - 1], b[i])
  BY <1>1 DEF PathOf
<1>5. /\ more \in [0 .. n + 1 -> SUBSET Key] /\ more[n + 1] = Toggled(to, r)
      /\ \A i \in 0 .. n : more[i] = path[i]
  BY <1>2, <1>3, <1>4
<1> HIDE DEF c, n, more
<1>6. ASSUME NEW i \in 1 .. n + 1
      PROVE  /\ c[i].pressed <=> c[i].key \notin more[i - 1]
             /\ more[i] = Toggled(more[i - 1], c[i])
  <2>1. CASE i = n + 1
    <3>1. more[i - 1] = to
      BY <1>2, <1>4, <1>5, <2>1
    <3> QED
      BY <1>2, <1>5, <2>1, <3>1
  <2>2. CASE i # n + 1
    <3>1. i \in 1 .. n /\ i \in 0 .. n /\ i - 1 \in 0 .. n
      BY <1>2, <2>2
    <3>2. more[i - 1] = path[i - 1] /\ more[i] = path[i] /\ c[i] = b[i]
      BY <1>2, <1>5, <3>1
    <3> QED
      BY <1>4, <3>1, <3>2
  <2> QED
    BY <2>1, <2>2
<1>7. PathOf(more, c, from, Toggled(to, r))
  <2>1. more[0] = from
    BY <1>2, <1>4, <1>5
  <2> QED
    BY <1>2, <1>5, <1>6, <2>1 DEF PathOf
<1> QED
  BY <1>7, LeadsPath DEF c

(* The event at the head is the first step.                                *)
LEMMA LeadsTail ==
  ASSUME NEW b \in Seq(Record), b # <<>>, NEW from \in SUBSET Key, NEW to, Leads(b, from, to)
  PROVE  /\ Head(b).pressed <=> Head(b).key \notin from
         /\ Leads(Tail(b), Toggled(from, Head(b)), to)
<1>1. PICK path : PathOf(path, b, from, to)
  BY LeadsPath
<1> DEFINE c == Tail(b)
           n == Len(b)
           rest == [i \in 0 .. n - 1 |-> path[i + 1]]
<1>2. /\ Head(b) = b[1] /\ n \in Nat \ {0}
      /\ Len(c) = n - 1 /\ \A i \in 1 .. n - 1 : c[i] = b[i + 1]
  BY EmptySeq, LenProperties, HeadTailProperties
<1>3. /\ path \in [0 .. n -> SUBSET Key] /\ path[0] = from /\ path[n] = to
      /\ \A i \in 1 .. n : /\ b[i].pressed <=> b[i].key \notin path[i - 1]
                           /\ path[i] = Toggled(path[i - 1], b[i])
  BY <1>1 DEF PathOf
<1>4. rest \in [0 .. n - 1 -> SUBSET Key] /\ \A i \in 0 .. n - 1 : rest[i] = path[i + 1]
  BY <1>2, <1>3
<1> HIDE DEF c, n, rest
<1>5. (b[1].pressed <=> b[1].key \notin from) /\ path[1] = Toggled(from, b[1])
  <2>1. 1 \in 1 .. n /\ 1 - 1 = 0
    BY <1>2
  <2> QED
    BY <1>3, <2>1
<1>6. ASSUME NEW i \in 1 .. n - 1
      PROVE  /\ c[i].pressed <=> c[i].key \notin rest[i - 1]
             /\ rest[i] = Toggled(rest[i - 1], c[i])
  <2>1. i + 1 \in 1 .. n /\ (i + 1) - 1 = i /\ i \in 0 .. n - 1 /\ i - 1 \in 0 .. n - 1
        /\ (i - 1) + 1 = i
    BY <1>2
  <2>2. rest[i] = path[i + 1] /\ rest[i - 1] = path[i] /\ c[i] = b[i + 1]
    BY <1>2, <1>4, <2>1
  <2> QED
    BY <1>3, <2>1, <2>2
<1>7. PathOf(rest, c, path[1], to)
  <2>1. rest[0] = path[1] /\ rest[n - 1] = to
    <3>1. 0 \in 0 .. n - 1 /\ 0 + 1 = 1 /\ n - 1 \in 0 .. n - 1 /\ (n - 1) + 1 = n
      BY <1>2
    <3> QED
      BY <1>3, <1>4, <3>1
  <2> QED
    BY <1>2, <1>4, <1>6, <2>1 DEF PathOf
<1> QED
  BY <1>2, <1>5, <1>7, LeadsPath DEF c

(* A key with no event in the buffer is where it was,                      *)
LEMMA LeadsPast ==
  ASSUME NEW b \in Seq(Record), NEW from, NEW to, Leads(b, from, to), NEW k, NoneOf(k, b)
  PROVE  k \in from <=> k \in to
<1>1. PICK path : PathOf(path, b, from, to)
  BY LeadsPath
<1> DEFINE n == Len(b)
           in  == {i \in 0 .. n : k \in path[i]}
           out == {i \in 0 .. n : k \notin path[i]}
<1>2. n \in Nat /\ DOMAIN b = 1 .. n /\ path[0] = from /\ path[n] = to
  BY <1>1, LenProperties DEF PathOf
<1>3. ASSUME NEW i \in 1 .. n PROVE k \in path[i] <=> k \in path[i - 1]
  BY <1>1, <1>2 DEF PathOf, Toggled, NoneOf
<1> HIDE DEF n
<1>4. ASSUME k \in from PROVE k \in to
  <2>1. 0 \in in /\ in \in SUBSET (0 .. n)
    BY <1>2, <1>4
  <2>2. \A i \in (0 + 1) .. n : i - 1 \in in => i \in in
    BY <1>2, <1>3
  <2> HIDE DEF in
  <2>3. n \in in
    BY <1>2, <2>1, <2>2, GoesOn
  <2> QED
    BY <1>2, <2>3 DEF in
<1>5. ASSUME k \notin from PROVE k \notin to
  <2>1. 0 \in out /\ out \in SUBSET (0 .. n)
    BY <1>2, <1>5
  <2>2. \A i \in (0 + 1) .. n : i - 1 \in out => i \in out
    BY <1>2, <1>3
  <2> HIDE DEF out
  <2>3. n \in out
    BY <1>2, <2>1, <2>2, GoesOn
  <2> QED
    BY <1>2, <2>3 DEF out
<1> QED
  BY <1>4, <1>5

(* and one that is down in the end without a press in the buffer has none. *)
LEMMA LeadsUnpressed ==
  ASSUME NEW b \in Seq(Record), NEW from, NEW to, Leads(b, from, to), NEW k, k \in to,
         \A i \in DOMAIN b : b[i].key = k => ~b[i].pressed
  PROVE  NoneOf(k, b)
<1>1. PICK path : PathOf(path, b, from, to)
  BY LeadsPath
<1> DEFINE n == Len(b)
           out == {i \in 0 .. n : k \notin path[i]}
<1>2. n \in Nat /\ DOMAIN b = 1 .. n /\ path[n] = to
  BY <1>1, LenProperties DEF PathOf
<1> HIDE DEF n
<1>3. SUFFICES ASSUME NEW j \in 1 .. n, b[j].key = k PROVE FALSE
  BY <1>2 DEF NoneOf
<1>4. /\ \A i \in 1 .. n : path[i] = Toggled(path[i - 1], b[i])
      /\ \A i \in 1 .. n : b[i].key = k => ~b[i].pressed
  BY <1>1, <1>2 DEF PathOf, n
<1>5. \A i \in 1 .. n : k \notin path[i - 1] => k \notin path[i]
  BY <1>4 DEF Toggled
<1>6. k \notin path[j]
  BY <1>3, <1>4 DEF Toggled
<1>7. j \in out /\ out \in SUBSET (0 .. n)
  BY <1>2, <1>3, <1>6
<1>8. \A i \in (j + 1) .. n : i - 1 \in out => i \in out
  BY <1>2, <1>3, <1>5
<1> HIDE DEF out
<1>9. n \in out
  BY <1>2, <1>7, <1>8, GoesOn
<1> QED
  BY <1>2, <1>9 DEF out

(* A key that is no longer down has its release in the buffer.             *)
LEMMA LeadsRelease ==
  ASSUME NEW b \in Seq(Record), NEW from, NEW to, Leads(b, from, to), NEW k, k \in from,
         k \notin to
  PROVE  \E i \in DOMAIN b : b[i].key = k /\ ~b[i].pressed
<1>1. PICK path : PathOf(path, b, from, to)
  BY LeadsPath
<1> DEFINE n == Len(b)
           in == {i \in 0 .. n : k \in path[i]}
<1>2. n \in Nat /\ DOMAIN b = 1 .. n /\ path[n] = to /\ path[0] = from
  BY <1>1, LenProperties DEF PathOf
<1>3. SUFFICES ASSUME \A i \in 1 .. n : b[i].key = k => b[i].pressed PROVE FALSE
  BY <1>2
<1> HIDE DEF n
<1>4. \A i \in 1 .. n : k \in path[i - 1] => k \in path[i]
  <2>1. \A i \in 1 .. n : path[i] = Toggled(path[i - 1], b[i])
    BY <1>1 DEF PathOf, n
  <2> QED
    BY <1>3, <2>1 DEF Toggled
<1>5. 0 \in in /\ in \in SUBSET (0 .. n)
  BY <1>2
<1>6. \A i \in (0 + 1) .. n : i - 1 \in in => i \in in
  BY <1>2, <1>4
<1> HIDE DEF in
<1>7. n \in in
  BY <1>2, <1>5, <1>6, GoesOn
<1> QED
  BY <1>2, <1>7 DEF in

(* Such a key can go down or up before all of them.                        *)
LEMMA LeadsAside ==
  ASSUME NEW b \in Seq(Record), NEW from, NEW to, Leads(b, from, to), NEW k \in Key,
         NoneOf(k, b)
  PROVE  /\ Leads(b, from \cup {k}, to \cup {k})
         /\ Leads(b, from \ {k}, to \ {k})
<1>1. PICK path : PathOf(path, b, from, to)
  BY LeadsPath
<1> DEFINE n == Len(b)
           with == [i \in 0 .. n |-> path[i] \cup {k}]
           without == [i \in 0 .. n |-> path[i] \ {k}]
<1>2. n \in Nat /\ DOMAIN b = 1 .. n /\ path[0] = from /\ path[n] = to
      /\ path \in [0 .. n -> SUBSET Key]
      /\ \A i \in 1 .. n : /\ b[i].pressed <=> b[i].key \notin path[i - 1]
                           /\ path[i] = Toggled(path[i - 1], b[i])
  BY <1>1, LenProperties DEF PathOf
<1>3. /\ with \in [0 .. n -> SUBSET Key] /\ without \in [0 .. n -> SUBSET Key]
      /\ \A i \in 0 .. n : with[i] = path[i] \cup {k} /\ without[i] = path[i] \ {k}
  BY <1>2
<1> HIDE DEF n, with, without
<1>4. ASSUME NEW i \in 1 .. n
      PROVE  /\ b[i].pressed <=> b[i].key \notin with[i - 1]
             /\ with[i] = Toggled(with[i - 1], b[i])
             /\ b[i].pressed <=> b[i].key \notin without[i - 1]
             /\ without[i] = Toggled(without[i - 1], b[i])
  <2>1. i \in 0 .. n /\ i - 1 \in 0 .. n /\ b[i].key # k
    BY <1>2 DEF NoneOf
  <2>2. /\ with[i] = path[i] \cup {k} /\ without[i] = path[i] \ {k}
        /\ with[i - 1] = path[i - 1] \cup {k} /\ without[i - 1] = path[i - 1] \ {k}
    BY <1>3, <2>1
  <2>3. (b[i].pressed <=> b[i].key \notin path[i - 1]) /\ path[i] = Toggled(path[i - 1], b[i])
    BY <1>2
  <2> QED
    BY <2>1, <2>2, <2>3 DEF Toggled
<1>5. with[0] = from \cup {k} /\ with[n] = to \cup {k}
      /\ without[0] = from \ {k} /\ without[n] = to \ {k}
  BY <1>2, <1>3
<1>6. PathOf(with, b, from \cup {k}, to \cup {k}) /\ PathOf(without, b, from \ {k}, to \ {k})
  BY <1>3, <1>4, <1>5 DEF PathOf, n
<1> QED
  BY <1>6, LeadsPath

(* What an event of the buffer is paired with is its key and its           *)
(* direction.                                                              *)
LEMMA LeadsSame ==
  ASSUME NEW b \in Seq(Record), NEW c \in Seq(Record), Len(b) = Len(c),
         \A i \in 1 .. Len(b) : c[i].key = b[i].key /\ c[i].pressed = b[i].pressed,
         NEW from, NEW to, Leads(b, from, to)
  PROVE  Leads(c, from, to)
<1>1. PICK path : PathOf(path, b, from, to)
  BY LeadsPath
<1> DEFINE n == Len(b)
<1>2. /\ path \in [0 .. n -> SUBSET Key] /\ path[0] = from /\ path[n] = to /\ n = Len(c)
      /\ \A i \in 1 .. n : c[i].key = b[i].key /\ c[i].pressed = b[i].pressed
      /\ \A i \in 1 .. n : /\ b[i].pressed <=> b[i].key \notin path[i - 1]
                           /\ path[i] = Toggled(path[i - 1], b[i])
  BY <1>1 DEF PathOf
<1> HIDE DEF n
<1>3. \A i \in 1 .. n : /\ c[i].pressed <=> c[i].key \notin path[i - 1]
                        /\ path[i] = Toggled(path[i - 1], c[i])
  BY <1>2 DEF Toggled
<1>4. PathOf(path, c, from, to)
  BY <1>2, <1>3 DEF PathOf
<1> QED
  BY <1>4, LeadsPath

-----------------------------------------------------------------------------
(* The account through the eight moves                                     *)

(* What arrives from the matrix changes the keys that are down.            *)
LEMMA ArrivesToggles ==
  ASSUME NEW src, NEW r, Arrives(src, r)
  PROVE  /\ matrix_prev' = IF src = "matrix" /\ r.key # NO_KEY THEN Toggled(matrix_prev, r)
                                                               ELSE matrix_prev
         /\ src = "matrix" /\ r.key # NO_KEY =>
              /\ r.pressed <=> r.key \notin matrix_prev
              /\ Len(waiting_buffer) <= MAX_WAITING
              /\ FAST_SCAN => Undecided \/ waiting_buffer = <<>>
<1>1. CASE src = "matrix" /\ r = Event(NO_KEY, FALSE) /\ matrix_prev' = matrix_prev
  BY <1>1 DEF Event
<1>2. CASE src = "matrix" /\ r.key \in Key /\ r = Event(r.key, r.key \notin matrix_prev)
           /\ Arrives(src, r)
  <2>1. r.pressed <=> r.key \notin matrix_prev
    <3>1. r.pressed = (r.key \notin matrix_prev)
      BY <1>2, EventType
    <3> QED
      BY <3>1
  <2>2. r.key # NO_KEY
    BY <1>2, TappingAssumption
  <2>3. r # Event(NO_KEY, FALSE)
    BY <2>2 DEF Event
  <2> QED
    BY <1>2, <2>1, <2>2, <2>3 DEF Arrives, Toggled
<1>3. CASE src = "buffer" /\ matrix_prev' = matrix_prev
  BY <1>3
<1> QED
  BY <1>1, <1>2, <1>3 DEF Arrives

(* How the account is found again after a step.                            *)
LEMMA BalancedBy ==
  ASSUME NEW K, NEW down \in SUBSET Key,
         Leads(waiting_buffer', down, IF Undecided' THEN matrix_prev' \ {K} ELSE matrix_prev'),
         Accounts(dev', down, Tapped'),
         tapping_key' = NONE => Uncounted(K, waiting_buffer')
  PROVE  Balanced(K)'
BY DEF Balanced, Handed

(* A move that defers the event puts it behind the others, or finds the    *)
(* buffer full and clears the keyboard.                                    *)
LEMMA DeferLeads ==
  ASSUME NEW K \in Key, OneKeyInv(K), NEW src, NEW r, Arrives(src, r),
         NEW q, q.key = r.key, q.pressed = r.pressed, r.key # NO_KEY => q \in Record,
         src = "buffer" => q = r,
         NEW d \in Synced, NEW t, Defer(src, q, d, t),
         NEW down \in SUBSET Key, NEW to \in SUBSET Key, Leads(waiting_buffer, down, to),
         NEW v, Accounts(d, down, v),
         src = "matrix" /\ r.key # NO_KEY => (r.pressed <=> r.key \notin to)
  PROVE  \/ /\ tapping_key' = t
            /\ Accounts(dev', down, v)
            /\ Leads(waiting_buffer', down,
                     IF src = "matrix" /\ r.key # NO_KEY THEN Toggled(to, r) ELSE to)
            /\ \/ waiting_buffer' = waiting_buffer
               \/ src = "matrix" /\ waiting_buffer' = Append(waiting_buffer, q)
         \/ Balanced(K)'
<1>0. Arrival(K, src, r)
  BY ArrivesFacts
<1>1. waiting_buffer \in Seq(Record) /\ Len(waiting_buffer) \in Nat
  BY LenProperties DEF OneKeyInv, IInv, TypeOK
<1>2. CASE src = "buffer"
  <2>1. waiting_buffer' = [waiting_buffer EXCEPT ![1] = r] /\ dev' = d /\ tapping_key' = t
    BY <1>2 DEF Defer
  <2>2. waiting_buffer # <<>> /\ r = waiting_buffer[1]
    BY <1>0, <1>1, <1>2, HeadTailProperties DEF Arrival
  <2>3. [waiting_buffer EXCEPT ![1] = waiting_buffer[1]] = waiting_buffer
    BY <1>1
  <2> QED
    BY <1>2, <2>1, <2>2, <2>3
<1>3. CASE src = "matrix" /\ r.key = NO_KEY
  <2>1. waiting_buffer' = waiting_buffer /\ dev' = d /\ tapping_key' = t
    BY <1>3 DEF Defer, Continue
  <2> QED
    BY <1>3, <2>1
<1>4. CASE src = "matrix" /\ r.key # NO_KEY
  <2>1. CASE Len(waiting_buffer) < WAITING_BUFFER_SIZE - 1
    <3>1. waiting_buffer' = Append(waiting_buffer, q) /\ dev' = d /\ tapping_key' = t
      BY <1>1, <1>4, <2>1, TappingAssumption DEF Defer, Continue
    <3>2. Leads(Append(waiting_buffer, q), down, Toggled(to, q)) /\ Toggled(to, q) = Toggled(to, r)
      BY <1>1, <1>4, LeadsAppend DEF Toggled
    <3> QED
      BY <1>4, <3>1, <3>2
  <2>2. CASE ~(Len(waiting_buffer) < WAITING_BUFFER_SIZE - 1)
    <3>1. waiting_buffer' = <<>> /\ dev' = clear_keyboard(d) /\ tapping_key' = NONE
      BY <1>4, <2>2 DEF Defer, Continue
    <3>2. ~BufferHasRoom
      BY <1>1, <1>4, <2>2, ArrivesToggles, TappingAssumption DEF BufferHasRoom
    <3>3. Accounts(dev', matrix_prev', Tapped') /\ ~Undecided'
      BY <3>1, <3>2, ClearedAccounts DEF Undecided
    <3>4. matrix_prev' \in SUBSET Key
      BY <1>4, ArrivesToggles DEF Toggled, Record, OneKeyInv, IInv, TypeOK
    <3>5. Leads(<<>>, matrix_prev', matrix_prev') /\ Uncounted(K, <<>>)
      BY <3>4, LeadsEmpty DEF Uncounted
    <3> QED
      BY <3>1, <3>3, <3>4, <3>5, BalancedBy
  <2> QED
    BY <2>1, <2>2
<1> QED
  BY <1>0, <1>2, <1>3, <1>4 DEF Arrival

(* The event that is passed on is the next of its key.                     *)
LEMMA PassOnBalances ==
  ASSUME FAST_SCAN, NEW K \in Key, OneDualRoleKey(K), HoldTapOnly, ~STRICT_LAYER_RELEASE,
         RoleInv(K), NEW src, NEW r, Arrives(src, r), PassOn(K, src, r)
  PROVE  Balanced(K)'
<1>0. Arrival(K, src, r) /\ OneKeyInv(K)
  BY ArrivesFacts DEF RoleInv
<1>1. /\ waiting_buffer \in Seq(Record) /\ dev \in Synced /\ dev.oneshot_layer.state = {}
      /\ matrix_prev \in SUBSET Key /\ tapping_key \in Record \cup {NONE} /\ NONE \notin Record
      /\ OneKeyShape(K) /\ src \in {"matrix", "buffer"} /\ K # NO_KEY
      /\ r.key # NO_KEY => r \in Record
  BY <1>0, IInvIsTappingOK, TappingAssumption DEF OneKeyInv, TappingOK, BufferOK, Arrival
<1>2. PICK down \in SUBSET Key :
        Leads(waiting_buffer, down, Handed(K)) /\ Accounts(dev, down, Tapped)
  BY DEF RoleInv, Balanced
<1>3. /\ Undecided' <=> Undecided
      /\ Tapped' <=> Tapped
      /\ tapping_key' = NONE <=> tapping_key = NONE
  <2>1. CASE tapping_key = NONE /\ tapping_key' = NONE
    BY <2>1 DEF Undecided, Tapped
  <2>2. CASE tapping_key # NONE
    <3>1. PICK i \in BOOLEAN : tapping_key' = [tapping_key EXCEPT !.interrupted = i]
      BY <2>2 DEF PassOn
    <3>2. /\ tapping_key' # NONE
          /\ tapping_key'.pressed = tapping_key.pressed /\ tapping_key'.count = tapping_key.count
      BY <1>1, <2>2, <3>1 DEF Record
    <3> QED
      BY <2>2, <3>2 DEF Undecided, Tapped
  <2> QED
    BY <2>1, <2>2 DEF PassOn
<1>4. dev' = processed(dev, r).dev /\ Consume(src, waiting_buffer)
  BY DEF PassOn, ProcessAndConsume
<1>5. r.key = K => tapping_key = NONE /\ ~Tapped
  BY DEF PassOn, Tapped
<1>6. Tapped' = Tapped /\ Tapped \in BOOLEAN
  BY <1>3 DEF Tapped
<1>7. tapping_key = NONE => Uncounted(K, waiting_buffer)
  BY DEF RoleInv, Balanced
<1>8. ASSUME r \in Record, r.pressed <=> r.key \notin down, r.key = K => r.count = 0
      PROVE  Accounts(process_record(dev, r).dev, Toggled(down, r), Tapped)
  <2>1. /\ r.key = K => Tapped = (r.count > 0)
        /\ r.key # K => Tapped = Tapped \/ K \notin down
    <3>1. r.key = K => ~Tapped /\ ~(r.count > 0)
      BY <1>5, <1>8
    <3> QED
      BY <1>6, <3>1
  <2> QED
    BY <1>1, <1>2, <1>6, <1>8, <2>1, RecordKeepsRoles
<1>9. CASE r.key = NO_KEY
  <2>1. src = "matrix" /\ matrix_prev' = matrix_prev
    BY <1>0, <1>9, ArrivesToggles DEF Arrival
  <2>2. dev' = dev /\ waiting_buffer' = waiting_buffer
    BY <1>4, <1>9, <2>1 DEF processed, Consume, Continue
  <2> QED
    BY <1>2, <1>3, <1>6, <1>7, <2>1, <2>2, BalancedBy DEF Handed
<1>10. r.key # NO_KEY => dev' = process_record(dev, r).dev
  BY <1>4 DEF processed
<1>11. CASE src = "buffer"
  <2>1. /\ waiting_buffer # <<>> /\ r = Head(waiting_buffer) /\ r.key # NO_KEY
        /\ waiting_buffer' = Tail(waiting_buffer) /\ matrix_prev' = matrix_prev
    BY <1>0, <1>4, <1>11, ArrivesToggles DEF Arrival, Consume, Continue
  <2>2. /\ r.pressed <=> r.key \notin down
        /\ Leads(Tail(waiting_buffer), Toggled(down, r), Handed(K))
    BY <1>1, <1>2, <2>1, LeadsTail
  <2>3. tapping_key = NONE => Uncounted(K, Tail(waiting_buffer)) /\ (r.key = K => r.count = 0)
    <3>1. /\ DOMAIN waiting_buffer = 1 .. Len(waiting_buffer) /\ Len(waiting_buffer) \in Nat \ {0}
          /\ r = waiting_buffer[1]
          /\ DOMAIN Tail(waiting_buffer) = 1 .. Len(waiting_buffer) - 1
          /\ \A i \in 1 .. Len(waiting_buffer) - 1 :
               Tail(waiting_buffer)[i] = waiting_buffer[i + 1] /\ i + 1 \in 1 .. Len(waiting_buffer)
      BY <1>1, <2>1, LenProperties, HeadTailProperties, EmptySeq
    <3> QED
      BY <1>7, <3>1 DEF Uncounted
  <2>4. Accounts(dev', Toggled(down, r), Tapped')
    BY <1>1, <1>5, <1>6, <1>8, <1>10, <2>1, <2>2, <2>3
  <2>5. Toggled(down, r) \in SUBSET Key
    BY <1>1, <2>1 DEF Toggled, Record
  <2>6. Handed(K) = IF Undecided' THEN matrix_prev' \ {K} ELSE matrix_prev'
    BY <1>3, <2>1 DEF Handed
  <2> QED
    BY <1>3, <2>1, <2>2, <2>3, <2>4, <2>5, <2>6, BalancedBy
<1>12. CASE src = "matrix" /\ r.key # NO_KEY
  <2>1. /\ matrix_prev' = Toggled(matrix_prev, r)
        /\ r.pressed <=> r.key \notin matrix_prev
        /\ Undecided \/ waiting_buffer = <<>>
        /\ waiting_buffer' = waiting_buffer /\ r.count = 0 /\ r \in Record
    BY <1>0, <1>1, <1>4, <1>12, ArrivesToggles DEF Consume, Continue, Arrival
  <2>2. Toggled(down, r) \in SUBSET Key
    BY <2>1 DEF Toggled, Record
  <2>3. CASE ~Undecided
    <3>1. waiting_buffer = <<>> /\ down = matrix_prev
      BY <1>2, <2>1, <2>3, LeadsEmpty DEF Handed
    <3>2. Leads(<<>>, Toggled(down, r), matrix_prev') /\ Uncounted(K, <<>>)
      BY <2>1, <2>2, <3>1, LeadsEmpty DEF Uncounted
    <3>3. Accounts(dev', Toggled(down, r), Tapped')
      BY <1>6, <1>8, <1>10, <1>12, <2>1, <3>1
    <3> QED
      BY <1>3, <2>1, <2>2, <2>3, <3>1, <3>2, <3>3, BalancedBy
  <2>4. CASE Undecided
    <3>1. ~r.pressed /\ ~waiting_buffer_typed(r) /\ r.key # K /\ tapping_key # NONE
      BY <2>4 DEF PassOn, IsReleased, Undecided
    <3>2. Handed(K) = matrix_prev \ {K} /\ r.key \in Handed(K)
      BY <2>1, <2>4, <3>1 DEF Handed
    <3>3. NoneOf(r.key, waiting_buffer)
      <4>1. \A i \in DOMAIN waiting_buffer : waiting_buffer[i] \in Record
        BY <1>1, LenProperties, ElementOfSeq
      <4>2. \A i \in DOMAIN waiting_buffer :
              waiting_buffer[i].key = r.key => ~waiting_buffer[i].pressed
        BY <2>1, <3>1, <4>1 DEF waiting_buffer_typed, Record
      <4> QED
        BY <1>1, <1>2, <3>2, <4>2, LeadsUnpressed
    <3>4. r.key \in down /\ r.key \in Key
      <4>1. r.key \in Key
        BY <2>1 DEF Record
      <4>2. r.key \in down
        BY <1>1, <1>2, <3>2, <3>3, LeadsPast
      <4> QED
        BY <4>1, <4>2
    <3>5. Leads(waiting_buffer, down \ {r.key}, Handed(K) \ {r.key})
      BY <1>1, <1>2, <3>3, <3>4, LeadsAside
    <3>6. /\ Toggled(down, r) = down \ {r.key}
          /\ matrix_prev' \ {K} = Handed(K) \ {r.key}
      BY <2>1, <3>1, <3>2 DEF Toggled
    <3>7. Accounts(dev', Toggled(down, r), Tapped')
      BY <1>6, <1>8, <1>10, <1>12, <2>1, <3>1, <3>4
    <3> QED
      BY <1>3, <2>1, <2>2, <2>4, <3>1, <3>5, <3>6, <3>7, BalancedBy
  <2> QED
    BY <2>3, <2>4
<1> QED
  BY <1>1, <1>9, <1>11, <1>12

(* What every move may use.                                                *)
LEMMA RoleFacts ==
  ASSUME NEW K \in Key, RoleInv(K), NEW src, NEW r, Arrives(src, r)
  PROVE  /\ Arrival(K, src, r) /\ OneKeyInv(K) /\ OneKeyShape(K)
         /\ waiting_buffer \in Seq(Record) /\ dev \in Synced /\ dev.oneshot_layer.state = {}
         /\ matrix_prev \in SUBSET Key /\ matrix_prev' \in SUBSET Key
         /\ tapping_key \in Record \cup {NONE} /\ NONE \notin Record
         /\ src \in {"matrix", "buffer"} /\ K # NO_KEY
         /\ r.key # NO_KEY => r \in Record
<1>1. Arrival(K, src, r) /\ OneKeyInv(K)
  BY ArrivesFacts DEF RoleInv
<1>2. /\ waiting_buffer \in Seq(Record) /\ dev \in Synced /\ dev.oneshot_layer.state = {}
      /\ matrix_prev \in SUBSET Key /\ tapping_key \in Record \cup {NONE} /\ NONE \notin Record
      /\ OneKeyShape(K) /\ src \in {"matrix", "buffer"} /\ K # NO_KEY
      /\ r.key # NO_KEY => r \in Record
  BY <1>1, IInvIsTappingOK, TappingAssumption DEF OneKeyInv, TappingOK, BufferOK, Arrival
<1>3. matrix_prev' \in SUBSET Key
  BY <1>2, ArrivesToggles DEF Toggled, Record
<1> QED
  BY <1>1, <1>2, <1>3

(* One event more in the buffer.                                           *)
LEMMA UncountedAppend ==
  ASSUME NEW K, NEW b \in Seq(Record), NEW q \in Record, Uncounted(K, b),
         q.key = K => q.count = 0
  PROVE  Uncounted(K, Append(b, q))
<1> DEFINE c == Append(b, q)
<1>1. /\ Len(c) = Len(b) + 1 /\ c[Len(b) + 1] = q /\ Len(b) \in Nat
      /\ \A i \in 1 .. Len(b) : c[i] = b[i]
      /\ DOMAIN b = 1 .. Len(b) /\ DOMAIN c = 1 .. Len(c)
  BY AppendProperties, LenProperties
<1> HIDE DEF c
<1>2. Uncounted(K, c)
  BY <1>1 DEF Uncounted
<1> QED
  BY <1>2 DEF c

(* A move that defers the event keeps the account, if the dual-role key    *)
(* has become what the account says.                                       *)
LEMMA DeferBalances ==
  ASSUME NEW K \in Key, RoleInv(K), NEW src, NEW r, Arrives(src, r),
         NEW q, q.key = r.key, q.pressed = r.pressed, r.key # NO_KEY => q \in Record,
         src = "buffer" => q = r,
         NEW d \in Synced, NEW t \in Record \cup {NONE}, Defer(src, q, d, t),
         NEW down \in SUBSET Key, NEW to \in SUBSET Key, Leads(waiting_buffer, down, to),
         NEW v, Accounts(d, down, v), v = (t # NONE /\ t.pressed /\ t.count > 0),
         src = "matrix" /\ r.key # NO_KEY => (r.pressed <=> r.key \notin to),
         (IF t # NONE /\ t.pressed /\ t.count = 0 THEN matrix_prev' \ {K} ELSE matrix_prev')
           = (IF src = "matrix" /\ r.key # NO_KEY THEN Toggled(to, r) ELSE to),
         t = NONE => /\ Uncounted(K, waiting_buffer)
                     /\ src = "matrix" /\ r.key = K => q.count = 0
  PROVE  Balanced(K)'
<1> DEFINE then == IF src = "matrix" /\ r.key # NO_KEY THEN Toggled(to, r) ELSE to
<1>1. OneKeyInv(K)
  BY DEF RoleInv
<1>2. \/ /\ tapping_key' = t /\ Accounts(dev', down, v) /\ Leads(waiting_buffer', down, then)
         /\ \/ waiting_buffer' = waiting_buffer
            \/ src = "matrix" /\ waiting_buffer' = Append(waiting_buffer, q)
      \/ Balanced(K)'
  BY <1>1, DeferLeads
<1>3. (IF t # NONE /\ t.pressed /\ t.count = 0 THEN matrix_prev' \ {K} ELSE matrix_prev') = then
  OBVIOUS
<1> HIDE DEF then
<1>4. SUFFICES ASSUME tapping_key' = t, Accounts(dev', down, v),
                      Leads(waiting_buffer', down, then),
                      \/ waiting_buffer' = waiting_buffer
                      \/ src = "matrix" /\ waiting_buffer' = Append(waiting_buffer, q)
               PROVE  Balanced(K)'
  BY <1>2
<1>5. /\ Tapped' = v
      /\ (IF Undecided' THEN matrix_prev' \ {K} ELSE matrix_prev') = then
  BY <1>3, <1>4 DEF Tapped, Undecided
<1>6. ASSUME t = NONE PROVE Uncounted(K, waiting_buffer')
  <2>1. CASE waiting_buffer' = waiting_buffer
    BY <1>6, <2>1
  <2>2. CASE src = "matrix" /\ waiting_buffer' = Append(waiting_buffer, q)
                            /\ waiting_buffer' # waiting_buffer
    <3>1. r.key # NO_KEY
      <4>1. SUFFICES ASSUME r.key = NO_KEY PROVE FALSE
        OBVIOUS
      <4> QED
        BY <2>2, <4>1, TappingAssumption DEF Defer, Continue, Record
    <3> QED
      BY <1>1, <1>6, <2>2, <3>1, UncountedAppend DEF OneKeyInv, IInv, TypeOK
  <2> QED
    BY <1>4, <2>1, <2>2
<1> QED
  BY <1>4, <1>5, <1>6, BalancedBy

(* The event of another key waits.                                         *)
LEMMA WaitBalances ==
  ASSUME NEW K \in Key, RoleInv(K), NEW src, NEW r, Arrives(src, r), Wait(K, src, r)
  PROVE  Balanced(K)'
<1>1. /\ waiting_buffer \in Seq(Record) /\ dev \in Synced
      /\ matrix_prev \in SUBSET Key /\ matrix_prev' \in SUBSET Key
      /\ tapping_key \in Record \cup {NONE} /\ NONE \notin Record
      /\ src \in {"matrix", "buffer"} /\ K # NO_KEY
      /\ r.key # NO_KEY => r \in Record
  BY RoleFacts
<1>2. PICK down \in SUBSET Key :
        Leads(waiting_buffer, down, Handed(K)) /\ Accounts(dev, down, Tapped)
  BY DEF RoleInv, Balanced
<1>3. Undecided /\ ~Tapped /\ r.key # K /\ Handed(K) = matrix_prev \ {K}
  BY DEF Wait, Undecided, Tapped, Handed
<1>4. PICK i \in BOOLEAN : Defer(src, r, dev, [tapping_key EXCEPT !.interrupted = i])
  BY DEF Wait
<1> DEFINE t == [tapping_key EXCEPT !.interrupted = i]
<1>5. t \in Record /\ t # NONE /\ t.pressed /\ t.count = 0
  BY <1>1, <1>3 DEF Undecided, Record
<1>6. Defer(src, r, dev, t)
  BY <1>4
<1> HIDE DEF t
<1>7. src = "matrix" /\ r.key # NO_KEY => (r.pressed <=> r.key \notin Handed(K))
  BY <1>3, ArrivesToggles
<1>8. matrix_prev' \ {K}
        = IF src = "matrix" /\ r.key # NO_KEY THEN Toggled(Handed(K), r) ELSE Handed(K)
  BY <1>3, ArrivesToggles DEF Toggled
<1>9. Accounts(dev, down, FALSE) /\ FALSE = (t # NONE /\ t.pressed /\ t.count > 0)
  <2>1. ~(t.count > 0)
    BY <1>5
  <2>2. Tapped = FALSE
    BY <1>3 DEF Tapped
  <2> QED
    BY <1>2, <2>1, <2>2
<1>10. Handed(K) \in SUBSET Key
  BY <1>1, <1>3
<1>11. (IF t # NONE /\ t.pressed /\ t.count = 0 THEN matrix_prev' \ {K} ELSE matrix_prev')
        = IF src = "matrix" /\ r.key # NO_KEY THEN Toggled(Handed(K), r) ELSE Handed(K)
  BY <1>5, <1>8
<1> QED
  BY <1>1, <1>2, <1>5, <1>6, <1>7, <1>9, <1>10, <1>11, DeferBalances

(* The pending key is decided: it goes down before all that waits.         *)
LEMMA DecidedAccounts ==
  ASSUME NEW K \in Key, OneDualRoleKey(K), HoldTapOnly, ~STRICT_LAYER_RELEASE,
         RoleInv(K), NEW src, NEW r, Arrives(src, r), Undecided,
         NEW one \in Record, one.key = K, one.pressed
  PROVE  \E down \in SUBSET Key :
           /\ Leads(waiting_buffer, down, matrix_prev)
           /\ Accounts(process_record(dev, one).dev, down, one.count > 0)
<1>1. /\ waiting_buffer \in Seq(Record) /\ dev \in Synced /\ dev.oneshot_layer.state = {}
      /\ matrix_prev \in SUBSET Key /\ OneKeyShape(K)
      /\ NoneOf(K, waiting_buffer) /\ K \in matrix_prev
  BY RoleFacts DEF OneKeyShape
<1>2. PICK down \in SUBSET Key :
        Leads(waiting_buffer, down, matrix_prev \ {K}) /\ Accounts(dev, down, Tapped)
  BY DEF RoleInv, Balanced, Handed
<1>3. K \notin down
  BY <1>1, <1>2, LeadsPast
<1>4. Leads(waiting_buffer, down \cup {K}, matrix_prev)
  <2>1. (matrix_prev \ {K}) \cup {K} = matrix_prev
    BY <1>1
  <2>2. Leads(waiting_buffer, down \cup {K}, (matrix_prev \ {K}) \cup {K})
    BY <1>1, <1>2, LeadsAside
  <2> QED
    BY <2>1, <2>2
<1> DEFINE v == one.count > 0
<1>5. Tapped \in BOOLEAN /\ v \in BOOLEAN /\ v = (one.count > 0)
  BY DEF Tapped, Record
<1> HIDE DEF v
<1>6. Toggled(down, one) = down \cup {K}
  BY DEF Toggled
<1>7. Accounts(process_record(dev, one).dev, Toggled(down, one), v)
  BY <1>1, <1>2, <1>3, <1>5, RecordKeepsRoles
<1> QED
  BY <1>4, <1>5, <1>6, <1>7

(* As held,                                                                *)
LEMMA HoldBalances ==
  ASSUME NEW K \in Key, OneDualRoleKey(K), HoldTapOnly, ~STRICT_LAYER_RELEASE,
         RoleInv(K), NEW src, NEW r, Arrives(src, r), Hold(K, src, r)
  PROVE  Balanced(K)'
<1>1. /\ waiting_buffer \in Seq(Record) /\ dev \in Synced
      /\ matrix_prev \in SUBSET Key /\ matrix_prev' \in SUBSET Key
      /\ tapping_key \in Record \cup {NONE} /\ NONE \notin Record
      /\ src \in {"matrix", "buffer"} /\ K # NO_KEY
      /\ r.key # NO_KEY => r \in Record
      /\ Arrival(K, src, r) /\ OneKeyShape(K)
  BY RoleFacts
<1>2. /\ Undecided /\ tapping_key \in Record /\ tapping_key.key = K
      /\ tapping_key.pressed /\ tapping_key.count = 0 /\ NoneOf(K, waiting_buffer)
  BY <1>1 DEF Hold, Undecided, OneKeyShape
<1> DEFINE d == process_record(dev, tapping_key).dev
<1>3. /\ d \in Synced /\ Defer(src, r, d, NONE)
  BY <1>1, <1>2, ProcessRecord DEF Hold
<1>4. PICK down \in SUBSET Key :
        /\ Leads(waiting_buffer, down, matrix_prev)
        /\ Accounts(d, down, tapping_key.count > 0)
  BY <1>2, DecidedAccounts
<1> HIDE DEF d
<1>5. Accounts(d, down, FALSE)
  <2>1. (tapping_key.count > 0) = FALSE
    BY <1>2
  <2> QED
    BY <1>4, <2>1
<1>6. Uncounted(K, waiting_buffer)
  BY <1>2 DEF Uncounted, NoneOf
<1>7. src = "matrix" /\ r.key = K => r.count = 0
  BY <1>1 DEF Arrival
<1>8. /\ src = "matrix" /\ r.key # NO_KEY => (r.pressed <=> r.key \notin matrix_prev)
      /\ matrix_prev' = IF src = "matrix" /\ r.key # NO_KEY THEN Toggled(matrix_prev, r)
                                                            ELSE matrix_prev
  BY ArrivesToggles
<1> QED
  BY <1>1, <1>3, <1>4, <1>5, <1>6, <1>7, <1>8, DeferBalances

(* or as tapped.                                                           *)
LEMMA TapBalances ==
  ASSUME NEW K \in Key, OneDualRoleKey(K), HoldTapOnly, ~STRICT_LAYER_RELEASE,
         RoleInv(K), NEW src, NEW r, Arrives(src, r), Tap(K, src, r)
  PROVE  Balanced(K)'
<1>1. /\ waiting_buffer \in Seq(Record) /\ dev \in Synced
      /\ matrix_prev \in SUBSET Key /\ matrix_prev' \in SUBSET Key
      /\ tapping_key \in Record \cup {NONE} /\ NONE \notin Record /\ K # NO_KEY
      /\ OneKeyShape(K)
  BY RoleFacts
<1>2. /\ Undecided /\ tapping_key \in Record /\ tapping_key.key = K /\ tapping_key.pressed
      /\ src = "matrix" /\ r.key = K /\ ~r.pressed
  BY <1>1 DEF Tap, Undecided, OneKeyShape
<1> DEFINE one == [tapping_key EXCEPT !.count = 1]
           d == process_record(dev, one).dev
<1>3. one \in Record /\ one.key = K /\ one.pressed /\ one.count = 1 /\ one # NONE
  <2>1. one \in Record /\ one.key = K /\ one.pressed /\ one.count = 1
    BY <1>2 DEF Record
  <2> HIDE DEF one
  <2> QED
    BY <1>1, <2>1
<1>4. PICK q \in Record : q.key = K /\ ~q.pressed /\ Defer(src, q, d, one)
  BY DEF Tap
<1> HIDE DEF one
<1>5. d \in Synced
  BY <1>1, <1>3, ProcessRecord
<1>6. PICK down \in SUBSET Key :
        /\ Leads(waiting_buffer, down, matrix_prev)
        /\ Accounts(d, down, one.count > 0)
  BY <1>2, <1>3, DecidedAccounts
<1> HIDE DEF d
<1>7. Accounts(d, down, TRUE) /\ TRUE = (one # NONE /\ one.pressed /\ one.count > 0)
  <2>1. (one.count > 0) = TRUE
    BY <1>3
  <2>2. (one # NONE /\ one.pressed /\ one.count > 0) = TRUE
    BY <1>3
  <2> QED
    BY <1>6, <2>1, <2>2
<1>8. /\ src = "matrix" /\ r.key # NO_KEY => (r.pressed <=> r.key \notin matrix_prev)
      /\ matrix_prev' = IF src = "matrix" /\ r.key # NO_KEY THEN Toggled(matrix_prev, r)
                                                            ELSE matrix_prev
  BY ArrivesToggles
<1>9. q.key = r.key /\ q.pressed = r.pressed /\ one.count # 0
  <2>1. q.pressed \in BOOLEAN /\ r.pressed \in BOOLEAN
    BY <1>1, <1>2, RoleFacts DEF Record
  <2> QED
    BY <1>2, <1>3, <1>4, <2>1
<1> QED
  BY <1>1, <1>2, <1>3, <1>4, <1>5, <1>6, <1>7, <1>8, <1>9, DeferBalances

(* Another tap comes too late.                                             *)
LEMMA ExpireBalances ==
  ASSUME FAST_SCAN, NEW K \in Key, RoleInv(K), NEW src, NEW r, Arrives(src, r), Expire(src, r)
  PROVE  Balanced(K)'
<1>1. /\ waiting_buffer \in Seq(Record) /\ dev \in Synced
      /\ matrix_prev \in SUBSET Key /\ matrix_prev' \in SUBSET Key
      /\ src \in {"matrix", "buffer"}
      /\ r.key # NO_KEY => r \in Record
      /\ Arrival(K, src, r) /\ OneKeyShape(K)
  BY RoleFacts
<1>2. Released /\ ~Undecided /\ ~Tapped /\ src = "matrix" /\ waiting_buffer = <<>>
      /\ Defer(src, r, dev, NONE)
  BY <1>1 DEF Expire, Released, Undecided, Tapped, OneKeyShape
<1>3. PICK down \in SUBSET Key :
        Leads(waiting_buffer, down, matrix_prev) /\ Accounts(dev, down, Tapped)
  BY <1>2 DEF RoleInv, Balanced, Handed
<1>4. Accounts(dev, down, FALSE)
  <2>1. Tapped = FALSE
    BY <1>2 DEF Tapped
  <2> QED
    BY <1>3, <2>1
<1>5. Uncounted(K, waiting_buffer) /\ (src = "matrix" /\ r.key = K => r.count = 0)
  BY <1>1, <1>2 DEF Uncounted, Arrival
<1>6. /\ src = "matrix" /\ r.key # NO_KEY => (r.pressed <=> r.key \notin matrix_prev)
      /\ matrix_prev' = IF src = "matrix" /\ r.key # NO_KEY THEN Toggled(matrix_prev, r)
                                                            ELSE matrix_prev
  BY ArrivesToggles
<1> QED
  BY <1>1, <1>2, <1>3, <1>4, <1>5, <1>6, DeferBalances

(* The dual-role key goes down and becomes the pending key.                *)
LEMMA StartBalances ==
  ASSUME FAST_SCAN, NEW K \in Key, RoleInv(K), NEW src, NEW r, Arrives(src, r), Start(K, r)
  PROVE  Balanced(K)'
<1>1. /\ waiting_buffer \in Seq(Record) /\ dev \in Synced
      /\ matrix_prev \in SUBSET Key /\ matrix_prev' \in SUBSET Key
      /\ tapping_key \in Record \cup {NONE} /\ NONE \notin Record
      /\ src \in {"matrix", "buffer"} /\ K # NO_KEY
      /\ Arrival(K, src, r) /\ OneKeyShape(K)
  BY RoleFacts
<1>2. /\ r = Event(K, TRUE) /\ r.key = K /\ r.pressed /\ r \in Record /\ r.count = 0 /\ r # NONE
      /\ dev' = dev /\ tapping_key' = r /\ waiting_buffer' = <<>>
  BY <1>1, EventType DEF Start, Settled, Event
<1>3. ~Undecided /\ ~Tapped /\ (Released => src = "matrix")
  BY <1>1 DEF Start, Released, Undecided, Tapped, Arrival
<1>4. PICK down \in SUBSET Key :
        Leads(waiting_buffer, down, matrix_prev) /\ Accounts(dev, down, Tapped)
  BY <1>3 DEF RoleInv, Balanced, Handed
<1>5. matrix_prev' \ {K} = down
  <2>1. CASE src = "matrix"
    <3>1. waiting_buffer = <<>>
      BY <1>3, <2>1, ArrivesToggles, <1>1, <1>2
    <3>2. down = matrix_prev
      BY <1>4, <3>1, LeadsEmpty
    <3> QED
      BY <1>1, <1>2, <2>1, <3>2, ArrivesToggles DEF Toggled
  <2>2. CASE src = "buffer"
    <3>1. /\ tapping_key = NONE /\ waiting_buffer = <<Event(K, TRUE)>>
          /\ matrix_prev' = matrix_prev
      BY <1>1, <1>2, <1>3, <2>2, ArrivesToggles DEF Start, Arrival
    <3>2. waiting_buffer # <<>> /\ Head(waiting_buffer) = r /\ Tail(waiting_buffer) = <<>>
      BY <1>2, <3>1
    <3>3. /\ r.pressed <=> r.key \notin down
          /\ Leads(<<>>, Toggled(down, r), matrix_prev)
      BY <1>1, <1>4, <3>2, LeadsTail
    <3>4. Toggled(down, r) \in SUBSET Key
      BY <1>2 DEF Toggled
    <3>5. Toggled(down, r) = matrix_prev
      BY <3>3, <3>4, LeadsEmpty
    <3> QED
      BY <1>2, <3>1, <3>3, <3>5 DEF Toggled
  <2> QED
    BY <1>1, <2>1, <2>2
<1>6. Undecided' /\ Tapped' = FALSE /\ tapping_key' # NONE
  <2>1. Undecided' /\ tapping_key' # NONE
    BY <1>2 DEF Undecided
  <2>2. r.count = 0
    BY <1>2
  <2>3. ~(r.count > 0)
    BY ONLY <2>2
  <2> QED
    BY <1>2, <2>1, <2>3 DEF Tapped
<1>7. Accounts(dev', down, Tapped')
  <2>1. Tapped = FALSE
    BY <1>3 DEF Tapped
  <2> QED
    BY <1>2, <1>4, <1>6, <2>1
<1>8. Leads(waiting_buffer', down, matrix_prev' \ {K})
  BY <1>2, <1>5, LeadsEmpty
<1> QED
  BY <1>6, <1>7, <1>8, BalancedBy

(* It goes down once more after a tap, and repeats it.                     *)
LEMMA RetapBalances ==
  ASSUME FAST_SCAN, NEW K \in Key, OneDualRoleKey(K), HoldTapOnly, ~STRICT_LAYER_RELEASE,
         RoleInv(K), NEW src, NEW r, Arrives(src, r), Retap(K, src, r)
  PROVE  Balanced(K)'
<1>1. /\ waiting_buffer \in Seq(Record) /\ dev \in Synced /\ dev.oneshot_layer.state = {}
      /\ matrix_prev \in SUBSET Key /\ matrix_prev' \in SUBSET Key
      /\ NONE \notin Record /\ K # NO_KEY /\ OneKeyShape(K)
  BY RoleFacts
<1>2. /\ src = "matrix" /\ r.key = K /\ r.pressed /\ waiting_buffer' = <<>>
      /\ ~Undecided /\ ~Tapped /\ waiting_buffer = <<>> /\ K \notin matrix_prev
  BY <1>1, EventType DEF Retap, Settled, Released, Undecided, Tapped, OneKeyShape
<1>3. PICK tap \in Record :
        /\ tap.key = K /\ tap.pressed /\ tap.count > 0
        /\ dev' = process_record(dev, tap).dev /\ tapping_key' = tap
  BY DEF Retap
<1>4. Leads(<<>>, matrix_prev, matrix_prev) /\ Accounts(dev, matrix_prev, FALSE)
  <2>1. PICK down \in SUBSET Key :
          Leads(waiting_buffer, down, matrix_prev) /\ Accounts(dev, down, Tapped)
    BY <1>2 DEF RoleInv, Balanced, Handed
  <2>2. down = matrix_prev
    BY <1>2, <2>1, LeadsEmpty
  <2>3. Tapped = FALSE
    BY <1>2 DEF Tapped
  <2> QED
    BY <1>2, <2>1, <2>2, <2>3
<1>5. Toggled(matrix_prev, tap) = matrix_prev'
  BY <1>1, <1>2, <1>3, ArrivesToggles DEF Toggled
<1>6. Accounts(process_record(dev, tap).dev, Toggled(matrix_prev, tap), TRUE)
  <2>1. TRUE = (tap.count > 0) /\ (tap.pressed <=> tap.key \notin matrix_prev)
    BY <1>2, <1>3
  <2> QED
    BY <1>1, <1>2, <1>3, <1>4, <2>1, RecordKeepsRoles
<1>7. ~Undecided' /\ Tapped' = TRUE /\ tapping_key' # NONE
  <2>1. tap.count # 0 /\ tap # NONE
    BY <1>1, <1>3
  <2> QED
    BY <1>3, <2>1 DEF Undecided, Tapped
<1>8. Leads(waiting_buffer', matrix_prev', matrix_prev')
  BY <1>1, <1>2, LeadsEmpty
<1> QED
  BY <1>1, <1>3, <1>5, <1>6, <1>7, <1>8, BalancedBy

(* It comes up after a tap: the last thing that was waiting.               *)
LEMMA UntapBalances ==
  ASSUME FAST_SCAN, NEW K \in Key, OneDualRoleKey(K), HoldTapOnly, ~STRICT_LAYER_RELEASE,
         RoleInv(K), NEW src, NEW r, Arrives(src, r), Untap(K, r)
  PROVE  Balanced(K)'
<1>1. /\ waiting_buffer \in Seq(Record) /\ dev \in Synced /\ dev.oneshot_layer.state = {}
      /\ matrix_prev \in SUBSET Key /\ matrix_prev' \in SUBSET Key
      /\ NONE \notin Record /\ K # NO_KEY /\ OneKeyShape(K)
      /\ src \in {"matrix", "buffer"} /\ Arrival(K, src, r)
  BY RoleFacts
<1>2. /\ Tapped /\ ~Undecided /\ r.key = K /\ ~r.pressed /\ waiting_buffer' = <<>>
  <2>1. Tapped /\ r.key = K /\ ~r.pressed /\ waiting_buffer' = <<>>
    BY DEF Untap, Settled
  <2>2. ~Undecided
    BY <2>1 DEF Tapped, Undecided
  <2> QED
    BY <2>1, <2>2
<1>3. PICK q \in Record :
        /\ q.key = K /\ ~q.pressed /\ q.count > 0
        /\ dev' = process_record(dev, q).dev /\ tapping_key' \in {NONE, q}
  BY DEF Untap
<1>4. PICK down \in SUBSET Key :
        Leads(waiting_buffer, down, matrix_prev) /\ Accounts(dev, down, TRUE)
  <2>1. Tapped = TRUE
    BY <1>2 DEF Tapped
  <2> QED
    BY <1>2, <2>1 DEF RoleInv, Balanced, Handed
<1>5. K \in down /\ down \ {K} = matrix_prev'
  <2>1. CASE src = "matrix"
    <3>1. waiting_buffer = <<>>
      BY <1>1, <1>2, <2>1, ArrivesToggles
    <3>2. down = matrix_prev
      BY <1>4, <3>1, LeadsEmpty
    <3> QED
      BY <1>1, <1>2, <2>1, <3>2, ArrivesToggles DEF Toggled
  <2>2. CASE src = "buffer"
    <3>1. waiting_buffer # <<>> /\ r = Head(waiting_buffer) /\ matrix_prev' = matrix_prev
      BY <1>1, <2>2, ArrivesToggles DEF Arrival
    <3>2. /\ r.pressed <=> r.key \notin down
          /\ Leads(Tail(waiting_buffer), Toggled(down, r), matrix_prev)
      BY <1>1, <1>4, <3>1, LeadsTail
    <3>3. Tail(waiting_buffer) = <<>>
      BY <1>1, <1>2, <3>1, TailNoneOf DEF OneKeyShape
    <3>4. Toggled(down, r) \in SUBSET Key
      BY <1>2 DEF Toggled
    <3>5. Toggled(down, r) = matrix_prev
      BY <3>2, <3>3, <3>4, LeadsEmpty
    <3> QED
      BY <1>2, <3>1, <3>2, <3>5 DEF Toggled
  <2> QED
    BY <1>1, <2>1, <2>2
<1>6. Accounts(process_record(dev, q).dev, Toggled(down, q), FALSE)
  <2>1. TRUE = (q.count > 0) /\ (q.pressed <=> q.key \notin down)
    BY <1>3, <1>5
  <2> QED
    BY <1>1, <1>3, <1>4, <2>1, RecordKeepsRoles
<1>7. Toggled(down, q) = matrix_prev'
  BY <1>3, <1>5 DEF Toggled
<1>8. ~Undecided' /\ Tapped' = FALSE
  BY <1>3 DEF Undecided, Tapped
<1>9. Leads(waiting_buffer', matrix_prev', matrix_prev') /\ Uncounted(K, waiting_buffer')
  <2>1. Leads(<<>>, matrix_prev', matrix_prev') /\ Uncounted(K, <<>>)
    BY <1>1, LeadsEmpty DEF Uncounted
  <2> QED
    BY <1>2, <2>1
<1> QED
  BY <1>1, <1>3, <1>6, <1>7, <1>8, <1>9, BalancedBy

(* Every move keeps the account.                                           *)
LEMMA MoveKeepsBalance ==
  ASSUME FAST_SCAN, NEW K \in Key, OneDualRoleKey(K), HoldTapOnly, ~STRICT_LAYER_RELEASE,
         RoleInv(K), NEW src, NEW r, Arrives(src, r), Move(K, src, r)
  PROVE  Balanced(K)'
BY PassOnBalances, WaitBalances, HoldBalances, ExpireBalances, StartBalances,
   RetapBalances, TapBalances, UntapBalances DEF Move

(* So the account is an invariant,                                         *)
LEMMA NextRole ==
  ASSUME FAST_SCAN, NEW K \in Key, OneDualRoleKey(K), HoldTapOnly, ~STRICT_LAYER_RELEASE
  PROVE  RoleInv(K) /\ [Next]_vars => RoleInv(K)'
<1> SUFFICES ASSUME RoleInv(K), [Next]_vars PROVE RoleInv(K)'
  OBVIOUS
<1>1. OneKeyInv(K) /\ OneKeyInv(K)'
  BY NextOneKey DEF RoleInv
<1>2. CASE Next /\ ~Clock
  <2>1. PICK src, r : Arrives(src, r) /\ Move(K, src, r)
    BY <1>1, <1>2, StepMoves
  <2>2. Balanced(K)'
    BY <2>1, MoveKeepsBalance
  <2> QED
    BY <1>1, <2>2 DEF RoleInv
<1>3. CASE Clock
  <2> DEFINE aged == [i \in DOMAIN waiting_buffer |-> older(waiting_buffer[i])]
  <2>1. /\ waiting_buffer \in Seq(Record) /\ tapping_key \in Record \cup {NONE}
        /\ NONE \notin Record
        /\ matrix_prev' = matrix_prev /\ dev' = dev /\ waiting_buffer' = aged
        /\ tapping_key' = IF tapping_key = NONE THEN NONE ELSE older(tapping_key)
    BY <1>1, <1>3, TappingAssumption DEF Clock, OneKeyInv, IInv, TypeOK
  <2>2. /\ DOMAIN waiting_buffer = 1 .. Len(waiting_buffer) /\ Len(waiting_buffer) \in Nat
        /\ \A i \in 1 .. Len(waiting_buffer) : waiting_buffer[i] \in Record
    BY <2>1, LenProperties, ElementOfSeq
  <2>3. ASSUME NEW q \in Record
        PROVE  /\ older(q) \in Record /\ older(q).key = q.key
               /\ older(q).pressed = q.pressed /\ older(q).count = q.count
    BY OlderType DEF older, Record
  <2>4. aged \in Seq(Record) /\ Len(aged) = Len(waiting_buffer)
    <3>1. aged \in [1 .. Len(waiting_buffer) -> Record]
      BY <2>2, <2>3
    <3> HIDE DEF aged
    <3> QED
      BY <2>2, <3>1
  <2>5. \A i \in 1 .. Len(waiting_buffer) :
          /\ aged[i].key = waiting_buffer[i].key /\ aged[i].pressed = waiting_buffer[i].pressed
          /\ aged[i].count = waiting_buffer[i].count
    BY <2>2, <2>3
  <2>6. DOMAIN aged = DOMAIN waiting_buffer
    OBVIOUS
  <2> HIDE DEF aged
  <2>7. PICK down \in SUBSET Key :
          Leads(waiting_buffer, down, Handed(K)) /\ Accounts(dev, down, Tapped)
    BY DEF RoleInv, Balanced
  <2>8. Leads(aged, down, Handed(K))
    BY <2>1, <2>4, <2>5, <2>7, LeadsSame
  <2>9. Uncounted(K, waiting_buffer) => Uncounted(K, aged)
    BY <2>2, <2>5, <2>6 DEF Uncounted
  <2>10. /\ Undecided' = Undecided /\ Tapped' = Tapped
         /\ tapping_key' = NONE <=> tapping_key = NONE
    <3>1. CASE tapping_key = NONE
      BY <2>1, <3>1 DEF Undecided, Tapped
    <3>2. CASE tapping_key \in Record
      <4>1. /\ tapping_key' # NONE /\ tapping_key'.pressed = tapping_key.pressed
            /\ tapping_key'.count = tapping_key.count /\ tapping_key # NONE
        BY <2>1, <2>3, <3>2
      <4> QED
        BY <4>1 DEF Undecided, Tapped
    <3> QED
      BY <2>1, <3>1, <3>2
  <2>11. Handed(K) = IF Undecided' THEN matrix_prev' \ {K} ELSE matrix_prev'
    BY <2>1, <2>10 DEF Handed
  <2>12. Balanced(K)'
    <3>1. tapping_key' = NONE => Uncounted(K, waiting_buffer')
      BY <2>1, <2>9, <2>10 DEF RoleInv, Balanced
    <3> QED
      BY <2>1, <2>7, <2>8, <2>10, <2>11, <3>1, BalancedBy
  <2> QED
    BY <1>1, <2>12 DEF RoleInv
<1>4. CASE UNCHANGED vars
  <2>1. Balanced(K)'
    BY <1>4 DEF vars, RoleInv, Balanced, Handed, Undecided, Tapped
  <2> QED
    BY <1>1, <2>1 DEF RoleInv
<1> QED
  BY <1>2, <1>3, <1>4

(* from the start.                                                         *)
LEMMA InitRole ==
  ASSUME NEW K \in Key
  PROVE  Init => RoleInv(K)
<1> SUFFICES ASSUME Init PROVE RoleInv(K)
  OBVIOUS
<1>1. OneKeyInv(K)
  BY InitOneKey
<1>2. /\ waiting_buffer = <<>> /\ matrix_prev = {} /\ tapping_key = NONE
      /\ dev.keys = {} /\ dev.real_mods = {} /\ dev.layer_state = {}
  BY DEF Init, InitDev
<1>3. Leads(waiting_buffer, {}, Handed(K)) /\ Uncounted(K, waiting_buffer)
  BY <1>2, LeadsEmpty DEF Handed, Undecided, Uncounted
<1>4. Accounts(dev, {}, Tapped)
  BY <1>2 DEF Accounts
<1> QED
  BY <1>1, <1>3, <1>4 DEF RoleInv, Balanced

(* What a key of the account can have registered is one of its actions.    *)
LEMMA RoleIsAnAction ==
  ASSUME NEW d \in Dev, NEW k \in Key, NEW t
  PROVE  \E a \in ActionsOf(k) :
           /\ a \in KeyAction
           /\ CodesOf(RoleOf(d, k, t)) \subseteq {a.code, KC_NO}
           /\ ModsOf(RoleOf(d, k, t)) \subseteq a.mods \cup {a.code, KC_NO}
           /\ \A l \in LayersOf(RoleOf(d, k, t)) : a.kind \in Momentary /\ a.layer = l
<1> DEFINE a == PressedAction(d, k)
<1>1. a \in ActionsOf(k) /\ a \in KeyAction
  <2>1. d.source_layers_cache[k] \in Layer
    BY DEF Dev
  <2> QED
    BY <2>1, ActionAssumption DEF PressedAction, ActionsOf
<1> HIDE DEF a
<1>2. /\ CodesOf(Role(a, t)) \subseteq {a.code, KC_NO}
      /\ ModsOf(Role(a, t)) \subseteq a.mods \cup {a.code, KC_NO}
      /\ \A l \in LayersOf(Role(a, t)) : a.kind \in Momentary /\ a.layer = l
  BY <1>1 DEF Role, KeyAction, CodesOf, ModsOf, LayersOf, Momentary, are_real_mods
<1> QED
  BY <1>1, <1>2 DEF RoleOf, a

(* What is accounted for is held.                                          *)
LEMMA BalancedIsHeld ==
  ASSUME NEW K \in Key, RoleInv(K)
  PROVE  /\ EveryCodeIsHeld /\ EveryModIsHeld
         /\ OnlyHeldLayers /\ BufferHasRoom => EveryMomentaryLayerIsHeld
<1>1. /\ waiting_buffer \in Seq(Record) /\ dev \in Dev /\ KC_NO \notin KeyCode \cup Mod
      /\ dev.keys \subseteq KeyCode /\ dev.real_mods \subseteq Mod
  BY ActionAssumption DEF RoleInv, OneKeyInv, IInv, TypeOK, Dev
<1>2. PICK down \in SUBSET Key :
        Leads(waiting_buffer, down, Handed(K)) /\ Accounts(dev, down, Tapped)
  BY DEF RoleInv, Balanced
<1>3. \A k \in down : k \in Key /\ Holding(k)
  <2> SUFFICES ASSUME NEW k \in down PROVE Holding(k)
    OBVIOUS
  <2>1. CASE k \in Handed(K)
    BY <2>1 DEF Handed, Holding
  <2>2. CASE k \notin Handed(K)
    BY <1>1, <1>2, <2>2, LeadsRelease DEF Holding
  <2> QED
    BY <2>1, <2>2
<1>4. \A k \in down : \E a \in ActionsOf(k) :
        /\ CodesOf(RoleOf(dev, k, Tapped)) \subseteq {a.code, KC_NO}
        /\ ModsOf(RoleOf(dev, k, Tapped)) \subseteq a.mods \cup {a.code, KC_NO}
        /\ \A l \in LayersOf(RoleOf(dev, k, Tapped)) : a.kind \in Momentary /\ a.layer = l
  BY <1>1, <1>3, RoleIsAnAction
<1>5. EveryCodeIsHeld
  <2> SUFFICES ASSUME NEW c \in dev.keys
               PROVE  \E k \in Key : Holding(k) /\ \E a \in ActionsOf(k) : a.code = c
    BY DEF EveryCodeIsHeld
  <2>1. PICK k \in down : c \in CodesOf(RoleOf(dev, k, Tapped))
    BY <1>2 DEF Accounts
  <2>2. PICK a \in ActionsOf(k) : CodesOf(RoleOf(dev, k, Tapped)) \subseteq {a.code, KC_NO}
    BY <1>4
  <2>3. a.code = c
    BY <1>1, <2>1, <2>2
  <2> QED
    BY <1>3, <2>2, <2>3
<1>6. EveryModIsHeld
  <2> SUFFICES ASSUME NEW m \in dev.real_mods
               PROVE  \E k \in Key :
                        Holding(k) /\ \E a \in ActionsOf(k) : m \in a.mods \cup {a.code}
    BY DEF EveryModIsHeld
  <2>1. PICK k \in down : m \in ModsOf(RoleOf(dev, k, Tapped))
    BY <1>2 DEF Accounts
  <2>2. PICK a \in ActionsOf(k) :
          ModsOf(RoleOf(dev, k, Tapped)) \subseteq a.mods \cup {a.code, KC_NO}
    BY <1>4
  <2>3. m \in a.mods \cup {a.code}
    BY <1>1, <2>1, <2>2
  <2> QED
    BY <1>3, <2>2, <2>3
<1>7. ASSUME OnlyHeldLayers, BufferHasRoom PROVE EveryMomentaryLayerIsHeld
  <2> SUFFICES ASSUME NEW l \in dev.layer_state
               PROVE  \E k \in Key :
                        Holding(k) /\ \E a \in ActionsOf(k) : a.kind \in Momentary /\ a.layer = l
    BY DEF EveryMomentaryLayerIsHeld
  <2>1. PICK k \in down : l \in LayersOf(RoleOf(dev, k, Tapped))
    BY <1>2, <1>7 DEF Accounts
  <2>2. PICK a \in ActionsOf(k) : a.kind \in Momentary /\ a.layer = l
    BY <1>4, <2>1
  <2> QED
    BY <1>3, <2>2
<1> QED
  BY <1>5, <1>6, <1>7

(* On a keyboard with one dual-role key no key code of the report outlives *)
(* the keys that were pressed for it: whatever the key is decided to be,   *)
(* with whatever events waiting before its release, and whether or not the *)
(* waiting buffer overflows, what its press registers its release takes    *)
(* away.                                                                   *)
THEOREM NothingIsStuckByOneDualRoleKey ==
  ASSUME NEW K \in Key, OneDualRoleKey(K), HoldTapOnly, FAST_SCAN, ~STRICT_LAYER_RELEASE
  PROVE  Spec => []EveryCodeIsHeld
<1>1. RoleInv(K) => EveryCodeIsHeld
  BY BalancedIsHeld
<1>2. RoleInv(K) /\ [Next]_vars => RoleInv(K)'
  BY NextRole
<1> QED
  BY <1>1, <1>2, InitRole, PTL DEF Spec

(* Nor does a modifier: the one a mod-tap key holds goes with the key, and *)
(* is not left behind when the key was a tap.                              *)
THEOREM NoModIsStuckByOneDualRoleKey ==
  ASSUME NEW K \in Key, OneDualRoleKey(K), HoldTapOnly, FAST_SCAN, ~STRICT_LAYER_RELEASE
  PROVE  Spec => []EveryModIsHeld
<1>1. RoleInv(K) => EveryModIsHeld
  BY BalancedIsHeld
<1>2. RoleInv(K) /\ [Next]_vars => RoleInv(K)'
  BY NextRole
<1> QED
  BY <1>1, <1>2, InitRole, PTL DEF Spec

(* Nobody is locked into the layer of a layer-tap key either, if the       *)
(* keymap's other layer keys are MO and LM.  (The buffer must not          *)
(* overflow: clear_keyboard, which the overflow calls, leaves the layers   *)
(* on.)                                                                    *)
THEOREM NobodyIsLockedInByOneDualRoleKey ==
  ASSUME NEW K \in Key, OneDualRoleKey(K), HoldTapOnly, OnlyHeldLayers, BufferHasRoom,
         FAST_SCAN, ~STRICT_LAYER_RELEASE
  PROVE  Spec => []EveryMomentaryLayerIsHeld
<1>1. RoleInv(K) => EveryMomentaryLayerIsHeld
  BY BalancedIsHeld
<1>2. RoleInv(K) /\ [Next]_vars => RoleInv(K)'
  BY NextRole
<1> QED
  BY <1>1, <1>2, InitRole, PTL DEF Spec
=============================================================================
