-------------------------- MODULE TripleBufferProofs --------------------------
(***************************************************************************)
(* The triple buffer is correct for every object type: its type invariant, *)
(* who owns which slot, what the slots hold, and that it implements the    *)
(* mailbox.                                                                *)
(***************************************************************************)
EXTENDS TripleBuffer, TLAPS

(* Every field and local keeps the type of its C counterpart.              *)
THEOREM TypeIsInvariant == Spec => []TypeOK
<1>1. Init => TypeOK
  <2> SUFFICES ASSUME Init PROVE TypeOK
    OBVIOUS
  <2>1. buffer \in [Slot -> [Cell -> Value]] /\ w_object \in [Cell -> Value]
    BY TripleBufferAssumption DEF Init
  <2>2. 0 \in Slot /\ 1 \in Slot /\ 2 \in Slot
    BY DEF Slot
  <2> QED
    BY <2>1, <2>2 DEF Init, TypeOK
<1>2. TypeOK /\ [Next]_vars => TypeOK'
  <2> SUFFICES ASSUME TypeOK, [Next]_vars PROVE TypeOK'
    OBVIOUS
  <2> USE TripleBufferAssumption DEF TypeOK, state, writer, reader
  <2>1. ASSUME NEW o \in Object, triple_buffer_begin_write(o) PROVE TypeOK'
    BY <2>1 DEF triple_buffer_begin_write
  <2>2. ASSUME NEW c \in Cell, WriteCell(c) PROVE TypeOK'
    BY <2>2 DEF WriteCell
  <2>3. CASE end_write_lock
    BY <2>3 DEF end_write_lock
  <2>4. CASE end_write_set_shared
    BY <2>4 DEF end_write_set_shared
  <2>5. CASE end_write_set_write
    BY <2>5 DEF end_write_set_write
  <2>6. CASE end_write_set_available
    BY <2>6 DEF end_write_set_available
  <2>7. CASE read_lock
    BY <2>7 DEF read_lock
  <2>8. CASE read_nothing
    BY <2>8 DEF read_nothing
  <2>9. CASE read_available
    BY <2>9 DEF read_available
  <2>10. CASE read_set_read
    BY <2>10 DEF read_set_read
  <2>11. CASE read_set_shared
    BY <2>11 DEF read_set_shared
  <2>12. CASE read_clear_available
    BY <2>12 DEF read_clear_available
  <2>13. CASE UNCHANGED vars
    BY <2>13 DEF vars
  <2> QED
    BY <2>1, <2>2, <2>3, <2>4, <2>5, <2>6, <2>7, <2>8, <2>9, <2>10, <2>11, <2>12,
       <2>13 DEF Next, Write, Read
<1> QED
  BY <1>1, <1>2, PTL DEF Spec

(* At every step of the two exchanges the slots are owned as SlotsAreOwned *)
(* says: writer and reader never hold the same one.                        *)
THEOREM SlotsAreOwnedIsInvariant == Spec => []SlotsAreOwned
<1>1. Init => SlotsAreOwned
  BY DEF Init, SlotsAreOwned, LockHeld, Distinct, WriterSlots, ReaderSlots
<1>2. TypeOK /\ SlotsAreOwned /\ [Next]_vars => SlotsAreOwned'
  <2> SUFFICES ASSUME TypeOK, SlotsAreOwned, [Next]_vars PROVE SlotsAreOwned'
    OBVIOUS
  <2> USE DEF TypeOK, SlotsAreOwned, LockHeld, Distinct, WriterSlots, ReaderSlots,
              state, writer, reader
  <2>1. ASSUME NEW o \in Object, triple_buffer_begin_write(o) PROVE SlotsAreOwned'
    BY <2>1 DEF triple_buffer_begin_write
  <2>2. ASSUME NEW c \in Cell, WriteCell(c) PROVE SlotsAreOwned'
    BY <2>2 DEF WriteCell
  <2>3. CASE end_write_lock
    BY <2>3 DEF end_write_lock
  <2>4. CASE end_write_set_shared
    BY <2>4 DEF end_write_set_shared
  <2>5. CASE end_write_set_write
    BY <2>5 DEF end_write_set_write
  <2>6. CASE end_write_set_available
    BY <2>6 DEF end_write_set_available
  <2>7. CASE read_lock
    BY <2>7 DEF read_lock
  <2>8. CASE read_nothing
    BY <2>8 DEF read_nothing
  <2>9. CASE read_available
    BY <2>9 DEF read_available
  <2>10. CASE read_set_read
    BY <2>10 DEF read_set_read
  <2>11. CASE read_set_shared
    BY <2>11 DEF read_set_shared
  <2>12. CASE read_clear_available
    BY <2>12 DEF read_clear_available
  <2>13. CASE UNCHANGED vars
    BY <2>13 DEF vars
  <2> QED
    BY <2>1, <2>2, <2>3, <2>4, <2>5, <2>6, <2>7, <2>8, <2>9, <2>10, <2>11, <2>12,
       <2>13 DEF Next, Write, Read
<1> QED
  BY <1>1, <1>2, TypeIsInvariant, PTL DEF Spec

(* No object is ever torn: what the reader can be given is one of the      *)
(* objects the writer wrote, as a whole.                                   *)
THEOREM ObjectsAreWholeIsInvariant == Spec => []ObjectsAreWhole
<1>1. Init => ObjectsAreWhole
  BY DEF Init, ObjectsAreWhole, box
<1>2. TypeOK /\ SlotsAreOwned /\ ObjectsAreWhole /\ [Next]_vars => ObjectsAreWhole'
  <2> SUFFICES ASSUME TypeOK, SlotsAreOwned, ObjectsAreWhole, [Next]_vars
               PROVE ObjectsAreWhole'
    OBVIOUS
  <2> USE TripleBufferAssumption
      DEF TypeOK, SlotsAreOwned, LockHeld, Distinct, WriterSlots, ReaderSlots,
          ObjectsAreWhole, box, state, writer, reader
  <2>1. ASSUME NEW o \in Object, triple_buffer_begin_write(o) PROVE ObjectsAreWhole'
    BY <2>1 DEF triple_buffer_begin_write
  <2>2. ASSUME NEW c \in Cell, WriteCell(c) PROVE ObjectsAreWhole'
    BY <2>2 DEF WriteCell
  <2>3. CASE end_write_lock
    BY <2>3 DEF end_write_lock
  <2>4. CASE end_write_set_shared
    BY <2>4 DEF end_write_set_shared
  <2>5. CASE end_write_set_write
    BY <2>5 DEF end_write_set_write
  <2>6. CASE end_write_set_available
    BY <2>6 DEF end_write_set_available
  <2>7. CASE read_lock
    BY <2>7 DEF read_lock
  <2>8. CASE read_nothing
    BY <2>8 DEF read_nothing
  <2>9. CASE read_available
    BY <2>9 DEF read_available
  <2>10. CASE read_set_read
    BY <2>10 DEF read_set_read
  <2>11. CASE read_set_shared
    BY <2>11 DEF read_set_shared
  <2>12. CASE read_clear_available
    BY <2>12 DEF read_clear_available
  <2>13. CASE UNCHANGED vars
    BY <2>13 DEF vars
  <2> QED
    BY <2>1, <2>2, <2>3, <2>4, <2>5, <2>6, <2>7, <2>8, <2>9, <2>10, <2>11, <2>12,
       <2>13 DEF Next, Write, Read
<1> QED
  BY <1>1, <1>2, TypeIsInvariant, SlotsAreOwnedIsInvariant, PTL DEF Spec

(* The slot the reader was given is not written into: only WriteCell       *)
(* changes a slot, and the writer's is never the reader's.                 *)
THEOREM SlotIsStable == Spec => ReaderSlotIsStable
<1> DEFINE Stable == read_index' = read_index
                       => buffer'[read_index] = buffer[read_index]
<1>1. TypeOK /\ SlotsAreOwned /\ [Next]_vars => Stable
  <2> SUFFICES ASSUME TypeOK, SlotsAreOwned, [Next]_vars PROVE Stable
    OBVIOUS
  <2>1. ASSUME NEW c \in Cell, WriteCell(c) PROVE Stable
    <3>1. w_ptr = write_index /\ w_pc = "write"
      BY <2>1 DEF WriteCell, SlotsAreOwned, WriterSlots
    <3>2. write_index # read_index
      BY <3>1 DEF SlotsAreOwned, Distinct, ReaderSlots
    <3> QED
      BY <2>1, <3>1, <3>2 DEF WriteCell, TypeOK
  <2>2. CASE buffer' = buffer
    BY <2>2
  <2>3. [Next]_vars => (\E c \in Cell : WriteCell(c)) \/ buffer' = buffer
    BY DEF Next, Write, Read, vars, triple_buffer_begin_write, end_write_lock,
           end_write_set_shared, end_write_set_write, end_write_set_available,
           read_lock, read_nothing, read_available, read_set_read,
           read_set_shared, read_clear_available
  <2> QED
    BY <2>1, <2>2, <2>3
<1>2. TypeOK /\ SlotsAreOwned /\ [Next]_vars
        => [read_index' = read_index => buffer'[read_index] = buffer[read_index]]_vars
  BY <1>1
<1> QED
  BY <1>2, TypeIsInvariant, SlotsAreOwnedIsInvariant, PTL DEF Spec, ReaderSlotIsStable

(* The code implements the mailbox: reads and writes of the one object     *)
(* happen as if each were a single step.                                   *)
THEOREM Implementation == Spec => ImplementsMailbox
<1>1. Init => Abstract!Init
  BY DEF Init, Abstract!Init, box, answer
<1>2. /\ TypeOK /\ SlotsAreOwned /\ ObjectsAreWhole /\ [Next]_vars
      => [Abstract!Next]_<<box, answer>>
  <2> SUFFICES ASSUME TypeOK, SlotsAreOwned, ObjectsAreWhole, [Next]_vars
               PROVE [Abstract!Next]_<<box, answer>>
    OBVIOUS
  <2> USE TripleBufferAssumption
      DEF TypeOK, SlotsAreOwned, LockHeld, Distinct, WriterSlots, ReaderSlots,
          ObjectsAreWhole, box, answer, state, writer, reader,
          Abstract!Next, Abstract!Take, Abstract!TakeNothing, Abstract!Publish
  <2>1. ASSUME NEW o \in Object, triple_buffer_begin_write(o)
        PROVE [Abstract!Next]_<<box, answer>>
    BY <2>1 DEF triple_buffer_begin_write
  <2>2. ASSUME NEW c \in Cell, WriteCell(c)
        PROVE [Abstract!Next]_<<box, answer>>
    BY <2>2 DEF WriteCell
  <2>3. CASE end_write_lock
    BY <2>3 DEF end_write_lock
  <2>4. CASE end_write_set_shared
    BY <2>4 DEF end_write_set_shared
  <2>5. CASE end_write_set_write
    BY <2>5 DEF end_write_set_write
  <2>6. CASE end_write_set_available
    BY <2>6 DEF end_write_set_available
  <2>7. CASE read_lock
    BY <2>7 DEF read_lock
  <2>8. CASE read_nothing
    BY <2>8 DEF read_nothing
  <2>9. CASE read_available
    BY <2>9 DEF read_available
  <2>10. CASE read_set_read
    BY <2>10 DEF read_set_read
  <2>11. CASE read_set_shared
    BY <2>11 DEF read_set_shared
  <2>12. CASE read_clear_available
    <3>1. w_pc \notin {"set_write", "set_available"}
      BY <2>12 DEF read_clear_available
    <3>2. box = buffer[r_shared] /\ box # EMPTY
      BY <2>12, <3>1 DEF read_clear_available
    <3>3. box' = EMPTY
      BY <2>12 DEF read_clear_available
    <3>4. answer' = buffer[r_shared]
      BY <2>12 DEF read_clear_available, Slot
    <3> QED
      BY <3>2, <3>3, <3>4 DEF Abstract!Next, Abstract!Take
  <2>13. CASE UNCHANGED vars
    BY <2>13 DEF vars
  <2> QED
    BY <2>1, <2>2, <2>3, <2>4, <2>5, <2>6, <2>7, <2>8, <2>9, <2>10, <2>11, <2>12,
       <2>13 DEF Next, Write, Read
<1> QED
  BY <1>1, <1>2, TypeIsInvariant, SlotsAreOwnedIsInvariant, ObjectsAreWholeIsInvariant,
     PTL DEF Spec, ImplementsMailbox, Abstract!Spec
=============================================================================
