----------------------------- MODULE TripleBuffer -----------------------------
(***************************************************************************)
(* triple_buffered_object.c: one writer and one reader thread share three  *)
(* slots.  `state` packs the slot of the writer, of the reader, the shared *)
(* one and the data-available bit into a byte; the indices move under      *)
(* serial_link_lock, the slots themselves are written and read without it. *)
(*                                                                         *)
(* Every assignment of the code is a step.  The lock keeps out the other   *)
(* critical section only, which allows more interleavings than chSysLock,  *)
(* which stops the other thread altogether.                                *)
(***************************************************************************)
EXTENDS Naturals

CONSTANTS
  Cell,      \* the parts of an object that are written one after the other
  Value,     \* what a cell holds
  Object,    \* the objects the writer writes
  Zero,      \* the contents of static memory
  NULL,
  EMPTY      \* the mailbox without an object

ASSUME TripleBufferAssumption ==
  /\ Object \subseteq [Cell -> Value]
  /\ Zero \in [Cell -> Value]
  /\ NULL \notin [Cell -> Value] \cup 0 .. 2
  /\ EMPTY \notin [Cell -> Value]

VARIABLES
  read_index, write_index, shared_index, data_available,   \* fields of state
  buffer,                   \* the three slots
  lock,                     \* who is inside serial_link_lock
  w_pc, w_object, w_ptr, w_todo, w_shared, w_write,        \* the writer's locals
  r_pc, r_ptr, r_shared, r_read                            \* the reader's locals

state  == <<read_index, write_index, shared_index, data_available>>
writer == <<w_pc, w_object, w_ptr, w_todo, w_shared, w_write>>
reader == <<r_pc, r_ptr, r_shared, r_read>>
vars   == <<state, buffer, lock, writer, reader>>

Slot == 0 .. 2

(* triple_buffer_init                                                      *)
Init ==
  /\ write_index = 0 /\ read_index = 1 /\ shared_index = 2
  /\ data_available = FALSE
  /\ buffer = [i \in Slot |-> Zero]
  /\ lock = "free"
  /\ w_pc = "idle" /\ w_object = Zero /\ w_ptr = 0 /\ w_todo = {}
  /\ w_shared = 0 /\ w_write = 0
  /\ r_pc = "idle" /\ r_ptr = NULL /\ r_shared = 0 /\ r_read = 0

-----------------------------------------------------------------------------
(* The writer: begin_write, the assignments through the pointer, end_write *)

(* Mutant: the writer goes on in the shared slot.                          *)
begin_write_shared(o) ==
  /\ w_pc = "idle"
  /\ w_pc' = "write" /\ w_object' = o /\ w_todo' = Cell
  /\ w_ptr' = shared_index
  /\ UNCHANGED <<state, buffer, lock, w_shared, w_write, reader>>

triple_buffer_begin_write(o) ==
  /\ w_pc = "idle"
  /\ w_pc' = "write" /\ w_object' = o /\ w_todo' = Cell
  /\ w_ptr' = write_index
  /\ UNCHANGED <<state, buffer, lock, w_shared, w_write, reader>>

WriteCell(c) ==
  /\ w_pc = "write" /\ c \in w_todo
  /\ buffer' = [buffer EXCEPT ![w_ptr][c] = w_object[c]]
  /\ w_todo' = w_todo \ {c}
  /\ UNCHANGED <<state, lock, w_pc, w_object, w_ptr, w_shared, w_write, reader>>

(* Mutant: end_write does not take the lock.                               *)
end_write_unlocked ==
  /\ w_pc = "write" /\ w_todo = {}
  /\ w_pc' = "set_shared"
  /\ w_shared' = shared_index /\ w_write' = write_index
  /\ UNCHANGED <<state, buffer, lock, w_object, w_ptr, w_todo, reader>>

end_write_lock ==
  /\ w_pc = "write" /\ w_todo = {}
  /\ lock = "free" /\ lock' = "writer"
  /\ w_pc' = "set_shared"
  /\ w_shared' = shared_index /\ w_write' = write_index
  /\ UNCHANGED <<state, buffer, w_object, w_ptr, w_todo, reader>>

end_write_set_shared ==
  /\ w_pc = "set_shared"
  /\ shared_index' = w_write
  /\ w_pc' = "set_write"
  /\ UNCHANGED <<read_index, write_index, data_available, buffer, lock, w_object,
                 w_ptr, w_todo, w_shared, w_write, reader>>

(* Mutant: the writer keeps its slot.                                      *)
end_write_keep_write ==
  /\ w_pc = "set_write"
  /\ w_pc' = "set_available"
  /\ UNCHANGED <<state, buffer, lock, w_object, w_ptr, w_todo, w_shared, w_write,
                 reader>>

end_write_set_write ==
  /\ w_pc = "set_write"
  /\ write_index' = w_shared
  /\ w_pc' = "set_available"
  /\ UNCHANGED <<read_index, shared_index, data_available, buffer, lock, w_object,
                 w_ptr, w_todo, w_shared, w_write, reader>>

end_write_set_available ==
  /\ w_pc = "set_available"
  /\ data_available' = TRUE
  /\ lock' = "free"
  /\ w_pc' = "idle"
  /\ UNCHANGED <<read_index, write_index, shared_index, buffer, w_object, w_ptr,
                 w_todo, w_shared, w_write, reader>>

-----------------------------------------------------------------------------
(* The reader: triple_buffer_read.  r_ptr is what its last call returned.  *)

read_lock ==
  /\ r_pc = "idle"
  /\ lock = "free" /\ lock' = "reader"
  /\ r_pc' = "test"
  /\ UNCHANGED <<state, buffer, writer, r_ptr, r_shared, r_read>>

read_nothing ==
  /\ r_pc = "test" /\ ~data_available
  /\ r_ptr' = NULL
  /\ lock' = "free" /\ r_pc' = "idle"
  /\ UNCHANGED <<state, buffer, writer, r_shared, r_read>>

read_available ==
  /\ r_pc = "test" /\ data_available
  /\ r_shared' = shared_index /\ r_read' = read_index
  /\ r_pc' = "set_read"
  /\ UNCHANGED <<state, buffer, lock, writer, r_ptr>>

read_set_read ==
  /\ r_pc = "set_read"
  /\ read_index' = r_shared
  /\ r_pc' = "set_shared"
  /\ UNCHANGED <<write_index, shared_index, data_available, buffer, lock, writer,
                 r_ptr, r_shared, r_read>>

read_set_shared ==
  /\ r_pc = "set_shared"
  /\ shared_index' = r_read
  /\ r_pc' = "clear_available"
  /\ UNCHANGED <<read_index, write_index, data_available, buffer, lock, writer,
                 r_ptr, r_shared, r_read>>

(* Mutant: the object stays available after it has been read.              *)
read_keep_available ==
  /\ r_pc = "clear_available"
  /\ lock' = "free" /\ r_pc' = "idle"
  /\ r_ptr' = r_shared
  /\ UNCHANGED <<state, buffer, writer, r_shared, r_read>>

read_clear_available ==
  /\ r_pc = "clear_available"
  /\ data_available' = FALSE
  /\ lock' = "free" /\ r_pc' = "idle"
  /\ r_ptr' = r_shared
  /\ UNCHANGED <<read_index, write_index, shared_index, buffer, writer, r_shared,
                 r_read>>

-----------------------------------------------------------------------------
Write ==
  \/ \E o \in Object : triple_buffer_begin_write(o)
  \/ \E c \in Cell : WriteCell(c)
  \/ end_write_lock
  \/ end_write_set_shared
  \/ end_write_set_write
  \/ end_write_set_available

Read ==
  \/ read_lock
  \/ read_nothing
  \/ read_available
  \/ read_set_read
  \/ read_set_shared
  \/ read_clear_available

Next == Write \/ Read

Spec == Init /\ [][Next]_vars

-----------------------------------------------------------------------------
(* Every field and local has the type of its C counterpart.                *)
TypeOK ==
  /\ {read_index, write_index, shared_index} \subseteq Slot
  /\ data_available \in BOOLEAN
  /\ buffer \in [Slot -> [Cell -> Value]]
  /\ lock \in {"free", "writer", "reader"}
  /\ w_pc \in {"idle", "write", "set_shared", "set_write", "set_available"}
  /\ w_object \in [Cell -> Value]
  /\ {w_ptr, w_shared, w_write} \subseteq Slot
  /\ w_todo \subseteq Cell
  /\ r_pc \in {"idle", "test", "set_read", "set_shared", "clear_available"}
  /\ r_ptr \in Slot \cup {NULL}
  /\ {r_shared, r_read} \subseteq Slot

(* Who may touch which slot, at every step of the two exchanges: the lock  *)
(* is held exactly inside them, and between them no two of the three       *)
(* indices are the same.                                                   *)
LockHeld ==
  /\ lock = "writer" <=> w_pc \in {"set_shared", "set_write", "set_available"}
  /\ lock = "reader" <=> r_pc # "idle"

Distinct == read_index # write_index /\ read_index # shared_index
                                     /\ write_index # shared_index

WriterSlots ==
  /\ w_pc = "write" => w_ptr = write_index
  /\ w_pc = "set_shared" => w_shared = shared_index /\ w_write = write_index
  /\ w_pc = "set_write" =>
       /\ shared_index = w_write /\ write_index = w_write /\ w_shared # w_write
       /\ read_index \notin {w_write, w_shared}
  /\ w_pc = "set_available" => shared_index = w_write /\ write_index = w_shared

ReaderSlots ==
  /\ r_pc \in {"set_read", "set_shared", "clear_available"} => data_available
  /\ r_pc = "set_read" => r_shared = shared_index /\ r_read = read_index
  /\ r_pc = "set_shared" =>
       /\ shared_index = r_shared /\ read_index = r_shared /\ r_read # r_shared
       /\ write_index \notin {r_read, r_shared}
  /\ r_pc = "clear_available" => shared_index = r_read /\ read_index = r_shared
  /\ r_ptr \in {NULL, IF r_pc \in {"set_shared", "clear_available"} THEN r_read
                                                                    ELSE read_index}

SlotsAreOwned ==
  /\ LockHeld
  /\ w_pc # "set_write" /\ r_pc # "set_shared" => Distinct
  /\ WriterSlots
  /\ ReaderSlots

(* The mailbox these slots stand for.  An exchange takes effect when the   *)
(* lock is given back; until then the box holds what it held before.       *)
box ==
  CASE ~data_available -> EMPTY
    [] data_available /\ w_pc \in {"set_write", "set_available"} -> buffer[w_shared]
    [] data_available /\ r_pc \in {"set_shared", "clear_available"} -> buffer[r_shared]
    [] OTHER -> buffer[shared_index]

(* What the slots hold: the writer's the cells written so far, then the    *)
(* whole object until it is on offer; the shared one, when data is         *)
(* available, a whole object.                                              *)
ObjectsAreWhole ==
  /\ w_pc # "idle" => w_object \in Object
  /\ w_pc = "write" => \A c \in Cell \ w_todo : buffer[w_ptr][c] = w_object[c]
  /\ w_pc \in {"set_shared", "set_write", "set_available"}
       => buffer[w_write] = w_object
  /\ box # EMPTY => box \in Object

(* The slot the reader was given does not change under its hands: between  *)
(* two exchanges of its slot no step of the writer writes into it.         *)
ReaderSlotIsStable ==
  [][read_index' = read_index => buffer'[read_index] = buffer[read_index]]_vars

answer == IF r_ptr = NULL THEN NULL ELSE buffer[r_ptr]

Abstract == INSTANCE Mailbox

(* The triple buffer implements the mailbox: a read gets the last object   *)
(* written, whole, once, and NULL only if nothing new was written.         *)
ImplementsMailbox == Abstract!Spec
=============================================================================
