----------------------------- MODULE ByteStuffer -----------------------------
(***************************************************************************)
(* byte_stuffer.c: frames over a serial line with "consistent overhead     *)
(* byte stuffing".  A frame is sent as blocks of non-zero bytes, each      *)
(* preceded by its length plus one, and ends with a zero, the only zero on *)
(* the line; a full block (length 0xFF) is not followed by a zero of the   *)
(* frame, every other block but the last is.                               *)
(*                                                                         *)
(* One sender, one receiver and a line that loses and corrupts bytes.      *)
(***************************************************************************)
EXTENDS Naturals, Sequences, SequencesExt

CONSTANTS
  FULL,              \* 0xFF, the length byte of a full block
  MAX_FRAME_SIZE,
  Frame,             \* the frames the router sends
  NO_FRAME

Byte == 0 .. FULL

ASSUME ByteStufferAssumption ==
  /\ FULL \in Nat \ {0, 1}
  /\ MAX_FRAME_SIZE \in Nat \ {0}
  /\ Frame \subseteq Seq(Byte) \ {<<>>}
  /\ NO_FRAME \notin Seq(Byte)

VARIABLES
  next_zero, long_frame,     \* fields of byte_stuffer_state, the receiver's
  data,                      \* its data[0 .. data_pos - 1]
  wire,                      \* the bytes sent and not yet arrived
  sending,                   \* the frame they belong to
  delivered,                 \* what validator_recv_frame got since it was sent
  after_zero,                \* the last byte to arrive was a zero
  intact                     \* `sending` began after a zero, unharmed so far

receiver_vars == <<next_zero, long_frame, data>>
stuffer_vars  == <<receiver_vars, wire, sending, delivered, after_zero, intact>>

(* init_byte_stuffer                                                       *)
StufferInit ==
  /\ next_zero = 0 /\ long_frame = FALSE /\ data = <<>>
  /\ wire = <<>> /\ sending = NO_FRAME /\ delivered = NO_FRAME
  /\ after_zero = TRUE /\ intact = FALSE

-----------------------------------------------------------------------------
(* The sender: byte_stuffer_send_frame                                     *)

send_block(block) == <<Len(block) + 1>> \o block

(* The blocks sent so far and the bytes from start to data.                *)
SplitFull(s) ==
  IF Len(s.block) + 1 = FULL
  THEN [out |-> s.out \o send_block(s.block), block |-> <<>>]
  ELSE s

SplitZero(s, b) ==
  IF b = 0 THEN [out |-> s.out \o send_block(s.block), block |-> <<>>]
           ELSE [s EXCEPT !.block = Append(@, b)]

Stuffed(f) ==
  LET NextByte(s, b) == SplitZero(SplitFull(s), b)
      last == FoldLeft(NextByte, [out |-> <<>>, block |-> <<>>], f)
  IN last.out \o send_block(last.block) \o <<0>>

byte_stuffer_send_frame(f) ==
  /\ wire = <<>>
  /\ wire' = Stuffed(f)
  /\ sending' = f /\ delivered' = NO_FRAME /\ intact' = after_zero
  /\ UNCHANGED <<receiver_vars, after_zero>>

-----------------------------------------------------------------------------
(* The receiver: byte_stuffer_recv_byte, one action per branch             *)

start_frame(b) ==
  /\ next_zero' = b /\ long_frame' = (b = FULL) /\ data' = <<>>
  /\ UNCHANGED delivered

FrameStart(b) == next_zero = 0 /\ start_frame(b)

FrameEnd(b) ==
  /\ next_zero = 1 /\ b = 0
  /\ next_zero' = 0
  /\ delivered' = IF data # <<>> THEN data ELSE delivered
  /\ UNCHANGED <<long_frame, data>>

(* Mutant: a misplaced zero is skipped.                                    *)
MisplacedZero_skipped(b) ==
  /\ next_zero > 1 /\ b = 0
  /\ next_zero' = next_zero - 1
  /\ UNCHANGED <<long_frame, data, delivered>>

MisplacedZero(b) ==
  /\ next_zero > 1 /\ b = 0
  /\ next_zero' = 0 /\ long_frame' = FALSE /\ data' = <<>>
  /\ UNCHANGED delivered

FrameTooLong(b) ==
  /\ next_zero > 0 /\ b # 0 /\ Len(data) = MAX_FRAME_SIZE
  /\ start_frame(b)

NextBlock(b) ==
  /\ next_zero = 1 /\ b # 0 /\ Len(data) # MAX_FRAME_SIZE
  /\ next_zero' = b
  /\ IF long_frame THEN long_frame' = (b = FULL) /\ UNCHANGED data
                   ELSE data' = Append(data, 0) /\ UNCHANGED long_frame
  /\ UNCHANGED delivered

(* Mutant: only the zeros between blocks are kept out of a full buffer.    *)
DataByte_unbounded(b) ==
  /\ next_zero > 1 /\ b # 0
  /\ next_zero' = next_zero - 1
  /\ data' = Append(data, b)
  /\ UNCHANGED <<long_frame, delivered>>

DataByte(b) ==
  /\ next_zero > 1 /\ b # 0 /\ Len(data) # MAX_FRAME_SIZE
  /\ next_zero' = next_zero - 1
  /\ data' = Append(data, b)
  /\ UNCHANGED <<long_frame, delivered>>

byte_stuffer_recv_byte(b) ==
  \/ FrameStart(b)
  \/ FrameEnd(b)
  \/ MisplacedZero(b)
  \/ FrameTooLong(b)
  \/ NextBlock(b)
  \/ DataByte(b)

-----------------------------------------------------------------------------
(* The line                                                                *)

Arrive(b) ==
  /\ wire # <<>>
  /\ wire' = Tail(wire)
  /\ intact' = (intact /\ b = Head(wire))
  /\ after_zero' = (b = 0)
  /\ UNCHANGED sending
  /\ byte_stuffer_recv_byte(b)

Lose ==
  /\ wire # <<>>
  /\ wire' = Tail(wire)
  /\ intact' = FALSE
  /\ UNCHANGED <<receiver_vars, sending, delivered, after_zero>>

StufferNext ==
  \/ \E f \in Frame : byte_stuffer_send_frame(f)
  \/ \E b \in Byte : Arrive(b)
  \/ Lose

StufferSpec == StufferInit /\ [][StufferNext]_stuffer_vars

-----------------------------------------------------------------------------
(* The receiver never writes past its buffer, whatever arrives.            *)
StufferTypeOK ==
  /\ next_zero \in Byte
  /\ long_frame \in BOOLEAN
  /\ data \in Seq(Byte) /\ Len(data) <= MAX_FRAME_SIZE
  /\ wire \in Seq(Byte)
  /\ sending \in Frame \cup {NO_FRAME}
  /\ delivered \in Seq(Byte) \cup {NO_FRAME}
  /\ {after_zero, intact} \subseteq BOOLEAN

(* A full block that follows a zero of the frame and is not its last: the  *)
(* receiver remembers a full block at a frame's start and after another    *)
(* full block only, and puts a zero behind this one.  Such frames are left *)
(* out below.                                                              *)
HasFullBlockAfterZero(f) ==
  \E i \in 1 .. Len(f) - FULL :
    f[i] = 0 /\ \A j \in i + 1 .. i + FULL - 1 : f[j] # 0

(* Whatever the line did before, a frame that fits, follows a zero and     *)
(* arrives unharmed is handed to the validator, exactly as it was sent,    *)
(* once, and with its last byte: noise costs the frames it hits and the    *)
(* one after a lost delimiter, no other.                                   *)
IntactFrameIsDelivered ==
  intact /\ Len(sending) <= MAX_FRAME_SIZE /\ ~HasFullBlockAfterZero(sending)
    => delivered = IF wire = <<>> THEN sending ELSE NO_FRAME
=============================================================================
