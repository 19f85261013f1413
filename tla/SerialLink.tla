------------------------------ MODULE SerialLink ------------------------------
(***************************************************************************)
(* A chain of keyboards (serial_link.c, frame_router.c, transport.c):      *)
(* board b is the UP neighbour of board b + 1.  The board on USB is the    *)
(* master and tells the boards below it that they are connected; every     *)
(* other board sends its matrix up, and a matrix frame counts the boards   *)
(* it passes, which is how the master knows whose it is.                   *)
(*                                                                         *)
(* On each board the main loop and the serial thread share triple-buffered *)
(* objects, here the mailboxes the module TripleBuffer implements.  A      *)
(* frame a line harms fails its CRC: it is lost as a whole.                *)
(***************************************************************************)
EXTENDS Integers, Sequences

CONSTANTS
  LAST,              \* the boards are 0 .. LAST
  NUM_SLAVES,        \* remote objects for the matrices of slaves, bits of dest
  LINE_SIZE,         \* frames that fit into a receiver's input queue
  HOSTED, TYPED,     \* the boards a USB cable may be on, and somebody types on
  MAX_VERSION,       \* bound: how often a matrix changes
  NOTHING            \* an empty mailbox

ASSUME SerialLinkAssumption ==
  /\ LAST \in Nat /\ NUM_SLAVES \in Nat \ {0} /\ LAST <= NUM_SLAVES
  /\ LINE_SIZE \in Nat \ {0} /\ MAX_VERSION \in Nat
  /\ HOSTED \subseteq 0 .. LAST /\ TYPED \subseteq 0 .. LAST
  /\ NOTHING \notin Nat

Board   == 0 .. LAST
Slave   == 1 .. NUM_SLAVES
Version == 0 .. MAX_VERSION

VARIABLES
  usb_active,             \* the boards whose USB is active
  is_master,              \* serial_link.c's, which router_set_master copies
  matrix,                 \* the scanned matrix of a board: its version
  last_matrix,
  local_matrix,           \* mailbox: the main loop's keyboard_matrix object
  local_connected,        \* mailbox: its serial_link_connected object
  remote_matrix,          \* mailboxes: the keyboard_matrix objects of slaves
  remote_connected,       \* mailbox: the master's serial_link_connected
  up_line, down_line,     \* frames on the way from a board to its neighbour
  serial_link_connected,
  shown                   \* the matrix last given to matrix_set_remote

link_vars == <<usb_active, is_master, matrix, last_matrix, local_matrix,
               local_connected, remote_matrix, remote_connected, up_line, down_line,
               serial_link_connected, shown>>

(* A matrix frame carries how far it has come; of is the board it is of,   *)
(* which the code does not send.                                           *)
Matrix      == [of : Board, version : Version]
MatrixFrame == [hops : Nat, of : Board, version : Version]

LinkInit ==
  /\ usb_active = {}
  /\ is_master = [b \in Board |-> FALSE]
  /\ matrix = [b \in Board |-> 0]
  /\ last_matrix = [b \in Board |-> 0]
  /\ local_matrix = [b \in Board |-> NOTHING]
  /\ local_connected = [b \in Board |-> NOTHING]
  /\ remote_matrix = [b \in Board |-> [s \in Slave |-> NOTHING]]
  /\ remote_connected = [b \in Board |-> NOTHING]
  /\ up_line = [b \in Board |-> <<>>]
  /\ down_line = [b \in Board |-> <<>>]
  /\ serial_link_connected = [b \in Board |-> FALSE]
  /\ shown = [b \in Board |-> NOTHING]

-----------------------------------------------------------------------------
(* Lines: up_line[b] leads from b to b - 1, down_line[b] from b to b + 1.  *)
(* The ends of the chain lead nowhere, and a full input queue loses what   *)
(* arrives.                                                                *)
SendUp(b, f, lines) ==
  IF b = 0 \/ Len(lines[b]) = LINE_SIZE THEN lines
                                        ELSE [lines EXCEPT ![b] = Append(@, f)]

SendDown(b, f, lines) ==
  IF b = LAST \/ Len(lines[b]) = LINE_SIZE THEN lines
                                           ELSE [lines EXCEPT ![b] = Append(@, f)]

(* Mutant: the master follows the USB.                                     *)
MasterNow_usb(b) == b \in usb_active

(* serialThread: "Always stay as master, even if the USB goes into sleep   *)
(* mode" - at the head of each of its rounds.                              *)
MasterNow(b) == is_master[b] \/ b \in usb_active

(* route_incoming_frame from UP_LINK: a master ignores the frame; a slave  *)
(* takes it if the lowest bit of its destination is set, and passes it on  *)
(* shifted by one.  A destination here is the number of its ones: it       *)
(* starts as 0xFF, and reaches zero below the last slave it addresses.     *)
Pred(dest) == IF dest = 0 THEN 0 ELSE dest - 1

DownLinesPassedOn(b) ==
  LET rest == [down_line EXCEPT ![b - 1] = Tail(@)]
  IN IF MasterNow(b) THEN rest ELSE SendDown(b, Pred(Head(down_line[b - 1])), rest)

TakesConnected(b) == ~MasterNow(b) /\ Head(down_line[b - 1]) > 0

(* Mutant: a forwarded frame is not counted.                               *)
UpLinesPassedOn_uncounted(b) ==
  LET f    == Head(up_line[b + 1])
      rest == [up_line EXCEPT ![b + 1] = Tail(@)]
  IN IF MasterNow(b) THEN rest ELSE SendUp(b, f, rest)

(* route_incoming_frame from DOWN_LINK: a master hands it to               *)
(* transport_recv_frame; a slave counts one more hop and sends it up.      *)
UpLinesPassedOn(b) ==
  LET f    == Head(up_line[b + 1])
      rest == [up_line EXCEPT ![b + 1] = Tail(@)]
  IN IF MasterNow(b) THEN rest ELSE SendUp(b, [f EXCEPT !.hops = @ + 1], rest)

Filed(b) ==
  LET f == Head(up_line[b + 1])
  IN IF MasterNow(b)
     THEN [remote_matrix EXCEPT ![b][f.hops] = [of |-> f.of, version |-> f.version]]
     ELSE remote_matrix

(* One round of serialThread: a frame from the UP_LINK, if one is          *)
(* complete, one from the DOWN_LINK, then update_transport, which reads    *)
(* both local objects.  router_send_frame sends the matrix up, as one hop, *)
(* for a slave only, and "connected" to all for a master only.  (What the  *)
(* main loop does in the middle of a round is taken as done before it.)    *)
serialThread(b, from_up, from_down) ==
  /\ from_up => b > 0 /\ down_line[b - 1] # <<>>
  /\ from_down => b < LAST /\ up_line[b + 1] # <<>>
  /\ is_master' = [is_master EXCEPT ![b] = MasterNow(b)]
  /\ remote_connected' = IF from_up /\ TakesConnected(b)
                         THEN [remote_connected EXCEPT ![b] = TRUE]
                         ELSE remote_connected
  /\ remote_matrix' = IF from_down THEN Filed(b) ELSE remote_matrix
  /\ LET down == IF from_up THEN DownLinesPassedOn(b) ELSE down_line
     IN down_line' = IF MasterNow(b) /\ local_connected[b] # NOTHING
                     THEN SendDown(b, NUM_SLAVES, down)
                     ELSE down
  /\ LET up == IF from_down THEN UpLinesPassedOn(b) ELSE up_line
     IN up_line' = IF ~MasterNow(b) /\ local_matrix[b] # NOTHING
                   THEN SendUp(b, [hops |-> 1, of |-> b, version |-> local_matrix[b]], up)
                   ELSE up
  /\ local_matrix' = [local_matrix EXCEPT ![b] = NOTHING]
  /\ local_connected' = [local_connected EXCEPT ![b] = NOTHING]
  /\ UNCHANGED <<usb_active, matrix, last_matrix, serial_link_connected, shown>>

-----------------------------------------------------------------------------
(* Mutant: an unchanged matrix is not sent again.                          *)
Sends_changes(b, resend) == matrix[b] # last_matrix[b]

Sends(b, resend) == resend \/ matrix[b] # last_matrix[b]

(* The main loop: serial_link_update.  resend says that the last update is *)
(* more than 5 ms old; a first change is always sent.                      *)
serial_link_update(b, resend) ==
  /\ serial_link_connected' =
       [serial_link_connected EXCEPT ![b] = @ \/ remote_connected[b] # NOTHING]
  /\ remote_connected' = [remote_connected EXCEPT ![b] = NOTHING]
  /\ IF Sends(b, resend)
     THEN /\ last_matrix' = [last_matrix EXCEPT ![b] = matrix[b]]
          /\ local_matrix' = [local_matrix EXCEPT ![b] = matrix[b]]
          /\ local_connected' = [local_connected EXCEPT ![b] = TRUE]
     ELSE UNCHANGED <<last_matrix, local_matrix, local_connected>>
  /\ shown' = [shown EXCEPT ![b] =
                 IF remote_matrix[b][1] # NOTHING THEN remote_matrix[b][1] ELSE @]
  /\ remote_matrix' = [remote_matrix EXCEPT ![b][1] = NOTHING]
  /\ UNCHANGED <<usb_active, is_master, matrix, up_line, down_line>>

-----------------------------------------------------------------------------
(* The environment: keys, cables and noise.                                *)
MatrixChange(b) ==
  /\ b \in TYPED /\ matrix[b] < MAX_VERSION
  /\ matrix' = [matrix EXCEPT ![b] = @ + 1]
  /\ UNCHANGED <<usb_active, is_master, last_matrix, local_matrix, local_connected,
                 remote_matrix, remote_connected, up_line, down_line,
                 serial_link_connected, shown>>

UsbChange(b, active) ==
  /\ b \in HOSTED
  /\ usb_active' = IF active THEN usb_active \cup {b} ELSE usb_active \ {b}
  /\ usb_active' # usb_active
  /\ UNCHANGED <<is_master, matrix, last_matrix, local_matrix, local_connected,
                 remote_matrix, remote_connected, up_line, down_line,
                 serial_link_connected, shown>>

LoseFrame(b) ==
  /\ \/ /\ up_line[b] # <<>>
        /\ up_line' = [up_line EXCEPT ![b] = Tail(@)]
        /\ UNCHANGED down_line
     \/ /\ down_line[b] # <<>>
        /\ down_line' = [down_line EXCEPT ![b] = Tail(@)]
        /\ UNCHANGED up_line
  /\ UNCHANGED <<usb_active, is_master, matrix, last_matrix, local_matrix,
                 local_connected, remote_matrix, remote_connected,
                 serial_link_connected, shown>>

LinkNext ==
  \E b \in Board :
    \/ \E from_up, from_down \in BOOLEAN : serialThread(b, from_up, from_down)
    \/ \E resend \in BOOLEAN : serial_link_update(b, resend)
    \/ MatrixChange(b)
    \/ \E active \in BOOLEAN : UsbChange(b, active)
    \/ LoseFrame(b)

LinkSpec == LinkInit /\ [][LinkNext]_link_vars

(* Both threads of a board keep running, and the 5 ms pass; a line that is *)
(* used again and again lets a frame through again and again.  (With a     *)
(* third board, frames that are passed on may fill the line forever.)      *)
FrameFromUp(b)   == \E from_down \in BOOLEAN : serialThread(b, TRUE, from_down)
FrameFromDown(b) == \E from_up \in BOOLEAN : serialThread(b, from_up, TRUE)

LinkFairness ==
  \A b \in Board :
    /\ WF_link_vars(serialThread(b, FALSE, FALSE))
    /\ WF_link_vars(serial_link_update(b, TRUE))
    /\ SF_link_vars(FrameFromUp(b))
    /\ SF_link_vars(FrameFromDown(b))

LinkFairSpec == LinkSpec /\ LinkFairness

-----------------------------------------------------------------------------
LinkTypeOK ==
  /\ usb_active \subseteq Board
  /\ is_master \in [Board -> BOOLEAN]
  /\ matrix \in [Board -> Version] /\ last_matrix \in [Board -> Version]
  /\ local_matrix \in [Board -> Version \cup {NOTHING}]
  /\ local_connected \in [Board -> {TRUE, NOTHING}]
  /\ remote_matrix \in [Board -> [Slave -> Matrix \cup {NOTHING}]]
  /\ remote_connected \in [Board -> {TRUE, NOTHING}]
  /\ up_line \in [Board -> Seq(MatrixFrame)]
  /\ down_line \in [Board -> Seq(Nat)]
  /\ serial_link_connected \in [Board -> BOOLEAN]
  /\ shown \in [Board -> Matrix \cup {NOTHING}]

(* The master counts boards right: a matrix kept as slave s's, or shown as *)
(* the first slave's, is that of the board s steps below, whoever passed   *)
(* it on and whatever was lost; so no frame is filed outside the array.    *)
HopsTellTheSlave ==
  /\ \A b \in Board : \A i \in 1 .. Len(up_line[b]) :
        up_line[b][i].of = b + up_line[b][i].hops - 1
  /\ \A b \in Board : \A s \in Slave :
        remote_matrix[b][s] # NOTHING => remote_matrix[b][s].of = b + s
  /\ \A b \in Board : shown[b] # NOTHING => shown[b].of = b + 1

(* A board that says it is connected is below a master.                    *)
ConnectedToMaster ==
  \A b \in Board : serial_link_connected[b] =>
    \E m \in Board : m < b /\ is_master[m]

(* The master never sees keys of a slave go back to an earlier state, for  *)
(* all the frames that are lost, resent and overwritten.                   *)
ShownNeverGoesBack ==
  [][\A b \in Board : shown[b] # NOTHING =>
       shown'[b] # NOTHING /\ shown'[b].version >= shown[b].version]_link_vars

(* A matrix that stays is shown by the master above, although lines lose   *)
(* frames: what was lost is sent again after 5 ms.                         *)
MatrixReachesMaster ==
  \A b \in Board \ {LAST} : \A v \in Version :
    is_master[b] /\ matrix[b + 1] = v
      ~> \/ shown[b] # NOTHING /\ shown[b].version = v
         \/ matrix[b + 1] # v \/ is_master[b + 1]
=============================================================================
