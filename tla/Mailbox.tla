------------------------------- MODULE Mailbox -------------------------------
(***************************************************************************)
(* What a triple-buffered object promises its one writer and one reader: a *)
(* mailbox that holds the last whole object written and not yet read.  A   *)
(* read takes it, or answers NULL when nothing was written since the last  *)
(* read; a write replaces what was not read.                               *)
(***************************************************************************)
CONSTANTS Object, EMPTY, NULL

VARIABLES box, answer

Init == box = EMPTY /\ answer = NULL

Publish(o) == box' = o /\ UNCHANGED answer

Take == box # EMPTY /\ answer' = box /\ box' = EMPTY

TakeNothing == box = EMPTY /\ answer' = NULL /\ UNCHANGED box

Next == Take \/ TakeNothing \/ \E o \in Object : Publish(o)

Spec == Init /\ [][Next]_<<box, answer>>
=============================================================================
