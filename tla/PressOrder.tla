----------------------------- MODULE PressOrder -----------------------------
(***************************************************************************)
(* What the tap/hold machine promises whatever it decides: the presses are *)
(* decided in the order in which the keys went down.  `pending` holds the  *)
(* presses whose meaning is still open, oldest first; a press leaves it    *)
(* from the front only, and a new one can be decided at once only if none  *)
(* is left before it.                                                      *)
(***************************************************************************)
EXTENDS Naturals, Sequences

CONSTANT Key

VARIABLES held, pending

Init == held = {} /\ pending = <<>>

(* Some of the oldest presses of q are decided (or, on overflow, dropped). *)
DecideOldest(q) == \E n \in 0 .. Len(q) : pending' = SubSeq(q, n + 1, Len(q))

Press(k) ==
  /\ k \notin held
  /\ held' = held \cup {k}
  /\ DecideOldest(Append(pending, k))

Release(k) ==
  /\ k \in held
  /\ held' = held \ {k}
  /\ DecideOldest(pending)

Decide ==
  /\ pending # <<>>
  /\ pending' # pending
  /\ DecideOldest(pending)
  /\ UNCHANGED held

Next == Decide \/ \E k \in Key : Press(k) \/ Release(k)

Spec == Init /\ [][Next]_<<held, pending>>
=============================================================================
