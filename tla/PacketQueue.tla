---------------------------- MODULE PacketQueue ----------------------------
(***************************************************************************)
(* What the LoRa transmit queue promises: a bounded first-in first-out     *)
(* queue of payloads.  A payload that has been accepted keeps its bytes    *)
(* until it goes on air; transmissions take payloads from the head; a      *)
(* payload that does not fit the MTU is discarded instead of sent; only a  *)
(* reset of the node loses queued payloads.                                *)
(***************************************************************************)
EXTENDS Naturals, Sequences

CONSTANTS MaxLen, Fits(_)

VARIABLES queue, out

Init == queue = <<>> /\ out = <<>>

(* A producer appends one non-empty payload. *)
Accept ==
    /\ Len(queue) < MaxLen
    /\ Len(queue') = Len(queue) + 1
    /\ SubSeq(queue', 1, Len(queue)) = queue
    /\ queue'[Len(queue')] # <<>>
    /\ out' = out

(* The oldest payload leaves the queue, and goes on air if it fits ... *)
Pop ==
    /\ queue # <<>>
    /\ queue' = Tail(queue)
    /\ out' = IF Fits(Head(queue)) THEN <<Head(queue)>> ELSE <<>>

(* ... or all of them do, in their order. *)
Flush ==
    /\ queue # <<>>
    /\ queue' = <<>>
    /\ out' = SelectSeq(queue, Fits)

(* The node resets in the middle of a transmission. *)
Reset ==
    /\ queue # <<>> /\ queue' = <<>>
    /\ \/ out' = <<>>
       \/ \E k \in 1 .. Len(queue) - 1 : out' = SelectSeq(SubSeq(queue, 1, k), Fits)

Next == Accept \/ Pop \/ Flush \/ Reset

Spec == Init /\ [][Next]_<<queue, out>>
=============================================================================
