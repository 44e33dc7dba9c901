------------------------------- MODULE Channel -------------------------------
(***************************************************************************)
(* What one direction of a connection promises its two ends (spec 1, 5):   *)
(* a reliable FIFO channel of messages.  The sender puts a message at the  *)
(* end of the queue; the receiver is handed the message at its head, and   *)
(* keeps being handed messages while any are queued.  Messages are opaque: *)
(* any value may be put.                                                   *)
(***************************************************************************)
EXTENDS Naturals, Sequences

VARIABLES
    queue,      \* messages put and not yet delivered, oldest first
    delivered   \* messages handed to the receiver, in order

vars == <<queue, delivered>>

Init == queue = <<>> /\ delivered = <<>>

\* The sender puts one message, whatever it is, after the queued ones.
Put ==
    /\ Len(queue') = Len(queue) + 1
    /\ SubSeq(queue', 1, Len(queue)) = queue
    /\ UNCHANGED delivered

\* The receiver is handed the oldest queued message.
Deliver ==
    /\ queue # <<>>
    /\ delivered' = Append(delivered, Head(queue))
    /\ queue' = Tail(queue)

Next == Put \/ Deliver

Spec == Init /\ [][Next]_vars /\ WF_vars(Deliver)
=============================================================================
