-------------------------------- MODULE Fifo --------------------------------
(***************************************************************************)
(* A queue of values: what the event loop takes ring_list for.             *)
(***************************************************************************)
EXTENDS Sequences

CONSTANTS Values, Nothing

VARIABLES queue, out   \* out: what the reader last took

Init == queue = <<>> /\ out = Nothing

Put(v) == queue' = Append(queue, v) /\ UNCHANGED out

Get == queue # <<>> /\ out' = Head(queue) /\ queue' = Tail(queue)

Next == Get \/ \E v \in Values : Put(v)

Spec == Init /\ [][Next]_<<queue, out>>
=============================================================================
