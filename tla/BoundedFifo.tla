------------------------------ MODULE BoundedFifo ------------------------------
(***************************************************************************)
(* What the pending queue of a session promises: what is put in comes out  *)
(* in the same order, at most Capacity wait, and only the end of the       *)
(* session drops what waits.                                               *)
(***************************************************************************)
EXTENDS Naturals, Sequences

CONSTANTS Items, Capacity

VARIABLES queue, out

FifoInit == queue = <<>> /\ out = <<>>

Put(x) == Len(queue) < Capacity /\ queue' = Append(queue, x) /\ UNCHANGED out

Get ==
    /\ queue # <<>>
    /\ out' = Append(out, Head(queue)) /\ queue' = Tail(queue)

Drop == queue' = <<>> /\ UNCHANGED out

FifoNext == (\E x \in Items : Put(x)) \/ Get \/ Drop

FifoSpec == FifoInit /\ [][FifoNext]_<<queue, out>>
=============================================================================
