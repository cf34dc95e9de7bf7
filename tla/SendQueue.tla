------------------------------- MODULE SendQueue -------------------------------
(***************************************************************************)
(* What the I/O handler promises of a session's send queue, whichever      *)
(* threads call it: packets are taken out for sending in the order they    *)
(* were submitted, each as often as it was submitted, and none is          *)
(* submitted to a session that is being released.                          *)
(***************************************************************************)
EXTENDS Sequences

CONSTANT Packets

VARIABLES waiting, takenOut, live

QueueInit == waiting = <<>> /\ takenOut = <<>> /\ live = TRUE

Submit(n) ==
    /\ live
    /\ waiting' = Append(waiting, n) /\ UNCHANGED <<takenOut, live>>

Take ==
    /\ waiting # <<>>
    /\ takenOut' = Append(takenOut, Head(waiting)) /\ waiting' = Tail(waiting)
    /\ UNCHANGED live

Stop == live /\ live' = FALSE /\ UNCHANGED <<waiting, takenOut>>

QueueNext == (\E n \in Packets : Submit(n)) \/ Take \/ Stop

QueueSpec == QueueInit /\ [][QueueNext]_<<waiting, takenOut, live>>
=============================================================================
