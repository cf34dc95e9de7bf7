------------------------- MODULE MCSessionLifecycle -------------------------
(* Constants for model checking SessionLifecycle. *)
EXTENDS SessionLifecycle
CONSTANTS b1, t1
OneBroker == {b1}
NoSenders == {}
OneSender == {t1}
\* Two generations of the session: what the first leaves behind meets the second.
TwoGenerations == generation < 2
=============================================================================
