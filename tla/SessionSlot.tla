----------------------------- MODULE SessionSlot -----------------------------
(***************************************************************************)
(* What the pool promises of one session id, whatever the threads that     *)
(* share the session do: it is handed to one client at a time, connects at *)
(* most once per hand-out, leaves use once, and comes back to the pool     *)
(* once, under the next generation.                                        *)
(***************************************************************************)
EXTENDS Naturals

CONSTANT GenModulus

VARIABLES slot, epoch

SlotInit == slot = "free" /\ epoch = 0

Acquire == slot = "free" /\ slot' = "held" /\ UNCHANGED epoch
Connect == slot = "held" /\ slot' = "connected" /\ UNCHANGED epoch
Leave == slot \in {"held", "connected"} /\ slot' = "leaving" /\ UNCHANGED epoch
Return ==
    /\ slot = "leaving" /\ slot' = "free"
    /\ epoch' = IF epoch + 1 = GenModulus THEN 0 ELSE epoch + 1

SlotNext == Acquire \/ Connect \/ Leave \/ Return

SlotSpec == SlotInit /\ [][SlotNext]_<<slot, epoch>>
=============================================================================
