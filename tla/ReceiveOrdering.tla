---------------------------- MODULE ReceiveOrdering ----------------------------
(***************************************************************************)
(* The receive side of a connected RUDPSession: the client numbers its     *)
(* packets, the network loses, repeats and reorders them, and the logic    *)
(* worker checks each against the receive window, holds what came early,   *)
(* hands packets to the content's handler in order, and acknowledges them. *)
(* Any other thread may disconnect the session meanwhile.                  *)
(*                                                                         *)
(* A packet is its number, counted from 1 by the client; the code only     *)
(* sees its PacketSequence, the number modulo 2^64.  The window's ring of  *)
(* flags is represented by the offsets from windowStart it has set.        *)
(***************************************************************************)
EXTENDS Integers, Sequences, FiniteSets

CONSTANTS
    HalfRange,   \* half the sequence space: 2^63
    WindowSize,  \* maximumHoldingPacketQueueSize: the window's size and the
                 \* orderer's limit
    MaxSent      \* bound of the model on the packets of one connection

ASSUME RangeAssumption ==
    /\ HalfRange \in Nat /\ WindowSize \in Nat \ {0}
    /\ 2 * WindowSize <= HalfRange
ASSUME MaxSentAssumption == MaxSent \in Nat

VARIABLES
    sent,                   \* packets the client has numbered
    connected, claimed, nowInReleaseThread,
    nextRecvPacketSequence, \* of the orderer
    recvHoldingPackets,     \* the packets held, keyed by their sequence
    windowStart, received,  \* of the receive window
    pc, packet,             \* the logic worker, and the packet in its handler
    delivered,              \* the packets handed to the handler (history)
    reply                   \* the last acknowledgement sent

sessionVars == <<connected, claimed, nowInReleaseThread>>
ordererVars == <<nextRecvPacketSequence, recvHoldingPackets>>
windowVars == <<windowStart, received>>
workerVars == <<pc, packet, delivered>>
vars == <<sent, sessionVars, ordererVars, windowVars, workerVars, reply>>

SeqModulus == 2 * HalfRange
Sequence(n) == n % SeqModulus
\* The difference of two unsigned sequences cast to a signed integer.
SeqDiff(a, b) ==
    LET d == (a - b) % SeqModulus IN IF d < HalfRange THEN d ELSE d - SeqModulus

\* Neither side runs ahead of, nor does a copy of a packet outlive, half the
\* sequence space less a window.
Horizon == HalfRange - WindowSize
NoReply == [packet |-> 0, advertiseWindow |-> 0]

\* Mutant: what was held for the last client stays.
Reset_KeepsHolding(startSequence) ==
    /\ nextRecvPacketSequence' = startSequence
    /\ windowStart' = startSequence /\ received' = {}
    /\ UNCHANGED recvHoldingPackets

\* The orderer and the window are reset together.
Reset(startSequence) ==
    /\ nextRecvPacketSequence' = startSequence /\ recvHoldingPackets' = {}
    /\ windowStart' = startSequence /\ received' = {}

Init ==
    /\ sent = 0
    /\ connected = FALSE /\ claimed = FALSE /\ nowInReleaseThread = FALSE
    /\ nextRecvPacketSequence = 0 /\ recvHoldingPackets = {}
    /\ windowStart = 0 /\ received = {}
    /\ pc = "idle" /\ packet = 0 /\ delivered = <<>>
    /\ reply = NoReply

-----------------------------------------------------------------------------
(* The session around the receive path.                                    *)

\* CONNECT has sequence 0 and the client's first packet sequence 1.
TryConnect ==
    /\ ~connected /\ ~claimed
    /\ connected' = TRUE
    /\ Reset(1)
    /\ UNCHANGED <<sent, claimed, nowInReleaseThread, workerVars, reply>>

ClientSends ==
    /\ connected /\ sent < MaxSent
    /\ sent - Len(delivered) < Horizon
    /\ sent' = sent + 1
    /\ UNCHANGED <<sessionVars, ordererVars, windowVars, workerVars, reply>>

\* Another thread wins RELEASING, and marks the session later.
OtherDisconnects ==
    /\ connected /\ ~claimed
    /\ claimed' = TRUE
    /\ UNCHANGED <<sent, connected, nowInReleaseThread, ordererVars, windowVars,
                   workerVars, reply>>

OtherMarks ==
    /\ claimed /\ ~nowInReleaseThread
    /\ nowInReleaseThread' = TRUE
    /\ UNCHANGED <<sent, connected, claimed, ordererVars, windowVars, workerVars, reply>>

\* The worker disconnects its own session: if it lost the race it changes nothing.
DoDisconnect ==
    /\ claimed' = TRUE
    /\ nowInReleaseThread' = IF claimed THEN nowInReleaseThread ELSE TRUE
    /\ UNCHANGED connected

\* The release thread recycles the session once the worker has drained.
InitializeSession ==
    /\ nowInReleaseThread /\ pc = "idle"
    /\ connected' = FALSE /\ claimed' = FALSE /\ nowInReleaseThread' = FALSE
    /\ Reset(0)
    /\ sent' = 0 /\ delivered' = <<>> /\ reply' = NoReply
    /\ UNCHANGED <<pc, packet>>

-----------------------------------------------------------------------------
(* The logic worker.                                                       *)

CanReceive(sequence) ==
    LET diff == SeqDiff(sequence, windowStart) IN diff >= 0 /\ diff < WindowSize

GetAdvertiseWindow == WindowSize - Cardinality(received)

\* core.SendPacket refuses to send for a session on its way out, and may fail for
\* another; the worker then disconnects, and goes on.
SendReplyToClient(n, window) ==
    \/ /\ ~nowInReleaseThread
       /\ reply' = [packet |-> n, advertiseWindow |-> window]
       /\ UNCHANGED sessionVars
    \/ DoDisconnect /\ UNCHANGED reply

\* Mutant: the sequence does not wrap.
ProcessAndAdvance_Unwrapped(n) ==
    /\ nextRecvPacketSequence' = nextRecvPacketSequence + 1
    /\ delivered' = Append(delivered, n)
    /\ packet' = n /\ pc' = "handler"

\* Hand packet n, whose sequence is the next expected, to its handler.
ProcessAndAdvance(n) ==
    /\ nextRecvPacketSequence' = (nextRecvPacketSequence + 1) % SeqModulus
    /\ delivered' = Append(delivered, n)
    /\ packet' = n /\ pc' = "handler"

Held(sequence) == {h \in recvHoldingPackets : Sequence(h) = sequence}

\* A datagram the client has sent, once or again, reaches the worker.
Arrives(n) ==
    /\ pc = "idle" /\ connected /\ ~nowInReleaseThread
    /\ n <= sent /\ Len(delivered) - n < Horizon

IsOlderRecvSequence(n) == SeqDiff(Sequence(n), nextRecvPacketSequence) < 0

\* Delivered before: acknowledged again.
OnOlderPacket(n) ==
    /\ Arrives(n) /\ IsOlderRecvSequence(n)
    /\ SendReplyToClient(n, GetAdvertiseWindow)
    /\ UNCHANGED <<sent, ordererVars, windowVars, workerVars>>

\* The packet the orderer waits for.
OnExpectedPacket(n) ==
    /\ Arrives(n) /\ CanReceive(Sequence(n))
    /\ Sequence(n) = nextRecvPacketSequence
    /\ ProcessAndAdvance(n)
    /\ UNCHANGED <<sent, sessionVars, recvHoldingPackets, windowVars, reply>>

\* Mutant: a packet is held wherever it lies.
OnEarlyPacket_AnyDistance(n) ==
    /\ Arrives(n) /\ SeqDiff(Sequence(n), nextRecvPacketSequence) > 0
    /\ recvHoldingPackets' = recvHoldingPackets \cup {n}
    /\ UNCHANGED <<sent, sessionVars, nextRecvPacketSequence, windowVars, workerVars, reply>>

\* Mutant: a held packet is acknowledged.
OnEarlyPacket_Replies(n) ==
    /\ Arrives(n) /\ CanReceive(Sequence(n))
    /\ SeqDiff(Sequence(n), nextRecvPacketSequence) > 0
    /\ recvHoldingPackets' = recvHoldingPackets \cup {n}
    /\ SendReplyToClient(n, GetAdvertiseWindow)
    /\ UNCHANGED <<sent, nextRecvPacketSequence, windowVars, workerVars>>

\* A packet ahead of its turn is held, once, within the window; one held already
\* or beyond the window is dropped.  A full queue disconnects the session.
OnEarlyPacket(n) ==
    /\ Arrives(n) /\ CanReceive(Sequence(n))
    /\ SeqDiff(Sequence(n), nextRecvPacketSequence) > 0
    /\ Held(Sequence(n)) = {}
    /\ IF Cardinality(recvHoldingPackets) >= WindowSize
         THEN DoDisconnect /\ UNCHANGED recvHoldingPackets
         ELSE /\ recvHoldingPackets' = recvHoldingPackets \cup {n}
              /\ UNCHANGED sessionVars
    /\ UNCHANGED <<sent, nextRecvPacketSequence, windowVars, workerVars, reply>>

\* Mutant: the window slides over one flag too many.
MarkReceived_SlidesTwice(sequence) ==
    /\ windowStart' = (windowStart + 2) % SeqModulus
    /\ received' = {}

\* Mutant: the window does not slide.
MarkReceived_Stays(sequence) ==
    /\ received' = received \cup {SeqDiff(sequence, windowStart)}
    /\ UNCHANGED windowStart

\* Sets the packet's flag, then slides over every flag set in a row.
MarkReceived(sequence) ==
    IF ~CanReceive(sequence) THEN UNCHANGED windowVars
    ELSE LET flags == received \cup {SeqDiff(sequence, windowStart)}
         IN  \E k \in 0 .. WindowSize :
               /\ k \notin flags /\ \A i \in 0 .. k - 1 : i \in flags
               /\ windowStart' = (windowStart + k) % SeqModulus
               /\ received' = {i \in 0 .. WindowSize - 1 : i + k \in flags}

\* The handler accepts the packet: it is marked and acknowledged, with the room
\* there is after it.
HandlerAccepts ==
    /\ pc = "handler"
    /\ MarkReceived(Sequence(packet))
    /\ SendReplyToClient(packet, WindowSize - Cardinality(received'))
    /\ recvHoldingPackets' = recvHoldingPackets \ Held(Sequence(packet))
    /\ pc' = "holding" /\ packet' = 0
    /\ UNCHANGED <<sent, nextRecvPacketSequence, delivered>>

\* No handler for the packet's id, or a handler that returns false.
HandlerFails ==
    /\ pc = "handler"
    /\ DoDisconnect
    /\ pc' = "idle" /\ packet' = 0
    /\ UNCHANGED <<sent, ordererVars, windowVars, delivered, reply>>

\* Mutant: the packets held are looked at only when they come.
ProcessHoldingPacket_Never ==
    /\ pc = "holding"
    /\ pc' = "idle"
    /\ UNCHANGED <<sent, sessionVars, ordererVars, windowVars, packet, delivered, reply>>

\* After each packet, the one that follows it if it is held.
ProcessHoldingPacket ==
    /\ pc = "holding"
    /\ \/ /\ Held(nextRecvPacketSequence) = {}
          /\ pc' = "idle" /\ UNCHANGED <<ordererVars, packet, delivered>>
       \/ \E h \in Held(nextRecvPacketSequence) :
            /\ recvHoldingPackets' = recvHoldingPackets \ {h}
            /\ ProcessAndAdvance(h)
    /\ UNCHANGED <<sent, sessionVars, windowVars, reply>>

OnRecvPacket(n) == OnOlderPacket(n) \/ OnExpectedPacket(n) \/ OnEarlyPacket(n)

Worker == HandlerAccepts \/ HandlerFails \/ ProcessHoldingPacket

Next ==
    \/ TryConnect \/ ClientSends \/ OtherDisconnects \/ OtherMarks \/ InitializeSession
    \/ \E n \in 1 .. MaxSent : OnRecvPacket(n)
    \/ Worker

Spec == Init /\ [][Next]_vars

\* A handler returns, and the client retransmits what is not acknowledged: the
\* packet the orderer waits for arrives again and again.
Fairness ==
    /\ WF_vars(Worker)
    /\ \A n \in 1 .. MaxSent : SF_vars(OnExpectedPacket(n))

FairSpec == Spec /\ Fairness

-----------------------------------------------------------------------------
(* Properties.                                                             *)

TypeOK ==
    /\ sent \in 0 .. MaxSent
    /\ connected \in BOOLEAN /\ claimed \in BOOLEAN /\ nowInReleaseThread \in BOOLEAN
    /\ nextRecvPacketSequence \in 0 .. SeqModulus - 1
    /\ recvHoldingPackets \in SUBSET (1 .. MaxSent)
    /\ windowStart \in 0 .. SeqModulus - 1
    /\ received \in SUBSET (0 .. WindowSize - 1)
    /\ pc \in {"idle", "handler", "holding"} /\ packet \in 0 .. MaxSent
    /\ delivered \in Seq(1 .. MaxSent)
    /\ reply \in [packet : 0 .. MaxSent, advertiseWindow : 0 .. WindowSize]

\* The handler is given the client's packets in the order they were sent, each
\* once and none that this client did not send, across the wrap of the sequence.
InOrderOnce ==
    /\ Len(delivered) <= sent
    /\ \A i \in 1 .. Len(delivered) : delivered[i] = i

\* What is held between two packets is still to be delivered, none of it could
\* have been delivered already, and it fits in the window behind the packet the
\* orderer waits for.
HeldIsAhead ==
    pc = "idle" /\ ~claimed =>
        \A h \in recvHoldingPackets :
            Len(delivered) + 1 < h /\ h <= Len(delivered) + WindowSize

\* The holding queue is never full when a packet comes: the window has refused
\* whatever could have filled it, and no session is disconnected for a full queue.
HoldingNeverFull ==
    pc = "idle" => Cardinality(recvHoldingPackets) < WindowSize

\* An acknowledgement of a packet acknowledges all before it too: the handler has
\* been given each of them, and is not still busy with the packet itself.
RepliesAreCumulative ==
    /\ reply.packet <= Len(delivered)
    /\ pc = "handler" => reply.packet < Len(delivered)

\* Until a disconnect the window starts at the packet the orderer waits for, so
\* the one never refuses what the other needs.
WindowFollowsOrderer ==
    connected /\ ~claimed /\ pc /= "handler"
        => windowStart = nextRecvPacketSequence /\ received = {}

\* The window advertised reflects the packets that stay held.
AdvertisesHolding ==
    /\ pc = "holding" /\ reply.packet = Len(delivered)
    /\ recvHoldingPackets /= {} /\ Held(nextRecvPacketSequence) = {}
    => reply.advertiseWindow < WindowSize

\* Every packet sent is delivered, unless the session is disconnected.
EventuallyDelivered ==
    \A n \in 1 .. MaxSent :
        connected /\ sent >= n ~> Len(delivered) >= n \/ claimed
=============================================================================
