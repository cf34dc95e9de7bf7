------------------------------ MODULE PendingQueue ------------------------------
(***************************************************************************)
(* The packets flow control defers: the ring buffer of a session and its   *)
(* mutex, through the lives of the session's slot.  Senders push under the *)
(* mutex, the logic worker pops, the release thread drains the ring; the   *)
(* next reservation resizes it, without the mutex.  A packet is a number,  *)
(* and which packets are deferred is the business of SendWindow.           *)
(***************************************************************************)
EXTENDS Naturals, Sequences, FiniteSets

CONSTANTS
    Senders,    \* the threads that call RUDPSession::SendPacket
    Capacity,   \* maxHoldingPacketQueueSize
    MaxPackets, \* bound: the packets of a run
    MaxLives,   \* bound: the reservations of the slot
    Late        \* a sender that saw the session connected may be slower than its release

PendingQueueAssumption ==
    {Capacity, MaxPackets, MaxLives} \subseteq Nat /\ Late \in BOOLEAN

VARIABLES
    capacity, head, tail, count, buffer,    \* RingBuffer
    life,           \* of the slot
    lives,          \* how often it was reserved
    pc, packet,     \* of each sender
    made,           \* the packets made so far are 1 .. made
    madeIn,         \* history: the life each was made in
    out,            \* history: the packets popped by the logic worker, in order
    freed           \* history: the packets freed unsent

ring == <<capacity, head, tail, count, buffer>>
slotVars == <<life, lives>>
senderVars == <<pc, packet, made, madeIn>>
vars == <<ring, slotVars, senderVars, out, freed>>

Packets == 1 .. MaxPackets
NoPacket == 0

IsEmpty == count = 0
IsFull == count = capacity
Advanced(index) == (index + 1) % capacity

\* What the ring holds, first to leave first.
Contents == [i \in 1 .. count |-> buffer[(head + i - 1) % capacity]]

\* The mutex of the pending queue.
Unlocked == \A t \in Senders : pc[t] # "stored"

Init ==
    /\ capacity = 0 /\ head = 0 /\ tail = 0 /\ count = 0 /\ buffer = [i \in {} |-> NoPacket]
    /\ life = "pooled" /\ lives = 0
    /\ pc = [t \in Senders |-> "idle"] /\ packet = [t \in Senders |-> NoPacket]
    /\ made = 0 /\ madeIn = [n \in Packets |-> 0]
    /\ out = <<>> /\ freed = {}

-------------------------------------------------------------------------------
(* The senders *)

\* SendPacket finds the session connected and makes the packet.
SendPacket(t) ==
    /\ life = "live" /\ pc[t] = "idle" /\ made < MaxPackets
    /\ made' = made + 1 /\ madeIn' = [madeIn EXCEPT ![made + 1] = lives]
    /\ pc' = [pc EXCEPT ![t] = "checked"] /\ packet' = [packet EXCEPT ![t] = made + 1]
    /\ UNCHANGED <<ring, slotVars, out, freed>>

\* Push writes the cell at the tail, under the mutex ...
PushStores(t) ==
    /\ pc[t] = "checked" /\ Unlocked /\ ~IsFull
    /\ buffer' = [buffer EXCEPT ![tail] = packet[t]]
    /\ pc' = [pc EXCEPT ![t] = "stored"]
    /\ UNCHANGED <<capacity, head, tail, count, slotVars, packet, made, madeIn, out, freed>>

\* ... and then moves the tail and counts the item.
PushCounts(t) ==
    /\ pc[t] = "stored"
    /\ tail' = Advanced(tail) /\ count' = count + 1
    /\ pc' = [pc EXCEPT ![t] = "idle"] /\ packet' = [packet EXCEPT ![t] = NoPacket]
    /\ UNCHANGED <<capacity, head, buffer, slotVars, made, madeIn, out, freed>>

\* A packet that finds the ring full is freed, and SendPacket disconnects the session.
PushFails(t) ==
    /\ pc[t] = "checked" /\ Unlocked /\ IsFull
    /\ freed' = freed \cup {packet[t]}
    /\ life' = IF life = "live" THEN "releasing" ELSE life
    /\ pc' = [pc EXCEPT ![t] = "idle"] /\ packet' = [packet EXCEPT ![t] = NoPacket]
    /\ UNCHANGED <<ring, lives, made, madeIn, out>>

-------------------------------------------------------------------------------
(* The logic worker, which the release waits for *)

\* Mutant: the head stays where it is.
Pop_HeadStays ==
    /\ life # "pooled" /\ Unlocked /\ ~IsEmpty
    /\ out' = Append(out, buffer[head])
    /\ count' = count - 1
    /\ UNCHANGED <<capacity, head, tail, buffer, slotVars, senderVars, freed>>

\* TryFlushPendingQueue takes a packet out.
Pop ==
    /\ life # "pooled" /\ Unlocked /\ ~IsEmpty
    /\ out' = Append(out, buffer[head])
    /\ head' = Advanced(head) /\ count' = count - 1
    /\ UNCHANGED <<capacity, tail, buffer, slotVars, senderVars, freed>>

-------------------------------------------------------------------------------
(* The lives of the slot *)

\* Resize: the cells are kept, the indices start anew.
Resize ==
    /\ capacity' = Capacity /\ head' = 0 /\ tail' = 0 /\ count' = 0
    /\ buffer' = [i \in 0 .. Capacity - 1 |-> IF i \in DOMAIN buffer THEN buffer[i] ELSE NoPacket]

\* SessionSendContext::Initialize, without the mutex.
Reserve ==
    /\ life = "pooled" /\ lives < MaxLives
    /\ Resize
    /\ life' = "live" /\ lives' = lives + 1
    /\ UNCHANGED <<senderVars, out, freed>>

DoDisconnect ==
    /\ life = "live" /\ life' = "releasing"
    /\ UNCHANGED <<ring, lives, senderVars, out, freed>>

\* Every packet is popped and freed.
ClearPendingQueue ==
    /\ freed' = freed \cup {Contents[i] : i \in 1 .. count}
    /\ head' = tail /\ count' = 0
    /\ UNCHANGED <<capacity, tail, buffer>>

\* SessionSendContext::Reset.
Reset ==
    /\ life = "releasing" /\ Unlocked
    /\ Late \/ \A t \in Senders : pc[t] = "idle"
    /\ ClearPendingQueue
    /\ life' = "pooled"
    /\ UNCHANGED <<lives, senderVars, out>>

Next ==
    \/ \E t \in Senders : SendPacket(t) \/ PushStores(t) \/ PushCounts(t) \/ PushFails(t)
    \/ Pop \/ Reserve \/ DoDisconnect \/ Reset

Spec == Init /\ [][Next]_vars

-------------------------------------------------------------------------------

TypeOK ==
    /\ capacity \in Nat /\ head \in Nat /\ tail \in Nat /\ count \in Nat
    /\ buffer \in [0 .. capacity - 1 -> Packets \cup {NoPacket}]
    /\ life \in {"pooled", "live", "releasing"} /\ lives \in Nat
    /\ pc \in [Senders -> {"idle", "checked", "stored"}]
    /\ packet \in [Senders -> Packets \cup {NoPacket}]
    /\ made \in Nat /\ madeIn \in [Packets -> Nat]
    /\ out \in Seq(Packets \cup {NoPacket}) /\ freed \subseteq Packets \cup {NoPacket}

\* The ring is what its mutex is there to keep whole: the indices lie in the buffer
\* and the tail is as far from the head as there are items, whoever pushes, pops,
\* clears and resizes.
RingWhole ==
    /\ count <= capacity
    /\ capacity > 0 => head < capacity /\ tail = (head + count) % capacity

\* No packet is lost or duplicated: every packet made is with its sender, in the ring,
\* taken out by the logic worker, or freed, and only one of these.
Places(n) ==
    Cardinality({t \in Senders : packet[t] = n})
        + Cardinality({i \in 1 .. count : Contents[i] = n})
        + Cardinality({i \in DOMAIN out : out[i] = n})
        + (IF n \in freed THEN 1 ELSE 0)

EachPacketSomewhere == \A n \in 1 .. made : Places(n) = 1

\* The pending queue is documented to be protected by a mutex of its own: the logic
\* worker takes a packet once, and never one that was freed or a cell never written.
TakenOnce ==
    /\ \A i \in DOMAIN out : out[i] # NoPacket /\ out[i] \notin freed
    /\ \A i, j \in DOMAIN out : out[i] = out[j] => i = j

\* Every packet the logic worker takes was made for the connection it serves.
OwnPackets ==
    [][out' # out => \E n \in Packets : out' = Append(out, n) /\ madeIn[n] = lives]_vars

\* The ring and its mutex implement a bounded queue.
Fifo == INSTANCE BoundedFifo WITH Items <- Packets, queue <- Contents
ImplementsFifo == Fifo!FifoSpec

===============================================================================
