------------------------------ MODULE ClientSend ------------------------------
(***************************************************************************)
(* The sending side of RUDPClientCore, once Start has sent CONNECT: the    *)
(* threads of the application number and register packets or leave them in *)
(* the pending queue, the receive thread takes replies and flushes that    *)
(* queue, the send thread empties the send queue into the network, and the *)
(* retransmission thread gives up at its limit.                            *)
(*                                                                         *)
(* The network delivers what was sent in any order, again, or never.  Of   *)
(* the server there is what the client can tell: it accepts packets in     *)
(* their order, holds early ones without a reply, and always advertises    *)
(* the whole window (ReceiveOrdering shows why).                           *)
(***************************************************************************)
EXTENDS Naturals, Sequences, FiniteSetsExt

CONSTANTS
    Senders,        \* the threads of the application that send
    MaxSequence,    \* bound of the model on the packets sent
    Window,         \* what the server advertises
    ByteRange,      \* the values of a BYTE, to which the number outstanding is cast
    MaxPacketRetransmissionCount

ClientSendAssumption ==
    /\ IsFiniteSet(Senders) /\ MaxSequence \in Nat
    /\ ByteRange \in Nat \ {0} /\ Window \in 1 .. ByteRange - 1
    /\ MaxPacketRetransmissionCount \in Nat \ {0}

Connect == 0        \* the sequence of the CONNECT packet
Packets == Connect .. MaxSequence
NoPacket == MaxSequence + 1

VARIABLES
    lastSendPacketSequence, remoteAdvertisedWindow,
    sendPacketInfoMap, retransmissionCount,
    pendingPacketQueue, sendBufferQueue,
    isConnected, threadStopFlag,
    sender,             \* thread -> [pc, packet, window], the window it has loaded
    recv,               \* the receive thread; it holds pendingPacketQueueLock to flush
    rt,                 \* the retransmission thread
    toServer, toClient, \* what was ever put on the wire
    serverNext, serverHeld  \* the server's next expected sequence, and early packets

queueVars == <<lastSendPacketSequence, remoteAdvertisedWindow, sendPacketInfoMap,
               retransmissionCount, pendingPacketQueue, sendBufferQueue>>
flagVars == <<isConnected, threadStopFlag>>
serverVars == <<toServer, toClient, serverNext, serverHeld>>
vars == <<queueVars, flagVars, sender, recv, rt, serverVars>>

Resting == [pc |-> "idle", packet |-> NoPacket, window |-> 0]

\* Start has returned: CONNECT is registered, and the window unknown.
Init ==
    /\ lastSendPacketSequence = Connect /\ remoteAdvertisedWindow = 1
    /\ sendPacketInfoMap = {Connect} /\ retransmissionCount = [p \in Packets |-> 0]
    /\ pendingPacketQueue = {} /\ sendBufferQueue = <<Connect>>
    /\ isConnected = FALSE /\ threadStopFlag = FALSE
    /\ sender = [t \in Senders |-> Resting] /\ recv = Resting /\ rt = Resting
    /\ toServer = {} /\ toClient = {}
    /\ serverNext = Connect /\ serverHeld = {}

Outstanding == Cardinality(sendPacketInfoMap)
Flushing == recv.pc \in {"flush", "insert", "enqueue"}  \* holds pendingPacketQueueLock

-----------------------------------------------------------------------------
(* A thread of the application: SendPacket.                                *)

TakeSequence(t) ==
    /\ sender[t].pc = "idle" /\ lastSendPacketSequence < MaxSequence
    /\ lastSendPacketSequence' = lastSendPacketSequence + 1
    /\ sender' = [sender EXCEPT ![t] =
          [pc |-> "load", packet |-> lastSendPacketSequence + 1, window |-> 0]]
    /\ UNCHANGED <<remoteAdvertisedWindow, sendPacketInfoMap, retransmissionCount,
                   pendingPacketQueue, sendBufferQueue, flagVars, recv, rt, serverVars>>

\* static_cast<BYTE>: the number outstanding is compared modulo ByteRange.
HasRoom(window) == Outstanding % ByteRange < window

\* The window is loaded with no lock ...
LoadWindow(t) ==
    /\ sender[t].pc = "load"
    /\ sender' = [sender EXCEPT ![t].pc = "check", ![t].window = remoteAdvertisedWindow]
    /\ UNCHANGED <<queueVars, flagVars, recv, rt, serverVars>>

\* ... the number outstanding is read under one lock ...
CheckWindow(t) ==
    /\ sender[t].pc = "check"
    /\ sender' = [sender EXCEPT ![t].pc = IF HasRoom(sender[t].window) THEN "insert" ELSE "push",
                                ![t].window = 0]
    /\ UNCHANGED <<queueVars, flagVars, recv, rt, serverVars>>

\* Mutant: a packet pushed while the queue is being flushed replaces what is there.
PushPending_Replaces(t) ==
    /\ sender[t].pc = "push" /\ ~Flushing
    /\ pendingPacketQueue' = {sender[t].packet}
    /\ sender' = [sender EXCEPT ![t] = Resting]
    /\ UNCHANGED <<lastSendPacketSequence, remoteAdvertisedWindow, sendPacketInfoMap,
                   retransmissionCount, sendBufferQueue, flagVars, recv, rt, serverVars>>

\* ... and the packet is left pending under another ...
PushPending(t) ==
    /\ sender[t].pc = "push" /\ ~Flushing
    /\ pendingPacketQueue' = pendingPacketQueue \cup {sender[t].packet}
    /\ sender' = [sender EXCEPT ![t] = Resting]
    /\ UNCHANGED <<lastSendPacketSequence, remoteAdvertisedWindow, sendPacketInfoMap,
                   retransmissionCount, sendBufferQueue, flagVars, recv, rt, serverVars>>

\* RegisterSendPacketInfo: first into the map, then into the send queue.
Insert(p) ==
    /\ sendPacketInfoMap' = sendPacketInfoMap \cup {p}
    /\ UNCHANGED <<lastSendPacketSequence, remoteAdvertisedWindow, retransmissionCount,
                   pendingPacketQueue, sendBufferQueue>>
Enqueue(p) ==
    /\ sendBufferQueue' = Append(sendBufferQueue, p)
    /\ UNCHANGED <<lastSendPacketSequence, remoteAdvertisedWindow, sendPacketInfoMap,
                   retransmissionCount, pendingPacketQueue>>

\* ... or registered.
RegisterSendPacketInfo(t) ==
    /\ \/ /\ sender[t].pc = "insert" /\ Insert(sender[t].packet)
          /\ sender' = [sender EXCEPT ![t].pc = "enqueue"]
       \/ /\ sender[t].pc = "enqueue" /\ Enqueue(sender[t].packet)
          /\ sender' = [sender EXCEPT ![t] = Resting]
    /\ UNCHANGED <<flagVars, recv, rt, serverVars>>

-----------------------------------------------------------------------------
(* The receive thread: OnSendReply.                                        *)

OnSendReply(p) ==
    /\ recv.pc = "idle" /\ ~threadStopFlag
    /\ p \in toClient /\ p <= lastSendPacketSequence
    /\ remoteAdvertisedWindow' = Window
    /\ isConnected' = (isConnected \/ p = Connect)
    /\ recv' = [pc |-> "erase", packet |-> p, window |-> 0]
    /\ UNCHANGED <<lastSendPacketSequence, sendPacketInfoMap, retransmissionCount,
                   pendingPacketQueue, sendBufferQueue, threadStopFlag, sender, rt,
                   serverVars>>

\* The packet is erased, and the window loaded once for the flush: only this thread stores
\* it.
EraseSendPacketInfo ==
    /\ recv.pc = "erase"
    /\ sendPacketInfoMap' = sendPacketInfoMap \ {recv.packet}
    /\ recv' = [pc |-> "flush", packet |-> NoPacket, window |-> remoteAdvertisedWindow]
    /\ UNCHANGED <<lastSendPacketSequence, remoteAdvertisedWindow, retransmissionCount,
                   pendingPacketQueue, sendBufferQueue, flagVars, sender, rt, serverVars>>

\* Take the lowest pending packet, while there is room.
TryFlushPendingQueue ==
    /\ recv.pc = "flush"
    /\ IF pendingPacketQueue = {} \/ ~HasRoom(recv.window)
       THEN recv' = Resting /\ UNCHANGED pendingPacketQueue
       ELSE LET p == Min(pendingPacketQueue) IN
            /\ pendingPacketQueue' = pendingPacketQueue \ {p}
            /\ recv' = [recv EXCEPT !.pc = "insert", !.packet = p]
    /\ UNCHANGED <<lastSendPacketSequence, remoteAdvertisedWindow, sendPacketInfoMap,
                   retransmissionCount, sendBufferQueue, flagVars, sender, rt, serverVars>>

RegisterPending ==
    /\ \/ /\ recv.pc = "insert" /\ Insert(recv.packet)
          /\ recv' = [recv EXCEPT !.pc = "enqueue"]
       \/ /\ recv.pc = "enqueue" /\ Enqueue(recv.packet)
          /\ recv' = [recv EXCEPT !.pc = "flush", !.packet = NoPacket]
    /\ UNCHANGED <<flagVars, sender, rt, serverVars>>

-----------------------------------------------------------------------------
(* The retransmission and send threads.                                    *)

\* The timeout of p is over.
ScanTimeout(p) ==
    /\ rt.pc = "idle" /\ ~threadStopFlag /\ p \in sendPacketInfoMap
    /\ rt' = [rt EXCEPT !.pc = "count", !.packet = p]
    /\ UNCHANGED <<queueVars, flagVars, sender, recv, serverVars>>

\* Acknowledged since, past its limit, or counted and sent again.
CountRetransmission ==
    /\ rt.pc = "count"
    /\ IF rt.packet \notin sendPacketInfoMap
       THEN rt' = Resting /\ UNCHANGED <<retransmissionCount, flagVars>>
       ELSE /\ retransmissionCount' = [retransmissionCount EXCEPT ![rt.packet] = @ + 1]
            /\ IF retransmissionCount[rt.packet] + 1 >= MaxPacketRetransmissionCount
               THEN rt' = Resting /\ isConnected' = FALSE /\ threadStopFlag' = TRUE
               ELSE rt' = [rt EXCEPT !.pc = "resend"] /\ UNCHANGED flagVars
    /\ UNCHANGED <<lastSendPacketSequence, remoteAdvertisedWindow, sendPacketInfoMap,
                   pendingPacketQueue, sendBufferQueue, sender, recv, serverVars>>

Resend ==
    /\ rt.pc = "resend" /\ Enqueue(rt.packet) /\ rt' = Resting
    /\ UNCHANGED <<flagVars, sender, recv, serverVars>>

DoSend ==
    /\ sendBufferQueue # <<>>
    /\ sendBufferQueue' = Tail(sendBufferQueue)
    /\ toServer' = toServer \cup {Head(sendBufferQueue)}
    /\ UNCHANGED <<lastSendPacketSequence, remoteAdvertisedWindow, sendPacketInfoMap,
                   retransmissionCount, pendingPacketQueue, flagVars, sender, recv, rt,
                   toClient, serverNext, serverHeld>>

-----------------------------------------------------------------------------
(* The server: TryConnect and OnRecvPacket.                                *)

ServerReceives(p) ==
    LET first == CHOOSE n \in serverNext + 1 .. NoPacket :
                    n \notin serverHeld /\ \A m \in serverNext + 1 .. n - 1 : m \in serverHeld
        delivered == serverNext .. first - 1 IN
    /\ p \in toServer
    /\ \/ /\ p = serverNext     \* it and the held packets after it
          /\ serverNext' = first /\ serverHeld' = serverHeld \ delivered
          /\ toClient' = toClient \cup delivered
       \/ /\ Connect < p /\ p < serverNext
          /\ toClient' = toClient \cup {p} /\ UNCHANGED <<serverNext, serverHeld>>
       \/ /\ Connect < serverNext /\ serverNext < p /\ p < serverNext + Window
          /\ serverHeld' = serverHeld \cup {p} /\ UNCHANGED <<serverNext, toClient>>
    /\ UNCHANGED <<queueVars, flagVars, sender, recv, rt, toServer>>

-----------------------------------------------------------------------------
Sending(t) ==
    TakeSequence(t) \/ LoadWindow(t) \/ CheckWindow(t) \/ PushPending(t)
        \/ RegisterSendPacketInfo(t)
Flush == EraseSendPacketInfo \/ TryFlushPendingQueue \/ RegisterPending

Next ==
    \/ \E t \in Senders : Sending(t)
    \/ \E p \in Packets : OnSendReply(p) \/ ScanTimeout(p) \/ ServerReceives(p)
    \/ Flush \/ CountRetransmission \/ Resend \/ DoSend

Spec == Init /\ [][Next]_vars

\* The client's threads run; the retransmission thread walks the whole map in every
\* period, so that no packet is passed over for ever.
Fairness ==
    /\ \A t \in Senders : WF_vars(Sending(t))
    /\ WF_vars(Flush) /\ WF_vars(CountRetransmission) /\ WF_vars(Resend) /\ WF_vars(DoSend)
    /\ \A p \in Packets : SF_vars(ScanTimeout(p))

LiveSpec == Spec /\ Fairness

-----------------------------------------------------------------------------
TypeOK ==
    /\ lastSendPacketSequence \in Packets /\ remoteAdvertisedWindow \in {1, Window}
    /\ sendPacketInfoMap \subseteq Packets
    /\ retransmissionCount \in [Packets -> 0 .. MaxPacketRetransmissionCount]
    /\ pendingPacketQueue \subseteq Packets \ {Connect} /\ sendBufferQueue \in Seq(Packets)
    /\ isConnected \in BOOLEAN /\ threadStopFlag \in BOOLEAN
    /\ sender \in [Senders -> [pc : {"idle", "load", "check", "push", "insert", "enqueue"},
                               packet : Packets \cup {NoPacket}, window : {0, 1, Window}]]
    /\ recv.pc \in {"idle", "erase", "flush", "insert", "enqueue"}
    /\ rt.pc \in {"idle", "count", "resend"}
    /\ toServer \subseteq Packets /\ toClient \subseteq Packets
    /\ serverNext \in 0 .. NoPacket /\ serverHeld \subseteq Packets

\* The threads between which packet p is on its way into a queue.
Handling(p) ==
    {t \in Senders : sender[t].packet = p /\ sender[t].pc # "enqueue"}
        \cup {r \in {"recv"} : recv.packet = p /\ recv.pc = "insert"}

\* A packet that was numbered is in one place, with a thread, pending or outstanding, until
\* the server has delivered it: a reply, a flush and a push that cross lose none and
\* register none twice.
EachPacketInOnePlace ==
    \A p \in Packets : p <= lastSendPacketSequence =>
        LET places == Cardinality(Handling(p))
                          + (IF p \in pendingPacketQueue THEN 1 ELSE 0)
                          + (IF p \in sendPacketInfoMap THEN 1 ELSE 0)
        IN  places <= 1 /\ (places = 0 => p < serverNext)

\* Threads that pass the check together exceed the window by no more than one packet each,
\* as long as that many fit a BYTE: one more is counted as none, and the window is open
\* again.
WindowFits == Window + Cardinality(Senders) < ByteRange
OutstandingBounded == WindowFits => Outstanding <= Window + Cardinality(Senders)

\* The same for every window that can be advertised.
OutstandingAlwaysBounded == Outstanding <= Window + Cardinality(Senders)

\* A packet registered is acknowledged, or the client gives up: none is sent for ever.
NothingOutstanding == sendPacketInfoMap = {} \/ threadStopFlag

\* The pending queue is flushed when the window has room: with every thread at rest a
\* packet waits only behind a full window.
FlushedWhenRoom ==
    (\A t \in Senders : sender[t].pc = "idle") /\ recv.pc = "idle"
            /\ HasRoom(remoteAdvertisedWindow)
        => pendingPacketQueue = {}

\* Packets are sent in the order of their sequences: none is outstanding while an earlier
\* one still waits.
LowestFirst == \A p \in sendPacketInfoMap, q \in pendingPacketQueue : p < q
=============================================================================
