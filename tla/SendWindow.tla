------------------------------ MODULE SendWindow ------------------------------
(***************************************************************************)
(* The send side of a connected RUDPSession: content threads and the       *)
(* heartbeat thread number packets, the flow controller lets a packet      *)
(* through or sends it to the pending queue, the client replies in any     *)
(* order, and the logic worker that takes a reply moves the congestion     *)
(* window and flushes the queue, while the retransmission thread halves    *)
(* the window.  cwnd and inRecovery are plain fields those two threads     *)
(* read and write with no lock.                                            *)
(*                                                                         *)
(* A connection sends far fewer than 2^63 packets, so a packet is its      *)
(* sequence and SeqDiff is the difference.  The client is external: it     *)
(* replies to whatever reached it, and the retransmissions see to it that  *)
(* everything sent does.  What follows a disconnection is left to          *)
(* SessionLifecycle: here the session is closed and nothing more happens.  *)
(***************************************************************************)
EXTENDS Integers, SequencesExt, FiniteSetsExt

CONSTANTS
    Content,       \* threads that call RUDPSession::SendPacket
    Heartbeats,    \* whether the heartbeat thread sends too
    InitialCwnd, MaxCwnd, GapThreshold,  \* INITIAL_CWND, MAX_CWND, GAP_THRESHOLD
    PendingCapacity,
    MaxSent        \* bound of the model on the packets of one connection

HeartbeatThread == "heartbeat"

WindowAssumption ==
    /\ MaxCwnd \in 1 .. 254 /\ InitialCwnd \in 1 .. MaxCwnd
    /\ GapThreshold \in Nat
SendersAssumption == HeartbeatThread \notin Content /\ Heartbeats \in BOOLEAN
BoundsAssumption == PendingCapacity \in Nat \ {0} /\ MaxSent \in Nat

Threads == Content \cup (IF Heartbeats THEN {HeartbeatThread} ELSE {})

VARIABLES
    lastSendPacketSequence,
    pc, inHand,            \* of each sending thread, and its packet
    pendingPacketQueue,
    sendPacketInfoMap,     \* the sequences sent and not replied to
    cwnd, lastReplySequence, inRecovery,
    workerPc, workerCwnd,  \* the logic worker in OnSendReply, and the window it read
    sendBuffers,           \* the packets it has taken out of the pending queue
    timeoutCwnd,           \* the window the retransmission thread read, or 0
    heartbeats, sentAsCore,  \* packets that are heartbeats; packets encoded as
                             \* core packets (history)
    acked,                 \* packets replied to (history)
    closed                 \* DoDisconnect was called

senderVars == <<lastSendPacketSequence, pc, inHand, heartbeats>>
flowVars == <<cwnd, lastReplySequence, inRecovery>>
workerVars == <<workerPc, workerCwnd, sendBuffers, acked>>
queueVars == <<pendingPacketQueue, sendPacketInfoMap, sentAsCore>>
vars == <<senderVars, flowVars, workerVars, queueVars, timeoutCwnd, closed>>

Init ==
    /\ lastSendPacketSequence = 0
    /\ pc = [t \in Threads |-> "idle"] /\ inHand = [t \in Threads |-> 0]
    /\ pendingPacketQueue = <<>> /\ sendPacketInfoMap = {}
    /\ cwnd = InitialCwnd /\ lastReplySequence = 0 /\ inRecovery = FALSE
    /\ workerPc = "idle" /\ workerCwnd = 0 /\ sendBuffers = <<>>
    /\ timeoutCwnd = 0
    /\ heartbeats = {} /\ sentAsCore = {} /\ acked = {}
    /\ closed = FALSE

-----------------------------------------------------------------------------
(* RUDPFlowController.                                                     *)

\* Nothing older than the last reply is counted as outstanding.
CanSend(next) ==
    LET diff == next - lastReplySequence IN (IF diff > 1 THEN diff - 1 ELSE 0) < cwnd

Halved(window) == Max({window \div 2, 1})

Grown(window) == Min({window + 1, MaxCwnd})

-----------------------------------------------------------------------------
(* The sending threads.                                                    *)

IncrementLastSendPacketSequence(t) ==
    /\ lastSendPacketSequence' = lastSendPacketSequence + 1
    /\ inHand' = [inHand EXCEPT ![t] = lastSendPacketSequence + 1]
    /\ pc' = [pc EXCEPT ![t] = "numbered"]

\* SendPacket(IPacket&): number the packet, before any lock is taken.
SendPacket(t) ==
    /\ t # HeartbeatThread /\ pc[t] = "idle" /\ ~closed
    /\ lastSendPacketSequence < MaxSent
    /\ IncrementLastSendPacketSequence(t)
    /\ UNCHANGED <<heartbeats, flowVars, workerVars, queueVars, timeoutCwnd, closed>>

\* Flow control is asked about the sequence that comes next by now ...
SendHeartbeatPacket(t) ==
    /\ t = HeartbeatThread /\ pc[t] = "idle" /\ ~closed
    /\ lastSendPacketSequence < MaxSent
    /\ CanSend(lastSendPacketSequence + 1)
    /\ pc' = [pc EXCEPT ![t] = "checked"]
    /\ UNCHANGED <<lastSendPacketSequence, inHand, heartbeats, flowVars, workerVars,
                   queueVars, timeoutCwnd, closed>>

\* ... and the one taken may be a later one.
NumberHeartbeat(t) ==
    /\ pc[t] = "checked" /\ ~closed
    /\ lastSendPacketSequence < MaxSent
    /\ IncrementLastSendPacketSequence(t)
    /\ heartbeats' = heartbeats \cup {lastSendPacketSequence + 1}
    /\ UNCHANGED <<flowVars, workerVars, queueVars, timeoutCwnd, closed>>

Idle(t) ==
    /\ pc' = [pc EXCEPT ![t] = "idle"] /\ inHand' = [inHand EXCEPT ![t] = 0]
    /\ UNCHANGED <<lastSendPacketSequence, heartbeats>>

MustWait(sequence) == pendingPacketQueue # <<>> \/ ~CanSend(sequence)

\* Under the pending queue's lock: queue the packet, fail if there is no room, or
\* go on without the lock.
SendOrQueue(t) ==
    /\ pc[t] = "numbered" /\ ~closed
    /\ IF ~MustWait(inHand[t])
       THEN /\ pc' = [pc EXCEPT ![t] = "immediate"]
            /\ UNCHANGED <<lastSendPacketSequence, inHand, heartbeats,
                           pendingPacketQueue, closed>>
       ELSE /\ Idle(t)
            /\ IF Len(pendingPacketQueue) = PendingCapacity
               THEN closed' = TRUE /\ UNCHANGED pendingPacketQueue
               ELSE /\ pendingPacketQueue' = Append(pendingPacketQueue, inHand[t])
                    /\ UNCHANGED closed
    /\ UNCHANGED <<flowVars, workerVars, sendPacketInfoMap, sentAsCore, timeoutCwnd>>

\* SendPacketImmediate: register the packet, encode it, hand it to the I/O handler.
SendPacketImmediate(sequence, isCorePacket) ==
    /\ sendPacketInfoMap' = sendPacketInfoMap \cup {sequence}
    /\ sentAsCore' = IF isCorePacket THEN sentAsCore \cup {sequence} ELSE sentAsCore

SendNow(t) ==
    /\ pc[t] = "immediate" /\ ~closed
    /\ SendPacketImmediate(inHand[t], t = HeartbeatThread)
    /\ Idle(t)
    /\ UNCHANGED <<pendingPacketQueue, flowVars, workerVars, timeoutCwnd, closed>>

-----------------------------------------------------------------------------
(* The logic worker: OnSendReply.                                          *)

\* Mutant: a reply older than the last moves the window back.
AcceptReply_AnyOrder(sequence) ==
    /\ lastReplySequence' = sequence
    /\ workerPc' = "window"
    /\ UNCHANGED <<cwnd, inRecovery>>

\* OnReplyReceived up to the new lastReplySequence; an older reply goes no further.
AcceptReply(sequence) ==
    LET diff == sequence - lastReplySequence
        gap == diff - 1 >= GapThreshold IN
    IF diff <= 0
    THEN workerPc' = "flush" /\ UNCHANGED flowVars
    ELSE /\ cwnd' = IF gap THEN Halved(cwnd) ELSE cwnd
         /\ inRecovery' = IF gap THEN TRUE ELSE inRecovery
         /\ lastReplySequence' = sequence
         /\ workerPc' = "window"

\* The first reply to a packet that was sent; any other changes nothing.
OnSendReply(sequence) ==
    /\ workerPc = "idle" /\ ~closed
    /\ sequence \in sendPacketInfoMap
    /\ sendPacketInfoMap' = sendPacketInfoMap \ {sequence}
    /\ acked' = acked \cup {sequence}
    /\ AcceptReply(sequence)
    /\ UNCHANGED <<senderVars, pendingPacketQueue, sentAsCore, workerCwnd, sendBuffers,
                   timeoutCwnd, closed>>

\* The reply leaves recovery, or reads the window it is about to grow.
ReadCwnd ==
    /\ workerPc = "window" /\ ~closed
    /\ IF inRecovery
       THEN inRecovery' = FALSE /\ workerPc' = "flush" /\ UNCHANGED workerCwnd
       ELSE workerCwnd' = cwnd /\ workerPc' = "grow" /\ UNCHANGED inRecovery
    /\ UNCHANGED <<senderVars, cwnd, lastReplySequence, sendBuffers, acked, queueVars,
                   timeoutCwnd, closed>>

WriteCwnd ==
    /\ workerPc = "grow" /\ ~closed
    /\ cwnd' = Grown(workerCwnd) /\ workerCwnd' = 0 /\ workerPc' = "flush"
    /\ UNCHANGED <<senderVars, lastReplySequence, inRecovery, sendBuffers, acked,
                   queueVars, timeoutCwnd, closed>>

\* Under the pending queue's lock: take the packets at the front that may go.
TryFlushPendingQueue ==
    LET sendable == {k \in 0 .. Len(pendingPacketQueue) :
                        \A i \in 1 .. k : CanSend(pendingPacketQueue[i])}
        count == Max(sendable) IN
    /\ workerPc = "flush" /\ ~closed
    /\ sendBuffers' = SubSeq(pendingPacketQueue, 1, count)
    /\ pendingPacketQueue' = SubSeq(pendingPacketQueue, count + 1, Len(pendingPacketQueue))
    /\ workerPc' = IF count = 0 THEN "idle" ELSE "sending"
    /\ UNCHANGED <<senderVars, flowVars, sendPacketInfoMap, sentAsCore, workerCwnd,
                   acked, timeoutCwnd, closed>>

\* Each is sent as an ordinary packet, whatever it is.
SendFlushed ==
    /\ workerPc = "sending" /\ ~closed
    /\ SendPacketImmediate(Head(sendBuffers), FALSE)
    /\ sendBuffers' = Tail(sendBuffers)
    /\ workerPc' = IF Len(sendBuffers) = 1 THEN "idle" ELSE "sending"
    /\ UNCHANGED <<senderVars, flowVars, pendingPacketQueue, workerCwnd, acked,
                   timeoutCwnd, closed>>

-----------------------------------------------------------------------------
(* The retransmission thread, when the estimator accepts a timeout.        *)

TimeoutReads ==
    /\ timeoutCwnd = 0 /\ ~closed
    /\ sendPacketInfoMap # {}
    /\ timeoutCwnd' = cwnd
    /\ UNCHANGED <<senderVars, flowVars, workerVars, queueVars, closed>>

OnTimeout ==
    /\ timeoutCwnd # 0 /\ ~closed
    /\ cwnd' = Halved(timeoutCwnd) /\ inRecovery' = TRUE /\ timeoutCwnd' = 0
    /\ UNCHANGED <<senderVars, lastReplySequence, workerVars, queueVars, closed>>

\* An allocation fails, or core.SendPacket, or the session leaves for another reason.
DoDisconnect ==
    /\ ~closed /\ closed' = TRUE
    /\ UNCHANGED <<senderVars, flowVars, workerVars, queueVars, timeoutCwnd>>

-----------------------------------------------------------------------------
Sender(t) ==
    SendPacket(t) \/ SendHeartbeatPacket(t) \/ NumberHeartbeat(t) \/ SendOrQueue(t)
        \/ SendNow(t)
Worker == ReadCwnd \/ WriteCwnd \/ TryFlushPendingQueue \/ SendFlushed
Retransmission == TimeoutReads \/ OnTimeout

Next ==
    \/ \E t \in Threads : Sender(t)
    \/ \E n \in 1 .. MaxSent : OnSendReply(n)
    \/ Worker \/ Retransmission \/ DoDisconnect

Spec == Init /\ [][Next]_vars

\* A call that was entered returns, the worker runs, and what was sent is replied
\* to in the end: the retransmission thread sees to it.  Nobody has to send, to
\* time out or to disconnect.
FairSpec ==
    /\ Spec
    /\ \A t \in Threads :
          WF_vars(NumberHeartbeat(t) \/ SendOrQueue(t) \/ SendNow(t))
    /\ WF_vars(Worker)
    /\ \A n \in 1 .. MaxSent : SF_vars(OnSendReply(n))

-----------------------------------------------------------------------------
TypeOK ==
    /\ lastSendPacketSequence \in 0 .. MaxSent
    /\ pc \in [Threads -> {"idle", "checked", "numbered", "immediate"}]
    /\ inHand \in [Threads -> 0 .. MaxSent]
    /\ pendingPacketQueue \in Seq(1 .. MaxSent)
    /\ sendPacketInfoMap \subseteq 1 .. MaxSent
    /\ cwnd \in Nat /\ lastReplySequence \in 0 .. MaxSent /\ inRecovery \in BOOLEAN
    /\ workerPc \in {"idle", "window", "grow", "flush", "sending"}
    /\ workerCwnd \in Nat /\ timeoutCwnd \in Nat
    /\ sendBuffers \in Seq(1 .. MaxSent)
    /\ heartbeats \subseteq 1 .. MaxSent /\ sentAsCore \subseteq 1 .. MaxSent
    /\ acked \subseteq 1 .. MaxSent /\ closed \in BOOLEAN

Places(n) ==
    Cardinality({t \in Threads : inHand[t] = n})
        + Cardinality({i \in DOMAIN pendingPacketQueue : pendingPacketQueue[i] = n})
        + Cardinality({i \in DOMAIN sendBuffers : sendBuffers[i] = n})
        + (IF n \in sendPacketInfoMap THEN 1 ELSE 0) + (IF n \in acked THEN 1 ELSE 0)

\* Every packet that was numbered is, until the session closes, in one place and
\* one only: in the hands of the thread that numbered it, in the pending queue, in
\* the worker's batch, among those sent, or acknowledged; nothing later exists.
EachPacketInOnePlace ==
    ~closed => \A n \in 1 .. MaxSent :
                  Places(n) = IF n <= lastSendPacketSequence THEN 1 ELSE 0

\* However the replies, the timeouts and the unlocked reads and writes of the two
\* threads interleave, the window neither closes nor passes its maximum, and no
\* thread is about to write one that does.
CwndBounded ==
    /\ cwnd \in 1 .. MaxCwnd
    /\ workerPc = "grow" => workerCwnd \in 1 .. MaxCwnd
    /\ timeoutCwnd \in 0 .. MaxCwnd

\* What has left the pending queue's control lies within the largest window above
\* the highest reply: a client that holds MAX_CWND packets never meets another.
SentWithinWindow ==
    \A n \in sendPacketInfoMap \cup acked \cup ToSet(sendBuffers)
               \cup {inHand[t] : t \in {u \in Threads : pc[u] = "immediate"}} :
        n <= Max(acked \cup {0}) + MaxCwnd

\* The window's base is the highest reply taken, so a late reply to an old packet
\* never makes flow control forget what was already acknowledged.
BaseIsHighestReply == lastReplySequence = Max(acked \cup {0})

\* A packet that was numbered is acknowledged in the end, or the session closes: the
\* pending queue never keeps one for ever.
AllAcked == closed \/ (\A n \in 1 .. lastSendPacketSequence : n \in acked)
EventuallyAcked == []<>AllAcked

\* It does when two threads were queued in the wrong order, the later packet in front of
\* the earlier one.
Overtaken == \E i \in DOMAIN pendingPacketQueue : pendingPacketQueue[i] < pendingPacketQueue[1]
AllAckedUnlessOvertaken == AllAcked \/ Overtaken

\* A heartbeat goes out as the core packet it is (HEARTBEAT_TYPE, isCorePacket=true).
HeartbeatsAreCorePackets ==
    heartbeats \cap (sendPacketInfoMap \cup acked) \subseteq sentAsCore

\* CWND limits the unacknowledged packets that may be on their way at once.
UnackedWithinCwnd == Cardinality(sendPacketInfoMap) <= MaxCwnd

\* A timeout shrinks the window: no step of another thread leaves it larger while
\* the session is still recovering.
NoGrowthInRecovery == [][inRecovery' => cwnd' <= cwnd]_vars
=============================================================================
