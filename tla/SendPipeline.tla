----------------------------- MODULE SendPipeline -----------------------------
(***************************************************************************)
(* How the packets of one session become datagrams: every thread that      *)
(* sends pushes its packet to the queue and calls DoSend, one of them at a *)
(* time wins ioMode, packs what is queued into the session's one send      *)
(* buffer, and posts it; the completion gives ioMode back and tries again. *)
(* A packet the client acknowledges meanwhile is erased where it stands.   *)
(*                                                                         *)
(* The buffer is an array of cells that name the packet whose bytes they   *)
(* hold: the bytes of an earlier datagram stay until they are overwritten. *)
(* A packet is a number, given in the order of first submission.           *)
(***************************************************************************)
EXTENDS Naturals, SequencesExt, FiniteSetsExt

CONSTANTS
    Senders,      \* content threads, heartbeat and logic worker
    Capacity,     \* MAX_SEND_BUFFER_SIZE, in cells; no packet fills the buffer
    Big,          \* the packets of two cells; the others have one
    Acks,         \* whether the client acknowledges packets
    Losses,       \* whether the loss simulator is installed
    MaxPackets, MaxPushes   \* bounds of the model

IOWorker == "io"
Retransmitter == "retransmission"
Threads == Senders \cup {IOWorker, Retransmitter}
Packets == 1 .. MaxPackets
Size(n) == IF n \in Big THEN 2 ELSE 1

PipelineAssumption ==
    /\ Capacity \in Nat /\ Capacity >= 3
    /\ Big \subseteq Packets
    /\ Acks \in BOOLEAN /\ Losses \in BOOLEAN
    /\ {IOWorker, Retransmitter} \cap Senders = {} /\ IOWorker # Retransmitter
    /\ MaxPackets \in Nat /\ MaxPushes \in Nat

VARIABLES
    sendPacketInfoQueue, reservedSendPacketInfo,  \* 0 is no packet
    ioMode,             \* "NONE" or "SENDING"
    rioSendBuffer, batch,       \* the cells, and the packets written for this datagram
    cachedSequenceSet,
    pc, left, totalSendSize,    \* of each thread in DoSend
    skipped,            \* history: the packets found erased in making the last stream
    posted,             \* the send in flight: its length, or 0
    erased,             \* packets with isErasedPacketInfo
    submitted, pushes, taken, onWire,   \* histories: onWire has what was ever posted
    releasing

queueVars == <<sendPacketInfoQueue, reservedSendPacketInfo, taken>>
streamVars == <<rioSendBuffer, batch, cachedSequenceSet, left, totalSendSize, skipped>>
historyVars == <<submitted, pushes, onWire>>
vars == <<queueVars, ioMode, streamVars, pc, posted, erased, historyVars, releasing>>

Init ==
    /\ sendPacketInfoQueue = <<>> /\ reservedSendPacketInfo = 0 /\ taken = <<>>
    /\ ioMode = "NONE"
    /\ rioSendBuffer = [i \in 1 .. Capacity |-> 0] /\ batch = <<>>
    /\ cachedSequenceSet = {} /\ skipped = {}
    /\ pc = [t \in Threads |-> "idle"]
    /\ left = [t \in Threads |-> 0] /\ totalSendSize = [t \in Threads |-> 0]
    /\ posted = 0 /\ erased = {}
    /\ submitted = 0 /\ pushes = 0 /\ onWire = {}
    /\ releasing = FALSE

Goto(t, label) == pc' = [pc EXCEPT ![t] = label]

-----------------------------------------------------------------------------
(* MultiSocketRUDPCore::SendPacket: push, then DoSend.                     *)

Push(t, n) ==
    /\ pc[t] = "idle" /\ ~releasing
    /\ pushes < MaxPushes /\ pushes' = pushes + 1
    /\ sendPacketInfoQueue' = Append(sendPacketInfoQueue, n)
    /\ Goto(t, "cas")
    /\ UNCHANGED <<reservedSendPacketInfo, taken, ioMode, streamVars, posted, erased,
                   onWire, releasing>>

SendNewPacket(t) ==
    /\ t \in Senders /\ submitted < MaxPackets
    /\ submitted' = submitted + 1
    /\ Push(t, submitted + 1)

\* The retransmission thread pushes a packet that was sent and not acknowledged.
Retransmit(n) ==
    /\ n \in ToSet(taken) \ erased
    /\ UNCHANGED submitted
    /\ Push(Retransmitter, n)

-----------------------------------------------------------------------------
(* RUDPIOHandler::DoSend.                                                  *)

ReleaseIOSending == ioMode' = "NONE"

\* Mutant: ioMode is read and then written.
TryEnter_Blind(t) ==
    /\ ioMode' = "SENDING" /\ Goto(t, "entered")

\* The compare-and-swap: whoever loses it leaves its packet to the winner.
TryEnter(t) ==
    IF ioMode = "SENDING"
    THEN Goto(t, "idle") /\ UNCHANGED ioMode
    ELSE ioMode' = "SENDING" /\ Goto(t, "entered")

DoSend(t) ==
    /\ pc[t] = "cas"
    /\ IF releasing THEN Goto(t, "idle") /\ UNCHANGED ioMode ELSE TryEnter(t)
    /\ UNCHANGED <<queueVars, streamVars, posted, erased, historyVars, releasing>>

IsNothingToSend == sendPacketInfoQueue = <<>> /\ reservedSendPacketInfo = 0

Entered(t) ==
    /\ pc[t] = "entered"
    /\ IF releasing THEN ReleaseIOSending /\ Goto(t, "idle")
       ELSE /\ Goto(t, IF IsNothingToSend THEN "giveBack" ELSE "begin")
            /\ UNCHANGED ioMode
    /\ UNCHANGED <<queueVars, streamVars, posted, erased, historyVars, releasing>>

GiveBack(t) ==
    /\ pc[t] = "giveBack" /\ ReleaseIOSending /\ Goto(t, "recheck")
    /\ UNCHANGED <<queueVars, streamVars, posted, erased, historyVars, releasing>>

\* Mutant: ioMode is given back and nobody looks at the queue again.
Recheck_Skipped(t) ==
    /\ pc[t] = "recheck" /\ Goto(t, "idle")
    /\ UNCHANGED <<queueVars, ioMode, streamVars, posted, erased, historyVars, releasing>>

\* A packet may have come while ioMode was held for an empty queue.
Recheck(t) ==
    /\ pc[t] = "recheck"
    /\ Goto(t, IF IsNothingToSend THEN "idle" ELSE "cas")
    /\ UNCHANGED <<queueVars, ioMode, streamVars, posted, erased, historyVars, releasing>>

\* Write packet n at the offset given: its sequence is remembered.
WriteAt(offset, n) ==
    /\ rioSendBuffer' = [i \in 1 .. Capacity |->
                            IF i - offset \in 1 .. Size(n) THEN n ELSE rioSendBuffer[i]]
    /\ cachedSequenceSet' = cachedSequenceSet \cup {n}
    /\ batch' = Append(batch, n)

\* MakeSendStream starts with the packet that did not fit last time.
ReservedFirst(t) ==
    LET n == reservedSendPacketInfo IN
    IF n = 0
    THEN /\ totalSendSize' = [totalSendSize EXCEPT ![t] = 0]
         /\ cachedSequenceSet' = {} /\ batch' = <<>> /\ skipped' = {}
         /\ UNCHANGED <<queueVars, rioSendBuffer>>
    ELSE /\ reservedSendPacketInfo' = 0 /\ taken' = Append(taken, n)
         /\ UNCHANGED sendPacketInfoQueue
         /\ IF n \in erased
            THEN /\ totalSendSize' = [totalSendSize EXCEPT ![t] = 0]
                 /\ cachedSequenceSet' = {} /\ batch' = <<>> /\ skipped' = {n}
                 /\ UNCHANGED rioSendBuffer
            ELSE /\ totalSendSize' = [totalSendSize EXCEPT ![t] = Size(n)]
                 /\ rioSendBuffer' = [i \in 1 .. Capacity |->
                                         IF i <= Size(n) THEN n ELSE rioSendBuffer[i]]
                 /\ cachedSequenceSet' = {n} /\ batch' = <<n>> /\ skipped' = {}

BeginStream(t) ==
    /\ pc[t] = "begin"
    /\ left' = [left EXCEPT ![t] = Len(sendPacketInfoQueue)]
    /\ ReservedFirst(t)
    /\ Goto(t, "stream")
    /\ UNCHANGED <<ioMode, posted, erased, historyVars, releasing>>

TryGetFrontAndPop ==
    /\ sendPacketInfoQueue # <<>>
    /\ sendPacketInfoQueue' = Tail(sendPacketInfoQueue)

Fits(t, n) == totalSendSize[t] + Size(n) <= Capacity

\* The front goes to the stream: twice in a datagram is once, an erased packet
\* leaves its room behind, and one that does not fit is held back.
StoredToStream(t) ==
    LET n == Head(sendPacketInfoQueue) IN
    /\ pc[t] = "stream" /\ left[t] > 0
    /\ TryGetFrontAndPop
    /\ \/ /\ n \in cachedSequenceSet
          /\ left' = [left EXCEPT ![t] = @ - 1] /\ taken' = Append(taken, n)
          /\ UNCHANGED <<reservedSendPacketInfo, rioSendBuffer, batch, cachedSequenceSet,
                         totalSendSize, skipped>>
       \/ /\ n \notin cachedSequenceSet /\ ~Fits(t, n)
          /\ reservedSendPacketInfo' = n
          /\ left' = [left EXCEPT ![t] = 0]
          /\ UNCHANGED <<taken, rioSendBuffer, batch, cachedSequenceSet, totalSendSize,
                         skipped>>
       \/ /\ n \notin cachedSequenceSet /\ Fits(t, n)
          /\ left' = [left EXCEPT ![t] = @ - 1] /\ taken' = Append(taken, n)
          /\ totalSendSize' = [totalSendSize EXCEPT ![t] = @ + Size(n)]
          /\ IF n \in erased
             THEN /\ skipped' = skipped \cup {n}
                  /\ UNCHANGED <<rioSendBuffer, batch, cachedSequenceSet>>
             ELSE WriteAt(totalSendSize[t], n) /\ UNCHANGED skipped
          /\ UNCHANGED reservedSendPacketInfo
    /\ UNCHANGED <<ioMode, pc, posted, erased, historyVars, releasing>>

StreamMade(t) == pc[t] = "stream" /\ left[t] = 0

\* An empty stream: ioMode is given back, and nobody looks at the queue again.
NothingMade(t) ==
    /\ StreamMade(t) /\ totalSendSize[t] = 0
    /\ ReleaseIOSending /\ Goto(t, "idle")
    /\ UNCHANGED <<queueVars, streamVars, posted, erased, historyVars, releasing>>

\* The loss simulator swallows the datagram, and DoSend goes on.
DatagramDropped(t) ==
    /\ Losses /\ StreamMade(t) /\ totalSendSize[t] > 0
    /\ ReleaseIOSending /\ Goto(t, "cas")
    /\ UNCHANGED <<queueVars, streamVars, posted, erased, historyVars, releasing>>

\* RIOSendEx takes the datagram.
TryRIOSend(t) ==
    /\ StreamMade(t) /\ totalSendSize[t] > 0
    /\ posted' = totalSendSize[t] /\ onWire' = onWire \cup ToSet(batch)
    /\ Goto(t, "idle")
    /\ UNCHANGED <<queueVars, ioMode, streamVars, erased, submitted, pushes, releasing>>

\* No context, no address buffer, or RIOSendEx refuses: the caller disconnects.
SendFails(t) ==
    /\ pc[t] = "begin" \/ (StreamMade(t) /\ totalSendSize[t] > 0)
    /\ ReleaseIOSending /\ Goto(t, "idle")
    /\ releasing' = TRUE
    /\ UNCHANGED <<queueVars, streamVars, posted, erased, historyVars>>

SendIOCompleted ==
    /\ posted > 0 /\ pc[IOWorker] = "idle"
    /\ posted' = 0 /\ ReleaseIOSending
    /\ Goto(IOWorker, IF releasing THEN "idle" ELSE "cas")
    /\ UNCHANGED <<queueVars, streamVars, erased, historyVars, releasing>>

-----------------------------------------------------------------------------
\* The client acknowledges a packet some datagram carried to it: OnSendReply erases it.
MarkSendPacketInfoErased(n) ==
    /\ Acks /\ n \in onWire \ erased
    /\ erased' = erased \cup {n}
    /\ UNCHANGED <<queueVars, ioMode, streamVars, pc, posted, historyVars, releasing>>

Release ==
    /\ ~releasing /\ releasing' = TRUE
    /\ UNCHANGED <<queueVars, ioMode, streamVars, pc, posted, erased, historyVars>>

Sending(t) ==
    \/ DoSend(t) \/ Entered(t) \/ GiveBack(t) \/ Recheck(t) \/ BeginStream(t)
    \/ StoredToStream(t) \/ NothingMade(t) \/ DatagramDropped(t) \/ TryRIOSend(t) \/ SendFails(t)

Next ==
    \/ \E t \in Threads : SendNewPacket(t) \/ Sending(t)
    \/ \E n \in Packets : Retransmit(n) \/ MarkSendPacketInfoErased(n)
    \/ SendIOCompleted \/ Release

Spec == Init /\ [][Next]_vars

\* A thread in DoSend runs on, and the system completes what was posted.
FairSpec ==
    /\ Spec
    /\ \A t \in Threads : WF_vars(Sending(t))
    /\ WF_vars(SendIOCompleted)

-----------------------------------------------------------------------------
TypeOK ==
    /\ sendPacketInfoQueue \in Seq(Packets) /\ reservedSendPacketInfo \in 0 .. MaxPackets
    /\ ioMode \in {"NONE", "SENDING"}
    /\ rioSendBuffer \in [1 .. Capacity -> 0 .. MaxPackets]
    /\ batch \in Seq(Packets) /\ cachedSequenceSet \subseteq Packets
    /\ pc \in [Threads -> {"idle", "cas", "entered", "giveBack", "recheck", "begin", "stream"}]
    /\ left \in [Threads -> Nat] /\ totalSendSize \in [Threads -> 0 .. Capacity]
    /\ posted \in 0 .. Capacity /\ erased \subseteq Packets /\ skipped \subseteq Packets
    /\ submitted \in 0 .. MaxPackets /\ pushes \in 0 .. MaxPushes
    /\ taken \in Seq(Packets) /\ onWire \subseteq Packets /\ releasing \in BOOLEAN

InBuffer == {t \in Threads : pc[t] \in {"entered", "giveBack", "begin", "stream"}}

\* The send buffer has one writer or one send in flight that reads it, never both, and
\* exactly then is ioMode taken: no datagram is overwritten before it is completed.
OneUserOfBuffer ==
    Cardinality(InBuffer) + (IF posted > 0 THEN 1 ELSE 0)
        = IF ioMode = "SENDING" THEN 1 ELSE 0

\* The cells a datagram's packets fill when they stand one behind another.
Layout(packets) == FlattenSeq([i \in DOMAIN packets |-> [j \in 1 .. Size(packets[i]) |-> packets[i]]])

\* What is sent is the packets packed into the datagram, whole, each once, in order,
\* and nothing else.  The bytes are so unless a packet was found acknowledged while the
\* stream was made: its room is left to the bytes of an earlier datagram.
DatagramIsItsPackets ==
    posted > 0 =>
        /\ IsInjective(batch)
        /\ SubSeq(rioSendBuffer, 1, posted) = Layout(batch)
DatagramWholeUnlessSkipped ==
    /\ posted > 0 => IsInjective(batch)
    /\ skipped = {} => DatagramIsItsPackets

\* When no thread is in DoSend and no send is in flight, nothing is left behind: a
\* thread that lost the race for ioMode may rely on the winner.  It may not when the
\* winner's stream came out empty, its packets having been acknowledged meanwhile.
NothingLeftBehind ==
    ~releasing /\ posted = 0 /\ (\A t \in Threads : pc[t] = "idle") => IsNothingToSend
EmptyForAcks == skipped # {} /\ batch = <<>>
LeftOnlyByAcks == NothingLeftBehind \/ EmptyForAcks

\* A session that lives sends every packet it was given, unless it is left so.
AllTaken == releasing \/ 1 .. submitted \subseteq ToSet(taken)
AllTakenUnlessLeft == AllTaken \/ EmptyForAcks

\* What waits to be sent: the packet held back, then the queue.
Waiting == (IF reservedSendPacketInfo = 0 THEN <<>> ELSE <<reservedSendPacketInfo>>)
               \o sendPacketInfoQueue

Queue == INSTANCE SendQueue WITH waiting <- Waiting, takenOut <- taken, live <- ~releasing

\* Through the packet held back, the dropped datagrams, the failures and the races for
\* ioMode, packets are taken in the order they were submitted, and none is lost.
ImplementsQueue == Queue!QueueSpec
=============================================================================
