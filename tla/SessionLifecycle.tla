--------------------------- MODULE SessionLifecycle ---------------------------
(***************************************************************************)
(* One RUDPSession object of the server and every thread that touches it:  *)
(* the IO worker and the receive-logic worker of the session's thread id,  *)
(* the threads that send on it (content, heartbeat, retransmission), the   *)
(* session broker that reserves it, and the session release thread that    *)
(* closes its socket, waits for its I/O to drain, frees its registered     *)
(* buffers and returns it to the pool under a new generation.              *)
(*                                                                         *)
(* A step is one read, one atomic operation or one locked section of the   *)
(* code.  Payloads are left out: whether there is anything to send, what a *)
(* datagram says and whether a system call fails are free choices.  The    *)
(* session's id appears in the pool's list, the release list and the       *)
(* release thread's two local lists; a list is represented by the number   *)
(* of times it holds this id.                                              *)
(***************************************************************************)
EXTENDS Integers, Sequences

CONSTANTS
    Brokers,               \* session broker worker threads
    Senders,               \* content, heartbeat and retransmission threads
    RecvSlots,             \* RECV_OUTSTANDING_COUNT
    GenModulus,            \* the generation is a uint32_t: 2^32
    MaxQueuedPackets,      \* bound of the model on the logic worker's queue
    FailuresWhileReserved, \* may I/O fail while the session is RESERVED?
    CallsOutliveSession    \* may a send, or a broker's answer to its client,
                           \* outlive the generation it began in?

ASSUME RecvSlotsAssumption == RecvSlots \in Nat \ {0}
ASSUME GenModulusAssumption == GenModulus \in Nat \ {0, 1}
ASSUME MaxQueuedPacketsAssumption == MaxQueuedPackets \in Nat \ {0}
ASSUME SwitchesAssumption ==
    FailuresWhileReserved \in BOOLEAN /\ CallsOutliveSession \in BOOLEAN
ASSUME SendersAssumption == "io" \notin Senders /\ "logic" \notin Senders

VARIABLES
    state, generation, nowInReleaseThread, disconnectedReason,
    claim,      \* a thread between winning RELEASING and the release list
    hooks,      \* the content hooks called in this generation (history)
    announced,  \* the client has been sent the session key
    socket, rio, ioShutdownStarted,
    freeRecv, posted, outstandingRecvIo,
    activeIOCompletions, ioPc, ioGen,
    logicQueue, pendingRecvLogic, nowInProcessingRecvPacket, logicPc, logicGen,
    ioMode, sendIo, snd,
    unused, connectedUserCount,
    releaseList, workList, remainList, relPc, round, releasedReason,
    broker

lifeVars == <<state, claim>>
flagVars == <<generation, nowInReleaseThread, disconnectedReason, hooks, announced>>
rioVars == <<socket, rio, ioShutdownStarted>>
recvVars == <<freeRecv, posted, outstandingRecvIo>>
ioVars == <<activeIOCompletions, ioPc, ioGen>>
logicVars == <<logicQueue, pendingRecvLogic, nowInProcessingRecvPacket, logicPc, logicGen>>
sendVars == <<ioMode, sendIo, snd>>
poolVars == <<unused, connectedUserCount>>
relVars == <<releaseList, workList, remainList, relPc, round, releasedReason>>
vars == <<lifeVars, flagVars, rioVars, recvVars, ioVars, logicVars, sendVars,
          poolVars, relVars, broker>>

States == {"DISCONNECTED", "RESERVED", "CONNECTED", "RELEASING"}
\* NORMAL stands for NORMAL, BY_ERROR and BY_RETRANSMISSION, which differ only
\* in a statistic.
Reasons == {"NORMAL", "BY_ABORT_RESERVED"}
Generations == 0 .. GenModulus - 1
\* The threads that run DoSend: the senders, and the two workers on their own.
SendThreads == Senders \cup {"io", "logic"}

NextGeneration(g) == IF g + 1 = GenModulus THEN 0 ELSE g + 1
NoTags == [g \in Generations |-> 0]
Add(tags, g) == [tags EXCEPT ![g] = @ + 1]
Remove(tags, g) == [tags EXCEPT ![g] = @ - 1]

Init ==
    /\ state = "DISCONNECTED" /\ claim = "none"
    /\ generation = 0 /\ nowInReleaseThread = FALSE
    /\ disconnectedReason = "NOT_DISCONNECTED"
    /\ hooks = <<>> /\ announced = FALSE
    /\ socket = FALSE /\ rio = FALSE /\ ioShutdownStarted = FALSE
    /\ freeRecv = 0 /\ posted = NoTags /\ outstandingRecvIo = 0
    /\ activeIOCompletions = 0 /\ ioPc = "idle" /\ ioGen = 0
    /\ logicQueue = NoTags /\ pendingRecvLogic = 0
    /\ nowInProcessingRecvPacket = FALSE /\ logicPc = "idle" /\ logicGen = 0
    /\ ioMode = "NONE" /\ sendIo = NoTags
    /\ snd = [t \in SendThreads |-> "idle"]
    /\ unused = 1 /\ connectedUserCount = 0
    /\ releaseList = 0 /\ workList = 0 /\ remainList = 0
    /\ relPc = "wait" /\ round = 1 /\ releasedReason = "NOT_DISCONNECTED"
    /\ broker = [b \in Brokers |-> "idle"]

-----------------------------------------------------------------------------
(* Leaving RESERVED or CONNECTED.  Only the winner of the compare-and-swap *)
(* goes on to mark the session and push its id; the thread that won is     *)
(* free to continue, which allows every order the code allows.             *)

Claim(from, reason) ==
    IF state \in from
    THEN state' = "RELEASING" /\ claim' = reason
    ELSE UNCHANGED lifeVars

\* Mutant: a session already releasing is released again.
DoDisconnect_Twice(reason) == Claim({"RESERVED", "CONNECTED", "RELEASING"}, reason)

DoDisconnect(reason) == Claim({"RESERVED", "CONNECTED"}, reason)
AbortReservedSession == Claim({"RESERVED"}, "BY_ABORT_RESERVED")

MarkRelease ==
    /\ claim \in Reasons
    /\ nowInReleaseThread' = TRUE
    /\ disconnectedReason' = claim
    /\ claim' = "marked"
    /\ UNCHANGED <<state, generation, hooks, announced, rioVars, recvVars, ioVars,
                   logicVars, sendVars, poolVars, relVars, broker>>

PushToDisconnectTargetSession ==
    /\ claim = "marked"
    /\ claim' = "none"
    /\ nowInReleaseThread' = TRUE
    /\ releaseList' = releaseList + 1
    /\ UNCHANGED <<state, generation, disconnectedReason, hooks, announced, rioVars,
                   recvVars, ioVars, logicVars, sendVars, poolVars, workList, remainList,
                   relPc, round, releasedReason, broker>>

\* Content code, the retransmission limit, or StopServer on a connected session.
ContentDisconnect ==
    /\ state = "CONNECTED"
    /\ DoDisconnect("NORMAL")
    /\ UNCHANGED <<flagVars, rioVars, recvVars, ioVars, logicVars, sendVars,
                   poolVars, relVars, broker>>

\* The heartbeat thread's 30 s reservation timeout, or StopServer after the
\* broker has stopped: no broker is still initialising the session.
AbortTimedOut ==
    /\ state = "RESERVED"
    /\ \A b \in Brokers : broker[b] \in {"idle", "respond"}
    /\ AbortReservedSession
    /\ UNCHANGED <<flagVars, rioVars, recvVars, ioVars, logicVars, sendVars,
                   poolVars, relVars, broker>>

\* Failures (an error status, a failed allocation, a failed RIO call) are free,
\* except that FailuresWhileReserved = FALSE spares a session still RESERVED.
MayFail == FailuresWhileReserved \/ state /= "RESERVED"

-----------------------------------------------------------------------------
(* The IO worker of the session's thread id.                               *)

\* posted counts, by the generation stamped on them, the receives handed to
\* RIO whose completion the worker has not begun to handle; sendIo the sends.
BeginRecvCompletion ==
    /\ ioPc = "idle"
    /\ \E g \in Generations :
         /\ posted[g] > 0
         /\ posted' = Remove(posted, g)
         /\ ioGen' = g
    /\ ioPc' = "recv"
    /\ activeIOCompletions' = activeIOCompletions + 1
    /\ UNCHANGED <<lifeVars, flagVars, rioVars, freeRecv, outstandingRecvIo,
                   logicVars, sendVars, poolVars, relVars, broker>>

BeginSendCompletion ==
    /\ ioPc = "idle"
    /\ \E g \in Generations :
         /\ sendIo[g] > 0
         /\ sendIo' = Remove(sendIo, g)
         /\ ioGen' = g
    /\ ioPc' = "send"
    /\ activeIOCompletions' = activeIOCompletions + 1
    /\ UNCHANGED <<lifeVars, flagVars, rioVars, recvVars, logicVars, ioMode, snd,
                   poolVars, relVars, broker>>

ReleaseRecvContext ==
    /\ freeRecv' = freeRecv + 1
    /\ outstandingRecvIo' = outstandingRecvIo - 1
    /\ UNCHANGED posted

\* A completion of an older generation gives its context back and no more.
HandleStaleCompletion ==
    /\ ioPc \in {"recv", "send"} /\ ioGen /= generation
    /\ IF ioPc = "recv" THEN ReleaseRecvContext ELSE UNCHANGED recvVars
    /\ ioPc' = "done"
    /\ UNCHANGED <<lifeVars, flagVars, rioVars, activeIOCompletions, ioGen,
                   logicVars, sendVars, poolVars, relVars, broker>>

\* Mutant: a failed receive keeps its context and its place in the counter.
HandleFailedCompletion_Leaks ==
    /\ ioPc \in {"recv", "send"} /\ ioGen = generation /\ MayFail
    /\ ioMode' = IF ioPc = "send" THEN "NONE" ELSE ioMode
    /\ ioPc' = "failed"
    /\ UNCHANGED <<lifeVars, flagVars, rioVars, recvVars, activeIOCompletions, ioGen,
                   logicVars, sendIo, snd, poolVars, relVars, broker>>

\* An error status, or no buffer for the datagram: the context and, for a send,
\* the send mode are given back before the session is disconnected.
HandleFailedCompletion ==
    /\ ioPc \in {"recv", "send"} /\ ioGen = generation /\ MayFail
    /\ IF ioPc = "recv"
         THEN ReleaseRecvContext /\ UNCHANGED ioMode
         ELSE ioMode' = "NONE" /\ UNCHANGED recvVars
    /\ ioPc' = "failed"
    /\ UNCHANGED <<lifeVars, flagVars, rioVars, activeIOCompletions, ioGen,
                   logicVars, sendIo, snd, poolVars, relVars, broker>>

\* The status of a receive that closing the socket cancelled is expected.
DisconnectUnlessCancelled ==
    /\ ioPc = "failed"
    /\ \/ nowInReleaseThread /\ UNCHANGED lifeVars
       \/ DoDisconnect("NORMAL")
    /\ ioPc' = "done"
    /\ UNCHANGED <<flagVars, rioVars, recvVars, activeIOCompletions, ioGen,
                   logicVars, sendVars, poolVars, relVars, broker>>

\* The code's queue has no limit; the model's holds MaxQueuedPackets.
EnqueueContextResult ==
    /\ ioPc = "recv" /\ ioGen = generation
    /\ pendingRecvLogic < MaxQueuedPackets
    /\ pendingRecvLogic' = pendingRecvLogic + 1
    /\ logicQueue' = Add(logicQueue, ioGen)
    /\ ioPc' = "enqueued"
    /\ UNCHANGED <<lifeVars, flagVars, rioVars, recvVars, activeIOCompletions, ioGen,
                   nowInProcessingRecvPacket, logicPc, logicGen, sendVars, poolVars,
                   relVars, broker>>

\* The receive context is free again: after the enqueue, or at once when the
\* loss simulator drops the datagram.
FreeCompletedContext ==
    /\ \/ ioPc = "enqueued"
       \/ ioPc = "recv" /\ ioGen = generation
    /\ ReleaseRecvContext
    /\ ioPc' = "rearm"
    /\ UNCHANGED <<lifeVars, flagVars, rioVars, activeIOCompletions, ioGen,
                   logicVars, sendVars, poolVars, relVars, broker>>

\* DoRecv takes the socket lock shared and keeps it while ioPc = "posting".
DoRecv ==
    /\ ioPc = "rearm"
    /\ ioPc' = IF nowInReleaseThread THEN "done"
               ELSE IF socket THEN "posting" ELSE "failed"
    /\ UNCHANGED <<lifeVars, flagVars, rioVars, recvVars, activeIOCompletions, ioGen,
                   logicVars, sendVars, poolVars, relVars, broker>>

PostReceive ==
    /\ freeRecv > 0
    /\ freeRecv' = freeRecv - 1
    /\ outstandingRecvIo' = outstandingRecvIo + 1
    /\ posted' = Add(posted, generation)

DoRecvPost ==
    /\ ioPc = "posting"
    /\ PostReceive
    /\ UNCHANGED <<lifeVars, flagVars, rioVars, ioVars, logicVars, sendVars,
                   poolVars, relVars, broker>>

DoRecvReturn ==
    /\ ioPc = "posting"
    /\ \/ freeRecv = 0 /\ ioPc' = "done"
       \/ freeRecv > 0 /\ MayFail /\ ioPc' = "failed"
    /\ UNCHANGED <<lifeVars, flagVars, rioVars, recvVars, activeIOCompletions, ioGen,
                   logicVars, sendVars, poolVars, relVars, broker>>

SendIOCompleted ==
    /\ ioPc = "send" /\ ioGen = generation
    /\ ioMode' = "NONE"
    /\ snd' = [snd EXCEPT !["io"] = "called"]
    /\ ioPc' = "sending"
    /\ UNCHANGED <<lifeVars, flagVars, rioVars, recvVars, activeIOCompletions, ioGen,
                   logicVars, sendIo, poolVars, relVars, broker>>

CompleteIOCompletion ==
    /\ \/ ioPc = "done"
       \/ ioPc = "sending" /\ snd["io"] = "idle"
    /\ activeIOCompletions' = activeIOCompletions - 1
    /\ ioPc' = "idle" /\ ioGen' = 0
    /\ UNCHANGED <<lifeVars, flagVars, rioVars, recvVars, logicVars, sendVars,
                   poolVars, relVars, broker>>

-----------------------------------------------------------------------------
(* The receive-logic worker of the session's thread id.                    *)

DequeueRecvContext ==
    /\ logicPc = "idle"
    /\ \E g \in Generations :
         /\ logicQueue[g] > 0
         /\ logicQueue' = Remove(logicQueue, g)
         /\ logicGen' = g
    /\ logicPc' = "check"
    /\ UNCHANGED <<lifeVars, flagVars, rioVars, recvVars, ioVars, pendingRecvLogic,
                   nowInProcessingRecvPacket, sendVars, poolVars, relVars, broker>>

TryDispatchRecvPacket ==
    /\ logicPc = "check"
    /\ logicPc' = IF logicGen = generation /\ ~nowInReleaseThread
                  THEN "start" ELSE "complete"
    /\ UNCHANGED <<lifeVars, flagVars, rioVars, recvVars, ioVars, logicQueue,
                   pendingRecvLogic, nowInProcessingRecvPacket, logicGen, sendVars,
                   poolVars, relVars, broker>>

BeginProcessing ==
    /\ logicPc = "start"
    /\ nowInProcessingRecvPacket' = TRUE
    /\ logicPc' = "handle"
    /\ UNCHANGED <<lifeVars, flagVars, rioVars, recvVars, ioVars, logicQueue,
                   pendingRecvLogic, logicGen, sendVars, poolVars, relVars, broker>>

\* Mutant: a duplicate CONNECT is counted again.
IgnorePacket_Counts ==
    /\ logicPc = "handle"
    /\ logicPc' = "finish"
    /\ connectedUserCount' = IF state = "CONNECTED" THEN connectedUserCount + 1
                             ELSE connectedUserCount
    /\ UNCHANGED <<lifeVars, flagVars, rioVars, recvVars, ioVars, logicQueue,
                   pendingRecvLogic, nowInProcessingRecvPacket, logicGen, sendVars,
                   unused, relVars, broker>>

\* A malformed datagram, or one from another address.
IgnorePacket ==
    /\ logicPc = "handle"
    /\ logicPc' = "finish"
    /\ UNCHANGED <<lifeVars, flagVars, rioVars, recvVars, ioVars, logicQueue,
                   pendingRecvLogic, nowInProcessingRecvPacket, logicGen, sendVars,
                   poolVars, relVars, broker>>

\* Mutant: CONNECT stores the state instead of swapping it.
TryConnect_Stores ==
    /\ logicPc = "handle" /\ announced
    /\ state \in {"RESERVED", "RELEASING"}
    /\ state' = "CONNECTED"
    /\ logicPc' = "connecting"
    /\ UNCHANGED <<claim, flagVars, rioVars, recvVars, ioVars, logicQueue,
                   pendingRecvLogic, nowInProcessingRecvPacket, logicGen, sendVars,
                   poolVars, relVars, broker>>

\* CONNECT needs the session key, which the client gets from the broker.
TryConnect ==
    /\ logicPc = "handle" /\ announced
    /\ state = "RESERVED"
    /\ state' = "CONNECTED"
    /\ logicPc' = "connecting"
    /\ UNCHANGED <<claim, flagVars, rioVars, recvVars, ioVars, logicQueue,
                   pendingRecvLogic, nowInProcessingRecvPacket, logicGen, sendVars,
                   poolVars, relVars, broker>>

\* A hook is added to hooks when its call begins.
OnConnected ==
    /\ logicPc = "connecting"
    /\ hooks' = Append(hooks, "OnConnected")
    /\ logicPc' = "onConnected"
    /\ UNCHANGED <<lifeVars, generation, nowInReleaseThread, disconnectedReason,
                   announced, rioVars, recvVars, ioVars, logicQueue, pendingRecvLogic,
                   nowInProcessingRecvPacket, logicGen, sendVars, poolVars, relVars, broker>>

SendConnectReply ==
    /\ logicPc = "onConnected"
    /\ snd' = [snd EXCEPT !["logic"] = "called"]
    /\ logicPc' = "connectReply"
    /\ UNCHANGED <<lifeVars, flagVars, rioVars, recvVars, ioVars, logicQueue,
                   pendingRecvLogic, nowInProcessingRecvPacket, logicGen, ioMode, sendIo,
                   poolVars, relVars, broker>>

IncrementConnectedCount ==
    /\ logicPc = "connectReply" /\ snd["logic"] = "idle"
    /\ connectedUserCount' = connectedUserCount + 1
    /\ logicPc' = "finish"
    /\ UNCHANGED <<lifeVars, flagVars, rioVars, recvVars, ioVars, logicQueue,
                   pendingRecvLogic, nowInProcessingRecvPacket, logicGen, sendVars,
                   unused, relVars, broker>>

\* The address check passes only once the session has connected.
CanProcessPacket == hooks /= <<>> /\ ~nowInReleaseThread

\* A data packet runs the content's handler and is acknowledged; a reply may
\* flush queued packets.  Either way the worker sends on its own.
OnRecvPacket ==
    /\ logicPc = "handle" /\ CanProcessPacket
    /\ snd' = [snd EXCEPT !["logic"] = "called"]
    /\ logicPc' = "replying"
    /\ UNCHANGED <<lifeVars, flagVars, rioVars, recvVars, ioVars, logicQueue,
                   pendingRecvLogic, nowInProcessingRecvPacket, logicGen, ioMode, sendIo,
                   poolVars, relVars, broker>>

\* A DISCONNECT packet, or a data packet that is refused.
OnDisconnectPacket ==
    /\ logicPc = "handle" /\ CanProcessPacket
    /\ DoDisconnect("NORMAL")
    /\ logicPc' = "finish"
    /\ UNCHANGED <<flagVars, rioVars, recvVars, ioVars, logicQueue, pendingRecvLogic,
                   nowInProcessingRecvPacket, logicGen, sendVars, poolVars, relVars, broker>>

EndProcessing ==
    /\ \/ logicPc = "finish"
       \/ logicPc = "replying" /\ snd["logic"] = "idle"
    /\ nowInProcessingRecvPacket' = FALSE
    /\ logicPc' = "complete"
    /\ UNCHANGED <<lifeVars, flagVars, rioVars, recvVars, ioVars, logicQueue,
                   pendingRecvLogic, logicGen, sendVars, poolVars, relVars, broker>>

CompleteRecvLogic ==
    /\ logicPc = "complete"
    /\ pendingRecvLogic' = pendingRecvLogic - 1
    /\ logicPc' = "idle" /\ logicGen' = 0
    /\ UNCHANGED <<lifeVars, flagVars, rioVars, recvVars, ioVars, logicQueue,
                   nowInProcessingRecvPacket, sendVars, poolVars, relVars, broker>>

-----------------------------------------------------------------------------
(* Sending.  ioMode is the flag that lets one thread at a time hand a      *)
(* datagram to RIO; it stays SENDING until that send's completion.         *)

sendFrame == <<flagVars, rioVars, recvVars, ioVars, logicVars, poolVars, relVars, broker>>

SenderStart(t) ==
    /\ snd[t] = "idle" /\ state = "CONNECTED"
    /\ snd' = [snd EXCEPT ![t] = "called"]
    /\ UNCHANGED <<lifeVars, ioMode, sendIo, sendFrame>>

\* core.SendPacket refuses and its caller disconnects; the IO worker, which
\* resumes a send by DoSend alone, just leaves.
DoSendEnter(t) ==
    /\ snd[t] = "called"
    /\ snd' = [snd EXCEPT ![t] = IF ~nowInReleaseThread THEN "acquire"
                                 ELSE IF t = "io" THEN "idle" ELSE "failed"]
    /\ UNCHANGED <<lifeVars, ioMode, sendIo, sendFrame>>

\* Mutant: the mode is stored, not swapped.
DoSendAcquire_Stores(t) ==
    /\ snd[t] = "acquire"
    /\ ioMode' = "SENDING"
    /\ snd' = [snd EXCEPT ![t] = "held"]
    /\ UNCHANGED <<lifeVars, sendIo, sendFrame>>

DoSendAcquire(t) ==
    /\ snd[t] = "acquire"
    /\ ioMode' = "SENDING"
    /\ snd' = [snd EXCEPT ![t] = IF ioMode = "NONE" THEN "held" ELSE "idle"]
    /\ UNCHANGED <<lifeVars, sendIo, sendFrame>>

DoSendRecheck(t) ==
    /\ snd[t] = "held"
    /\ IF nowInReleaseThread
         THEN ioMode' = "NONE" /\ snd' = [snd EXCEPT ![t] = "idle"]
         ELSE UNCHANGED ioMode /\ snd' = [snd EXCEPT ![t] = "build"]
    /\ UNCHANGED <<lifeVars, sendIo, sendFrame>>

\* Nothing to send, a dropped or an empty datagram, or no context: the mode is
\* given back, and the thread looks again, returns, or fails.
DoSendGiveBack(t) ==
    /\ snd[t] = "build"
    /\ ioMode' = "NONE"
    /\ \/ snd' = [snd EXCEPT ![t] = "acquire"]
       \/ snd' = [snd EXCEPT ![t] = "idle"]
       \/ MayFail /\ snd' = [snd EXCEPT ![t] = "failed"]
    /\ UNCHANGED <<lifeVars, sendIo, sendFrame>>

\* The socket is read and RIOSendEx called under the shared socket lock.
TryRIOSend(t) ==
    /\ snd[t] = "build"
    /\ IF socket
         THEN /\ sendIo' = Add(sendIo, generation)
              /\ snd' = [snd EXCEPT ![t] = "idle"]
              /\ UNCHANGED ioMode
         ELSE /\ ioMode' = "NONE"
              /\ snd' = [snd EXCEPT ![t] = "failed"]
              /\ UNCHANGED sendIo
    /\ UNCHANGED <<lifeVars, sendFrame>>

SendFailed(t) ==
    /\ snd[t] = "failed"
    /\ DoDisconnect("NORMAL")
    /\ snd' = [snd EXCEPT ![t] = "idle"]
    /\ UNCHANGED <<ioMode, sendIo, sendFrame>>

DoSend(t) ==
    \/ DoSendEnter(t) \/ DoSendAcquire(t) \/ DoSendRecheck(t)
    \/ DoSendGiveBack(t) \/ TryRIOSend(t) \/ SendFailed(t)

-----------------------------------------------------------------------------
(* The session release thread.                                             *)

relFrame == <<recvVars, ioVars, logicVars, broker>>

TakeReleaseSessionIds ==
    /\ relPc = "wait" /\ releaseList > 0
    /\ workList' = releaseList /\ releaseList' = 0
    /\ relPc' = "next"
    /\ UNCHANGED <<lifeVars, flagVars, rioVars, sendVars, poolVars, remainList,
                   round, releasedReason, relFrame>>

\* An id whose session is not releasing is dropped from the list.
GetReleasingSession ==
    /\ relPc = "next" /\ workList > 0
    /\ workList' = workList - 1
    /\ round' = 1
    /\ relPc' = IF nowInReleaseThread THEN "shutdown" ELSE "next"
    /\ UNCHANGED <<lifeVars, flagVars, rioVars, sendVars, poolVars, releaseList,
                   remainList, releasedReason, relFrame>>

\* Mutant: the ids that are not drained are forgotten.
RequeueReleaseSessionIds_Forgets ==
    /\ relPc = "next" /\ workList = 0
    /\ remainList' = 0
    /\ relPc' = "wait" /\ round' = 1
    /\ UNCHANGED <<lifeVars, flagVars, rioVars, sendVars, poolVars, releaseList,
                   workList, releasedReason, relFrame>>

RequeueReleaseSessionIds ==
    /\ relPc = "next" /\ workList = 0
    /\ releaseList' = releaseList + remainList /\ remainList' = 0
    /\ relPc' = "wait" /\ round' = 1
    /\ UNCHANGED <<lifeVars, flagVars, rioVars, sendVars, poolVars, workList,
                   releasedReason, relFrame>>

\* Mutant: shutdown does not wait for the packets in the logic queue.
BeginIOShutdown_NoLogicCheck ==
    /\ relPc = "shutdown"
    /\ relPc' = IF ioShutdownStarted THEN "recvIo" ELSE "shutProcessing"
    /\ UNCHANGED <<lifeVars, flagVars, rioVars, sendVars, poolVars, releaseList,
                   workList, remainList, round, releasedReason, relFrame>>

\* Mutant: shutdown starts again each time it is asked to.
BeginIOShutdown_Repeats ==
    /\ relPc = "shutdown"
    /\ relPc' = IF pendingRecvLogic /= 0 THEN "recvIo" ELSE "shutProcessing"
    /\ UNCHANGED <<lifeVars, flagVars, rioVars, sendVars, poolVars, releaseList,
                   workList, remainList, round, releasedReason, relFrame>>

\* BeginIOShutdown runs twice: in TryFinalizeSessionRelease (round 1) and again
\* in Disconnect (round 2).  It reads pendingRecvLogic first ...
BeginIOShutdown ==
    /\ relPc = "shutdown"
    /\ relPc' = IF ioShutdownStarted \/ pendingRecvLogic /= 0
                THEN "recvIo" ELSE "shutProcessing"
    /\ UNCHANGED <<lifeVars, flagVars, rioVars, sendVars, poolVars, releaseList,
                   workList, remainList, round, releasedReason, relFrame>>

\* ... then the processing flag, and calls the hook unless a reservation aborted.
StartIOShutdown ==
    /\ relPc = "shutProcessing"
    /\ IF nowInProcessingRecvPacket
         THEN relPc' = "recvIo" /\ UNCHANGED <<ioShutdownStarted, hooks>>
         ELSE /\ ioShutdownStarted' = TRUE
              /\ IF disconnectedReason = "BY_ABORT_RESERVED"
                   THEN relPc' = "close" /\ UNCHANGED hooks
                   ELSE /\ relPc' = "onDisconnected"
                        /\ hooks' = Append(hooks, "OnDisconnected")
    /\ UNCHANGED <<lifeVars, generation, nowInReleaseThread, disconnectedReason,
                   announced, socket, rio, sendVars, poolVars, releaseList, workList,
                   remainList, round, releasedReason, relFrame>>

\* Mutant: the socket is left open.
CloseSocket_LeavesOpen ==
    /\ relPc \in {"onDisconnected", "close"}
    /\ ioPc /= "posting"
    /\ \A b \in Brokers : broker[b] /= "posting"
    /\ relPc' = "recvIo"
    /\ UNCHANGED <<lifeVars, flagVars, rioVars, sendVars, poolVars, releaseList,
                   workList, remainList, round, releasedReason, relFrame>>

\* The unique socket lock waits for whoever is posting receives.
CloseSocket ==
    /\ relPc \in {"onDisconnected", "close"}
    /\ ioPc /= "posting"
    /\ \A b \in Brokers : broker[b] /= "posting"
    /\ socket' = FALSE
    /\ relPc' = "recvIo"
    /\ UNCHANGED <<lifeVars, flagVars, rio, ioShutdownStarted, sendVars, poolVars,
                   releaseList, workList, remainList, round, releasedReason, relFrame>>

\* Not drained: the first time the id is kept for the next turn; but after
\* Disconnect has been called its return is taken to mean "released".
KeepOrDrop ==
    /\ relPc' = "next"
    /\ remainList' = IF round = 1 THEN remainList + 1 ELSE remainList

\* CanFinalizeIO reads its five conditions one after the other.
CanFinalizeIO(pc, drained, next) ==
    /\ relPc = pc
    /\ IF drained THEN relPc' = next /\ UNCHANGED remainList ELSE KeepOrDrop
    /\ UNCHANGED <<lifeVars, flagVars, rioVars, sendVars, poolVars, releaseList,
                   workList, round, releasedReason, relFrame>>

\* Mutants: one of the five conditions is not read.
ReadOutstandingRecvIo_Skipped == CanFinalizeIO("recvIo", TRUE, "recvLogic")
ReadIOMode_Skipped == CanFinalizeIO("ioMode", TRUE, "active")
ReadActiveIOCompletions_Skipped == CanFinalizeIO("active", TRUE, "processing")

ReadOutstandingRecvIo == CanFinalizeIO("recvIo", outstandingRecvIo = 0, "recvLogic")
ReadPendingRecvLogic == CanFinalizeIO("recvLogic", pendingRecvLogic = 0, "ioMode")
ReadIOMode == CanFinalizeIO("ioMode", ioMode /= "SENDING", "active")
ReadActiveIOCompletions == CanFinalizeIO("active", activeIOCompletions = 0, "processing")

\* The last condition; if it holds, round 1 calls Disconnect, round 2 goes on.
ReadProcessing ==
    /\ relPc = "processing"
    /\ IF nowInProcessingRecvPacket
         THEN KeepOrDrop /\ UNCHANGED round
         ELSE /\ UNCHANGED remainList
              /\ round' = 2
              /\ relPc' = IF round = 2 THEN "cleanup"
                          ELSE IF state = "RELEASING" THEN "shutdown" ELSE "next"
    /\ UNCHANGED <<lifeVars, flagVars, rioVars, sendVars, poolVars, releaseList,
                   workList, releasedReason, relFrame>>

FinalizeRIOCleanup ==
    /\ relPc = "cleanup"
    /\ rio' = FALSE
    /\ IF disconnectedReason = "BY_ABORT_RESERVED"
         THEN relPc' = "release" /\ UNCHANGED hooks
         ELSE relPc' = "onReleased" /\ hooks' = Append(hooks, "OnReleased")
    /\ UNCHANGED <<lifeVars, generation, nowInReleaseThread, disconnectedReason,
                   announced, socket, ioShutdownStarted, sendVars, poolVars, releaseList,
                   workList, remainList, round, releasedReason, relFrame>>

\* Nothing in the code waits for these calls; CallsOutliveSession = FALSE assumes
\* that they are over by the time the session is recycled.
NoCallUnderWay ==
    /\ \A t \in Senders : snd[t] = "idle"
    /\ \A b \in Brokers : broker[b] = "idle"

\* ReleaseSession checks the state and that the id is not already in the pool,
\* then InitializeSession bumps the generation and clears the flags ...
InitializeSession ==
    /\ relPc \in {"onReleased", "release"}
    /\ CallsOutliveSession \/ NoCallUnderWay
    /\ releasedReason' = disconnectedReason
    /\ IF state /= "RELEASING" \/ unused > 0
         THEN relPc' = "next" /\ UNCHANGED <<flagVars, rioVars, ioVars, logicVars>>
         ELSE /\ relPc' = "reset"
              /\ generation' = NextGeneration(generation)
              /\ nowInReleaseThread' = FALSE
              /\ nowInProcessingRecvPacket' = FALSE
              /\ ioShutdownStarted' = FALSE
              /\ activeIOCompletions' = 0
              /\ UNCHANGED <<disconnectedReason, hooks, announced, socket, rio, ioPc,
                             ioGen, logicQueue, pendingRecvLogic, logicPc, logicGen>>
    /\ UNCHANGED <<lifeVars, recvVars, sendVars, poolVars, releaseList, workList,
                   remainList, round, broker>>

\* ... then resets the send context and the state, and the id joins the pool,
\* all under the pool's lock.
ReleaseSession ==
    /\ relPc = "reset"
    /\ ioMode' = "NONE"
    /\ disconnectedReason' = "NOT_DISCONNECTED"
    /\ state' = "DISCONNECTED"
    /\ unused' = unused + 1
    /\ hooks' = <<>> /\ announced' = FALSE
    /\ relPc' = "count"
    /\ UNCHANGED <<claim, generation, nowInReleaseThread, rioVars, sendIo, snd,
                   connectedUserCount, releaseList, workList, remainList, round,
                   releasedReason, relFrame>>

\* The count stops at zero.
DecrementConnectedCount ==
    /\ relPc = "count"
    /\ connectedUserCount' =
         IF releasedReason = "NORMAL" /\ connectedUserCount > 0
         THEN connectedUserCount - 1 ELSE connectedUserCount
    /\ relPc' = "next" /\ releasedReason' = "NOT_DISCONNECTED"
    /\ UNCHANGED <<lifeVars, flagVars, rioVars, sendVars, unused, releaseList,
                   workList, remainList, round, relFrame>>

ReleaseThread ==
    \/ TakeReleaseSessionIds \/ GetReleasingSession \/ RequeueReleaseSessionIds
    \/ BeginIOShutdown \/ StartIOShutdown \/ CloseSocket
    \/ ReadOutstandingRecvIo \/ ReadPendingRecvLogic \/ ReadIOMode
    \/ ReadActiveIOCompletions \/ ReadProcessing
    \/ FinalizeRIOCleanup \/ InitializeSession \/ ReleaseSession
    \/ DecrementConnectedCount

-----------------------------------------------------------------------------
(* The session broker: reserve a session for a client, open its socket,    *)
(* register its buffers, post its first receives, make its key, and send   *)
(* the client what it needs to connect.                                    *)

brokerFrame == <<ioVars, logicVars, sendVars, relVars, connectedUserCount>>
Step(b, pc) == broker' = [broker EXCEPT ![b] = pc]

\* Mutant: the pool is not checked for being empty.
AcquireSession_FromEmpty(b) ==
    /\ broker[b] = "idle"
    /\ unused' = unused - 1
    /\ Step(b, "acquired")
    /\ UNCHANGED <<lifeVars, flagVars, rioVars, recvVars, brokerFrame>>

AcquireSession(b) ==
    /\ broker[b] = "idle" /\ unused > 0
    /\ unused' = unused - 1
    /\ Step(b, "acquired")
    /\ UNCHANGED <<lifeVars, flagVars, rioVars, recvVars, brokerFrame>>

\* A plain store, whatever the state was.
SetReserved(b) ==
    /\ broker[b] = "acquired"
    /\ state' = "RESERVED"
    /\ Step(b, "reserved")
    /\ UNCHANGED <<claim, flagVars, rioVars, recvVars, unused, brokerFrame>>

CreateRUDPSocket(b) ==
    /\ broker[b] = "reserved"
    /\ socket' = TRUE
    /\ Step(b, "socket")
    /\ UNCHANGED <<lifeVars, flagVars, rio, ioShutdownStarted, recvVars, unused, brokerFrame>>

InitializeSessionRIO(b) ==
    /\ broker[b] = "socket"
    /\ rio' = TRUE
    /\ freeRecv' = RecvSlots
    /\ Step(b, "rio")
    /\ UNCHANGED <<lifeVars, flagVars, socket, ioShutdownStarted, posted,
                   outstandingRecvIo, unused, brokerFrame>>

\* The broker posts the first receives itself, also under the socket lock.
BrokerDoRecv(b) ==
    /\ broker[b] = "rio"
    /\ Step(b, IF nowInReleaseThread THEN "crypto"
               ELSE IF socket THEN "posting" ELSE "initFailed")
    /\ UNCHANGED <<lifeVars, flagVars, rioVars, recvVars, unused, brokerFrame>>

BrokerPost(b) ==
    /\ broker[b] = "posting"
    /\ PostReceive
    /\ UNCHANGED <<lifeVars, flagVars, rioVars, unused, brokerFrame, broker>>

BrokerDoRecvReturn(b) ==
    /\ broker[b] = "posting" /\ freeRecv = 0
    /\ Step(b, "crypto")
    /\ UNCHANGED <<lifeVars, flagVars, rioVars, recvVars, unused, brokerFrame>>

\* The socket, the registration or a receive fails: InitReserveSession's guard
\* aborts the reservation.
InitReserveFails(b) ==
    /\ broker[b] \in {"reserved", "socket", "posting", "initFailed"}
    /\ AbortReservedSession
    /\ Step(b, "failed")
    /\ UNCHANGED <<flagVars, rioVars, recvVars, unused, brokerFrame>>

InitSessionCrypto(b) ==
    /\ broker[b] = "crypto"
    /\ \/ Step(b, "respond") /\ announced' = TRUE
       \/ Step(b, "failed") /\ UNCHANGED announced
    /\ UNCHANGED <<lifeVars, generation, nowInReleaseThread, disconnectedReason, hooks,
                   rioVars, recvVars, unused, brokerFrame>>

\* ReserveSession's own clean-up reads the state and then acts on it.
ReserveFailed(b) ==
    /\ broker[b] = "failed"
    /\ Step(b, IF state = "RESERVED" THEN "abort" ELSE "disconnect")
    /\ UNCHANGED <<lifeVars, flagVars, rioVars, recvVars, unused, brokerFrame>>

ReserveCleanUp(b) ==
    /\ \/ broker[b] = "abort" /\ AbortReservedSession
       \/ broker[b] = "disconnect" /\ DoDisconnect("NORMAL")
    /\ Step(b, "respond")
    /\ UNCHANGED <<flagVars, rioVars, recvVars, unused, brokerFrame>>

\* If the answer cannot be sent the reservation is aborted.
SendSessionInfoToClient(b) ==
    /\ broker[b] = "respond"
    /\ \/ UNCHANGED lifeVars
       \/ AbortReservedSession
    /\ Step(b, "idle")
    /\ UNCHANGED <<flagVars, rioVars, recvVars, unused, brokerFrame>>

BrokerContinue(b) ==
    \/ SetReserved(b) \/ CreateRUDPSocket(b) \/ InitializeSessionRIO(b)
    \/ BrokerDoRecv(b) \/ BrokerPost(b) \/ BrokerDoRecvReturn(b)
    \/ InitReserveFails(b) \/ InitSessionCrypto(b) \/ ReserveFailed(b)
    \/ ReserveCleanUp(b) \/ SendSessionInfoToClient(b)

-----------------------------------------------------------------------------
IoContinue ==
    \/ HandleStaleCompletion \/ HandleFailedCompletion \/ DisconnectUnlessCancelled
    \/ EnqueueContextResult \/ FreeCompletedContext \/ DoRecv \/ DoRecvPost
    \/ DoRecvReturn \/ SendIOCompleted \/ CompleteIOCompletion

LogicWorker ==
    \/ DequeueRecvContext \/ TryDispatchRecvPacket \/ BeginProcessing
    \/ IgnorePacket \/ TryConnect \/ OnConnected \/ SendConnectReply
    \/ IncrementConnectedCount \/ OnRecvPacket \/ OnDisconnectPacket
    \/ EndProcessing \/ CompleteRecvLogic

Next ==
    \/ MarkRelease \/ PushToDisconnectTargetSession
    \/ ContentDisconnect \/ AbortTimedOut
    \/ BeginRecvCompletion \/ BeginSendCompletion \/ IoContinue
    \/ LogicWorker
    \/ \E t \in Senders : SenderStart(t)
    \/ \E t \in SendThreads : DoSend(t)
    \/ ReleaseThread
    \/ \E b \in Brokers : AcquireSession(b) \/ BrokerContinue(b)

Spec == Init /\ [][Next]_vars

\* Every thread that has begun something goes on with it.  RIO completes every
\* send, and every receive once the socket is closed; nothing makes a datagram
\* arrive, a client connect or a session be acquired.
Fairness ==
    /\ WF_vars(MarkRelease \/ PushToDisconnectTargetSession)
    /\ WF_vars(IoContinue)
    /\ WF_vars(BeginSendCompletion)
    /\ WF_vars(~socket /\ BeginRecvCompletion)
    /\ WF_vars(LogicWorker)
    /\ \A t \in SendThreads : WF_vars(DoSend(t))
    /\ WF_vars(ReleaseThread)
    /\ \A b \in Brokers : WF_vars(BrokerContinue(b))

FairSpec == Spec /\ Fairness

-----------------------------------------------------------------------------
(* Properties.                                                             *)

IoPcs == {"idle", "recv", "send", "enqueued", "rearm", "posting", "sending",
          "failed", "done"}
LogicPcs == {"idle", "check", "start", "handle", "connecting", "onConnected",
             "connectReply", "replying", "finish", "complete"}
SendPcs == {"idle", "called", "acquire", "held", "build", "failed"}
RelPcs == {"wait", "next", "shutdown", "shutProcessing", "onDisconnected", "close",
           "recvIo", "recvLogic", "ioMode", "active", "processing", "cleanup",
           "onReleased", "release", "reset", "count"}
BrokerPcs == {"idle", "acquired", "reserved", "socket", "rio", "posting", "initFailed",
              "crypto", "failed", "abort", "disconnect", "respond"}
Hooks == {"OnConnected", "OnDisconnected", "OnReleased"}

\* Every variable keeps its type.  The three drain counters are unsigned in the
\* code; a negative value here is one that has wrapped around.
TypeOK ==
    /\ state \in States
    /\ claim \in Reasons \cup {"none", "marked"}
    /\ generation \in Generations
    /\ nowInReleaseThread \in BOOLEAN
    /\ disconnectedReason \in Reasons \cup {"NOT_DISCONNECTED"}
    /\ hooks \in Seq(Hooks)
    /\ announced \in BOOLEAN
    /\ socket \in BOOLEAN /\ rio \in BOOLEAN /\ ioShutdownStarted \in BOOLEAN
    /\ freeRecv \in Nat
    /\ posted \in [Generations -> Nat]
    /\ outstandingRecvIo \in Int
    /\ activeIOCompletions \in Int
    /\ ioPc \in IoPcs /\ ioGen \in Generations
    /\ logicQueue \in [Generations -> Nat]
    /\ pendingRecvLogic \in Int
    /\ nowInProcessingRecvPacket \in BOOLEAN
    /\ logicPc \in LogicPcs /\ logicGen \in Generations
    /\ ioMode \in {"NONE", "SENDING"}
    /\ sendIo \in [Generations -> Nat]
    /\ snd \in [SendThreads -> SendPcs]
    /\ unused \in Nat /\ connectedUserCount \in Nat
    /\ releaseList \in Nat /\ workList \in Nat /\ remainList \in Nat
    /\ relPc \in RelPcs /\ round \in {1, 2}
    /\ releasedReason \in Reasons \cup {"NOT_DISCONNECTED"}
    /\ broker \in [Brokers -> BrokerPcs]

\* The release thread has this session in hand.
RelBusy == relPc \notin {"wait", "next"}
\* It has passed the second drain check and is freeing the session.
Freeing == relPc \in {"cleanup", "onReleased", "release", "reset"}
\* No list and no thread will ever release the session: TryFinalizeSessionRelease
\* reported it as finished while it was not.
Dropped ==
    /\ state = "RELEASING" /\ claim = "none"
    /\ releaseList + workList + remainList = 0
    /\ ~RelBusy

\* The session's id is in at most one place - the pool, the release list, one of
\* the release thread's two lists, the release thread's hand, or the hand of the
\* thread that has just won RELEASING - and in none while the session is in use:
\* whatever races, a session is neither released nor handed out twice.
SessionInOnePlace ==
    LET busy == IF RelBusy /\ relPc /= "count" THEN 1 ELSE 0
        claimed == IF claim /= "none" THEN 1 ELSE 0
        places == unused + releaseList + workList + remainList + busy + claimed
    IN  /\ places <= 1
        /\ state \in {"RESERVED", "CONNECTED"} => places = 0
        /\ unused > 0 => state = "DISCONNECTED"

\* The drain counters are exact: what RIO holds plus what the IO worker has not
\* given back, what the logic queue holds plus what the worker has in hand, and
\* the completion in progress.
DrainCountersExact ==
    /\ outstandingRecvIo = posted[generation]
         + (IF ioPc \in {"recv", "enqueued"} THEN 1 ELSE 0)
    /\ pendingRecvLogic = logicQueue[generation] + (IF logicPc /= "idle" THEN 1 ELSE 0)
    /\ activeIOCompletions = IF ioPc /= "idle" THEN 1 ELSE 0

\* When the release thread frees the registered buffers and recycles the
\* session, RIO holds none of its receives or sends and no worker is inside a
\* completion or a packet of it (the asserts of FinalizeRIOCleanup, Cleanup and
\* InitializeSession, and what they are for).
DrainedWhenFreed ==
    Freeing =>
      /\ posted = NoTags /\ sendIo = NoTags /\ logicQueue = NoTags
      /\ ioPc = "idle" /\ logicPc = "idle"

\* RIO never holds a request on buffers that are not registered.
RequestsHaveBuffers == (posted /= NoTags \/ sendIo /= NoTags) => rio

\* Everything RIO, the workers and the queue hold carries the session's current
\* generation: after the drain barrier no older completion is left to arrive.
NoStaleTag ==
    \A g \in Generations :
        (posted[g] > 0 \/ sendIo[g] > 0 \/ logicQueue[g] > 0) => g = generation

\* OnDisconnected and OnReleased never run while the logic worker is handling a
\* packet of the session (a handler, OnConnected, or its reply).
Handling == logicPc \in {"start", "handle", "connecting", "onConnected",
                         "connectReply", "replying", "finish"}
HooksExcludeHandlers ==
    relPc \in {"onDisconnected", "onReleased"} => ~Handling

\* Hooks of one generation come in the order OnConnected, OnDisconnected,
\* OnReleased, each at most once, and none without OnConnected.
HooksInOrder ==
    hooks \in { <<>>, <<"OnConnected">>, <<"OnConnected", "OnDisconnected">>,
                <<"OnConnected", "OnReleased">>,
                <<"OnConnected", "OnDisconnected", "OnReleased">> }

\* OnReleased is preceded by OnDisconnected.
ReleasedAfterDisconnected ==
    Len(hooks) > 0 /\ hooks[Len(hooks)] = "OnReleased"
        => \E i \in 1 .. Len(hooks) : hooks[i] = "OnDisconnected"

\* The content never sees OnDisconnected or OnReleased of a session it was not
\* given by OnConnected.
HooksOnlyAfterConnect == hooks /= <<>> => hooks[1] = "OnConnected"

\* The connected-user count is exact: the session is counted from the end of its
\* CONNECT to the end of its release, once, and its release finds it counted, so
\* the count never sticks at zero ("Connected user count is already zero").
CountMatchesSession ==
    LET connected == hooks /= <<>> /\ logicPc \notin {"onConnected", "connectReply"}
        leaving == relPc = "count" /\ releasedReason = "NORMAL"
    IN  connectedUserCount = (IF connected THEN 1 ELSE 0) + (IF leaving THEN 1 ELSE 0)

\* At most one send of the session is in RIO or on its way there.
SendHolders == {t \in SendThreads : snd[t] \in {"held", "build"}}
OneSendInFlight ==
    /\ \A t, u \in SendHolders : t = u
    /\ \A g \in Generations : sendIo[g] <= 1
    /\ SendHolders /= {} => sendIo = NoTags

\* A releasing session is always on its way out of some list or thread.
ReleasingIsTracked == ~Dropped

\* A session is dropped only by the second drain check, the one Disconnect makes
\* after TryFinalizeSessionRelease has seen the session drained; every other path
\* through the release thread's lists keeps it.
DroppedOnlyBySecondCheck == [][~Dropped /\ Dropped' => RelBusy /\ round = 2]_vars

\* A session that leaves use comes back to the pool, unless it is dropped.
ReleaseCompletes == (state = "RELEASING") ~> (state = "DISCONNECTED" \/ Dropped)

\* The session as the pool sees it: it leaves the pool when a broker takes it, and
\* its new generation counts from its return.
slotOf ==
    IF unused > 0 THEN "free"
    ELSE CASE state = "CONNECTED" -> "connected"
           [] state = "RELEASING" -> "leaving"
           [] OTHER -> "held"
epochOf ==
    IF relPc = "reset"
    THEN IF generation = 0 THEN GenModulus - 1 ELSE generation - 1
    ELSE generation

Slot == INSTANCE SessionSlot WITH slot <- slotOf, epoch <- epochOf

\* The session implements its slot of the pool: the broker's plain store of
\* RESERVED, the three ways to leave use and the two-step return never hand it
\* out twice, connect it twice, or bring it back twice or under an old generation.
ImplementsSlot == Slot!SlotSpec
=============================================================================
