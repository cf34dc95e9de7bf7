---------------------------- MODULE ClientLifecycle ----------------------------
(***************************************************************************)
(* Start, Disconnect and Stop of RUDPClientCore against the threads it     *)
(* runs: the receive, send and retransmission threads and the thread of    *)
(* ServerAliveChecker, which may itself call Stop.  One thread of the      *)
(* application calls the core; it starts again only when everything the    *)
(* run before has left behind has ended.  Another client of the process    *)
(* comes and goes.                                                         *)
(*                                                                         *)
(* The server answers CONNECT once, at any time, or never.                 *)
(***************************************************************************)
EXTENDS Naturals

CONSTANTS MaxStarts, MaxReceived    \* bounds of the model: runs, packets read per run

ClientLifecycleAssumption == MaxStarts \in Nat \ {0} /\ MaxReceived \in Nat

VARIABLES
    starts, app,            \* where the application is
    isStopped, threadStopFlag, isConnected,
    rudpSocket, handles,    \* open or not; handles: sendEventHandles
    stopEvent, hasClientProcessReference, otherReference,
    clientCountInThisProcess, winsock,
    recv, send, rt, checker,    \* the threads
    checkerStopped, checkerJoinable, joiner, beforeCheckSequence,
    stop,                   \* the call of Stop under way: [by, pc]
    connectReply,           \* "none", "due", "taken"
    nextRecvPacketSequence, lastSendPacketSequence,
    disconnected            \* history: Disconnect was called in this run

flagVars == <<isStopped, threadStopFlag, isConnected>>
resourceVars == <<rudpSocket, handles, stopEvent>>
referenceVars ==
    <<hasClientProcessReference, otherReference, clientCountInThisProcess, winsock>>
threadVars == <<recv, send, rt>>
checkerVars == <<checker, checkerStopped, checkerJoinable, joiner, beforeCheckSequence>>
sequenceVars == <<nextRecvPacketSequence, lastSendPacketSequence>>
vars == <<starts, app, flagVars, resourceVars, referenceVars, threadVars, checkerVars,
          stop, connectReply, sequenceVars, disconnected>>

NotStopping == [by |-> "nobody", pc |-> "none"]

Init ==
    /\ starts = 0 /\ app = "off"
    /\ isStopped = TRUE /\ threadStopFlag = FALSE /\ isConnected = FALSE
    /\ rudpSocket = FALSE /\ handles = FALSE /\ stopEvent = FALSE
    /\ hasClientProcessReference = FALSE /\ otherReference = FALSE
    /\ clientCountInThisProcess = 0 /\ winsock = FALSE
    /\ recv = "ended" /\ send = "ended" /\ rt = "ended"
    /\ checker = "ended" /\ checkerStopped = FALSE /\ checkerJoinable = FALSE
    /\ joiner = "nobody" /\ beforeCheckSequence = 0
    /\ stop = NotStopping /\ connectReply = "none"
    /\ nextRecvPacketSequence = 1 /\ lastSendPacketSequence = 0
    /\ disconnected = FALSE

-----------------------------------------------------------------------------
(* The reference to Winsock that the clients of a process share.           *)

Acquire ==
    /\ clientCountInThisProcess' = clientCountInThisProcess + 1
    /\ winsock' = TRUE

\* Mutant: the last one out does not count.
Release_EachCleansUp ==
    /\ clientCountInThisProcess' = clientCountInThisProcess - 1
    /\ winsock' = FALSE

Release ==
    /\ clientCountInThisProcess' = clientCountInThisProcess - 1
    /\ winsock' = (clientCountInThisProcess > 1)

ReleaseClientProcessReference ==
    IF hasClientProcessReference
    THEN hasClientProcessReference' = FALSE /\ Release
    ELSE UNCHANGED <<hasClientProcessReference, clientCountInThisProcess, winsock>>

OtherClient ==
    /\ otherReference' = ~otherReference
    /\ IF otherReference THEN Release ELSE Acquire
    /\ UNCHANGED <<starts, app, flagVars, resourceVars, hasClientProcessReference,
                   threadVars, checkerVars, stop, connectReply, sequenceVars, disconnected>>

-----------------------------------------------------------------------------
(* Start.                                                                  *)

AllEnded == \A t \in {recv, send, rt, checker} : t = "ended"

StartBegins ==
    /\ app = "off" /\ AllEnded /\ starts < MaxStarts
    /\ starts' = starts + 1 /\ app' = "starting"
    /\ threadStopFlag' = FALSE /\ isConnected' = FALSE
    /\ hasClientProcessReference' = TRUE /\ Acquire
    /\ connectReply' = "none" /\ disconnected' = FALSE
    /\ UNCHANGED <<isStopped, resourceVars, otherReference, threadVars, checkerVars, stop,
                   sequenceVars>>

\* No session from the broker, no socket, or no handles for the threads.
StartFails ==
    /\ app = "starting" /\ app' = "off" /\ rudpSocket' = FALSE
    /\ ReleaseClientProcessReference
    /\ UNCHANGED <<starts, flagVars, handles, stopEvent, otherReference, threadVars,
                   checkerVars, stop, connectReply, sequenceVars, disconnected>>

RunThreads ==
    /\ app = "starting" /\ app' = "threads"
    /\ rudpSocket' = TRUE /\ handles' = TRUE /\ stopEvent' = FALSE
    /\ recv' = "blocked" /\ send' = "waiting" /\ rt' = "running"
    /\ UNCHANGED <<starts, flagVars, referenceVars, checkerVars, stop, connectReply,
                   sequenceVars, disconnected>>

\* CONNECT goes into the send queue, and then the core is no longer stopped.
SendConnectPacket ==
    /\ app = "threads" /\ app' = "connecting" /\ connectReply' = "due"
    /\ UNCHANGED <<starts, flagVars, resourceVars, referenceVars, threadVars, checkerVars,
                   stop, sequenceVars, disconnected>>

StartReturns ==
    /\ app = "connecting" /\ app' = "started" /\ isStopped' = FALSE
    /\ UNCHANGED <<starts, threadStopFlag, isConnected, resourceVars, referenceVars,
                   threadVars, checkerVars, stop, connectReply, sequenceVars, disconnected>>

-----------------------------------------------------------------------------
(* The application while the core runs.                                    *)

AppSends ==
    /\ app = "started" /\ isConnected /\ lastSendPacketSequence < MaxStarts
    /\ lastSendPacketSequence' = lastSendPacketSequence + 1
    /\ UNCHANGED <<starts, app, flagVars, resourceVars, referenceVars, threadVars,
                   checkerVars, stop, connectReply, nextRecvPacketSequence, disconnected>>

\* GetReceivedPacket gives the next packet.
AppReceives ==
    /\ app = "started" /\ isConnected /\ nextRecvPacketSequence <= MaxReceived
    /\ nextRecvPacketSequence' = nextRecvPacketSequence + 1
    /\ UNCHANGED <<starts, app, flagVars, resourceVars, referenceVars, threadVars,
                   checkerVars, stop, connectReply, lastSendPacketSequence, disconnected>>

\* Mutant: the checker joins itself.
StopServerAliveCheck_JoinsSelf(by) ==
    /\ checkerStopped' = TRUE /\ UNCHANGED checkerJoinable
    /\ joiner' = IF ~checkerStopped /\ checkerJoinable THEN by ELSE joiner

\* The first to come joins the checker that runs; the checker detaches itself.
StopServerAliveCheck(by) ==
    /\ checkerStopped' = TRUE
    /\ IF checkerStopped \/ ~checkerJoinable THEN UNCHANGED <<checkerJoinable, joiner>>
       ELSE IF by = "checker" THEN checkerJoinable' = FALSE /\ UNCHANGED joiner
       ELSE joiner' = by /\ UNCHANGED checkerJoinable

Join(by) ==
    /\ joiner = by => checker = "ended"
    /\ IF joiner = by THEN joiner' = "nobody" /\ checkerJoinable' = FALSE
       ELSE UNCHANGED <<joiner, checkerJoinable>>

DisconnectBegins ==
    /\ app = "started" /\ ~disconnected /\ app' = "joining"
    /\ StopServerAliveCheck("disconnect")
    /\ UNCHANGED <<starts, flagVars, resourceVars, referenceVars, threadVars, checker,
                   beforeCheckSequence, stop, connectReply, sequenceVars, disconnected>>

\* The join is over; under lifecycleLock the core is told, unless it is stopped.
Disconnect ==
    /\ app = "joining" /\ Join("disconnect") /\ app' = "started"
    /\ IF isStopped
       THEN UNCHANGED <<isConnected, lastSendPacketSequence, disconnected>>
       ELSE /\ isConnected' = FALSE /\ disconnected' = TRUE
            /\ lastSendPacketSequence' = lastSendPacketSequence + 1
    /\ UNCHANGED <<starts, isStopped, threadStopFlag, resourceVars, referenceVars,
                   threadVars, checker, checkerStopped, beforeCheckSequence, stop,
                   connectReply, nextRecvPacketSequence>>

-----------------------------------------------------------------------------
(* Stop, called by the application or by the checker.                      *)

\* Under lifecycleLock; a second call returns at once.
BeginStop(by) ==
    /\ IF isStopped THEN UNCHANGED <<isStopped, threadStopFlag, stopEvent, rudpSocket, stop>>
       ELSE /\ isStopped' = TRUE /\ threadStopFlag' = TRUE
            /\ stopEvent' = TRUE /\ rudpSocket' = FALSE
            /\ stop' = [by |-> by, pc |-> "checker"]
    /\ UNCHANGED <<isConnected, handles>>

AppStops ==
    /\ app = "started" /\ app' = "stopping"
    /\ BeginStop("app")
    /\ UNCHANGED <<starts, referenceVars, threadVars, checkerVars, connectReply, sequenceVars,
                   disconnected>>

StopChecker ==
    /\ stop.pc = "checker" /\ StopServerAliveCheck(stop.by)
    /\ stop' = [stop EXCEPT !.pc = "joinChecker"]
    /\ UNCHANGED <<starts, app, flagVars, resourceVars, referenceVars, threadVars, checker,
                   beforeCheckSequence, connectReply, sequenceVars, disconnected>>

\* The checker first, then the retransmission, send and receive threads.
JoinThreads ==
    /\ \/ /\ stop.pc = "joinChecker" /\ Join(stop.by)
          /\ stop' = [stop EXCEPT !.pc = "joinThreads"]
       \/ /\ stop.pc = "joinThreads" /\ recv = "ended" /\ send = "ended" /\ rt = "ended"
          /\ stop' = [stop EXCEPT !.pc = "close"] /\ UNCHANGED <<checkerJoinable, joiner>>
    /\ UNCHANGED <<starts, app, flagVars, resourceVars, referenceVars, threadVars, checker,
                   checkerStopped, beforeCheckSequence, connectReply, sequenceVars,
                   disconnected>>

\* Handles closed, queues freed, the reference and the key given up.
FinishStop ==
    /\ stop.pc = "close" /\ stop' = NotStopping
    /\ handles' = FALSE /\ ReleaseClientProcessReference
    /\ IF stop.by = "checker" THEN checker' = "ended" ELSE UNCHANGED checker
    /\ UNCHANGED <<starts, app, flagVars, rudpSocket, stopEvent, otherReference, threadVars,
                   checkerStopped, checkerJoinable, joiner, beforeCheckSequence,
                   connectReply, sequenceVars, disconnected>>

\* Stop has returned to the application.
StopReturns ==
    /\ app = "stopping" /\ stop.by # "app" /\ app' = "off"
    /\ UNCHANGED <<starts, flagVars, resourceVars, referenceVars, threadVars, checkerVars,
                   stop, connectReply, sequenceVars, disconnected>>

-----------------------------------------------------------------------------
(* The threads.                                                            *)

\* The receive thread handles the reply to CONNECT: connected, and the checker starts.
RecvConnectReply ==
    /\ recv = "blocked" /\ connectReply = "due" /\ connectReply' = "taken"
    /\ isConnected' = TRUE
    /\ checkerStopped' = FALSE /\ checkerJoinable' = TRUE /\ checker' = "sleeping"
    /\ UNCHANGED <<starts, app, isStopped, threadStopFlag, resourceVars, referenceVars,
                   threadVars, joiner, beforeCheckSequence, stop, sequenceVars, disconnected>>

\* It sees the flag after a datagram, or once its socket is closed.
RecvEnds ==
    /\ recv = "blocked" /\ threadStopFlag /\ recv' = "ended"
    /\ UNCHANGED <<starts, app, flagVars, resourceVars, referenceVars, send, rt, checkerVars,
                   stop, connectReply, sequenceVars, disconnected>>

SendEnds ==
    /\ send = "waiting" /\ stopEvent /\ send' = "ended"
    /\ UNCHANGED <<starts, app, flagVars, resourceVars, referenceVars, recv, rt, checkerVars,
                   stop, connectReply, sequenceVars, disconnected>>

\* A packet is past the retransmission limit.
LimitReached ==
    /\ rt = "running" /\ app \notin {"starting", "threads"} /\ ~threadStopFlag
    /\ isConnected' = FALSE /\ threadStopFlag' = TRUE
    /\ UNCHANGED <<starts, app, isStopped, resourceVars, referenceVars, threadVars,
                   checkerVars, stop, connectReply, sequenceVars, disconnected>>

RtEnds ==
    /\ rt = "running" /\ threadStopFlag /\ rt' = "ended"
    /\ UNCHANGED <<starts, app, flagVars, resourceVars, referenceVars, recv, send,
                   checkerVars, stop, connectReply, sequenceVars, disconnected>>

\* After its sleep the checker ends if told to, goes on if a packet has been read since,
\* and stops the core otherwise.
CheckServer ==
    /\ checker = "sleeping"
    /\ \/ /\ checkerStopped /\ checker' = "ended"
          /\ UNCHANGED <<beforeCheckSequence, isStopped, threadStopFlag, isConnected,
                         resourceVars, stop>>
       \/ /\ ~checkerStopped /\ nextRecvPacketSequence # beforeCheckSequence
          /\ beforeCheckSequence' = nextRecvPacketSequence
          /\ UNCHANGED <<checker, flagVars, resourceVars, stop>>
       \/ /\ ~checkerStopped /\ nextRecvPacketSequence = beforeCheckSequence
          /\ BeginStop("checker")
          /\ checker' = IF isStopped THEN "ended" ELSE "stopping"
          /\ UNCHANGED beforeCheckSequence
    /\ UNCHANGED <<starts, app, referenceVars, threadVars, checkerStopped, checkerJoinable,
                   joiner, connectReply, sequenceVars, disconnected>>

-----------------------------------------------------------------------------
Starting == StartFails \/ RunThreads \/ SendConnectPacket \/ StartReturns
Stopping == StopChecker \/ JoinThreads \/ FinishStop \/ StopReturns
Threads == RecvEnds \/ SendEnds \/ RtEnds

Next ==
    \/ StartBegins \/ Starting \/ AppSends \/ AppReceives \/ DisconnectBegins \/ Disconnect
    \/ AppStops \/ Stopping \/ RecvConnectReply \/ LimitReached \/ CheckServer \/ Threads
    \/ OtherClient

Spec == Init /\ [][Next]_vars

\* Every thread of the core runs, the checker wakes from its sleep, and a call under way
\* goes on.  Nothing obliges the application to call, nor the server to answer.
Fairness ==
    /\ WF_vars(Starting) /\ WF_vars(Disconnect) /\ WF_vars(Stopping)
    /\ WF_vars(RecvEnds /\ ~rudpSocket) /\ WF_vars(SendEnds) /\ WF_vars(RtEnds)
    /\ WF_vars(CheckServer)

LiveSpec == Spec /\ Fairness

-----------------------------------------------------------------------------
TypeOK ==
    /\ starts \in 0 .. MaxStarts
    /\ app \in {"off", "starting", "threads", "connecting", "started", "joining", "stopping"}
    /\ {isStopped, threadStopFlag, isConnected, rudpSocket, handles, stopEvent, winsock,
        hasClientProcessReference, otherReference, checkerStopped, checkerJoinable,
        disconnected} \subseteq BOOLEAN
    /\ clientCountInThisProcess \in 0 .. 2
    /\ recv \in {"blocked", "ended"} /\ send \in {"waiting", "ended"}
    /\ rt \in {"running", "ended"} /\ checker \in {"sleeping", "stopping", "ended"}
    /\ stop.by \in {"nobody", "app", "checker"}
    /\ stop.pc \in {"none", "checker", "joinChecker", "joinThreads", "close"}
    /\ connectReply \in {"none", "due", "taken"}
    /\ joiner \in {"nobody", "disconnect", "app"}
    /\ beforeCheckSequence \in Nat /\ nextRecvPacketSequence \in Nat \ {0}
    /\ lastSendPacketSequence \in Nat

\* A failed start, a stop by the application and a stop by the checker all give the
\* reference back exactly once, and Winsock stays up for as long as one client of the
\* process holds one.
ReferencesBalanced ==
    /\ clientCountInThisProcess = (IF hasClientProcessReference THEN 1 ELSE 0)
                                      + (IF otherReference THEN 1 ELSE 0)
    /\ winsock = (clientCountInThisProcess > 0)
    /\ app = "off" /\ stop.pc = "none" => ~hasClientProcessReference

\* The threads that wait on the handles and use the socket end before these are released.
ThreadsOutlivedByHandles ==
    send = "waiting" \/ recv = "blocked" => handles /\ hasClientProcessReference

\* A stop that has begun ends: the checker does not wait for itself, and nobody waits for
\* a thread that is not told.
NoStopUnderWay == stop.pc = "none"

\* A client that has given up at the retransmission limit stops.
GivenUpIsStopped == threadStopFlag ~> isStopped

\* IsStopped says the client core has stopped completely.
StoppedIsComplete == isStopped /\ app = "started" => AllEnded

\* A client that was told to disconnect does not become connected again.
DisconnectIsFinal == disconnected => ~isConnected

\* A client that starts again begins anew: the server expects its first packet as number
\* 1, and numbers its own from 1.
StartsAnew ==
    app = "starting" => lastSendPacketSequence = 0 /\ nextRecvPacketSequence = 1
=============================================================================
