------------------------------ MODULE MCComponents ------------------------------
(***************************************************************************)
(* The components that share no state with the session's own modules, in   *)
(* one place: those of ServerParts and ClientParts, the senders of a       *)
(* session, whose instances bring their theorems with them, the memory     *)
(* tracer and the reader of option files.  A behaviour is one of one       *)
(* component: running says of which, and the others stay where they begin. *)
(* They share no variable, so nothing is lost by not interleaving them,    *)
(* and the states of a run are the sum of theirs.  The configurations      *)
(* choose the constants: small ones for the properties that need fairness, *)
(* larger ones for the others.                                             *)
(***************************************************************************)
EXTENDS Integers, Sequences, FiniteSets, ServerParts, ClientParts

CONSTANTS
    Progress,   \* whether the client's application polls, so that what arrives is taken
    Components, \* those that run
    \* of the senders of a session
    swContent, swHeartbeats, swInitialCwnd, swMaxCwnd, swGapThreshold, swPendingCapacity,
    swMaxSent,
    spSenders, spCapacity, spBig, spAcks, spLosses, spMaxPackets, spMaxPushes,
    rtMaxInfos, rtReplies, rtMaxRetransmissions, rtMaxGeneration, rtMaxClock

AllFaults == {"ReadOptionFile", "InitNetwork", "InitSessions", "InitRIO",
              "InitializeWorkerResources", "StartSessionBroker"}

FirstWorker == [s \in svSessions |-> 1]

VARIABLES
    running,    \* the component that runs
    swLastSendPacketSequence, swPc, inHand, swPendingPacketQueue, swSendPacketInfoMap, cwnd,
    lastReplySequence, inRecovery, workerPc, workerCwnd, sendBuffers, timeoutCwnd,
    heartbeats, sentAsCore, acked, closed, sendPacketInfoQueue, reservedSendPacketInfo,
    ioMode, rioSendBuffer, batch, cachedSequenceSet, spPc, left, totalSendSize, skipped,
    posted, spErased, submitted, pushes, taken, onWire, releasing, allocated, refCount, owner,
    rtErased, scheduleVersion, rtRetransmissionCount, canUseRttSample, lastSendTime,
    transmissions, sampled, rtSendPacketInfoMap, queue, rtHeap, wakeEvent, rtClock,
    generation, rtSession, rtSender, io, rtWorker, rtPc, dueList, armed, strayDisconnect,
    allocations, enabled, mtPhase, address, maker, missed, outputFilename, setting, content,
    console, reports, truncated, toggles, mtCalls, member, loaded, reads

swVars == <<swLastSendPacketSequence, swPc, inHand, swPendingPacketQueue,
    swSendPacketInfoMap, cwnd, lastReplySequence, inRecovery, workerPc, workerCwnd,
    sendBuffers, timeoutCwnd, heartbeats, sentAsCore, acked, closed>>
pqVars == <<capacity, head, tail, count, buffer, life, lives, pqPc, packet, made, madeIn,
    out, freed>>
spVars == <<sendPacketInfoQueue, reservedSendPacketInfo, ioMode, rioSendBuffer, batch,
    cachedSequenceSet, spPc, left, totalSendSize, skipped, posted, spErased, submitted,
    pushes, taken, onWire, releasing>>
rtVars == <<allocated, refCount, owner, rtErased, scheduleVersion, rtRetransmissionCount,
    canUseRttSample, lastSendTime, transmissions, sampled, rtSendPacketInfoMap, queue,
    rtHeap, wakeEvent, rtClock, generation, rtSession, rtSender, io, rtWorker, rtPc,
    dueList, armed, strayDisconnect>>
reVars == <<hasRttSample, smoothedRttMs, rttVariationMs, cachedRtoMs, backoffSuppressed,
    reInFlight, steady>>
csVars == <<csLastSendPacketSequence, remoteAdvertisedWindow, csSendPacketInfoMap,
    csRetransmissionCount, csPendingPacketQueue, sendBufferQueue, csIsConnected,
    csThreadStopFlag, csSender, csRecv, csRt, csToServer, csToClient, serverNext,
    serverHeld>>
crVars == <<lastSent, unacked, datagram, replies, replying, crHeld,
    crNextRecvPacketSequence, given, crBeforeCheckSequence, crServerAlive, arrived>>
clVars == <<clStarts, app, isStopped, clThreadStopFlag, clIsConnected, rudpSocket,
    clHandles, stopEvent, hasClientProcessReference, otherReference,
    clientCountInThisProcess, winsock, clRecv, send, clRt, checker, checkerStopped,
    checkerJoinable, joiner, clBeforeCheckSequence, clStop, connectReply,
    clNextRecvPacketSequence, clLastSendPacketSequence, disconnected>>
cnVars == <<cnState, cnWorker, hasClientAddr, nextExpected, cnHeld, onConnected, delivered,
    seesTimeout, aborted, cnHeartbeat, cnIsConnected, gaveUp, recvThread, tracked,
    cnToServer, cnToClient, lost>>
hbVars == <<now, passAt, passNow, lastReceivedPacketTime, hbToClient, hbToServer,
    hbNextRecvPacketSequence, hbBeforeCheckSequence, checkAt, hbServerAlive>>
bqVars == <<bqIsRunning, listening, place, acceptor, clientQueue, lockOwner, bqWorker,
    stopRequested, bqStopper>>
siVars == <<siToServer, siToClient, serverFin, clientFin, reset, siWorker, serverBuffer,
    unsent, reservation, siClient, attempts, clientBuffer, payloadComplete, socketOpen,
    bufferHeld, result>>
shVars == <<shState, reservedFor, reservedAt, free, shPc, shClient, shSession, answer, info,
    arriving, shClock, shHeartbeat, shStop>>
rioVars == <<managers, isInitialized, rioCompletionQueues, openQueues, registeredBuffers,
    addressId, rioPhase, slot, rioHeld, registered, rioRQ, rioInFlight, sending>>
svVars == <<svPc, svStarts, failed, core, manager, svHandles, stopEvents, schedulers,
    ticker, logger, broker, isServerStopped, thread, svSession, outstanding, shut, pending,
    claims, releaseList, releaseEvent, recvEvent, draining, svHeap, beating, fatals>>
feVars == <<fatalError, fatalErrorHandler, notifying, errorToNotify, reported, installs,
    feCalls>>
tkVars == <<tkIsRunning, lag, wait, timerEvents, unregisterTargetList, tkPc, copied,
    fireTargets, tkStopper, tkStarts, registrations, registering, wanted, since, first,
    lateFires>>
lgVars == <<currentConnectedClientCount, lgHandles, signalled, loggerThread, lgPc, rounds,
    spawned, lgWorker, waitsOn, copyLogWaitingQueue, logWaitingQueue, written, logs,
    isAlive>>
mtVars == <<allocations, enabled, mtPhase, address, maker, missed, outputFilename, setting,
    content, console, reports, truncated, toggles, mtCalls>>
ofVars == <<member, loaded, reads>>

SW == INSTANCE SendWindow_proofs WITH
    Content <- swContent, Heartbeats <- swHeartbeats, InitialCwnd <- swInitialCwnd,
    MaxCwnd <- swMaxCwnd, GapThreshold <- swGapThreshold,
    PendingCapacity <- swPendingCapacity, MaxSent <- swMaxSent,
    lastSendPacketSequence <- swLastSendPacketSequence, pc <- swPc,
    pendingPacketQueue <- swPendingPacketQueue, sendPacketInfoMap <- swSendPacketInfoMap

SP == INSTANCE SendPipeline_proofs WITH
    Senders <- spSenders, Capacity <- spCapacity, Big <- spBig, Acks <- spAcks,
    Losses <- spLosses, MaxPackets <- spMaxPackets, MaxPushes <- spMaxPushes, pc <- spPc,
    erased <- spErased

RT == INSTANCE Retransmission_proofs WITH
    MaxInfos <- rtMaxInfos, Replies <- rtReplies,
    MaxPacketRetransmissionCount <- rtMaxRetransmissions, MaxGeneration <- rtMaxGeneration,
    MaxClock <- rtMaxClock, erased <- rtErased,
    retransmissionCount <- rtRetransmissionCount, sendPacketInfoMap <- rtSendPacketInfoMap,
    heap <- rtHeap, clock <- rtClock, session <- rtSession, sender <- rtSender,
    worker <- rtWorker

MT == INSTANCE MemoryTracer WITH
    Objects <- {"o1", "o2"}, Addresses <- {"a1"}, Threads <- {"t1", "t2"}, Files <- {"log"},
    DefaultFile <- "log", Unwritable <- {}, MaxToggles <- 2, MaxReports <- 1,
    phase <- mtPhase, calls <- mtCalls

OF == INSTANCE OptionFiles WITH
    Width <- 3, Largest <- 1, MaxReads <- 2

Init ==
    /\ running \in Components
    /\ SW!Init
    /\ PQ!Init
    /\ SP!Init
    /\ RT!Init
    /\ RE!Init
    /\ CS!Init
    /\ CR!Init
    /\ CL!Init
    /\ CN!Init
    /\ HB!Init
    /\ running # "Heartbeat" => passAt = 0
    /\ BQ!Init
    /\ SI!Init
    /\ SH!Init
    /\ RIO!Init
    /\ SV!Init
    /\ FE!Init
    /\ TK!Init
    /\ LG!Init
    /\ MT!Init
    /\ OF!Init

\* Component c takes a step, and the others none.
Runs(c) ==
    /\ running = c /\ UNCHANGED running
    /\ c # "SendWindow" => UNCHANGED swVars
    /\ c # "PendingQueue" => UNCHANGED pqVars
    /\ c # "SendPipeline" => UNCHANGED spVars
    /\ c # "Retransmission" => UNCHANGED rtVars
    /\ c # "RtoEstimator" => UNCHANGED reVars
    /\ c # "ClientSend" => UNCHANGED csVars
    /\ c # "ClientReceive" => UNCHANGED crVars
    /\ c # "ClientLifecycle" => UNCHANGED clVars
    /\ c # "Connection" => UNCHANGED cnVars
    /\ c # "Heartbeat" => UNCHANGED hbVars
    /\ c # "BrokerQueue" => UNCHANGED bqVars
    /\ c # "SessionIssue" => UNCHANGED siVars
    /\ c # "SessionHandover" => UNCHANGED shVars
    /\ c # "SessionRIO" => UNCHANGED rioVars
    /\ c # "ServerLifecycle" => UNCHANGED svVars
    /\ c # "FatalError" => UNCHANGED feVars
    /\ c # "Ticker" => UNCHANGED tkVars
    /\ c # "Logger" => UNCHANGED lgVars
    /\ c # "MemoryTracer" => UNCHANGED mtVars
    /\ c # "OptionFiles" => UNCHANGED ofVars

Next ==
    \/ Runs("SendWindow") /\ SW!Next
    \/ Runs("PendingQueue") /\ PQ!Next
    \/ Runs("SendPipeline") /\ SP!Next
    \/ Runs("Retransmission") /\ RT!Next
    \/ Runs("RtoEstimator") /\ RE!Next
    \/ Runs("ClientSend") /\ CS!Next
    \/ Runs("ClientReceive") /\ (IF Progress THEN CR!PollingNext ELSE CR!Next)
    \/ Runs("ClientLifecycle") /\ CL!Next
    \/ Runs("Connection") /\ CN!Next
    \/ Runs("Heartbeat") /\ HB!Next
    \/ Runs("BrokerQueue") /\ BQ!Next
    \/ Runs("SessionIssue") /\ SI!Next
    \/ Runs("SessionHandover") /\ SH!Next
    \/ Runs("SessionRIO") /\ RIO!Next
    \/ Runs("ServerLifecycle") /\ SV!Next
    \/ Runs("FatalError") /\ FE!Next
    \/ Runs("Ticker") /\ TK!Next
    \/ Runs("Logger") /\ LG!Next
    \/ Runs("MemoryTracer") /\ MT!Next
    \/ Runs("OptionFiles") /\ OF!Next

vars == <<running, swVars, pqVars, spVars, rtVars, reVars, csVars, crVars, clVars, cnVars,
    hbVars, bqVars, siVars, shVars, rioVars, svVars, feVars, tkVars, lgVars, mtVars,
    ofVars>>

Spec == Init /\ [][Next]_vars

\* What the components assume of their constants, of the values chosen here.
ASSUME ComponentAssumptions ==
    /\ SW!WindowAssumption /\ SW!SendersAssumption /\ SW!BoundsAssumption
    /\ SP!PipelineAssumption /\ PQ!PendingQueueAssumption /\ RT!RetransmissionAssumption
    /\ RE!RtoEstimatorAssumption /\ CS!ClientSendAssumption /\ CR!ClientReceiveAssumption
    /\ CL!ClientLifecycleAssumption /\ CN!ConnectionAssumption /\ HB!HeartbeatAssumption
    /\ BQ!BrokerQueueAssumption /\ SI!SessionIssueAssumption /\ SH!SessionHandoverAssumption
    /\ RIO!SessionRIOAssumption /\ SV!ServerAssumption /\ FE!FatalAssumption
    /\ TK!TickerAssumption /\ LG!LoggerAssumption /\ MT!MemoryTracerAssumption
    /\ OF!OptionFilesAssumption

-------------------------------------------------------------------------------
(* Safety: components that guard against the same hazard, together.            *)

\* Of component c, when it runs; the others stay as they begin.
In(c, P) == running = c => P

TypeOK ==
    /\ running \in Components
    /\ In("SendWindow", SW!TypeOK)
    /\ In("PendingQueue", PQ!TypeOK)
    /\ In("SendPipeline", SP!TypeOK)
    /\ In("Retransmission", RT!TypeOK)
    /\ In("RtoEstimator", RE!TypeOK)
    /\ In("ClientSend", CS!TypeOK)
    /\ In("ClientReceive", CR!TypeOK)
    /\ In("ClientLifecycle", CL!TypeOK)
    /\ In("Connection", CN!TypeOK)
    /\ In("Heartbeat", HB!TypeOK)
    /\ In("BrokerQueue", BQ!TypeOK)
    /\ In("SessionIssue", SI!TypeOK)
    /\ In("SessionHandover", SH!TypeOK)
    /\ In("SessionRIO", RIO!TypeOK)
    /\ In("ServerLifecycle", SV!TypeOK)
    /\ In("FatalError", FE!TypeOK)
    /\ In("Ticker", TK!TypeOK)
    /\ In("Logger", LG!TypeOK)
    /\ In("MemoryTracer", MT!TypeOK)
    /\ In("OptionFiles", OF!TypeOK)

\* A packet that was numbered is with one thread, in one queue, outstanding, acknowledged
\* or freed, on the server and on the client: senders, replies, flushes and a release
\* that cross neither lose one nor register one twice.
EachPacketInOnePlace ==
    /\ In("SendWindow", SW!EachPacketInOnePlace)
    /\ In("ClientSend", CS!EachPacketInOnePlace)
    /\ In("PendingQueue", PQ!EachPacketSomewhere)

\* What is under way is bounded: on the server by the two windows it checked, whose base
\* never goes back; on the client by the advertised window and one packet per thread, if
\* so many are counted right by the BYTE they are cast to (RUDPClientCore.cpp:779).
WindowsHold ==
    /\ In("SendWindow", SW!CwndBounded /\ SW!SentWithinWindow /\ SW!BaseIsHighestReply)
    /\ In("ClientSend", CS!OutstandingBounded)

\* Memory the kernel reads or writes stays registered and has no second writer: through
\* the races for ioMode, a failed registration and the release of a session; and a
\* completion queue has room for every request.  (Of a second RIO manager the address
\* buffers are not: a context keeps the identifier the first one gave it.)
BuffersAreSafe ==
    /\ In("SendPipeline", SP!OneUserOfBuffer)
    /\ In("SessionRIO", RIO!RegisteredIffHeld /\ RIO!NothingHeldInPool
           /\ (managers <= 1 => RIO!InFlightRegistered) /\ RIO!QueueHasRoom)

\* The send queue with its reserved packet takes every packet once and in the order of
\* submission, and the ring of pending packets is a bounded queue, from which a session
\* takes only what was put there for its own connection.
QueuesAreFifo == SP!ImplementsQueue /\ PQ!ImplementsFifo /\ PQ!OwnPackets

\* Reference counts are exact: of a packet's information over its holders, and of the
\* client process over Winsock; nothing is closed under a thread that uses it.
ReferencesExact ==
    /\ In("Retransmission", RT!RefCountExact)
    /\ In("ClientLifecycle", CL!ReferencesBalanced /\ CL!ThreadsOutlivedByHandles)

\* A packet is queued once at a time and only to the session that owns it, a round trip
\* is measured on packets sent once, no scheduled packet is slept through, and a window in
\* which losses do not count lasts no longer than the timeout.
RetransmittedRight ==
    /\ In("Retransmission", RT!OneCopyAtATime /\ RT!SentOnlyToOwner /\ RT!SampleUnambiguous
           /\ RT!NoLostWakeup)
    /\ In("RtoEstimator", RE!WindowOnlyAfterBackoff)

\* The client gives the application every packet once and in order, and keeps what it
\* replied to; the server handles a first packet after OnConnected and never holds it.
DeliveredInOrder ==
    /\ In("ClientReceive", CR!InOrderOnce /\ CR!AckedIsKept)
    /\ In("Connection", CN!HandledInOrder /\ CN!FirstPacketNotHeld)

\* The two sides agree on a session: one that a client counts as its own is reserved or
\* connected for it, and a reservation that is aborted is connected to nobody.
SidesAgree ==
    /\ In("Connection", CN!AbortExcludesConnect /\ CN!ClientConnectedImpliesSession)
    /\ In("SessionIssue", SI!AcceptedIsReserved)

\* A socket has one keeper and a session id one place, whichever step of a handover fails:
\* none is served twice, and none leaks.
KeptOnce ==
    /\ In("BrokerQueue", BQ!ServedByOne)
    /\ In("SessionIssue", SI!ClientReturnsAll)
    /\ In("SessionHandover", SH!NoSlotLeaks)

\* A timeout counts once and not early: one burst of losses backs the retransmission off
\* once, and the heartbeat thread aborts a reservation that was made before it read the
\* clock when its client has had the whole timeout to connect.  (One made later, in the
\* same pass, it may abort at once: RUDPSession.cpp:319, EarlyTimeout.)
TimeoutsCountOnce == RE!BurstBacksOffOnce /\ SH!OldReservationsWait

\* When Stop has returned, no thread is left that would use what may then be destroyed,
\* and what the kernel or a queue still refers to has not been deleted.
QuietAfterStop ==
    /\ In("BrokerQueue", BQ!StoppedIsQuiet)
    /\ In("Ticker", TK!NoHandlerAfterStop)
    /\ In("Logger", LG!StopsForLast)
    /\ In("ServerLifecycle", SV!ThreadsHaveParts /\ SV!DeletedWhenDrained
           /\ SV!OffLeavesNothing)

\* What a periodic thread does it does in time: a timer fires late by two passes at most,
\* and once more at most when it is taken away; and the server hears from a client that is
\* there at least every other pass of the heartbeat thread.  (A timer is registered once,
\* and with its thread running: the switches Reregister and EarlyRegister are off.)
PeriodsAreKept ==
    /\ In("Ticker", TK!FiresInTime /\ TK!OnceMoreAtMost)
    /\ In("Heartbeat", HB!HeardEveryOtherPass)

\* The first fatal error is told to the installed handler, once per installation, however
\* reports and installations cross.
FatalErrorTold ==
    In("FatalError", FE!OnlyFirstTold /\ FE!OncePerInstallation /\ FE!InstalledHandlerTold)

\* What is recorded is what happened: every log once and in order, a leak only of an
\* object that exists, and the settings that the file says.
RecordsAreTrue ==
    /\ In("Logger", LG!EachOnce /\ LG!ExitWritesAll)
    /\ In("MemoryTracer", MT!LeaksAreLive /\ MT!LiveAreCounted /\ MT!NotesOfObject
           /\ MT!StatisticsAddUp /\ MT!ReportedOnce /\ MT!LogStartsOnce)
    /\ In("OptionFiles", OF!LoadedIsFile /\ OF!BoundsFitEstimator)

-------------------------------------------------------------------------------
(* Progress: the fairness of each component while it runs.  What the other     *)
(* side of a lossy network has not acknowledged it sends again and again until *)
(* it arrives; the lowest packet is enough.                                    *)

SendFairness ==
    /\ \A t \in SW!Threads :
          WF_swVars(running = "SendWindow" /\ (SW!NumberHeartbeat(t) \/ SW!SendOrQueue(t) \/ SW!SendNow(t)))
    /\ WF_swVars(running = "SendWindow" /\ SW!Worker)
    /\ \A t \in SP!Threads : WF_spVars(running = "SendPipeline" /\ SP!Sending(t))
    /\ WF_spVars(running = "SendPipeline" /\ SP!SendIOCompleted)

ClientFairness ==
    /\ \A t \in csSenders : WF_csVars(running = "ClientSend" /\ CS!Sending(t))
    /\ WF_csVars(running = "ClientSend" /\ CS!Flush)
    /\ WF_csVars(running = "ClientSend" /\ CS!CountRetransmission)
    /\ WF_csVars(running = "ClientSend" /\ CS!Resend)
    /\ WF_csVars(running = "ClientSend" /\ CS!DoSend)
    /\ WF_crVars(running = "ClientReceive" /\ CR!ServerSends)
    /\ WF_crVars(running = "ClientReceive" /\ CR!ProcessRecvPacket)
    /\ WF_crVars(running = "ClientReceive" /\ CR!SendReplyToServer)
    /\ WF_crVars(running = "ClientReceive" /\ CR!GetReceivedPacket)
    /\ WF_clVars(running = "ClientLifecycle" /\ CL!Starting)
    /\ WF_clVars(running = "ClientLifecycle" /\ CL!Disconnect)
    /\ WF_clVars(running = "ClientLifecycle" /\ CL!Stopping)
    /\ WF_clVars(running = "ClientLifecycle" /\ CL!RecvEnds /\ ~rudpSocket)
    /\ WF_clVars(running = "ClientLifecycle" /\ CL!SendEnds)
    /\ WF_clVars(running = "ClientLifecycle" /\ CL!RtEnds)
    /\ WF_clVars(running = "ClientLifecycle" /\ CL!CheckServer)

ConnectionFairness ==
    /\ \A p \in CN!ClientPackets : WF_cnVars(running = "Connection" /\ CN!ClientRetransmits(p))
    /\ WF_cnVars(running = "Connection" /\ CN!FinishConnect)
    /\ WF_cnVars(running = "Connection" /\ CN!CheckReservedSessionTimeout)
    /\ WF_cnVars(running = "Connection" /\ CN!AbortReservedSession)
    /\ WF_cnVars(running = "Connection" /\ CN!SendHeartbeatPacket)
    /\ WF_cnVars(running = "Connection" /\ CN!ProcessRetransmission)
    /\ WF_bqVars(running = "BrokerQueue" /\ BQ!AcceptorStep)
    /\ WF_bqVars(running = "BrokerQueue" /\ BQ!StopperStep)
    /\ \A w \in BQ!Workers : WF_bqVars(running = "BrokerQueue" /\ BQ!WorkerStep(w))
    /\ WF_siVars(running = "SessionIssue" /\ SI!ClientStep)
    /\ WF_siVars(running = "SessionIssue" /\ SI!ServerStep)

StopFairness ==
    /\ WF_shVars(running = "SessionHandover" /\ SH!Stopping)
    /\ \A s \in SH!Slot : WF_shVars(running = "SessionHandover" /\ SH!ReleaseSession(s))
    /\ WF_tkVars(running = "Ticker" /\ TK!UpdateTick)
    /\ WF_tkVars(running = "Ticker" /\ TK!Join)
    /\ WF_tkVars(running = "Ticker" /\ TK!Clear)
    /\ \A u \in lgUsers : WF_lgVars(running = "Logger" /\ LG!User(u))
    /\ \A w \in LG!Workers : WF_lgVars(running = "Logger" /\ LG!Worker(w))
    /\ WF_svVars(running = "ServerLifecycle" /\ SV!PushToDisconnectTargetSession(1))
    /\ WF_svVars(running = "ServerLifecycle" /\ 1 \in shut /\ SV!IOCompleted(1))
    /\ WF_svVars(running = "ServerLifecycle" /\ SV!OnRecvPacket(1))
    /\ WF_svVars(running = "ServerLifecycle" /\ SV!HeartbeatSends(1))
    /\ WF_svVars(running = "ServerLifecycle" /\ SV!RecvLogicWakes(1))
    /\ WF_svVars(running = "ServerLifecycle" /\ SV!RecvLogicDrained(1))
    /\ WF_svVars(running = "ServerLifecycle" /\ SV!RecvLogicStops(1))
    /\ WF_svVars(running = "ServerLifecycle" /\ SV!IOWorkerStops(1))
    /\ WF_svVars(running = "ServerLifecycle" /\ SV!RetransmissionStops(1))
    /\ WF_svVars(running = "ServerLifecycle" /\ SV!ReleaseWakes)
    /\ WF_svVars(running = "ServerLifecycle" /\ SV!ReleaseStops)
    /\ WF_svVars(running = "ServerLifecycle" /\ SV!HeartbeatStops)
    /\ WF_svVars(running = "ServerLifecycle" /\ SV!StopServer /\ ~SV!CallStopServer)

Lowest(n, set) == n \in set /\ \A m \in set : n <= m

\* The first and the second way of the datagrams of the component that runs: only one does,
\* so that fairness to the disjunction is fairness to its own.
Arrives ==
    \/ /\ running = "SendWindow"
       /\ \E n \in swSendPacketInfoMap :
             Lowest(n, swSendPacketInfoMap) /\ SW!OnSendReply(n)
       /\ Runs("SendWindow")
    \/ /\ running = "ClientSend"
       /\ \E p \in csSendPacketInfoMap :
             Lowest(p, csSendPacketInfoMap) /\ CS!ScanTimeout(p)
       /\ Runs("ClientSend")
    \/ /\ running = "ClientReceive"
       /\ \E s \in unacked : Lowest(s, unacked) /\ CR!OnRecvStream(<<s>>)
       /\ Runs("ClientReceive")

ReplyArrives ==
    /\ running = "ClientReceive"
    /\ \E s \in unacked : Lowest(s, unacked) /\ CR!ServerTakesReply(s)

LiveSpec ==
    /\ Spec /\ SendFairness /\ ClientFairness /\ ConnectionFairness /\ StopFairness
    /\ SF_vars(Arrives) /\ SF_crVars(ReplyArrives)

\* Every packet arrives, or its connection ends: a full window opens again, what lost the
\* race for ioMode is taken by the winner, and what is lost is sent until it is acknowledged.
\* The two ways in which the code keeps a packet for ever are named.  Two threads have
\* queued out of order, and the later packet keeps the earlier one behind it
\* (RUDPSession.cpp:132, StuckPending); or the last stream came out empty because its packet
\* was acknowledged meanwhile, and nobody looks at the queue (RUDPIOHandler.cpp:238,
\* Stranded).  Of the client this is said of what it has registered, not of what is pending.
PacketsArrive ==
    []<>(/\ In("SendWindow", SW!AllAckedUnlessOvertaken)
         /\ In("SendPipeline", SP!AllTakenUnlessLeft)
         /\ In("ClientSend", CS!NothingOutstanding)
         /\ In("ClientReceive", CR!SentIsPassed))

\* A handover ends: an accepted client is served, both sides of its connection end with
\* the same result, a reservation is connected or given up, and a session whose client
\* has gone is released.  That a session that stays reserved is taken (Taken) holds for
\* siReadsPastFinished FALSE, an answer that does not come in one recv with the Finished:
\* the client drops that one (TLSHelperClient.cpp:80, InfoDropped).
ConnectionsEnd ==
    []<>(/\ In("BrokerQueue", BQ!NobodyQueued)
         /\ In("SessionIssue", SI!Ended /\ SI!Taken)
         /\ In("Connection", CN!ConnectEnded /\ CN!NotOrphaned))

\* A stop returns.  Of the client, when its checker stops it at the same time; of the ticker
\* in a pass; of the logger with users that come and go, if no run overlaps a stop; and of
\* the server while sessions connect and end, unless it waits for what is gone: a worker of
\* the broker that missed the stop (MissedStop), a session dropped by its second drain test
\* (LostRelease) or left by a worker with a fatal error.  And a log does not wait for a
\* thread that sleeps.
StopsReturn ==
    []<>(/\ In("ClientLifecycle", CL!NoStopUnderWay)
         /\ In("SessionHandover", SH!StopDone)
         /\ In("ServerLifecycle", SV!NotStopping)
         /\ In("Ticker", TK!NotStopping)
         /\ In("Logger", LG!NoCall /\ LG!NoLogWaits))

\* With nobody in DoSend nothing waits to be sent: a thread that lost the race for ioMode
\* may rely on the winner; and a datagram is its packets, whole and each once.  The code
\* leaves two gaps, when a packet is found acknowledged while the stream is made: its room
\* is sent with what was there before (RUDPIOHandler.cpp:515, StaleBytes), and if it was
\* the only one, what was pushed meanwhile waits for the next send (:238, Stranded).
NothingLeftBehind == In("SendPipeline", SP!LeftOnlyByAcks /\ SP!DatagramWholeUnlessSkipped)

\* A client whose server is there does not declare it dead, even when it has nothing to
\* send: of a client that sends no data, and checks a third as often as the server's
\* heartbeat thread.
ServerStaysAlive == In("Heartbeat", HB!ServerStaysAlive)
===============================================================================
