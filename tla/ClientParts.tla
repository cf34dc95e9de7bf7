----------------------------- MODULE ClientParts -------------------------------
(***************************************************************************)
(* Components of MCComponents on the client and between the two sides,     *)
(* each over variables of its own: issue, connection, heartbeats and       *)
(* timeouts, and the client core with what it sends and receives.          *)
(* Their theorems are in ClientParts_proofs.                               *)
(***************************************************************************)
EXTENDS Integers, Sequences, FiniteSets

CONSTANTS
    cnMaxRetransmissions, cnCountedLosses,
    csSenders, csMaxSequence, csWindow, csByteRange, csMaxRetransmissions,
    crMaxSequence, crHeartbeats, crMaxHeld,
    clMaxStarts, clMaxReceived,
    siFragments, siConnectAttempts, siReadsPastFinished,
    rePackets, reInitialRto, reInMinRto, reInMaxRto, reMaxSteady,
    hbSleepMs, hbCheckMs, hbMaxDelay, hbClientSends, hbMaxTime

VARIABLES
    cnState, cnWorker, hasClientAddr, nextExpected, cnHeld, onConnected, delivered,
    seesTimeout, aborted, cnHeartbeat, cnIsConnected, gaveUp, recvThread, tracked,
    cnToServer, cnToClient, lost,
    csLastSendPacketSequence, remoteAdvertisedWindow, csSendPacketInfoMap,
    csRetransmissionCount, csPendingPacketQueue, sendBufferQueue, csIsConnected,
    csThreadStopFlag, csSender, csRecv, csRt, csToServer, csToClient, serverNext, serverHeld,
    lastSent, unacked, datagram, replies, replying, crHeld, crNextRecvPacketSequence, given,
    crBeforeCheckSequence, crServerAlive, arrived,
    clStarts, app, isStopped, clThreadStopFlag, clIsConnected, rudpSocket, clHandles,
    stopEvent, hasClientProcessReference, otherReference, clientCountInThisProcess, winsock,
    clRecv, send, clRt, checker, checkerStopped, checkerJoinable, joiner,
    clBeforeCheckSequence, clStop, connectReply, clNextRecvPacketSequence,
    clLastSendPacketSequence, disconnected,
    siToServer, siToClient, serverFin, clientFin, reset, siWorker, serverBuffer, unsent,
    reservation, siClient, attempts, clientBuffer, payloadComplete, socketOpen, bufferHeld,
    result,
    hasRttSample, smoothedRttMs, rttVariationMs, cachedRtoMs, backoffSuppressed, reInFlight,
    steady,
    now, passAt, passNow, lastReceivedPacketTime, hbToClient, hbToServer,
    hbNextRecvPacketSequence, hbBeforeCheckSequence, checkAt, hbServerAlive

CN == INSTANCE Connection WITH
    MaxRetransmissions <- cnMaxRetransmissions, CountedLosses <- cnCountedLosses,
    state <- cnState, worker <- cnWorker, held <- cnHeld, heartbeat <- cnHeartbeat,
    isConnected <- cnIsConnected, toServer <- cnToServer, toClient <- cnToClient

CS == INSTANCE ClientSend WITH
    Senders <- csSenders, MaxSequence <- csMaxSequence, Window <- csWindow,
    ByteRange <- csByteRange, MaxPacketRetransmissionCount <- csMaxRetransmissions,
    lastSendPacketSequence <- csLastSendPacketSequence,
    sendPacketInfoMap <- csSendPacketInfoMap, retransmissionCount <- csRetransmissionCount,
    pendingPacketQueue <- csPendingPacketQueue, isConnected <- csIsConnected,
    threadStopFlag <- csThreadStopFlag, sender <- csSender, recv <- csRecv, rt <- csRt,
    toServer <- csToServer, toClient <- csToClient

CR == INSTANCE ClientReceive WITH
    MaxSequence <- crMaxSequence, Heartbeats <- crHeartbeats, MaxHeld <- crMaxHeld,
    held <- crHeld, nextRecvPacketSequence <- crNextRecvPacketSequence,
    beforeCheckSequence <- crBeforeCheckSequence, serverAlive <- crServerAlive

CL == INSTANCE ClientLifecycle WITH
    MaxStarts <- clMaxStarts, MaxReceived <- clMaxReceived,
    starts <- clStarts, threadStopFlag <- clThreadStopFlag, isConnected <- clIsConnected,
    handles <- clHandles, recv <- clRecv, rt <- clRt,
    beforeCheckSequence <- clBeforeCheckSequence, stop <- clStop,
    nextRecvPacketSequence <- clNextRecvPacketSequence,
    lastSendPacketSequence <- clLastSendPacketSequence

SI == INSTANCE SessionIssue WITH
    Fragments <- siFragments, ConnectAttempts <- siConnectAttempts,
    ReadsPastFinished <- siReadsPastFinished,
    toServer <- siToServer, toClient <- siToClient, worker <- siWorker, client <- siClient

RE == INSTANCE RtoEstimator WITH
    Packets <- rePackets, InitialRto <- reInitialRto, InMinRto <- reInMinRto,
    InMaxRto <- reInMaxRto, MaxSteady <- reMaxSteady, inFlight <- reInFlight

HB == INSTANCE Heartbeat WITH
    HeartbeatThreadSleepMs <- hbSleepMs, ServerAliveCheckMs <- hbCheckMs,
    MaxDelay <- hbMaxDelay, ClientSends <- hbClientSends, MaxTime <- hbMaxTime,
    toClient <- hbToClient, toServer <- hbToServer,
    nextRecvPacketSequence <- hbNextRecvPacketSequence,
    beforeCheckSequence <- hbBeforeCheckSequence, serverAlive <- hbServerAlive
================================================================================
