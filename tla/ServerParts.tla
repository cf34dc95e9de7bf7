----------------------------- MODULE ServerParts -------------------------------
(***************************************************************************)
(* Components of MCComponents on the server, each over variables of its    *)
(* own: the pending queue of a session, what takes a session from the      *)
(* broker to its release, and the threads around it.                       *)
(* Their theorems are in ServerParts_proofs.                               *)
(***************************************************************************)
EXTENDS Integers, Sequences, FiniteSets

CONSTANTS
    pqSenders, pqCapacity, pqMaxPackets, pqMaxLives, pqLate,
    bqClients, bqThreads, bqNone,
    shSlots, shWorkers, shClients, shTimeout, shMaxTime, shWidth, shFaults,
    rioSockets, rioWorkers, rioReceives, rioContexts, rioManagers,
    svWorkers, svSessions, svOwner, svMaxPending, svMaxStarts, svFaults, svMaxFatal,
    svStopAgain,
    feWorkers, feControllers, feHandlers, feNone, feInstalls,
    tkTimers, tkOneShot, tkInterval, tkMaxLag, tkMaxStarts, tkMaxRegistrations,
    tkReregister, tkEarlyRegister,
    lgUsers, lgMaxRounds, lgMaxLogs, lgOverlap, lgStopTwice, lgLateLogs

VARIABLES
    capacity, head, tail, count, buffer, life, lives, pqPc, packet, made, madeIn, out, freed,
    bqIsRunning, listening, place, acceptor, clientQueue, lockOwner, bqWorker,
    stopRequested, bqStopper,
    shState, reservedFor, reservedAt, free, shPc, shClient, shSession, answer, info,
    arriving, shClock, shHeartbeat, shStop,
    managers, isInitialized, rioCompletionQueues, openQueues, registeredBuffers, addressId,
    rioPhase, slot, rioHeld, registered, rioRQ, rioInFlight, sending,
    svPc, svStarts, failed, core, manager, svHandles, stopEvents, schedulers, ticker,
    logger, broker, isServerStopped, thread, svSession, outstanding, shut, pending,
    claims, releaseList, releaseEvent, recvEvent, draining, svHeap, beating, fatals,
    fatalError, fatalErrorHandler, notifying, errorToNotify, reported, installs, feCalls,
    tkIsRunning, lag, wait, timerEvents, unregisterTargetList, tkPc, copied, fireTargets,
    tkStopper, tkStarts, registrations, registering, wanted, since, first, lateFires,
    currentConnectedClientCount, lgHandles, signalled, loggerThread, lgPc, rounds, spawned,
    lgWorker, waitsOn, copyLogWaitingQueue, logWaitingQueue, written, logs, isAlive

PQ == INSTANCE PendingQueue WITH
    Senders <- pqSenders, Capacity <- pqCapacity, MaxPackets <- pqMaxPackets,
    MaxLives <- pqMaxLives, Late <- pqLate, pc <- pqPc

BQ == INSTANCE BrokerQueue WITH
    Clients <- bqClients, BROKER_THREAD_POOL_SIZE <- bqThreads, NONE <- bqNone,
    isRunning <- bqIsRunning, worker <- bqWorker, stopper <- bqStopper

SH == INSTANCE SessionHandover WITH
    Slots <- shSlots, Workers <- shWorkers, Clients <- shClients, Timeout <- shTimeout,
    MaxTime <- shMaxTime, Width <- shWidth, Faults <- shFaults, state <- shState,
    pc <- shPc, client <- shClient, session <- shSession, clock <- shClock,
    heartbeat <- shHeartbeat, stop <- shStop

RIO == INSTANCE SessionRIO WITH
    NumOfSockets <- rioSockets, NumOfWorkers <- rioWorkers,
    RECV_OUTSTANDING_COUNT <- rioReceives, Contexts <- rioContexts, Managers <- rioManagers,
    phase <- rioPhase, held <- rioHeld, inFlight <- rioInFlight

SV == INSTANCE ServerLifecycle WITH
    Workers <- svWorkers, Sessions <- svSessions, Owner <- svOwner,
    MaxPending <- svMaxPending, Starts <- svMaxStarts, Faults <- svFaults,
    MaxFatal <- svMaxFatal, StopAgain <- svStopAgain,
    pc <- svPc, starts <- svStarts, handles <- svHandles, session <- svSession,
    heap <- svHeap

FE == INSTANCE FatalError WITH
    Workers <- feWorkers, Controllers <- feControllers, Handlers <- feHandlers,
    None <- feNone, Installs <- feInstalls, calls <- feCalls

TK == INSTANCE Ticker WITH
    Timers <- tkTimers, OneShot <- tkOneShot, Interval <- tkInterval, MaxLag <- tkMaxLag,
    Starts <- tkMaxStarts, Registrations <- tkMaxRegistrations,
    Reregister <- tkReregister, EarlyRegister <- tkEarlyRegister,
    isRunning <- tkIsRunning, pc <- tkPc, stopper <- tkStopper, starts <- tkStarts

LG == INSTANCE Logger WITH
    Users <- lgUsers, Rounds <- lgMaxRounds, MaxLogs <- lgMaxLogs, Overlap <- lgOverlap,
    StopTwice <- lgStopTwice, LateLogs <- lgLateLogs,
    handles <- lgHandles, pc <- lgPc, worker <- lgWorker
================================================================================
