---------------------------- MODULE ServerLifecycle -----------------------------
(***************************************************************************)
(* StartServer and StopServer of MultiSocketRUDPCore, with the threads they *)
(* start and join, the handles those threads wait on, and the sessions that *)
(* must drain in between.  A session is kept to what the drain needs: its   *)
(* state, the receive that is outstanding and the datagrams its receive     *)
(* logic worker has not handled; SessionLifecycle has the detail.           *)
(***************************************************************************)
EXTENDS Naturals, FiniteSets

CONSTANTS
    Workers,        \* numOfWorkerThread threads of each kind
    Sessions,
    Owner,          \* the worker of a session
    MaxPending,     \* bound: datagrams of a session that wait for its logic worker
    Starts,         \* bound: how often StartServer is called
    Faults,         \* the steps of StartServer that may fail
    MaxFatal,       \* bound: workers that end with a fatal error
    StopAgain       \* whether the application calls StopServer after a failed start

ServerAssumption ==
    /\ Owner \in [Sessions -> Workers]
    /\ {MaxPending, Starts} \subseteq Nat \ {0} /\ MaxFatal \in Nat
    /\ StopAgain \in BOOLEAN

VARIABLES
    pc,                 \* the step of StartServer or StopServer the application is in
    starts, failed,     \* calls of StartServer; whether the last one failed
    core,               \* whether the function delegate holds this core
    manager,            \* the session manager: "none", "initialized", "cleared"
    handles,            \* whether the worker events are open
    stopEvents,         \* whether the stop events are set
    schedulers,         \* the workers that have a retransmission scheduler
    ticker, logger,     \* whether their threads run
    broker,             \* "none", "run", or "deaf": a worker of it has missed the stop
    isServerStopped,
    thread,             \* "none", "run", "exit"
    session,            \* "unused", "reserved", "connected", "releasing"
    outstanding,        \* the sessions with a receive in the kernel
    shut,               \* the sessions whose socket the release thread has closed
    pending,            \* pendingRecvLogic
    claims,             \* the sessions disconnected and not listed yet
    releaseList, releaseEvent,
    recvEvent, draining,        \* per receive logic worker
    heap,               \* the workers whose scheduler holds a packet
    beating,            \* the session the heartbeat thread has found connected
    fatals

control == <<pc, starts, failed, core, manager, isServerStopped>>
parts == <<handles, stopEvents, schedulers, ticker, logger, broker>>
release == <<claims, releaseList, releaseEvent>>
logic == <<recvEvent, draining>>
drain == <<session, outstanding, shut, pending>>
vars == <<control, parts, thread, drain, release, logic, heap, beating, fatals>>

Threads ==
    {<<"release">>, <<"heartbeat">>} \cup ({"io", "recv", "retransmission"} \X Workers)
Runs(t) == thread[t] = "run"
StopRequested == pc = "join"

Init ==
    /\ pc = "off" /\ starts = 0 /\ failed = FALSE /\ core = FALSE /\ manager = "none"
    /\ isServerStopped = FALSE
    /\ handles = FALSE /\ stopEvents = FALSE /\ schedulers = {}
    /\ ticker = FALSE /\ logger = FALSE /\ broker = "none"
    /\ thread = [t \in Threads |-> "none"]
    /\ session = [s \in Sessions |-> "unused"]
    /\ outstanding = {} /\ shut = {} /\ pending = [s \in Sessions |-> 0]
    /\ claims = {} /\ releaseList = {} /\ releaseEvent = FALSE
    /\ recvEvent = [w \in Workers |-> FALSE] /\ draining = {}
    /\ heap = {} /\ beating = {} /\ fatals = 0

-------------------------------------------------------------------------------
(* StartServer *)

Fails(step) == step \in Faults
Step(from, to) == pc = from /\ pc' = to
World == <<thread, drain, release, logic, heap, beating, fatals>>

\* An option file that cannot be read stops the logger and nothing else.
ReadOptionFile ==
    /\ pc = "off" /\ starts < Starts
    /\ starts' = starts + 1
    /\ \/ pc' = "InitNetwork" /\ logger' = TRUE /\ core' = TRUE /\ failed' = FALSE
       \/ /\ Fails("ReadOptionFile")
          /\ failed' = TRUE
          /\ UNCHANGED <<pc, logger, core>>
    /\ UNCHANGED <<manager, isServerStopped, World>>
    /\ UNCHANGED <<handles, stopEvents, schedulers, ticker, broker>>

StartFails(step) ==
    /\ Fails(step) /\ pc' = "broker" /\ failed' = TRUE

InitNetwork ==
    /\ pc = "InitNetwork"
    /\ \/ pc' = "InitSessions" /\ UNCHANGED failed
       \/ StartFails("InitNetwork")
    /\ UNCHANGED <<starts, core, manager, isServerStopped, parts, World>>

InitSessions ==
    /\ pc = "InitSessions"
    /\ \/ pc' = "InitRIO" /\ manager' = "initialized" /\ UNCHANGED failed
       \/ StartFails("InitSessions") /\ manager' = "none"
    /\ UNCHANGED <<starts, core, isServerStopped, parts, World>>

InitRIO ==
    /\ pc = "InitRIO"
    /\ \/ pc' = "InitializeWorkerResources" /\ UNCHANGED failed
       \/ StartFails("InitRIO")
    /\ UNCHANGED <<starts, core, manager, isServerStopped, parts, World>>

\* The ticker is started first.  A handle that cannot be created leaves the
\* schedulers made before it.
InitializeWorkerResources ==
    /\ pc = "InitializeWorkerResources"
    /\ handles' = TRUE /\ stopEvents' = FALSE /\ ticker' = TRUE
    /\ \/ pc' = "StartWorkerThreads" /\ schedulers' = Workers /\ UNCHANGED failed
       \/ /\ StartFails("InitializeWorkerResources")
          /\ \E made \in SUBSET Workers : made # Workers /\ schedulers' = made
    /\ UNCHANGED <<starts, core, manager, isServerStopped, logger, broker, World>>

StartWorkerThreads ==
    /\ Step("StartWorkerThreads", "StartSessionBroker")
    /\ thread' = [t \in Threads |-> "run"]
    /\ UNCHANGED <<starts, failed, core, manager, isServerStopped, parts>>
    /\ UNCHANGED <<drain, release, logic, heap, beating, fatals>>

StartSessionBroker ==
    /\ pc = "StartSessionBroker"
    /\ \/ pc' = "on" /\ broker' = "run" /\ UNCHANGED failed
       \/ StartFails("StartSessionBroker") /\ UNCHANGED broker
    /\ UNCHANGED <<starts, core, manager, isServerStopped, World>>
    /\ UNCHANGED <<handles, stopEvents, schedulers, ticker, logger>>

StartServer ==
    \/ ReadOptionFile \/ InitNetwork \/ InitSessions \/ InitRIO
    \/ InitializeWorkerResources \/ StartWorkerThreads \/ StartSessionBroker

-------------------------------------------------------------------------------
(* Sessions, and the threads that drain them *)

Lists(set) ==
    /\ releaseList' = releaseList \cup set
    /\ releaseEvent' = (releaseEvent \/ set # {})

\* The broker issues a session with its first receive posted.
Reserve(s) ==
    /\ broker # "none" /\ session[s] = "unused"
    /\ session' = [session EXCEPT ![s] = "reserved"]
    /\ outstanding' = outstanding \cup {s}
    /\ UNCHANGED <<control, parts, thread, shut, pending, release, logic, heap, beating, fatals>>

\* DoDisconnect or AbortReservedSession, by the content, the client or a timeout: the
\* state first, and then the list.
DoDisconnect(s) ==
    /\ session[s] \in {"reserved", "connected"}
    /\ session' = [session EXCEPT ![s] = "releasing"] /\ claims' = claims \cup {s}
    /\ UNCHANGED <<control, parts, thread, outstanding, shut, pending, releaseList, releaseEvent>>
    /\ UNCHANGED <<logic, heap, beating, fatals>>

PushToDisconnectTargetSession(s) ==
    /\ s \in claims /\ claims' = claims \ {s} /\ Lists({s})
    /\ UNCHANGED <<control, parts, thread, drain, logic, heap, beating, fatals>>

\* The receive completes with a datagram, and is posted again unless the session
\* is being released; once the socket is closed it completes with an error.
\* SetEvent may fail: the datagram stays in the queue.
IOCompleted(s) ==
    /\ Runs(<<"io", Owner[s]>>) /\ s \in outstanding
    /\ \/ /\ s \notin shut /\ pending[s] < MaxPending
          /\ pending' = [pending EXCEPT ![s] = @ + 1]
          /\ recvEvent' = [recvEvent EXCEPT ![Owner[s]] = TRUE]
          /\ outstanding' = IF session[s] = "releasing" THEN outstanding \ {s} ELSE outstanding
       \/ /\ s \in shut /\ outstanding' = outstanding \ {s}
          /\ UNCHANGED <<pending, recvEvent>>
    /\ UNCHANGED <<control, parts, thread, session, shut, release, draining, heap, beating>>
    /\ UNCHANGED fatals

RecvLogicWakes(w) ==
    /\ Runs(<<"recv", w>>) /\ w \notin draining /\ recvEvent[w]
    /\ recvEvent' = [recvEvent EXCEPT ![w] = FALSE]
    /\ draining' = draining \cup {w}
    /\ UNCHANGED <<control, parts, thread, drain, release, heap, beating, fatals>>

\* A datagram of a reserved session may connect it; one of a connected session
\* may make the content send.
OnRecvPacket(s) ==
    /\ Owner[s] \in draining /\ pending[s] > 0
    /\ pending' = [pending EXCEPT ![s] = @ - 1]
    /\ \/ UNCHANGED <<session, heap>>
       \/ /\ session[s] = "reserved"
          /\ session' = [session EXCEPT ![s] = "connected"] /\ UNCHANGED heap
       \/ /\ session[s] = "connected"
          /\ heap' = heap \cup {Owner[s]} /\ UNCHANGED session
    /\ UNCHANGED <<control, parts, thread, outstanding, shut, release, logic, beating, fatals>>

QueueEmpty(w) == \A s \in Sessions : Owner[s] = w => pending[s] = 0

\* After the queue has been emptied the worker waits again, or ends when asked to.
RecvLogicDrained(w) ==
    /\ w \in draining /\ QueueEmpty(w)
    /\ draining' = draining \ {w}
    /\ thread' = [thread EXCEPT ![<<"recv", w>>] = IF StopRequested THEN "exit" ELSE @]
    /\ UNCHANGED <<control, parts, drain, release, recvEvent, heap, beating, fatals>>

\* The stop event ends the worker after it has looked at the queue once more.
RecvLogicStops(w) ==
    /\ Runs(<<"recv", w>>) /\ w \notin draining /\ stopEvents /\ ~recvEvent[w]
    /\ thread' = [thread EXCEPT ![<<"recv", w>>] = "exit"]
    /\ pending' = [s \in Sessions |-> IF Owner[s] = w THEN 0 ELSE pending[s]]
    /\ UNCHANGED <<control, parts, session, outstanding, shut, release, logic, heap, beating>>
    /\ UNCHANGED fatals

\* TryFinalizeSessionRelease for the sessions listed: the socket is closed once no
\* datagram is pending, and the session returns to the pool once it is drained.  Disconnect
\* repeats the drain test; if it fails this time (SessionLifecycle shows when) the session
\* is dropped: it stays as it is, and in no list.
ReleaseWakes ==
    LET idle == {s \in releaseList : pending[s] = 0}
        drained == idle \ outstanding
    IN  /\ Runs(<<"release">>) /\ releaseEvent
        /\ \E released \in SUBSET drained :
            /\ session' = [s \in Sessions |-> IF s \in released THEN "unused" ELSE session[s]]
            /\ shut' = (shut \cup idle) \ released
        /\ releaseList' = releaseList \ drained
        /\ releaseEvent' = (releaseList' # {})
        /\ thread' = [thread EXCEPT ![<<"release">>] = IF StopRequested THEN "exit" ELSE @]
        /\ UNCHANGED <<control, parts, outstanding, pending, claims, logic, heap, beating, fatals>>

ReleaseStops ==
    /\ Runs(<<"release">>) /\ stopEvents /\ ~releaseEvent
    /\ thread' = [thread EXCEPT ![<<"release">>] = "exit"]
    /\ UNCHANGED <<control, parts, drain, release, logic, heap, beating, fatals>>

HeartbeatFinds(s) ==
    /\ Runs(<<"heartbeat">>) /\ beating = {} /\ session[s] = "connected"
    /\ beating' = {s}
    /\ UNCHANGED <<control, parts, thread, drain, release, logic, heap, fatals>>

\* DoSend returns at once for a session that is being released.
HeartbeatSends(s) ==
    /\ beating = {s} /\ beating' = {}
    /\ heap' = IF session[s] = "releasing" THEN heap ELSE heap \cup {Owner[s]}
    /\ UNCHANGED <<control, parts, thread, drain, release, logic, fatals>>

HeartbeatStops ==
    /\ Runs(<<"heartbeat">>) /\ beating = {} /\ StopRequested
    /\ thread' = [thread EXCEPT ![<<"heartbeat">>] = "exit"]
    /\ UNCHANGED <<control, parts, drain, release, logic, heap, beating, fatals>>

IOWorkerStops(w) ==
    /\ Runs(<<"io", w>>) /\ StopRequested
    /\ thread' = [thread EXCEPT ![<<"io", w>>] = "exit"]
    /\ UNCHANGED <<control, parts, drain, release, logic, heap, beating, fatals>>

\* The stop event ends the thread after it has freed what its heap holds.
RetransmissionStops(w) ==
    /\ Runs(<<"retransmission", w>>) /\ stopEvents
    /\ thread' = [thread EXCEPT ![<<"retransmission", w>>] = "exit"]
    /\ heap' = heap \ {w}
    /\ UNCHANGED <<control, parts, drain, release, logic, beating, fatals>>

\* A packet that was acknowledged is freed when its time comes.
RetransmissionPops(w) ==
    /\ Runs(<<"retransmission", w>>) /\ w \in heap
    /\ heap' = heap \ {w}
    /\ UNCHANGED <<control, parts, thread, drain, release, logic, beating, fatals>>

\* A completion queue that is corrupt, or a wait that fails, ends the worker.
FatalErrorIn(kind, w) ==
    /\ Runs(<<kind, w>>) /\ fatals < MaxFatal
    /\ kind = "recv" => w \notin draining
    /\ fatals' = fatals + 1
    /\ thread' = [thread EXCEPT ![<<kind, w>>] = "exit"]
    /\ UNCHANGED <<control, parts, drain, release, logic, heap, beating>>

-------------------------------------------------------------------------------
(* StopServer *)

\* Called by the application, and after a start that failed, by StartServer itself
\* as well.
CallStopServer ==
    /\ \/ pc = "on"
       \/ pc = "off" /\ failed /\ StopAgain
    /\ pc' = "broker" /\ failed' = FALSE
    /\ UNCHANGED <<starts, core, manager, isServerStopped, parts, World>>

\* The threads of the broker are asked to stop; a worker on its way to sleep may miss the
\* signal (BrokerQueue shows how), and is not woken again.
StopBroker ==
    /\ Step("broker", "joinBroker")
    /\ \/ UNCHANGED broker
       \/ broker = "run" /\ broker' = "deaf"
    /\ UNCHANGED <<starts, failed, core, manager, isServerStopped, World>>
    /\ UNCHANGED <<handles, stopEvents, schedulers, ticker, logger>>

\* Until they have all been joined those at work go on reserving sessions.
JoinBroker ==
    /\ Step("joinBroker", "close") /\ broker # "deaf" /\ broker' = "none"
    /\ UNCHANGED <<starts, failed, core, manager, isServerStopped, World>>
    /\ UNCHANGED <<handles, stopEvents, schedulers, ticker, logger>>

Open == {s \in Sessions : session[s] \in {"reserved", "connected"}}

CloseAllSessions ==
    /\ Step("close", "drain")
    /\ session' = [s \in Sessions |-> IF s \in Open THEN "releasing" ELSE session[s]]
    /\ Lists(Open)
    /\ UNCHANGED <<starts, failed, core, manager, isServerStopped, parts, thread>>
    /\ UNCHANGED <<claims, outstanding, shut, pending, logic, heap, beating, fatals>>

WaitForAllSessionsReleased ==
    /\ Step("drain", "signal")
    /\ manager = "initialized" => \A s \in Sessions : session[s] = "unused"
    /\ UNCHANGED <<starts, failed, core, manager, isServerStopped, parts, World>>

SignalWorkerStopEvents ==
    /\ Step("signal", "join") /\ stopEvents' = handles
    /\ UNCHANGED <<starts, failed, core, manager, isServerStopped, World>>
    /\ UNCHANGED <<handles, schedulers, ticker, logger, broker>>

\* Mutant: the threads are asked to stop and not waited for.
StopAllThreads_Detached ==
    /\ Step("join", "handles")
    /\ UNCHANGED <<starts, failed, core, manager, isServerStopped, parts, World>>

\* Every thread is asked to stop, and then joined.
StopAllThreads ==
    /\ Step("join", "handles")
    /\ \A t \in Threads : ~Runs(t)
    /\ thread' = [t \in Threads |-> "none"]
    /\ UNCHANGED <<starts, failed, core, manager, isServerStopped, parts>>
    /\ UNCHANGED <<drain, release, logic, heap, beating, fatals>>

CloseHandles ==
    /\ Step("handles", "ticker")
    /\ handles' = FALSE /\ stopEvents' = FALSE /\ schedulers' = {}
    /\ UNCHANGED <<starts, failed, core, manager, isServerStopped, ticker, logger, broker, World>>

StopTicker ==
    /\ Step("ticker", "clear") /\ ticker' = FALSE
    /\ UNCHANGED <<starts, failed, core, manager, isServerStopped, World>>
    /\ UNCHANGED <<handles, stopEvents, schedulers, logger, broker>>

ClearAllSession ==
    /\ Step("clear", "delegate")
    /\ manager' = IF manager = "none" THEN "none" ELSE "cleared"
    /\ releaseList' = {}
    /\ UNCHANGED <<starts, failed, core, isServerStopped, parts, thread, drain>>
    /\ UNCHANGED <<claims, releaseEvent, logic, heap, beating, fatals>>

\* FunctionDelegate.Clear, StopLoggerThread and WSACleanup.
Cleanup ==
    /\ Step("delegate", "off")
    /\ core' = FALSE /\ logger' = FALSE /\ isServerStopped' = TRUE
    /\ UNCHANGED <<starts, failed, manager, World>>
    /\ UNCHANGED <<handles, stopEvents, schedulers, ticker, broker>>

StopServer ==
    \/ CallStopServer \/ StopBroker \/ JoinBroker \/ CloseAllSessions
    \/ WaitForAllSessionsReleased \/ SignalWorkerStopEvents \/ StopAllThreads \/ CloseHandles \/ StopTicker
    \/ ClearAllSession \/ Cleanup

WorkerStep ==
    \/ \E s \in Sessions :
        \/ PushToDisconnectTargetSession(s) \/ IOCompleted(s) \/ OnRecvPacket(s)
        \/ HeartbeatFinds(s) \/ HeartbeatSends(s)
    \/ \E w \in Workers :
        \/ RecvLogicWakes(w) \/ RecvLogicDrained(w) \/ RecvLogicStops(w)
        \/ IOWorkerStops(w) \/ RetransmissionPops(w) \/ RetransmissionStops(w)
    \/ ReleaseWakes \/ ReleaseStops \/ HeartbeatStops

Next ==
    \/ StartServer \/ StopServer \/ WorkerStep
    \/ \E s \in Sessions : Reserve(s) \/ DoDisconnect(s)
    \/ \E kind \in {"io", "recv"}, w \in Workers : FatalErrorIn(kind, w)

\* Every thread that runs is scheduled, a closed socket completes its receives, and
\* a call of StopServer goes on.
Fairness ==
    /\ \A s \in Sessions :
        /\ WF_vars(PushToDisconnectTargetSession(s)) /\ WF_vars(s \in shut /\ IOCompleted(s))
        /\ WF_vars(OnRecvPacket(s)) /\ WF_vars(HeartbeatSends(s))
    /\ \A w \in Workers :
        /\ WF_vars(RecvLogicWakes(w)) /\ WF_vars(RecvLogicDrained(w)) /\ WF_vars(RecvLogicStops(w))
        /\ WF_vars(IOWorkerStops(w)) /\ WF_vars(RetransmissionStops(w))
    /\ WF_vars(ReleaseWakes) /\ WF_vars(ReleaseStops) /\ WF_vars(HeartbeatStops)
    /\ WF_vars(StopServer /\ ~CallStopServer)

Spec == Init /\ [][Next]_vars /\ Fairness

-------------------------------------------------------------------------------

TypeOK ==
    /\ starts \in 0..Starts /\ {failed, core, isServerStopped} \subseteq BOOLEAN
    /\ manager \in {"none", "initialized", "cleared"}
    /\ {handles, stopEvents, ticker, logger} \subseteq BOOLEAN
    /\ broker \in {"none", "run", "deaf"}
    /\ schedulers \subseteq Workers /\ heap \subseteq Workers
    /\ thread \in [Threads -> {"none", "run", "exit"}]
    /\ session \in [Sessions -> {"unused", "reserved", "connected", "releasing"}]
    /\ outstanding \subseteq Sessions /\ shut \subseteq Sessions
    /\ pending \in [Sessions -> 0..MaxPending]
    /\ claims \subseteq Sessions /\ releaseList \subseteq Sessions /\ draining \subseteq Workers
    /\ recvEvent \in [Workers -> BOOLEAN] /\ beating \subseteq Sessions
    /\ fatals \in 0..MaxFatal

\* No thread outlives what it waits on, pushes to or looks at: the worker events,
\* the schedulers, the sessions, the ticker's clock and the delegate.
ThreadsHaveParts ==
    (\E t \in Threads : Runs(t)) =>
        handles /\ schedulers = Workers /\ manager = "initialized" /\ ticker /\ core /\ logger

\* No session is deleted that the kernel, a queue, the release list or the thread that
\* disconnected it still refers to.
DeletedWhenDrained ==
    manager # "initialized" =>
        /\ outstanding = {} /\ shut = {} /\ claims = {} /\ releaseList = {}
        /\ \A s \in Sessions : pending[s] = 0 /\ session[s] = "unused"

\* A server that is off, because it was stopped or because a step of its start
\* failed, has no thread, handle or session of that start left.
OffLeavesNothing ==
    pc = "off" =>
        /\ \A t \in Threads : thread[t] = "none"
        /\ ~handles /\ schedulers = {} /\ ~ticker /\ ~logger /\ broker = "none" /\ ~core
        /\ manager # "initialized"

\* StopServer returns, unless it waits for what is gone: for a worker of the broker that
\* missed the stop; for a session that its second drain test has dropped; or for one whose
\* I/O or receive logic worker has ended with a fatal error.
Dropped(s) == session[s] = "releasing" /\ s \notin claims \cup releaseList
Abandoned(s) ==
    session[s] = "releasing" /\ \E kind \in {"io", "recv"} : thread[<<kind, Owner[s]>>] = "exit"
WaitsForever ==
    \/ pc = "joinBroker" /\ broker = "deaf"
    \/ pc = "drain" /\ \E s \in Sessions : Dropped(s) \/ Abandoned(s)
NotStopping ==
    \/ WaitsForever
    \/ pc \notin {"broker", "joinBroker", "close", "drain", "signal", "join", "handles", "ticker",
                  "clear", "delegate"}
StopReturns == []<>NotStopping

\* MultiSocketRUDPCoreFunctionDelegate.h asserts that the core it clears is the one
\* it holds.
ClearsOwnCore == pc = "delegate" => core

\* IsServerStopped is documented to say whether the server is completely stopped.
StoppedMeansOff == isServerStopped => pc # "on"

\* Every packet that was scheduled is freed: none is in a heap that is cleared.
HeapsFreed == heap \subseteq schedulers

===============================================================================
