-------------------------------- MODULE Logger ----------------------------------
(***************************************************************************)
(* The logger that a server and a client of one process share: a counter   *)
(* of its users, a queue of logs, and a thread that is started for the     *)
(* first user and stopped for the last.  Every start makes a new pair of   *)
(* events in loggerEventHandles, which the thread reads each time it waits.*)
(***************************************************************************)
EXTENDS Integers, Sequences, FiniteSets, SequencesExt

CONSTANTS
    Users,
    Rounds,     \* bound: how often a user runs the logger
    MaxLogs,    \* bound: how many logs are written
    Overlap,    \* whether users run and stop the logger at the same time
    StopTwice,  \* whether a user may stop the logger it has stopped
    LateLogs    \* whether a thread may log while no user runs the logger

LoggerAssumption ==
    /\ IsFiniteSet(Users)
    /\ {Rounds, MaxLogs} \subseteq Nat /\ {Overlap, StopTwice, LateLogs} \subseteq BOOLEAN
    /\ ~ (Overlap /\ StopTwice)   \* one user at a time creates events

VARIABLES
    currentConnectedClientCount,
    handles,        \* loggerEventHandles: the log event and the stop event, 0 for none
    signalled,      \* the events that are set, each <<which, start>>
    loggerThread,   \* the worker the jthread holds, 0 for none
    pc, rounds, spawned,    \* of each user; spawned is the worker it has started
    worker, waitsOn, copyLogWaitingQueue,   \* of each worker
    logWaitingQueue, written, logs,
    isAlive

eventVars == <<handles, signalled, loggerThread>>
userVars == <<currentConnectedClientCount, pc, rounds, spawned>>
threadVars == <<worker, waitsOn, copyLogWaitingQueue>>
queueVars == <<logWaitingQueue, written, logs, isAlive>>
vars == <<eventVars, userVars, threadVars, queueVars>>

Workers == 1 .. Rounds * Cardinality(Users)
Started == Cardinality({w \in Workers : worker[w] # "none"})
Running(w) == w # 0 /\ worker[w] \notin {"none", "ended"}

Init ==
    /\ currentConnectedClientCount = 0 /\ handles = <<0, 0>> /\ signalled = {}
    /\ loggerThread = 0
    /\ pc = [u \in Users |-> "out"] /\ rounds = [u \in Users |-> 0]
    /\ spawned = [u \in Users |-> 0]
    /\ worker = [w \in Workers |-> "none"] /\ waitsOn = [w \in Workers |-> <<0, 0>>]
    /\ copyLogWaitingQueue = [w \in Workers |-> << >>]
    /\ logWaitingQueue = << >> /\ written = << >> /\ logs = 0 /\ isAlive = TRUE

SetEvent(which) ==
    signalled' = IF handles[which] = 0 THEN signalled ELSE signalled \union {<<which, handles[which]>>}

GoTo(u, step) == pc' = [pc EXCEPT ![u] = step]
Alone(u) == Overlap \/ \A v \in Users \ {u} : pc[v] \in {"out", "in"}

-----------------------------------------------------------------------------
(* RunLoggerThread.                                                        *)

Run(u) ==
    /\ pc[u] = "out" /\ rounds[u] < Rounds /\ Alone(u) /\ isAlive
    /\ rounds' = [rounds EXCEPT ![u] = @ + 1]
    /\ currentConnectedClientCount' = currentConnectedClientCount + 1
    /\ GoTo(u, IF currentConnectedClientCount > 0 THEN "in" ELSE "createLog")
    /\ UNCHANGED <<spawned, eventVars, threadVars, queueVars>>

\* CreateEvent, an event after the other.
CreateEvent(u) ==
    /\ \/ pc[u] = "createLog" /\ GoTo(u, "createStop")
          /\ handles' = [handles EXCEPT ![1] = Started + 1]
       \/ pc[u] = "createStop" /\ GoTo(u, "spawn")
          /\ handles' = [handles EXCEPT ![2] = Started + 1]
    /\ UNCHANGED <<signalled, loggerThread, currentConnectedClientCount, rounds, spawned,
                   threadVars, queueVars>>

\* The new thread runs before the assignment has joined the one before.
Spawn(u) ==
    /\ pc[u] = "spawn" /\ GoTo(u, "assign")
    /\ spawned' = [spawned EXCEPT ![u] = Started + 1]
    /\ worker' = [worker EXCEPT ![Started + 1] = "top"]
    /\ UNCHANGED <<eventVars, currentConnectedClientCount, rounds, waitsOn, copyLogWaitingQueue,
                   queueVars>>

Assign(u) ==
    /\ pc[u] = "assign" /\ ~ Running(loggerThread)
    /\ GoTo(u, "in") /\ loggerThread' = spawned[u]
    /\ UNCHANGED <<handles, signalled, currentConnectedClientCount, rounds, spawned, threadVars,
                   queueVars>>

-----------------------------------------------------------------------------
(* StopLoggerThread.                                                       *)

Stop(u) ==
    /\ pc[u] = "in" \/ (StopTwice /\ pc[u] = "out" /\ rounds[u] > 0)
    /\ Alone(u) /\ currentConnectedClientCount > -1
    /\ currentConnectedClientCount' = currentConnectedClientCount - 1
    /\ GoTo(u, IF currentConnectedClientCount # 1 THEN "out" ELSE "signal")
    /\ UNCHANGED <<rounds, spawned, eventVars, threadVars, queueVars>>

Signal(u) ==
    /\ pc[u] = "signal" /\ GoTo(u, "join") /\ SetEvent(2)
    /\ UNCHANGED <<handles, loggerThread, currentConnectedClientCount, rounds, spawned, threadVars,
                   queueVars>>

Join(u) ==
    /\ pc[u] = "join" /\ ~ Running(loggerThread)
    /\ GoTo(u, "out") /\ loggerThread' = 0
    /\ UNCHANGED <<handles, signalled, currentConnectedClientCount, rounds, spawned, threadVars,
                   queueVars>>

-----------------------------------------------------------------------------
(* WriteLog, and the worker.                                               *)

WriteLog ==
    /\ isAlive /\ logs < MaxLogs
    /\ LateLogs \/ \E u \in Users : pc[u] = "in"
    /\ logs' = logs + 1 /\ logWaitingQueue' = Append(logWaitingQueue, logs + 1) /\ SetEvent(1)
    /\ UNCHANGED <<written, isAlive, handles, loggerThread, userVars, threadVars>>

Wait(w) ==
    /\ worker[w] = "top" /\ worker' = [worker EXCEPT ![w] = "wait"]
    /\ waitsOn' = [waitsOn EXCEPT ![w] = handles]
    /\ UNCHANGED <<copyLogWaitingQueue, eventVars, userVars, queueVars>>

\* WaitForMultipleObjects: the log event, which resets itself, before the stop event.
Wake(w) ==
    /\ worker[w] = "wait"
    /\ LET log == <<1, waitsOn[w][1]>>  stop == <<2, waitsOn[w][2]>> IN
       \/ /\ log \in signalled /\ signalled' = signalled \ {log}
          /\ worker' = [worker EXCEPT ![w] = "swapLog"]
       \/ /\ log \notin signalled /\ stop \in signalled /\ UNCHANGED signalled
          /\ worker' = [worker EXCEPT ![w] = "swapStop"]
    /\ UNCHANGED <<handles, loggerThread, waitsOn, copyLogWaitingQueue, userVars, queueVars>>

\* Before the ten seconds of a stop.
Swap(w) ==
    /\ \/ worker[w] = "swapLog" /\ worker' = [worker EXCEPT ![w] = "writeLog"]
       \/ worker[w] = "swapStop" /\ worker' = [worker EXCEPT ![w] = "writeStop"]
    /\ copyLogWaitingQueue' = [copyLogWaitingQueue EXCEPT ![w] = logWaitingQueue]
    /\ logWaitingQueue' = << >>
    /\ UNCHANGED <<waitsOn, written, logs, isAlive, eventVars, userVars>>

\* Mutant: what was taken when the stop event came is not written.
WriteLogImpl_Dropped(w) ==
    /\ \/ /\ worker[w] = "writeLog" /\ worker' = [worker EXCEPT ![w] = "top"]
          /\ written' = written \o copyLogWaitingQueue[w]
       \/ worker[w] = "writeStop" /\ worker' = [worker EXCEPT ![w] = "ended"] /\ UNCHANGED written
    /\ copyLogWaitingQueue' = [copyLogWaitingQueue EXCEPT ![w] = << >>]
    /\ UNCHANGED <<waitsOn, logWaitingQueue, logs, isAlive, eventVars, userVars>>

WriteLogImpl(w) ==
    /\ \/ worker[w] = "writeLog" /\ worker' = [worker EXCEPT ![w] = "top"]
       \/ worker[w] = "writeStop" /\ worker' = [worker EXCEPT ![w] = "ended"]
    /\ written' = written \o copyLogWaitingQueue[w]
    /\ copyLogWaitingQueue' = [copyLogWaitingQueue EXCEPT ![w] = << >>]
    /\ UNCHANGED <<waitsOn, logWaitingQueue, logs, isAlive, eventVars, userVars>>

\* The destructor, at the end of the process.
Destroy ==
    /\ isAlive /\ \A u \in Users : pc[u] = "out"
    /\ isAlive' = FALSE /\ written' = written \o logWaitingQueue /\ logWaitingQueue' = << >>
    /\ UNCHANGED <<logs, eventVars, userVars, threadVars>>

-----------------------------------------------------------------------------
User(u) == CreateEvent(u) \/ Spawn(u) \/ Assign(u) \/ Signal(u) \/ Join(u)
Worker(w) == Wait(w) \/ Wake(w) \/ Swap(w) \/ WriteLogImpl(w)

Next ==
    \/ WriteLog \/ Destroy
    \/ \E u \in Users : Run(u) \/ Stop(u) \/ User(u)
    \/ \E w \in Workers : Worker(w)

\* Every thread that can go on does.
Fairness ==
    /\ \A u \in Users : WF_vars(User(u))
    /\ \A w \in Workers : WF_vars(Worker(w))

Spec == Init /\ [][Next]_vars /\ Fairness

-----------------------------------------------------------------------------
TypeOK ==
    /\ currentConnectedClientCount \in -1 .. Cardinality(Users)
    /\ pc \in [Users -> {"out", "createLog", "createStop", "spawn", "assign", "in", "signal", "join"}]
    /\ worker \in [Workers ->
         {"none", "top", "wait", "swapLog", "swapStop", "writeLog", "writeStop", "ended"}]
    /\ loggerThread \in Workers \union {0} /\ Len(logWaitingQueue) <= MaxLogs
    /\ signalled \subseteq {1, 2} \X Workers /\ logs \in 0 .. MaxLogs

\* Every log is written once and in the order of the queue, whenever the thread is
\* started and stopped: what a stop leaves behind the next worker or the destructor takes.
EachOnce ==
    written \o FlattenSeq(copyLogWaitingQueue) \o logWaitingQueue = [i \in 1 .. logs |-> i]

\* When the last user has stopped the logger its thread has ended.
StopsForLast == (\A u \in Users : pc[u] = "out") => \A w \in Workers : ~ Running(w)

\* The process ends with every log in the file.
ExitWritesAll == ~ isAlive => Len(written) = logs

\* RunLoggerThread and StopLoggerThread return.
NoCall == \A u \in Users : pc[u] \in {"out", "in"}
CallsReturn == []<>NoCall

\* A log wakes the thread: it does not stay in the queue while the thread waits.
NoLogWaits == logWaitingQueue = << >> \/ loggerThread = 0
LogWakes == []<>NoLogWaits

=============================================================================
