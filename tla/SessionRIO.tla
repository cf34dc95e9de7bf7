------------------------------- MODULE SessionRIO -------------------------------
(***************************************************************************)
(* What the server registers with RIO: the completion queue of each worker,*)
(* the buffers and the request queue of each session, and the addresses of *)
(* the pooled send contexts.  Any call to RIO may fail; the state of the   *)
(* kernel is kept beside the identifiers the code holds.                   *)
(***************************************************************************)
EXTENDS Integers, FiniteSets

CONSTANTS
    NumOfSockets,   \* the sessions are 0 .. NumOfSockets - 1
    NumOfWorkers,
    RECV_OUTSTANDING_COUNT,
    Contexts,       \* the send contexts of the pool
    Managers        \* bound: how often a RIOManager is made

SessionRIOAssumption ==
    {NumOfSockets, NumOfWorkers, RECV_OUTSTANDING_COUNT, Managers} \subseteq Nat \ {0}

VARIABLES
    managers,           \* how many were made
    isInitialized, rioCompletionQueues,     \* of the current one; the queues are counted
    openQueues,         \* the queues the kernel has open
    registeredBuffers,  \* the send contexts whose address the manager has registered
    addressId,          \* the send contexts that hold an identifier
    phase,              \* per session
    slot,               \* the slot SessionRecvContext::Initialize is at
    held,               \* the buffers whose identifier the session holds
    registered,         \* kernel: how often each buffer is registered
    rioRQ,              \* the sessions with a request queue
    inFlight,           \* the slots with a receive in the kernel
    sending             \* the send contexts in the kernel

managerVars == <<managers, isInitialized, rioCompletionQueues, openQueues>>
addressVars == <<registeredBuffers, addressId>>
vars == <<managerVars, addressVars, phase, slot, held, registered, rioRQ, inFlight, sending>>

Sessions == 0 .. NumOfSockets - 1
Slots == 1 .. RECV_OUTSTANDING_COUNT
SlotBuffers(k) == {k} \X {"data", "client", "local"}
Send == <<0, "send">>
Buffers == (UNION {SlotBuffers(k) : k \in Slots}) \cup {Send}
ThreadId(s) == s % NumOfWorkers

Init ==
    /\ managers = 0 /\ isInitialized = FALSE /\ rioCompletionQueues = 0 /\ openQueues = 0
    /\ registeredBuffers = {} /\ addressId = {}
    /\ phase = [s \in Sessions |-> "unused"] /\ slot = [s \in Sessions |-> 1]
    /\ held = [s \in Sessions |-> {}]
    /\ registered = [s \in Sessions |-> [b \in Buffers |-> 0]]
    /\ rioRQ = {} /\ inFlight = [s \in Sessions |-> {}] /\ sending = [s \in Sessions |-> {}]

-------------------------------------------------------------------------------
(* RIOManager *)

MaxCompletionsPerSession == RECV_OUTSTANDING_COUNT + 1

QueueSize ==
    (NumOfSockets \div NumOfWorkers + (IF NumOfSockets % NumOfWorkers # 0 THEN 1 ELSE 0))
        * MaxCompletionsPerSession

SessionsAre(p) == \A s \in Sessions : phase[s] = p
SessionState == <<phase, slot, held, registered, rioRQ, inFlight, sending>>

\* InitRIO makes a new manager; the destructor of the one before shuts it down.
Initialize ==
    /\ managers < Managers /\ ~isInitialized
    /\ managers' = managers + 1
    /\ \E made \in 0 .. NumOfWorkers :
        /\ rioCompletionQueues' = made
        /\ openQueues' = openQueues + made
        /\ isInitialized' = (made = NumOfWorkers)
    /\ UNCHANGED <<addressVars, SessionState>>

\* A manager whose initialization failed returns at once.
Shutdown ==
    /\ managers > 0 /\ rioCompletionQueues > 0 /\ SessionsAre("unused")
    /\ IF isInitialized
       THEN openQueues' = openQueues - rioCompletionQueues /\ registeredBuffers' = {}
       ELSE UNCHANGED <<openQueues, registeredBuffers>>
    /\ rioCompletionQueues' = 0 /\ isInitialized' = FALSE
    /\ UNCHANGED <<managers, addressId, SessionState>>

-------------------------------------------------------------------------------
(* SessionRIOContext *)

Register(s, bufs) ==
    registered' = [registered EXCEPT ![s] = [b \in Buffers |-> @[b] + (IF b \in bufs THEN 1 ELSE 0)]]

\* RIODeregisterBuffer for the identifiers held among bufs, which are then invalid.
Deregistered(regs, bufs) == [b \in Buffers |-> regs[b] - (IF b \in bufs THEN 1 ELSE 0)]

RecvBuffers == Buffers \ {Send}

InitReserveSession(s) ==
    /\ isInitialized /\ phase[s] = "unused"
    /\ phase' = [phase EXCEPT ![s] = "slots"] /\ slot' = [slot EXCEPT ![s] = 1]
    /\ UNCHANGED <<managerVars, addressVars, held, registered, rioRQ, inFlight, sending>>

\* A reservation that failed is aborted: the release thread takes it from there.
Abort(s) == phase' = [phase EXCEPT ![s] = "releasing"]

\* A slot gets a new context and registers its three buffers; each may fail.
InitializeSlot(s) ==
    /\ phase[s] = "slots"
    /\ \E ok \in SUBSET SlotBuffers(slot[s]) :
        LET holds == (held[s] \ SlotBuffers(slot[s])) \cup ok
            regs == [b \in Buffers |-> registered[s][b] + (IF b \in ok THEN 1 ELSE 0)]
        IN  IF ok = SlotBuffers(slot[s])
            THEN /\ held' = [held EXCEPT ![s] = holds]
                 /\ registered' = [registered EXCEPT ![s] = regs]
                 /\ slot' = [slot EXCEPT ![s] = (@ % RECV_OUTSTANDING_COUNT) + 1]
                 /\ phase' = [phase EXCEPT ![s] =
                        IF slot[s] = RECV_OUTSTANDING_COUNT THEN "send" ELSE "slots"]
            ELSE /\ held' = [held EXCEPT ![s] = holds \ RecvBuffers]
                 /\ registered' = [registered EXCEPT ![s] =
                        Deregistered(regs, holds \cap RecvBuffers)]
                 /\ Abort(s)
                 /\ UNCHANGED slot
    /\ UNCHANGED <<managerVars, addressVars, rioRQ, inFlight, sending>>

InitializeSend(s) ==
    /\ phase[s] = "send"
    /\ \/ /\ held' = [held EXCEPT ![s] = @ \cup {Send}]
          /\ Register(s, {Send})
          /\ phase' = [phase EXCEPT ![s] = "queue"]
       \/ /\ held' = [held EXCEPT ![s] = @ \ RecvBuffers]
          /\ registered' = [registered EXCEPT ![s] = Deregistered(@, held[s] \cap RecvBuffers)]
          /\ Abort(s)
    /\ UNCHANGED <<managerVars, addressVars, slot, rioRQ, inFlight, sending>>

\* Cleanup of both contexts.
Cleanup(s) ==
    /\ held' = [held EXCEPT ![s] = @ \ (RecvBuffers \cup {Send})]
    /\ registered' = [registered EXCEPT ![s] =
            Deregistered(@, held[s] \cap (RecvBuffers \cup {Send}))]

\* The kernel reserves room for every request of the queue in the completion queue.
Reserved(w) ==
    Cardinality({s \in rioRQ : ThreadId(s) = w}) * MaxCompletionsPerSession

CreateRequestQueue(s) ==
    /\ phase[s] = "queue"
    /\ \/ /\ Reserved(ThreadId(s)) + MaxCompletionsPerSession <= QueueSize
          /\ rioRQ' = rioRQ \cup {s}
          /\ phase' = [phase EXCEPT ![s] = "receive"]
          /\ UNCHANGED <<held, registered>>
       \/ Cleanup(s) /\ Abort(s) /\ UNCHANGED rioRQ
    /\ UNCHANGED <<managerVars, addressVars, slot, inFlight, sending>>

\* DoRecv posts the slots in turn; a failure keeps those posted before it.
DoRecv(s) ==
    /\ phase[s] = "receive"
    /\ \E posted \in 0 .. RECV_OUTSTANDING_COUNT :
        /\ inFlight' = [inFlight EXCEPT ![s] = 1 .. posted]
        /\ IF posted = RECV_OUTSTANDING_COUNT
           THEN phase' = [phase EXCEPT ![s] = "live"]
           ELSE Abort(s)
    /\ UNCHANGED <<managerVars, addressVars, slot, held, registered, rioRQ, sending>>

\* A receive completes; it is posted again unless the session is being released.
RecvCompleted(s, k) ==
    /\ k \in inFlight[s]
    /\ phase[s] = "releasing"
    /\ inFlight' = [inFlight EXCEPT ![s] = @ \ {k}]
    /\ UNCHANGED <<managerVars, addressVars, phase, slot, held, registered, rioRQ, sending>>

\* MakeSendContext registers the address of a pooled context on its first use.
DoSend(s, c) ==
    /\ phase[s] = "live" /\ sending[s] = {} /\ \A t \in Sessions : c \notin sending[t]
    /\ registeredBuffers' = IF c \in addressId THEN registeredBuffers ELSE registeredBuffers \cup {c}
    /\ addressId' = addressId \cup {c}
    /\ sending' = [sending EXCEPT ![s] = {c}]
    /\ UNCHANGED <<managerVars, phase, slot, held, registered, rioRQ, inFlight>>

SendCompleted(s) ==
    /\ sending[s] # {}
    /\ sending' = [sending EXCEPT ![s] = {}]
    /\ UNCHANGED <<managerVars, addressVars, phase, slot, held, registered, rioRQ, inFlight>>

\* By anyone; also by the caller of a DoSend that could not register the address, and then
\* has sent nothing.
DoDisconnect(s) ==
    /\ phase[s] = "live" /\ Abort(s)
    /\ UNCHANGED <<managerVars, addressVars, slot, held, registered, rioRQ, inFlight, sending>>

\* BeginIOShutdown closes the socket, and the request queue with it.
CloseSocket(s) ==
    /\ phase[s] = "releasing" /\ s \in rioRQ
    /\ rioRQ' = rioRQ \ {s}
    /\ UNCHANGED <<managerVars, addressVars, phase, slot, held, registered, inFlight, sending>>

CanFinalizeIO(s) == inFlight[s] = {} /\ sending[s] = {}

\* FinalizeRIOCleanup, after which the slot returns to the pool.
Finalize(s) ==
    /\ phase[s] = "releasing" /\ s \notin rioRQ /\ CanFinalizeIO(s)
    /\ Cleanup(s)
    /\ phase' = [phase EXCEPT ![s] = "unused"]
    /\ UNCHANGED <<managerVars, addressVars, slot, rioRQ, inFlight, sending>>

Next ==
    \/ Initialize \/ Shutdown
    \/ \E s \in Sessions :
        \/ InitReserveSession(s) \/ InitializeSlot(s) \/ InitializeSend(s)
        \/ CreateRequestQueue(s) \/ DoRecv(s)
        \/ \E k \in Slots : RecvCompleted(s, k)
        \/ \E c \in Contexts : DoSend(s, c)
        \/ SendCompleted(s) \/ DoDisconnect(s) \/ CloseSocket(s) \/ Finalize(s)

Spec == Init /\ [][Next]_vars

-------------------------------------------------------------------------------

TypeOK ==
    /\ managers \in 0..Managers /\ isInitialized \in BOOLEAN
    /\ rioCompletionQueues \in 0..NumOfWorkers
    /\ openQueues \in 0 .. Managers * NumOfWorkers
    /\ registeredBuffers \subseteq Contexts /\ addressId \subseteq Contexts
    /\ \A s \in Sessions :
        /\ phase[s] \in {"unused", "slots", "send", "queue", "receive", "live", "releasing"}
        /\ slot[s] \in Slots /\ held[s] \subseteq Buffers /\ inFlight[s] \subseteq Slots
        /\ sending[s] \subseteq Contexts
    /\ rioRQ \subseteq Sessions

\* Whatever registration fails, a buffer is registered once when the session holds
\* its identifier and not at all otherwise: none is leaked, and none is
\* deregistered twice.
RegisteredIffHeld ==
    \A s \in Sessions, b \in Buffers : registered[s][b] = (IF b \in held[s] THEN 1 ELSE 0)

\* A session in the pool has given everything back.
NothingHeldInPool ==
    \A s \in Sessions : phase[s] = "unused" =>
        held[s] = {} /\ s \notin rioRQ /\ inFlight[s] = {} /\ sending[s] = {}

\* The kernel only reads and writes buffers that are registered: those of every
\* receive and send in flight, and the address of the send.
InFlightRegistered ==
    \A s \in Sessions :
        /\ \A k \in inFlight[s] : \A b \in SlotBuffers(k) : registered[s][b] > 0
        /\ sending[s] # {} => registered[s][Send] > 0
        /\ sending[s] \subseteq registeredBuffers

\* The completion queue of a worker has room for every session of the worker: no
\* reservation is refused for want of it.
QueueHasRoom ==
    \A s \in Sessions : phase[s] = "queue" =>
        Reserved(ThreadId(s)) + MaxCompletionsPerSession <= QueueSize

\* StopServer is documented to release every resource: no completion queue is open
\* but those of the current manager.
QueuesClosed == openQueues = rioCompletionQueues

===============================================================================
