------------------------------ MODULE BrokerQueue ------------------------------
(***************************************************************************)
(* The threads of the session broker of the server: one thread accepts TCP *)
(* clients and queues them, a pool of workers takes them from the queue    *)
(* under clientQueueLock and clientQueueCV, and Stop closes the listening  *)
(* socket and joins all of them.                                           *)
(*                                                                         *)
(* What a worker does for one client (TLS, the reservation of a session,   *)
(* the answer) is SessionIssue and SessionHandover; here it is one stretch *)
(* of work that ends.                                                      *)
(***************************************************************************)
EXTENDS Integers, Sequences, FiniteSets

CONSTANTS
    Clients,
    BROKER_THREAD_POOL_SIZE,
    NONE

Workers == 1 .. BROKER_THREAD_POOL_SIZE

BrokerQueueAssumption ==
    /\ IsFiniteSet(Clients) /\ BROKER_THREAD_POOL_SIZE \in Nat \ {0}
    /\ NONE \notin Clients \union Workers

VARIABLES
    isRunning,
    listening,          \* whether sessionBrokerListenSocket is open
    place,              \* where the socket of each client is
    acceptor,           \* [pc, client] of sessionBrokerThread
    clientQueue,
    lockOwner,          \* the worker or NONE; the acceptor's push is one step
    worker,             \* [w |-> [pc, client]] of the pool
    stopRequested,      \* the stop state of each thread: 0 is the acceptor
    stopper             \* [pc, next] of the thread that runs Stop

queueVars == <<clientQueue, lockOwner>>
controlVars == <<isRunning, listening, stopRequested, stopper>>
vars == <<place, acceptor, worker, queueVars, controlVars>>

Idle(pc) == [pc |-> pc, client |-> NONE]

Init ==
    /\ isRunning = FALSE /\ listening = FALSE
    /\ place = [c \in Clients |-> "outside"]
    /\ acceptor = Idle("off") /\ worker = [w \in Workers |-> Idle("off")]
    /\ clientQueue = << >> /\ lockOwner = NONE
    /\ stopRequested = {} /\ stopper = [pc |-> "off", next |-> 1]

-----------------------------------------------------------------------------
(* Start.                                                                  *)

\* The pool is running before the accept thread and before isRunning is set;
\* the caller of Stop is the caller of Start, so the order shows to nobody.
Start ==
    /\ ~ isRunning /\ stopper.pc = "off" /\ ~ listening
    /\ listening' = TRUE /\ isRunning' = TRUE
    /\ worker' = [w \in Workers |-> Idle("loop")] /\ acceptor' = Idle("accept")
    /\ UNCHANGED <<place, queueVars, stopRequested, stopper>>

-----------------------------------------------------------------------------
(* The accept thread.                                                      *)

\* accept() completes the connection of a client that the system has queued.
ClientConnects(c) ==
    /\ listening /\ place[c] = "outside" /\ place' = [place EXCEPT ![c] = "backlog"]
    /\ UNCHANGED <<acceptor, worker, queueVars, controlVars>>

Accept(c) ==
    /\ acceptor.pc = "accept" /\ 0 \notin stopRequested /\ listening /\ place[c] = "backlog"
    /\ acceptor' = [pc |-> "push", client |-> c]
    /\ place' = [place EXCEPT ![c] = "acceptor"]
    /\ UNCHANGED <<worker, queueVars, controlVars>>

\* accept() fails: the error of a closed socket ends the loop, any other does not.
AcceptEnds ==
    /\ acceptor.pc = "accept" /\ (0 \in stopRequested \/ ~ listening)
    /\ acceptor' = Idle("ended")
    /\ UNCHANGED <<place, worker, queueVars, controlVars>>

Push ==
    /\ acceptor.pc = "push" /\ lockOwner = NONE
    /\ clientQueue' = Append(clientQueue, acceptor.client)
    /\ place' = [place EXCEPT ![acceptor.client] = "queue"]
    /\ acceptor' = Idle("notify")
    /\ UNCHANGED <<lockOwner, worker, controlVars>>

Wake(ws) == [w \in Workers |-> IF w \in ws /\ worker[w].pc = "asleep" THEN Idle("woken")
                               ELSE worker[w]]
Asleep == {w \in Workers : worker[w].pc = "asleep"}

\* Mutant: only a second client in the queue is worth a notification.
NotifyOne_Second ==
    /\ acceptor.pc = "notify" /\ acceptor' = Idle("accept")
    /\ \/ (Asleep = {} \/ Len(clientQueue) <= 1) /\ worker' = worker
       \/ Len(clientQueue) > 1 /\ \E w \in Asleep : worker' = Wake({w})
    /\ UNCHANGED <<place, queueVars, controlVars>>

NotifyOne ==
    /\ acceptor.pc = "notify" /\ acceptor' = Idle("accept")
    /\ \/ Asleep = {} /\ worker' = worker
       \/ \E w \in Asleep : worker' = Wake({w})
    /\ UNCHANGED <<place, queueVars, controlVars>>

-----------------------------------------------------------------------------
(* A worker of the pool.  wait(lock, predicate) tests the predicate with   *)
(* the lock held; to fall asleep and to release the lock are one step of   *)
(* the system, and a thread that wakes takes the lock to test again.       *)

WorkerLoops(w) ==
    /\ worker[w].pc = "loop"
    /\ worker' = [worker EXCEPT ![w] = Idle(IF w \in stopRequested THEN "ended" ELSE "woken")]
    /\ UNCHANGED <<place, acceptor, queueVars, controlVars>>

Lock(w) ==
    /\ worker[w].pc = "woken" /\ lockOwner = NONE /\ lockOwner' = w
    /\ worker' = [worker EXCEPT ![w] = Idle("test")]
    /\ UNCHANGED <<place, acceptor, clientQueue, controlVars>>

\* The predicate is false; the worker has the lock and goes to sleep next.
TestFails(w) ==
    /\ worker[w].pc = "test" /\ clientQueue = << >> /\ w \notin stopRequested
    /\ worker' = [worker EXCEPT ![w] = Idle("tested")]
    /\ UNCHANGED <<place, acceptor, queueVars, controlVars>>

Sleep(w) ==
    /\ worker[w].pc = "tested" /\ lockOwner' = NONE
    /\ worker' = [worker EXCEPT ![w] = Idle("asleep")]
    /\ UNCHANGED <<place, acceptor, clientQueue, controlVars>>

SpuriousWakeup(w) ==
    /\ worker[w].pc = "asleep" /\ worker' = Wake({w})
    /\ UNCHANGED <<place, acceptor, queueVars, controlVars>>

Pop(w) ==
    /\ worker[w].pc = "test" /\ clientQueue # << >> /\ lockOwner' = NONE
    /\ worker' = [worker EXCEPT ![w] = [pc |-> "handle", client |-> Head(clientQueue)]]
    /\ place' = [place EXCEPT ![Head(clientQueue)] = "worker"]
    /\ clientQueue' = Tail(clientQueue)
    /\ UNCHANGED <<acceptor, controlVars>>

ReturnWhenStopped(w) ==
    /\ worker[w].pc = "test" /\ clientQueue = << >> /\ w \in stopRequested
    /\ worker' = [worker EXCEPT ![w] = Idle("ended")] /\ lockOwner' = NONE
    /\ UNCHANGED <<place, acceptor, clientQueue, controlVars>>

\* HandleClientConnection; every path of it closes the socket.
HandleClientConnection(w) ==
    /\ worker[w].pc = "handle"
    /\ place' = [place EXCEPT ![worker[w].client] = "closed"]
    /\ worker' = [worker EXCEPT ![w] = Idle("loop")]
    /\ UNCHANGED <<acceptor, queueVars, controlVars>>

-----------------------------------------------------------------------------
(* Stop, on the thread that stops the server.                              *)

StopperAt(pc, then) == stopper.pc = pc /\ stopper' = [stopper EXCEPT !.pc = then]

\* The second call, that of the destructor, finds isRunning false.
Stop ==
    /\ isRunning /\ StopperAt("off", "joinAcceptor")
    /\ listening' = FALSE
    /\ place' = [c \in Clients |-> IF place[c] = "backlog" THEN "closed" ELSE place[c]]
    /\ UNCHANGED <<isRunning, stopRequested, acceptor, worker, queueVars>>

RequestAcceptorStop ==
    /\ stopper.pc = "joinAcceptor" /\ 0 \notin stopRequested
    /\ stopRequested' = stopRequested \union {0}
    /\ UNCHANGED <<isRunning, listening, stopper, place, acceptor, worker, queueVars>>

JoinAcceptor ==
    /\ 0 \in stopRequested /\ acceptor.pc = "ended" /\ StopperAt("joinAcceptor", "request")
    /\ UNCHANGED <<isRunning, listening, stopRequested, place, acceptor, worker, queueVars>>

\* request_stop sets the stop state and runs the callback of that worker, which
\* notifies all of them and takes no lock.
RequestWorkerStop ==
    /\ stopper.pc = "request" /\ stopper.next \in Workers
    /\ stopRequested' = stopRequested \union {stopper.next}
    /\ stopper' = [stopper EXCEPT !.pc = "notify"]
    /\ UNCHANGED <<isRunning, listening, place, acceptor, worker, queueVars>>

NotifyAll ==
    /\ stopper.pc = "notify"
    /\ stopper' = [pc |-> "request", next |-> stopper.next + 1]
    /\ worker' = Wake(Workers)
    /\ UNCHANGED <<isRunning, listening, stopRequested, place, acceptor, queueVars>>

Joined ==
    /\ stopper.next \notin Workers /\ \A w \in Workers : worker[w].pc = "ended"
    /\ StopperAt("request", "stopped") /\ isRunning' = FALSE
    /\ UNCHANGED <<listening, stopRequested, place, acceptor, worker, queueVars>>

-----------------------------------------------------------------------------
AcceptorStep == \/ \E c \in Clients : Accept(c)
                \/ AcceptEnds \/ Push \/ NotifyOne

WorkerStep(w) ==
    \/ WorkerLoops(w) \/ Lock(w) \/ TestFails(w) \/ Sleep(w) \/ Pop(w) \/ ReturnWhenStopped(w)
    \/ HandleClientConnection(w)

StopperStep ==
    \/ RequestAcceptorStop \/ JoinAcceptor \/ RequestWorkerStop \/ NotifyAll \/ Joined

Next ==
    \/ Start \/ Stop \/ AcceptorStep \/ StopperStep
    \/ \E c \in Clients : ClientConnects(c)
    \/ \E w \in Workers : WorkerStep(w) \/ SpuriousWakeup(w)

\* The threads are scheduled; a mutex that is free again and again is taken.
\* Nothing makes a client connect, the server stop, or a thread wake by itself.
Fairness ==
    /\ WF_vars(AcceptorStep) /\ WF_vars(StopperStep) /\ SF_vars(Push)
    /\ \A w \in Workers : WF_vars(WorkerStep(w)) /\ SF_vars(Lock(w))

Spec == Init /\ [][Next]_vars /\ Fairness

-----------------------------------------------------------------------------
TypeOK ==
    /\ {isRunning, listening} \subseteq BOOLEAN
    /\ place \in [Clients -> {"outside", "backlog", "acceptor", "queue", "worker", "closed"}]
    /\ acceptor.pc \in {"off", "accept", "push", "notify", "ended"}
    /\ clientQueue \in Seq(Clients) /\ lockOwner \in Workers \union {NONE}
    /\ \A w \in Workers : worker[w].pc \in
         {"off", "loop", "woken", "test", "tested", "asleep", "handle", "ended"}
    /\ stopRequested \subseteq 0 .. BROKER_THREAD_POOL_SIZE
    /\ stopper.pc \in {"off", "joinAcceptor", "request", "notify", "stopped"}

\* The socket of a client is with one thread at a time, and once in the queue at
\* most: it is neither served twice nor dropped between accept and the worker.
ServedByOne == \A c \in Clients :
    LET holders == {w \in Workers : worker[w].client = c} IN
    /\ Cardinality(holders) = IF place[c] = "worker" THEN 1 ELSE 0
    /\ Cardinality({i \in DOMAIN clientQueue : clientQueue[i] = c})
         = IF place[c] = "queue" THEN 1 ELSE 0
    /\ (acceptor.client = c) <=> (place[c] = "acceptor")

\* When Stop has returned, no thread of the broker is left that would use it, and
\* no client is taken into the queue of a stopped broker.
StoppedIsQuiet == stopper.pc = "stopped" =>
    acceptor.pc = "ended" /\ \A w \in Workers : worker[w].pc = "ended"

\* A client in the queue is taken by a worker, unless the broker is stopped first:
\* no wake-up is lost between the push and a worker that goes to sleep.
NobodyQueued == stopper.pc # "off" \/ \A c \in Clients : place[c] # "queue"

\* Stop returns: the document says it joins the four workers, woken through the
\* condition variable.
StopReturns == (stopper.pc = "joinAcceptor") ~> (stopper.pc = "stopped")

\* A client that was accepted is answered or its socket closed, at the latest by
\* the time the broker has stopped.
AcceptedIsClosed == stopper.pc = "stopped" => \A c \in Clients : place[c] # "queue"

=============================================================================
