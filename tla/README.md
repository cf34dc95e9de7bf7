# Verification of MultiSocketRUDP

TLA+ models of MultiSocketRUDP, the TLC runs that check them and the TLAPS proofs about
them: the server (`MultiSocketRUDPServer`), the C++ client (`MultiSocketRUDPClient`) and
what they share (`Common`, `Logger`). Source paths below are relative to `MultiSocketRUDP/`
inside the repository; `map` in `PROJECT.json` names the lines of every definition.

## 1. The system and its parts

A client gets a session from the *session broker* over TLS (session id, port, key), and
then talks to that session's own UDP socket. The server does its I/O with Windows
Registered I/O (RIO). Sessions are objects of a fixed pool, each belonging to one thread
id, for which there is one IO worker, one receive-logic worker and one retransmission
thread; a heartbeat thread, a release thread and the content's own threads touch every
session.

| Part | State | Operations | Hard because | Modules |
|---|---|---|---|---|
| Session state machine, `RUDPSession` | `state`, `nowInReleaseThread`, `sessionGeneration`, `disconnectedReason`, hooks | `TryConnect`, `DoDisconnect`, `AbortReservedSession`, `BeginIOShutdown`, `Disconnect`, `InitializeSession` | any thread may disconnect; the object is recycled while threads still hold pointers to it | SessionLifecycle, SessionSlot |
| Pool, `RUDPSessionManager` | unused list and set, connected count | acquire, release, count, time-outs | double release, hand-out of a session in use, count racing the release | SessionLifecycle, SessionHandover |
| I/O handler, `RecvBuffer`, `SessionRIOContext`, `RIOManager` | receive contexts, drain counters, `ioMode`, buffer identifiers, completion queues | completions, `DoRecv`, `DoSend`, drain test, registration | asynchronous, cancelled and stale completions; five counters read one by one; failure halfway through registration | SessionLifecycle, SendPipeline, SessionRIO |
| Session broker, TLS helpers | client queue, accept thread, workers, stream buffers | accept, reserve, answer, clean up, stop | partial failure, split and joined records, stop protocol | BrokerQueue, SessionIssue, SessionHandover |
| Receive path: `SessionPacketOrderer`, `RUDPReceiveWindow` | next expected sequence, held packets, window and its flags | accept, hold, process, acknowledge | loss, duplication, reordering, wrap, handler failure, disconnect in between | ReceiveOrdering |
| Flow control, send context | congestion window, pending queue, send queue, reserved packet | `SendPacket`, flush, `OnSendReply`, datagram building | two senders and a flush overtaking each other; plain fields written by two threads | SendWindow, PendingQueue, SendPipeline |
| Retransmission | heap of deadlines with versions, reference counts, RTO | push, expire, acknowledge, sample | stale heap entries, late acknowledgement, recycled owner | Retransmission, RtoEstimator |
| Connection | both ends of CONNECT, the first data packet, the heartbeat | connect, time out, abort, give up | every message may be lost or repeated, and each side times out alone | Connection, Heartbeat |
| Start, stop, workers, ticker, fatal errors | threads, events, timers, handlers | `StartServer`, `StopServer`, timers, reports | a step of start fails; threads joined while others still feed them; first report wins | ServerLifecycle, Ticker, FatalError |
| Client core, alive checker, session getter | sequences, sent packets, pending queue, threads, sockets | start, send, reply, retransmit, receive, stop | lost wake-ups, stop called from one of its own threads | ClientLifecycle, ClientSend, ClientReceive, SessionIssue |
| Logger, memory tracer, option files | user count, queue and events; tracked objects; members | run, log, stop; track, report; read, cast, check | shared by users that come and go; switches read outside the lock; signed values in unsigned members | Logger, MemoryTracer, OptionFiles |
| C# bot tester's client | the same protocol again | | second implementation | not modelled |
| Packet crypto, UI, AI, examples, tools, tests | | | no concurrent logic of the program | not modelled |

The parts meet in a session: the IO worker hands datagrams to the receive-logic worker
through a queue; both, the senders and the broker disconnect a session with one
compare-and-swap; the winner puts the id on the release list; the release thread closes
the socket, waits for the drain, frees the registered buffers and returns the session
to the pool under a new generation.

What makes each part correct:

- *session*: released once and handed out to one client at a time; buffers are freed and
  flags reset only when no completion, queued packet or send of the session is left; hooks
  come in order and never during a handler; a session that leaves use comes back;
- *sending*: a packet that was numbered is always with somebody; what is under way is
  bounded; one datagram at a time uses the buffer, and nobody relies on a thread that has
  already looked away; whatever is sent arrives or the connection ends;
- *receiving*: packets reach the handler in order and once; acknowledgements are
  cumulative; what was acknowledged is kept;
- *retransmission*: references are exact, a freed packet is not used, only the owner's
  packets reach it, a sample comes from an unambiguous exchange;
- *connecting*: both sides agree which session is whose; a reservation that fails or
  expires is given back once; an abort and a connection exclude each other;
- *start and stop*: a stop returns, and leaves no thread, no request and no memory behind
  that refers to what it deleted.

The hazards of the code, each at its line and with the properties that cover it, are listed
in `PROJECT.json` under `hazards`.

## 2. The modules

A step of a model is one read, one atomic operation, one locked section or one external
call of the code; program counters stand between them. Definitions have the source's names.
Definitions marked "Mutant" are plausible bugs used to see that a property can fail
(section 3); they belong to no specification. Variables marked "history" or "ghost" record
what happened for the properties; no guard of the model depends on them, except where a
bound is named.

### 2.1 The session on the server

**SessionLifecycle**: one `RUDPSession` and every thread that touches it.

- *State.* `state` is the state machine's atom. `claim` is the winner of RELEASING on
  its way to the release list. `posted`, `sendIo` and `logicQueue` count what RIO and
  the logic queue hold, by the generation stamped on it; `outstandingRecvIo`,
  `pendingRecvLogic`, `activeIOCompletions` and `nowInProcessingRecvPacket` are the
  code's own counters. `unused`, `releaseList`, `workList`, `remainList` are the number of
  times the id is in the pool's and the release thread's lists. `hooks` is a history.
- *Actions* follow the functions of the same name. `CanFinalizeIO` is five actions in the
  order the code reads its five conditions; `BeginIOShutdown` two (the pending count, then
  the processing flag); `DoSend` one for each of the mode's swap, the recheck, the
  give-back and the RIO call. The shared socket lock is held exactly while a thread's
  counter is `posting`.
- *Abstractions.* Payloads are gone: whether there is anything to send, what a datagram
  is and whether a call fails are free choices. NORMAL, BY_ERROR and BY_RETRANSMISSION are
  one reason: they differ in a statistic only. The winner of a claim continues
  independently of its thread, which allows every order the code allows and more.
- *Switches.* `FailuresWhileReserved` lets I/O fail on a session still RESERVED.
  `CallsOutliveSession` lets a send or a broker's answer last beyond the generation it
  began in; FALSE assumes that they are over when the session is recycled. Nothing in
  the code enforces that: the run TwoSends shows what follows. `AbortTimedOut` assumes
  that no broker is still initialising the session; SessionHandover drops that assumption.

**SessionSlot**: what the pool promises of one id: handed out to one client at a time,
connected at most once per hand-out, taken out of use once, returned once under the next
generation. `SessionLifecycle!Slot` is the refinement mapping: the slot is free while the
id is in the pool, and the generation counts from the return, though the code raises it
earlier.

**SessionHandover**: several slots of the pool, the workers of the broker that reserve
them (`ReserveSession`, `InitReserveSession`, the answer, the cleanup), the heartbeat
thread's pass over all sessions (`CheckReservedSessionTimeout`) and
`StopServer`'s close-all and wait. Workers and heartbeat hold a pointer to the slot,
never a generation, as in the code. `Faults` names the calls that may fail in a run. The pass
reads the clock once and time goes on meanwhile, so a session may be reserved after the
reading it is compared with; differences are unsigned (modulo `Width`).

**SessionRIO**: what the server has registered with RIO: completion queues, receive and
send buffers, request queues, the address buffers of pooled send contexts. The kernel's
state (`registered`, `openQueues`, `inFlight`) stands beside the identifiers the code
holds, so that a step that fails halfway shows. `Managers` counts how often a `RIOManager`
is made, by a start that follows a failed one. A pooled send context whose
address buffers cannot be registered (`RUDPIOHandler.cpp:397`) sends nothing and ends in
`DoDisconnect`, which anyone may call at any time.

**ReceiveOrdering**: the receive side of a connected session, against a client that
numbers packets, a network that loses, repeats and reorders them, handlers that fail, and
other threads that disconnect the session in two steps. A packet is its number; the code
sees the number modulo 2·HalfRange, and compares sequences by signed differences as
`RUDPReceiveWindow::SeqDiff`. The ring of flags is the set of offsets from `windowStart`
that are set. `OnRecvPacket` is split by its branches (older, expected, early); delivery to
the handler and the handler's return are separate steps, so that a disconnect may fall
between them. Window and orderer have one size because both are given
`maximumHoldingPacketQueueSize` (`RUDPSession.cpp:56,58`). `Horizon` says how far the
client may run ahead and how old a copy may be: half the sequence space less a window,
about 2^63 packets for the code.

### 2.2 Sending on the server

**SendWindow**: numbering, `CanSend`, the pending queue, `OnAckReceived`, `OnTimeout` and
the flush. `cwnd` and `inRecovery` are read and written in separate steps by the logic
worker (`workerPc`, `workerCwnd`) and the retransmission thread (`timeoutCwnd`), because the
code holds no lock there. A thread takes its sequence (`pc = "numbered"`) before the queue's
lock, as `SendPacket` does. A packet is its sequence; the client replies to whatever
reached it, in any order.

**PendingQueue**, implementing **BoundedFifo**: the ring buffer of deferred packets
(`head`, `tail`, `count`, `buffer`) and its mutex, through the lives of a slot. `Push` is
two steps under the mutex (the cell, then the counters). `Late` lets a sender that saw the
session connected still push when the slot has been reserved again, whose `Initialize`
resizes the ring without the mutex.

**SendPipeline**, implementing **SendQueue**: how packets become datagrams. Every sender
pushes and calls `DoSend`; `ioMode` is won by compare-and-swap; `MakeSendStream` copies the
packets into cells of the one send buffer, which remember whose bytes they hold; the
completion gives `ioMode` back. A packet that does not fit is held back
(`reservedSendPacketInfo`); one acknowledged meanwhile is marked erased (`Acks`), and
`skipped` remembers which were found so in making the last stream; `Losses` installs the loss
simulator. The buffer is larger than any packet (`Capacity` at least 3, a packet 2), so the
size check of the held-back packet (`RUDPIOHandler.cpp:458`) can never disconnect. `SendQueue`
promises that packets are taken in the
order of submission, each as often as submitted, and that nothing enters a releasing
session; the mapping reads its queue as the held-back packet followed by the queue.

**Retransmission**: the life of a `SendPacketInfo`. References are counted for the map, the
queue and the heap; heap entries carry the schedule version; the retransmission thread
copies what is due (`dueList`) under the lock and handles it without; `generation`
counts the owners of the session, which the release thread may replace at any moment,
since no drain waits for the retransmission thread. `wakeEvent` and `armed` are the wait of
that thread. The infos in `Replies` are reply packets, which are not scheduled.

**RtoEstimator**: the integer arithmetic of `RetransmissionTimeoutEstimator` with the
packets in flight that feed it (Karn's rule, back-off once per window of losses). Time is
relative and discrete.

### 2.3 The two sides of a connection

**Connection**: from CONNECT to the end. `TryConnect` is one step for each of the
state's swap, the client address, the reset of the orderer, the callback and the reply,
interleaved with the heartbeat thread (abort of a reservation, heartbeat) and the
retransmission thread. The client resends CONNECT and its first data packet up to the
limit. The channels are sets: a datagram in one may be received any number of times,
in any order, or lost.

**Heartbeat**: the timing of both watches, on one clock: the server's pass per
`HeartbeatThreadSleepMs` that sends to a session it has not heard from for an interval,
and the client's check per `ServerAliveCheckMs` that the sequence has moved.

**SessionIssue**: one client and the broker over TCP and TLS. TCP is a stream: a record is
`Fragments` pieces and a recv returns any number of those that have arrived. `serverBuffer`
and `clientBuffer` are the buffers kept from one call to the next. Schannel is external: a
call consumes one whole message and hands back what follows it. Any step may fail, the
encryption of the answer after the reservation too, and the connection may be reset at any
time.

**BrokerQueue**: the accept thread, the client queue with `clientQueueLock` and
`clientQueueCV`, the pool of workers and `Stop`: the stop state of each `jthread`, the
callback of the stop token that signals the condition variable without the lock, and the
joins in order.

### 2.4 The client

**ClientSend**: `SendPacket` against the receive thread's `OnSendReply` and flush, the send
thread and the retransmission thread with its limit. Lock scopes are the code's: the window
is loaded without a lock, the number outstanding read under one lock and the packet pushed
under another; the flush loads the window once. The number outstanding is cast to a BYTE
before it is compared (`RUDPClientCore.cpp:779` and `:842`): `HasRoom` counts modulo
`ByteRange`. The server is what the client can tell of it.

**ClientReceive**: the receive thread (one packet of a datagram at a time: queue, then
reply), `GetReceivedPacket` and the alive check. `GetReceivedPacket` names the sequence at
which its loop over the held packets stops: old copies and the heartbeats before it are
taken out, the first data packet is given.

**ClientLifecycle**: `Start`, `Disconnect` and `Stop` against the four threads, the
checker that may itself call `Stop`, the second client of the process that shares Winsock
by a count, and a restart.

### 2.5 Around them

**ServerLifecycle**: `StartServer` with every step that may fail (`Faults`) and
`StopServer` with its order of closing, waiting and joining; worker threads with their
stop events, sessions reduced to what the drain needs. A worker of the broker may miss the stop
(`broker` is then "deaf" and `JoinBroker` waits for ever), as BrokerQueue shows; a session
may be dropped by the second drain test, as SessionLifecycle shows; and the one who
disconnects a session (`claims`) lists it in a step of its own. **FatalError**: the report, the
installed handler and its call outside the lock. **Ticker**: the pass over the timers, the
unregister list, and the two steps of `RegisterTimerEvent`; times are relative (`wait`,
`lag`). **Logger**: users counted with an atomic, the thread of each run, and the pair
of event handles that each start replaces; an auto-reset event is a member of
`signalled`. **MemoryTracer**: tracked addresses, reuse of an address by another object,
the switch read outside the mutex, the report file; the file calls behave as their
documentation says. **OptionFiles**: reading in the order of the code, with failure
halfway, casts through `Width` bits and the range checks; one file gives the packet codes
of server and client.

### 2.6 Composition

**MCSessionLifecycle** gives the session's constants. ReceiveOrdering needs only numbers
and is checked directly. The other twenty components are instantiated together, each over
variables and constants of its own: eight on the server in **ServerParts**, seven on the
client and between the two sides in **ClientParts**, and in **MCComponents**, which extends
both, the three senders of a session with their theorems, MemoryTracer and OptionFiles. A
behaviour of MCComponents is one of one component, which `running` names (`Runs(c)` lets it
take a step and the others none, `In(c, P)` states P of it). They share no variable, so
interleaving them would add no behaviour to any of them, and the states are the sum and
not the product of theirs. The constants come from the configurations: larger ones for the
invariants, smaller ones for the temporal properties; `Progress` only chooses whether the
application of the client polls. A property of MCComponents collects what several
components guard against the same hazard; the parts are stated and commented in the
components' modules.

The components are related by what they leave to each other: SendWindow leaves the drop of
a closed session to PendingQueue and SessionLifecycle; SendPipeline shows that one
thread at a time packs a datagram, which Retransmission uses; SessionIssue treats the
reservation as one step, which SessionHandover and SessionRIO take apart; ReceiveOrdering
assumes a client that sends again, which ClientSend is.

## 3. The runs

| Run | Shows | Bounds |
|---|---|---|
| SessionDrain | type correctness; drain counters exact; everything drained when buffers are freed; no request without buffers; no tag of an older generation; hooks ordered and never during a handler; user count exact; one send in flight | 1 broker, 1 sender, 2 receives, queue 2, generation modulo 2 |
| SessionRelease | a releasing session returns, or is dropped by the second drain check and by nothing else | 1 broker, 1 receive, queue 1, generation modulo 2 |
| SessionFailures | one place at a time, and the refinement of SessionSlot, with every failure while reserved | 1 broker, 1 receive, two generations of three |
| ReceiveSafety | order, exactly-once, bound of the holding queue, cumulative replies, window in step | 16 sequences, window 3, 19 packets |
| ReceiveProgress | whatever is sent is delivered or the session disconnected | 8 sequences, window 2, 10 packets |
| ComponentSafety | the invariants and step properties of the twenty components, below | below |
| ComponentProgress | packets arrive, connections end, stops return, nothing is left in the send queue, no living server is declared dead | below |
| LostRelease, SkippedDisconnect, HooksWithoutConnect, TwoSends, AdvertisedWindow | disagreements of code and documentation (section 5) | the smallest that show them |

The properties of ComponentSafety and ComponentProgress:

| Property | Says |
|---|---|
| EachPacketInOnePlace | a numbered packet is with one thread, in one queue, outstanding, acknowledged or freed, on server and client |
| WindowsHold | `cwnd` in bounds, what is sent lies within the window it was checked against, the base is the highest reply; the client's outstanding packets are bounded by the advertised window and one per thread, as long as a BYTE counts so many (`WindowFits`) |
| BuffersAreSafe | one user of the send buffer; a buffer is registered exactly while its identifier is held, none in the pool; every request in flight has its buffer; a completion queue has room |
| QueuesAreFifo | SendPipeline implements SendQueue, PendingQueue implements BoundedFifo, and a connection pops only its own packets |
| ReferencesExact | the count of a SendPacketInfo is the number of its holders; Winsock references balance, handles outlive the threads that wait on them |
| RetransmittedRight | one queued copy at a time, sent only to the owner, samples unambiguous, no lost wake-up; a back-off window only after a back-off |
| DeliveredInOrder | the application of the client gets each packet once, in order, and what was replied to is kept; the first packet is handled after `OnConnected` and never held for good |
| SidesAgree | a client's session is reserved or connected for it; an aborted one is connected to nobody |
| KeptOnce | a client socket has one keeper, a session id one place, whichever step fails |
| TimeoutsCountOnce | a burst of losses backs off once; a reservation made before the heartbeat pass read the clock is given its whole timeout |
| QuietAfterStop | after a stop no thread is left, no handler runs, nothing is deleted before it is drained |
| PeriodsAreKept | a timer fires in time and at most once after it was taken away; the server hears from a live client every other pass |
| FatalErrorTold | the installed handler is told the first error, once per installation |
| RecordsAreTrue | logs once and in order, leaks are live objects, settings are those of the file |
| PacketsArrive | again and again nothing is pending or unacknowledged, but for a packet overtaken in the pending queue (StuckPending) or left by an empty stream (Stranded) |
| ConnectionsEnd | again and again no handover, no half-open connection, no orphaned session |
| StopsReturn | again and again no stop is under way, unless the server's waits for a broker worker that missed it (MissedStop), a session dropped by the second drain test (LostRelease) or one whose worker has ended with a fatal error |
| NothingLeftBehind | with nobody in `DoSend` the queue is empty, unless the last stream came out empty because of acknowledgements; a datagram is its packets, unless one was found acknowledged in making it |
| ServerStaysAlive | a server that is there is not declared dead by a client that sends no data and checks a third as often as the server's heartbeat thread |

### Bounds

Session modules: two receives let one complete while another is outstanding; a queue of
two lets a packet wait behind the one being handled; one sender beside the two workers
gives three contenders for `ioMode`; two generations let the remains of one meet the next.
19 packets wrap the sequence space of 16 with held packets on both sides of the wrap; a
window of 3 leaves room for a gap and two held packets. The generation's own wrap (2^32)
is not reached by a real session within the life of a datagram; with a modulus of 2 it is
reached at once and nothing depends on it.

Components (first value in ComponentSafety, second in ComponentProgress where it differs):

| Component | Bounds | Enough for |
|---|---|---|
| SendWindow | one content thread and the heartbeat thread / two content threads, cwnd 2 to 3, 4 / 5 packets, pending 2 / 3 | a window that is full, grows and is halved while both fields are in hand; the queue at its limit; a heartbeat deferred; two threads queued in either order |
| PendingQueue | 2 senders, ring of 2, 5 packets, 2 lives | full, empty and around the end, drained and resized for the next connection |
| SendPipeline | 1 / 2 senders with completion and retransmission, acknowledgements and losses, buffer of 3 cells, one packet of two, 3 packets | a packet held back, a retransmission in the same datagram, a lost race for `ioMode`, a packet acknowledged in the queue, held back, or while the stream is made |
| Retransmission | 2 infos, one of a reply, limit 2, 2 generations, clock 2 | a reply that crosses a resend, a stale heap entry, the owner replaced under a due packet |
| RtoEstimator | 2 packets, RTO 4 between 2 and 6 | a burst of two losses, a sample between them, both limits |
| ClientSend | 2 senders and 3 packets, window 1 / 1 sender, 2 packets, window 2; a BYTE of 4 values | push crossing flush, a lost reply, the limit, the largest window and threads that a BYTE counts |
| ClientReceive | 3 packets, the second a heartbeat, 2 / 1 copies | a gap, a copy behind it, a heartbeat to step over |
| ClientLifecycle | 2 starts, 2 / 1 packets read | a stop by the checker crossing one by the application, then a restart |
| Connection | limit 2 | every message lost or repeated once, both sides giving up |
| Heartbeat | interval 2, check 6, 13 ticks / 3, 9, 40 ticks; delay 1 | passes and checks in every relative position |
| BrokerQueue | 3 / 2 clients, 2 workers | one worker asleep, one at work, one client queued, and a stop |
| SessionIssue | 2 fragments, 5 attempts | a record split, two records together, a failure or a reset at every step |
| SessionHandover | 2 slots, 2 workers / 1 worker; 2 clients, clock 2 (modulo 16), time-out 1 | a slot recycled between two steps of the other worker or of the pass; reservations older and newer than the pass; the clock moving in a pass over two slots |
| SessionRIO | 2 sessions, 2 workers, 2 receives, 1 send context, 2 managers | a failure at every registration; two sessions on one context; a start after a failed one |
| ServerLifecycle | 2 / 1 workers, 1 / 2 starts, 1 session, 1 datagram waiting, 1 fatal error, every fault | every step of a start failing, a stop while a session connects or is being disconnected, a missed stop, a dropped session, a second stop, a restart |
| FatalError | 2 workers, 2 controllers, 2 handlers, 2 installations | two reports and two installations crossing |
| Ticker | 2 timers, one that ends itself, interval 1 / 1 timer, interval 2, 2 starts | a timer taken away while it is in the list to fire, a stop in a pass |
| Logger | 2 users, 2 rounds, 2 logs | last user out against first user in, a log at every point |
| MemoryTracer | 2 objects, 1 address, 2 threads, 1 file, 2 toggles | reuse of the address with the switch off in between |
| OptionFiles | 3 bits, values -1 to 1, 2 reads | a cast that wraps, a failed reading followed by another |

Where safety and progress differ in a switch: the client reads past its Finished only in safety
(InfoDropped); SessionHandover has the calls of the reservation and of the answer fail in
safety only; the client of Heartbeat sends data in safety only (ServerStaysAlive). PendingQueue
runs with `Late` FALSE (ResizedUnlocked), Ticker with
`Reregister` and `EarlyRegister` FALSE (FiresInTime, NotBeforeInterval), Logger with `Overlap` and
`StopTwice` FALSE (CallsReturn, StopsForLast). Each of these switches is a way in which the
code leaves a property open, and the demonstration or property of section 5 shows how.

Deadlock checking is off: a server without clients is idle, and bounded histories end.

Every property has a mutant in `PROJECT.json`, a plausible bug under which the run
must find it violated.

### Fairness

In SessionLifecycle every thread that has begun something continues (weak fairness per
thread: the code's threads do not wait for each other except for the socket lock), RIO
completes every send, and every receive once the socket is closed. Nothing makes a
datagram arrive, a client connect or a session be acquired. In ReceiveOrdering the worker
continues (weak), and the packet the orderer waits for arrives again and again while it is
awaited (strong).

In MCComponents the same: weak fairness of each thread that has begun a call
(`SendFairness`, `ClientFairness`, `ConnectionFairness`, `StopFairness`), never of the
decision to begin one: no client connects, no application sends, starts or stops because of
fairness. Threads the code runs in a loop (heartbeat, retransmission, ticker, workers)
continue their loops. Strong fairness is assumed of one thing: the arrival of the lowest
packet that is not acknowledged (`Arrives`) and of its reply (`ReplyArrives`). Both sides of
this protocol send such a packet again until it is acknowledged or the limit ends the
connection, so an endless loss of it is the only behaviour excluded.

## 4. What is proved

Eight modules hold the proofs; the theorems are for every value of the constants. Of the
invariants and step properties that the runs check, all but two (`TypeOK` of MCComponents and
`RecordsAreTrue`, below) are theorems.

- **SessionLifecycle_proofs**: `TypeCorrect` (`Spec => []TypeOK`; inductive as it stands, and
  proved by groups of variables, each against the actions that change it) and `OnePlace`
  (`Spec => []SessionInOnePlace`). The latter is inductive only with `PlaceInv`: where the id
  is in each of the release thread's positions, what the broker holds between taking the
  id and storing RESERVED, and that a state in use excludes every place. Each
  compare-and-swap moves the id from "in use" to the claim, and the lists pass it on.
  `LostOnlyBySecondCheck` (`Spec => DroppedOnlyBySecondCheck`) adds `TrackInv`: a RELEASING
  session is with the winner of the claim, in a list, or in the hand of the release thread;
  the one step that ends this is the second drain test of `Disconnect` failing.
  `Refinement` (`Spec => ImplementsSlot`): `SlotSimulation` shows every step to be a step of
  the slot or a stutter, from `PlaceInv`; `EpochHeld` and `EpochMoves` treat the generation
  that is raised one step before the return.
  Its second part is what the drain of a session is for, for any brokers, receive slots,
  queue lengths and generations.
  `HandlersExcluded` (`Spec => []HooksExcludeHandlers`) needs no hypothesis. Its invariant,
  `QuietInv`, says that `pendingRecvLogic` is the number of packets queued, of whichever
  generation, plus the one in hand (by counting over finite sets), and that no packet is in
  hand wherever the release thread is between its test of that counter and the last hook.
  `FreedDrained` (`DrainedWhenFreed`), `CountersExact` (`DrainCountersExact`), `TagsCurrent`
  (`NoStaleTag`), `BuffersRegistered` (`RequestsHaveBuffers`), `OneSend` (`OneSendInFlight`),
  `HooksOrdered` (`HooksInOrder`) and `CountExact` (`CountMatchesSession`) come from one
  inductive invariant, `DrainInv`, with one part per hazard. Its core is `StageInv`. The
  five conditions of `CanFinalizeIO` are read one by one, so each may be false again when the
  next is read. `StageInv` says what each read has seen over (`DrainReads`: a counter at
  zero is its worker's word that nothing is behind it) and `NoNewSend`, `NoNewPosting`,
  `NoNewReceive`, `NoNewLogic` and `NoNewCompletion` say what cannot start again. The reads of
  round 1 end only the sends and the posting of receives, for a completion may still be about
  to post; given that, each read of round 2 stays true, and the session is reset with nothing in
  flight. The hypothesis of these seven is `Orderly`: both switches FALSE, so that nothing fails on
  a session still RESERVED and no call outlives the session it began on. Nothing in the code
  enforces it: with either switch on TLC refutes each of the seven, and the findings
  HooksWithoutConnect and TwoSends show how.
- **ReceiveOrdering_proofs**, for every `HalfRange`, `WindowSize` with
  `2 * WindowSize <= HalfRange`, and `MaxSent`: `TypeCorrect`, `Ordered`, `Cumulative`,
  `WindowAligned`, `HeldAhead`, `HoldingBounded`, from one inductive invariant, `OrderInv`. Its
  core is `WindowAt(w)`: the window starts at some packet `w`; either `w` is the packet in
  hand and no flag is set, or a handler has failed while another thread was disconnecting
  and the window stays at the failed packet; and what is held lies in the window. Packet
  numbers are unbounded and sequences are not, so `SeqDiffIsTrue`, `SequenceInjective` and
  `ArrivalFacts` first show that within the horizon a signed difference of sequences is the
  difference of the packets.
- **SendPipeline_proofs**, for any senders, buffer, packets, acknowledgements and losses:
  `TypeCorrect`; `OneUser` (`OneUserOfBuffer`, from `UserInv`: at most one thread is between
  winning `ioMode` and giving it back, none while a send is in flight); `PipelineIsQueue`
  (`ImplementsQueue`: every step is one of SendQueue or a stutter, from `HeldInv`: while a thread
  has packets still to take, none is held back, so the packet it holds back next was the front).
  `NoneStranded` and `DatagramIsWhole` state `NothingLeftBehind` and `DatagramIsItsPackets` with
  acknowledgements at any point: the first but for a stream that came out empty because of
  them, the second but for a datagram in whose making one was found acknowledged. In those cases
  both are false of the code (Stranded, StaleBytes in section 5). That no packet is twice in a
  datagram holds throughout, and `StrandedOnlyByEmptyStream` shows that the step of Stranded is
  the only one that leaves a packet behind. The bytes need `Layout` unfolded: `FlattensExists` and
  `FlattensAgree` show
  the recursion inside `FlattenSeq` to be well defined, by least counterexample.
- **Retransmission_proofs**, for any infos, replies, generations and retransmissions:
  `TypeCorrect`; `CountsExact` (`RefCountExact`); `OneCopy` (`OneCopyAtATime`);
  `SamplesUnambiguous` (`SampleUnambiguous`); `OnlyToOwner` (`SentOnlyToOwner`) and
  `NoWakeupLost` (`NoLostWakeup`), from one inductive invariant, `Inv`, whose parts TLC
  checked with three infos first. The lemmas `Moves...` say, action by action, where an info
  comes from and where it goes: `CountInv` and `CopyInv` add those up. `Scanned` splits the
  heap into what is popped, what is freed and what stays, with `Enumerated` for the set that
  becomes a list. `SampleInv` counts, for a packet that may still give a sample, its
  transmissions and the one it is on its way to: one together. `MapInv` and `OwnerInv` carry
  the handover of the session: a packet of an earlier generation is acknowledged by then, for
  the map was cleared, or was a reply, which is never sent again. `VersionInv` (no entry is of
  a version to come) makes a new entry one that is not in the heap. `DisconnectsOwner` is
  false of the code (section 5).
- **SendWindow_proofs**, for any senders, windows and bounds: `TypeCorrect`,
  `WindowBounded` (`1 <= cwnd <= MaxCwnd`, though both writers use what they read before),
  `BaseNeverBack` (the base of the window is the highest reply) and `SentNearBase` (whatever
  is sent lies within the largest window above a base that is never behind it). The
  invariant adds to the bounds that the windows in hand of both threads are bounded too.
  `OnePlaceOnly` (`EachPacketInOnePlace`) follows each number from the thread that took it
  through the pending queue to the map of sent packets and out of it.
- **ServerParts_proofs**, a section for each instance of ServerParts.
  - *PendingQueue*, for `~Late` and any senders, capacity and number of lives: `RingStaysWhole`
    (the indices lie in the buffer and `tail` is `count` cells from `head`, whoever pushes,
    pops, clears and resizes) and `PendingIsFifo` (every step is one of BoundedFifo or a
    stutter). `RingInv` is the arithmetic modulo the capacity, `PushInv` says who is
    inside, and `PooledInv`, which uses `~Late`, that no sender is inside when the ring is
    resized. `TakenForOwnConnection` (from `OwnInv`: what lies in the ring was put there in this
    life) and `NoPacketLost` (`EachPacketSomewhere`, from `PlaceInv`: every packet made is with
    its sender, in a cell between `head` and `tail`, taken or freed).
  - *BrokerQueue*: `EachServedByOne`, `QuietWhenStopped`, and `SomebodyLooks`, which no run
    states: while a client is queued and no stop has begun, a worker is awake or has
    been notified. It is a part of `BrokerInv`, beside who holds the lock, who holds
    which socket, and which threads may run after which step of a stop.
  - *SessionHandover*: `SlotsAreKept` (`NoSlotLeaks`, from `OneKeeper`: a slot is DISCONNECTED
    exactly while it is listed or in one hand) with every fault, and `WholeTimeout`
    (`OldReservationsWait`): of the reservations made before the pass read the clock only those
    are aborted that have had their timeout, with the clock and all threads going on. By `DueIsDue`
    what the pass found due is due when it aborts, or the slot has been reserved since.
  - *SessionRIO*: `NoneLeaked`, `PoolHoldsNothing`, `RoomInQueue`, and `InFlightIsRegistered` for
    the first manager, from `RIOInv`: what each phase of a session holds (`HeldInPhase`) and
    whose address buffers are known (`AddressesKnown`). The room is arithmetic: `s \div
    workers` numbers the sessions of one worker, so there are at most as many as rounds.
  - *ServerLifecycle*: `PartsOutliveThreads`, `DeletedAfterDrain`, `OffIsClean`, from `ServerInv`,
    which says for each step of start and stop which parts are there by then.
  - *FatalError*, for any workers, controllers and handlers: `FirstErrorOnly` (every call
    passes the error stored first) and `NoCallLost` (once there is an error, the handler
    installed has been told or is about to be), by `TellInv`; `CalledOnce`
    (`OncePerInstallation`), by `OnceInv`.
  - *Ticker*: `NoHandlerLeft`; `FiresOnceMore`; and `TimersFire` (`FiresInTime`) under
    `RegisteredOnce` (both switches FALSE), by what may remain to wait of a timer before, in
    and after the pass.
  - *Logger*: `LoggerEndsWithLast` (`StopsForLast`) for `~Overlap` and `~StopTwice`, by counting
    the users between their two atomic operations.
- **ClientParts_proofs**, a section for each instance of ClientParts.
  - *Connection*: `ConnectedHasSession` (a client that is connected has a session that was
    connected for it), `AbortedIsUnconnected`, `DataAfterConnect`, `FirstIsNotHeld`. The invariant
    is by cases of the session's past: connecting has not begun, is at one of the five steps
    of `TryConnect`, or has happened.
  - *ClientSend*: `InOnePlaceOnly` and `WindowAndThreads` (`OutstandingBounded`: by
    `InsertingBounded`, the packets outstanding and the threads between the check of the
    window and the insertion are together at most the window and one for each thread, if
    that is less than `ByteRange`: then the cast of the number outstanding changes nothing,
    `RoomIsBelow`).
  - *ClientReceive*: `GivenInOrder` (`InOrderOnce` and `AckedIsKept`; `RepliedIsKept` follows a
    reply from the thread that is about to send it to the client that counts on it).
  - *ClientLifecycle*: `GivenBackOnce` (`ReferencesBalanced`) and `ThreadsEndFirst`
    (`ThreadsOutlivedByHandles`), with a stop by the checker crossing one by the application;
    `ClientInv` says who may be stopping, and that the process reference is held between the
    step of a start that takes it and the step of the one stop that gives it back.
  - *SessionIssue*: `AcceptedWasReserved` and `ClientKeepsNothing`, with every failure and split.
    `IssueInv` says what is on its way at each step: a stream is a concatenation of whole
    pieces of records, of which an answer comes only after the reservation.
  - *RtoEstimator*: `WindowsEnd` and `OneBackoffPerBurst`, for any limits and packets.
  - *Heartbeat*: `HeardInTime` under `SleepFits` (two passes fit the width of the clock), and
    `IdleStaysAlive` under `ChecksSeldom`: the client sends no data and checks less often than
    two passes and the delay of two packets. That is the condition on the intervals under
    which `ServerStaysAlive` holds; the documented minimum does not satisfy it (section 5).

  Each section of the two modules also has the type correctness it needs; those of
  BrokerQueue, SessionHandover, SessionRIO, Connection, ClientSend, ClientLifecycle and
  RtoEstimator are theorems.
- **Components_proofs** puts them together: the lemmas `...Behaviour` show a behaviour of
  MCComponents to be one of each component, which steps or stutters, and fifteen theorems, one for
  each property of ComponentSafety and of ComponentProgress that needs no fairness, follow
  from those above. A hypothesis is a switch of section 3: `~pqLate` for
  `PacketsInOnePlace` and `QueuesStayFifo` (ResizedUnlocked), `~lgOverlap` and `~lgStopTwice` for
  `QuietStays`, `SleepFits`, `~tkReregister` and
  `~tkEarlyRegister` for `PeriodsStayKept`, `ChecksSeldom` for `AliveWhileIdle`. The
  other ten need none.

The assumptions on constants are named in the modules (`RangeAssumption`, `MaxSentAssumption`,
`RecvSlotsAssumption`, `GenModulusAssumption`, `WindowAssumption`, `PendingQueueAssumption`,
`FatalAssumption`, ...), and TLC evaluates all of them for the values of its runs: those of
the twenty components in `MCComponents!ComponentAssumptions`.

Only model-checked:

- everything that needs fairness, which with ENABLED is out of the prover's reach
  (PacketsArrive, ConnectionsEnd, StopsReturn, ReceiveProgress, the demonstrations of them);
- `RecordsAreTrue`: what the logger writes is a concatenation of unboundedly many batches, a
  recursion over data whose induction the provers cannot be given; the parts of the memory tracer
  and the option files are not proved;
- the composed `TypeOK`, whose parts for ReceiveOrdering, SendWindow, SendPipeline, PendingQueue,
  Retransmission, FatalError and the seven components named above are theorems, and those of the
  other components are not.

## 5. What the checks found

### Runs of the project

- **LostRelease.** `TryFinalizeSessionRelease` (`MultiSocketRUDPCore.Workers.cpp:355`)
  reports success after `Disconnect`, which repeats the drain test and returns if it fails
  now. A completion that begins between the two tests leaves the session RELEASING and
  in no list. SessionRelease, and the theorem `LostOnlyBySecondCheck`, show that this is the
  only way to lose a session.
- **SkippedDisconnect.** `BeginIOShutdown` returns early while a packet is pending, and
  the drain test that follows may find it done: `OnReleased` runs without
  `OnDisconnected`, and the socket is not closed.
- **HooksWithoutConnect.** An I/O error on a RESERVED session is an ordinary disconnect:
  the content gets `OnDisconnected` and `OnReleased` of a session it was never given, and
  the user count, never raised for it, is lowered.
- **TwoSends.** A send that outlives its generation and the new generation hold `ioMode`
  at once, because recycling stores it.
- **AdvertisedWindow.** The window advertised never reflects held packets, since a packet
  is marked only in order, when the window slides over it.

### Demonstrations

These configurations are kept beside the modules; `tlc -config X.cfg M` finds each property
violated. They are what the switches and the exceptions of section 3 stand for.

| Configuration, module | Property | What happens |
|---|---|---|
| StuckPending, SendWindow | EventuallyAcked | Two threads queue in the wrong order (`RUDPSession.cpp:132`); with everything sent acknowledged the packet in front is refused for ever, and everything behind it, the heartbeat too, waits. |
| StaleBytes, SendPipeline | DatagramIsItsPackets | The size of a packet found erased has been added already (`RUDPIOHandler.cpp:515`): those after it are copied behind a gap with the bytes of an earlier datagram. |
| Stranded, SendPipeline | NothingLeftBehind | When the stream comes out empty, `DoSend` gives `ioMode` back without the recheck it makes for an empty queue (`RUDPIOHandler.cpp:238`): a packet pushed meanwhile waits for the next send. |
| MissedStop, BrokerQueue | StopReturns | The stop callback signals without the lock (`RUDPSessionBroker.cpp:131`): the last worker to be stopped may fall asleep after it, and `Stop` joins it for ever. |
| InfoDropped, SessionIssue | IssuedIsTaken | The client's handshake drops what arrived after the Finished (`TLSHelperClient.cpp:80`): an answer in the same recv is lost. |
| RecycledAbort, SessionHandover | AbortsOwn | The cleanup of a failed reservation (`RUDPSessionBroker.cpp:266`, `:186`) reaches the session of the next client of the slot. |
| EarlyTimeout, SessionHandover | WaitsForTimeout | A session reserved after the pass read the clock has a reservation time in its future (`RUDPSession.cpp:319`): the unsigned difference wraps, and it is aborted at once. |
| LostReply, Connection | OneLossIsSurvived | A repeated CONNECT gets no reply (`RUDPSession.cpp:432`): one lost reply ends the attempt of the client. |
| ResizedUnlocked, PendingQueue | TakenOnce | `Initialize` resizes the ring without its mutex (`SessionSendContext.cpp:20`) under a sender that is late. |

### Other properties that do not hold

They are stated in the modules with the reason, for whoever wants to run them; constants are
small ones, 1 or 2 of everything, unless noted.

| Module, property | What the code does |
|---|---|
| SendWindow, HeartbeatsAreCorePackets | A deferred heartbeat is flushed as an ordinary packet and cannot be encoded (`RUDPSession.cpp:258`). |
| SendWindow, UnackedWithinCwnd | Packets older than the highest reply are not counted as outstanding (`RUDPFlowController.cpp:17`); 6 packets, GapThreshold 5. |
| SendWindow, NoGrowthInRecovery | A window read before a timeout overwrites the halved one (`RUDPFlowController.cpp:44`). |
| Retransmission, DisconnectsOwner | The owner is tested and then disconnected with nothing held between: another client's connection is ended (`MultiSocketRUDPCore.Workers.cpp:288`). |
| RtoEstimator, CoversSteadyRtt | Truncated averages leave the RTO below a steady round trip (`RetransmissionTimeoutEstimator.cpp:46`); MaxSteady 8, InMaxRto 9. |
| ClientSend, OutstandingAlwaysBounded | The number outstanding is cast to a BYTE (`RUDPClientCore.cpp:779`): with a window of 255 and two threads past the check, 256 counts as none and the window is open again; 1 sender, window 1, ByteRange 2, 3 packets. |
| ClientSend, FlushedWhenRoom and LowestFirst | A packet queued after the last flush waits for a later one (`RUDPClientCore.cpp:776`), which overtakes it (`:782`). |
| ClientLifecycle, StoppedIsComplete | `isStopped` is set before the threads are joined (`RUDPClientCore.cpp:95`). |
| ClientLifecycle, DisconnectIsFinal | A late reply to CONNECT connects again (`:552`). |
| ClientLifecycle, StartsAnew | A second start keeps the sequences of the first (`:29`). |
| ClientLifecycle, GivenUpIsStopped | A client that gives up before it is connected is never stopped (`:410`); under LiveSpec. |
| ClientReceive, DeadOnlyIfSilent | Only polling moves the sequence the checker compares (`:658`). |
| Heartbeat, ServerStaysAlive | Not with an interval twice as long as the heartbeat's, the documented minimum, nor for a client that only uploads (`RUDPSession.cpp:314`): 3 and 6, or ClientSends. |
| Heartbeat, HeartbeatOnlyWhenSilent | A packet newer than the pass's clock wraps the difference (`RUDPSession.cpp:314`). |
| Ticker, FiresInTime | With Reregister: the pass erases the timer that has just been registered again (`Ticker.cpp:87`). |
| Ticker, FiresAfterInterval and NotBeforeInterval | The first interval counts twice; with EarlyRegister it does not count at all (`Ticker.cpp:98`). |
| BrokerQueue, AcceptedIsClosed | A worker leaves its loop on a stop before it looks at the queue (`RUDPSessionBroker.cpp:134`): queued clients are neither answered nor closed; 3 clients. |
| Logger, CallsReturn | With Overlap: a run between the `fetch_sub` of a stop and its `SetEvent` replaces the events (`Logger.cpp:126`), and the join never ends; 2 users, under LiveSpec. |
| Logger, StopsForLast | With StopTwice: the counter falls below zero (`Logger.cpp:121`). |
| Logger, LogWakes | With Overlap: a log before the events exist signals nothing (`Logger.cpp:69`). |
| ServerLifecycle, ClearsOwnCore | A second stop, or one before the delegate is set, fails its assertion (`MultiSocketRUDPCore.cpp:172`). |
| ServerLifecycle, StoppedMeansOff | A start never clears `isServerStopped` (`MultiSocketRUDPCore.cpp:176`). |
| ServerLifecycle, HeapsFreed | A heartbeat sent while the server stops stays in a heap that is cleared (`MultiSocketRUDPCore.cpp:167`). |
| SessionRIO, QueuesClosed | Completion queues made before the one that failed are not closed (`RIOManager.cpp:69`). |
| OptionFiles, RangeAsWritten | A negative maximum passes as a huge one (`RUDPCoreReadOptionFile.cpp:32`); Largest 2. |

### Seen on the way

The disconnect for a full holding queue is unreachable (`HoldingBounded`). After a handler
has failed while another thread is between its compare-and-swap and marking the session,
the worker goes on with the packets that follow, and acknowledges a retransmission of the
one that failed (the second case of `WindowAt`): `InOrderOnce` and `RepliesAreCumulative`
speak of what was given to the handler, not of what it accepted. Of a second RIO manager
the address buffers of pooled contexts are not registered, a context keeping the
identifier of the first: `InFlightRegistered` is stated for one manager.

## 6. Plan

Done: the modules of section 2, in the order of the table of section 1, and the proofs of
section 4. Next: ClientSend with ReceiveOrdering over one lossy channel, in place of the
assumption each makes of the other.

## 7. Not modelled

- *Packet crypto and session keys*: sequential computation on bytes through BCrypt. A packet
  is its number; a client without the key is refused by a guard.
- *What Schannel, RIO, Winsock and the file system do inside*: they are modelled by how the
  code uses them.
- *The C# client of the bot tester*, a second implementation of the client's protocol, its
  user interface and AI, the example servers and clients, the tools and the tests.
- *Formatting, statistics and log texts*.
- *Memory order*: atomics are sequentially consistent in the models. Plain fields that two
  threads use without a lock (`cwnd`, `inRecovery`) are read and written in separate steps.
- *All option files of one process share the packet codes*, as the static members do.
