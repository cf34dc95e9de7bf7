---------------------------- MODULE SessionHandover -----------------------------
(***************************************************************************)
(* The pool of sessions between the three that hand its slots on: the      *)
(* workers of the session broker, which take a free slot, reserve it for a *)
(* client and give it up when something fails; the heartbeat thread, which *)
(* aborts reservations that are too old; and StopServer, which closes all  *)
(* sessions and waits until every slot is free again.                      *)
(*                                                                         *)
(* A worker and the heartbeat thread hold a pointer to the slot, never the *)
(* generation of its session: a slot may have been released and reserved   *)
(* for another client between two of their steps.                          *)
(***************************************************************************)
EXTENDS Integers, Sequences, FiniteSets, SequencesExt

CONSTANTS
    Slots,      \* how many sessions the pool has
    Workers,
    Clients,
    Timeout,    \* reservedSessionTimeoutMs
    MaxTime,    \* bound: the clock of a run
    Width,      \* the clock is unsigned: differences are modulo Width
    Faults      \* the calls that may fail in a run

SessionHandoverAssumption ==
    /\ {Slots, Timeout, MaxTime} \subseteq Nat \ {0}
    /\ Width \in Nat /\ Width > MaxTime + Timeout
    /\ Faults \subseteq {"reserve", "send", "close"}

VARIABLES
    state,          \* of each session
    reservedFor,    \* ghost: the client a session was reserved for last, or 0
    reservedAt,     \* sessionReservedTime
    free,           \* unusedSessionIdList
    pc, client, session, answer,    \* of each worker
    info,           \* the slot a client was told of, or 0
    arriving,       \* the clients the broker has not seen
    clock,
    heartbeat,      \* [slot, now, due]: the pass over the sessions, slot 0 between two
    stop            \* [step, slot]

poolVars == <<state, reservedFor, reservedAt, free>>
workerVars == <<pc, client, session, answer>>
vars == <<poolVars, workerVars, info, arriving, clock, heartbeat, stop>>

Slot == 1 .. Slots

\* CreateSessionPool.
Init ==
    /\ state = [s \in Slot |-> "DISCONNECTED"]
    /\ reservedFor = [s \in Slot |-> 0] /\ reservedAt = [s \in Slot |-> 0]
    /\ free = [i \in Slot |-> i]
    /\ pc = [w \in Workers |-> "idle"] /\ client = [w \in Workers |-> 0]
    /\ session = [w \in Workers |-> 0] /\ answer = [w \in Workers |-> "none"]
    /\ info = [c \in Clients |-> 0] /\ arriving = Clients /\ clock = 0
    /\ heartbeat = [slot |-> 0, now |-> 0, due |-> FALSE]
    /\ stop = [step |-> "running", slot |-> 0]

\* Time passes between any two steps, of a worker and of a pass over the sessions.
Tick ==
    /\ clock < MaxTime /\ clock' = clock + 1
    /\ UNCHANGED <<poolVars, workerVars, info, arriving, heartbeat, stop>>

-----------------------------------------------------------------------------
(* The sessions.                                                           *)

\* TryAbortReserved and TryTransitionToReleasing.
TryAbortReserved(s) ==
    state' = [state EXCEPT ![s] = IF @ = "RESERVED" THEN "RELEASING" ELSE @]
TryTransitionToReleasing(s) ==
    state' = [state EXCEPT ![s] = IF @ \in {"RESERVED", "CONNECTED"} THEN "RELEASING" ELSE @]

\* TryConnect: only the client the session was reserved for has its key.
Connect(c) ==
    /\ info[c] # 0 /\ state[info[c]] = "RESERVED" /\ reservedFor[info[c]] = c
    /\ state' = [state EXCEPT ![info[c]] = "CONNECTED"]
    /\ UNCHANGED <<reservedFor, reservedAt, free, workerVars, info, arriving, clock, heartbeat, stop>>

\* A connected session ends for a reason of its own.
Ends(s) ==
    /\ state[s] = "CONNECTED" /\ TryTransitionToReleasing(s)
    /\ UNCHANGED <<reservedFor, reservedAt, free, workerVars, info, arriving, clock, heartbeat, stop>>

\* Mutant: the slot of a session that never connected is not given back.
ReleaseSession_ConnectedOnly(s) ==
    /\ state[s] = "RELEASING"
    /\ state' = [state EXCEPT ![s] = "DISCONNECTED"]
    /\ reservedFor' = [reservedFor EXCEPT ![s] = 0]
    /\ reservedAt' = [reservedAt EXCEPT ![s] = 0]
    /\ free' = IF \E c \in Clients : info[c] = s THEN Append(free, s) ELSE free
    /\ UNCHANGED <<workerVars, info, arriving, clock, heartbeat, stop>>

\* The release thread, once the I/O of the session has drained (SessionLifecycle).
ReleaseSession(s) ==
    /\ state[s] = "RELEASING"
    /\ state' = [state EXCEPT ![s] = "DISCONNECTED"]
    /\ reservedFor' = [reservedFor EXCEPT ![s] = 0]
    /\ reservedAt' = [reservedAt EXCEPT ![s] = 0]
    /\ free' = Append(free, s)
    /\ UNCHANGED <<workerVars, info, arriving, clock, heartbeat, stop>>

-----------------------------------------------------------------------------
(* HandleClientConnection, on a worker of the broker.                      *)

GoTo(w, step) == pc' = [pc EXCEPT ![w] = step]

Accept(w, c) ==
    /\ stop.step = "running" /\ pc[w] = "idle" /\ c \in arriving
    /\ arriving' = arriving \ {c} /\ client' = [client EXCEPT ![w] = c] /\ GoTo(w, "acquire")
    /\ UNCHANGED <<poolVars, session, answer, info, clock, heartbeat, stop>>

AcquireSession(w) ==
    /\ pc[w] = "acquire"
    /\ IF free = << >>
         THEN /\ session' = [session EXCEPT ![w] = 0] /\ GoTo(w, "send")
              /\ answer' = [answer EXCEPT ![w] = "SERVER_FULL"] /\ UNCHANGED free
         ELSE /\ session' = [session EXCEPT ![w] = Head(free)] /\ GoTo(w, "init")
              /\ free' = Tail(free) /\ UNCHANGED answer
    /\ UNCHANGED <<state, reservedFor, reservedAt, client, info, arriving, clock, heartbeat, stop>>

\* InitReserveSession: the time and the state first.
SetReserved(w) ==
    /\ pc[w] = "init" /\ GoTo(w, "resources")
    /\ state' = [state EXCEPT ![session[w]] = "RESERVED"]
    /\ reservedFor' = [reservedFor EXCEPT ![session[w]] = client[w]]
    /\ reservedAt' = [reservedAt EXCEPT ![session[w]] = clock]
    /\ UNCHANGED <<free, client, session, answer, info, arriving, clock, heartbeat, stop>>

\* The socket, the RIO resources and the first receive; a failure aborts what was reserved.
InitReserveSession(w) ==
    /\ pc[w] = "resources"
    /\ \/ GoTo(w, "crypto") /\ UNCHANGED <<state, answer>>
       \/ /\ "reserve" \in Faults /\ GoTo(w, "test") /\ TryAbortReserved(session[w])
          /\ answer' = [answer EXCEPT ![w] = "FAILED"]
    /\ UNCHANGED <<reservedFor, reservedAt, free, client, session, info, arriving, clock, heartbeat,
                   stop>>

\* The key of the session; then the timeout starts again.
InitSessionCrypto(w) ==
    /\ pc[w] = "crypto"
    /\ \/ /\ GoTo(w, "send") /\ answer' = [answer EXCEPT ![w] = "SUCCESS"]
          /\ reservedAt' = [reservedAt EXCEPT ![session[w]] = clock]
       \/ /\ "reserve" \in Faults /\ GoTo(w, "test")
          /\ answer' = [answer EXCEPT ![w] = "FAILED"] /\ UNCHANGED reservedAt
    /\ UNCHANGED <<state, reservedFor, free, client, session, info, arriving, clock, heartbeat, stop>>

TestReserved(w) ==
    /\ pc[w] = "test"
    /\ GoTo(w, IF state[session[w]] = "RESERVED" THEN "abort" ELSE "disconnect")
    /\ UNCHANGED <<poolVars, client, session, answer, info, arriving, clock, heartbeat, stop>>

CleanUp(w) ==
    /\ \/ pc[w] = "abort" /\ TryAbortReserved(session[w])
       \/ pc[w] = "disconnect" /\ TryTransitionToReleasing(session[w])
    /\ GoTo(w, "send")
    /\ UNCHANGED <<reservedFor, reservedAt, free, client, session, answer, info, arriving, clock,
                   heartbeat, stop>>

Tell(w) ==
    info' = IF answer[w] = "SUCCESS" THEN [info EXCEPT ![client[w]] = session[w]] ELSE info
Done(w) ==
    /\ GoTo(w, "idle") /\ client' = [client EXCEPT ![w] = 0]
    /\ session' = [session EXCEPT ![w] = 0] /\ answer' = [answer EXCEPT ![w] = "none"]

SendSessionInfoToClient(w) ==
    /\ pc[w] = "send" /\ Tell(w) /\ Done(w)
    /\ UNCHANGED <<poolVars, arriving, clock, heartbeat, stop>>

\* The answer could not be sent, or the close_notify behind it, which the client need not see.
SendFails(w) ==
    /\ pc[w] = "send" /\ GoTo(w, "giveUp")
    /\ \/ "send" \in Faults /\ UNCHANGED info
       \/ "close" \in Faults /\ Tell(w)
    /\ UNCHANGED <<poolVars, client, session, answer, arriving, clock, heartbeat, stop>>

GiveUp(w) ==
    /\ pc[w] = "giveUp" /\ Done(w)
    /\ IF session[w] = 0 THEN UNCHANGED state ELSE TryAbortReserved(session[w])
    /\ UNCHANGED <<reservedFor, reservedAt, free, info, arriving, clock, heartbeat, stop>>

-----------------------------------------------------------------------------
(* HeartbeatCheck: one time for the whole pass.                            *)

PassBegins ==
    /\ heartbeat.slot = 0 /\ stop.step # "stopped"
    /\ heartbeat' = [slot |-> 1, now |-> clock, due |-> FALSE]
    /\ UNCHANGED <<poolVars, workerVars, info, arriving, clock, stop>>

NextSlot == [heartbeat EXCEPT !.slot = IF @ = Slots THEN 0 ELSE @ + 1, !.due = FALSE]

CheckReservedSessionTimeout(s) ==
    state[s] = "RESERVED" /\ (heartbeat.now - reservedAt[s]) % Width >= Timeout

HeartbeatCheck ==
    /\ heartbeat.slot # 0 /\ ~ heartbeat.due
    /\ heartbeat' = IF CheckReservedSessionTimeout(heartbeat.slot)
                      THEN [heartbeat EXCEPT !.due = TRUE] ELSE NextSlot
    /\ UNCHANGED <<poolVars, workerVars, info, arriving, clock, stop>>

AbortTimedOut ==
    /\ heartbeat.slot # 0 /\ heartbeat.due /\ TryAbortReserved(heartbeat.slot)
    /\ heartbeat' = NextSlot
    /\ UNCHANGED <<reservedFor, reservedAt, free, workerVars, info, arriving, clock, stop>>

-----------------------------------------------------------------------------
(* StopServer: the broker, then every session, then the wait.              *)

\* Stop of the broker waits for its workers.
StopServer ==
    /\ stop.step = "running" /\ \A w \in Workers : pc[w] = "idle"
    /\ stop' = [step |-> "testReserved", slot |-> 1]
    /\ UNCHANGED <<poolVars, workerVars, info, arriving, clock, heartbeat>>

Closed ==
    LET s == stop.slot
        next == IF s = Slots THEN [step |-> "wait", slot |-> 0]
                ELSE [step |-> "testReserved", slot |-> s + 1] IN
    \/ /\ stop.step = "testReserved" /\ UNCHANGED state
       /\ stop' = [stop EXCEPT !.step =
            IF state[s] = "RESERVED" THEN "abort" ELSE "testConnected"]
    \/ stop.step = "abort" /\ TryAbortReserved(s) /\ stop' = [stop EXCEPT !.step = "testConnected"]
    \/ /\ stop.step = "testConnected" /\ UNCHANGED state
       /\ stop' = IF state[s] = "CONNECTED" THEN [stop EXCEPT !.step = "disconnect"] ELSE next
    \/ stop.step = "disconnect" /\ TryTransitionToReleasing(s) /\ stop' = next

CloseAllSessions ==
    /\ Closed
    /\ UNCHANGED <<reservedFor, reservedAt, free, workerVars, info, arriving, clock, heartbeat>>

WaitForAllSessionsReleased ==
    /\ stop.step = "wait" /\ Len(free) >= Slots /\ stop' = [stop EXCEPT !.step = "stopped"]
    /\ UNCHANGED <<poolVars, workerVars, info, arriving, clock, heartbeat>>

-----------------------------------------------------------------------------
Worker(w) ==
    \/ AcquireSession(w) \/ SetReserved(w) \/ InitReserveSession(w) \/ InitSessionCrypto(w)
    \/ TestReserved(w) \/ CleanUp(w) \/ SendSessionInfoToClient(w) \/ SendFails(w) \/ GiveUp(w)

Stopping == CloseAllSessions \/ WaitForAllSessionsReleased

Next ==
    \/ Tick \/ PassBegins \/ HeartbeatCheck \/ AbortTimedOut \/ StopServer \/ Stopping
    \/ \E c \in Clients : Connect(c)
    \/ \E s \in Slot : Ends(s) \/ ReleaseSession(s)
    \/ \E w \in Workers : Worker(w) \/ \E c \in Clients : Accept(w, c)

\* The release thread and the thread that stops the server are scheduled; no client
\* has to do anything.
Fairness ==
    WF_vars(Stopping) /\ \A s \in Slot : WF_vars(ReleaseSession(s))

Spec == Init /\ [][Next]_vars /\ Fairness

-----------------------------------------------------------------------------
TypeOK ==
    /\ state \in [Slot -> {"DISCONNECTED", "RESERVED", "CONNECTED", "RELEASING"}]
    /\ reservedFor \in [Slot -> Clients \union {0}] /\ reservedAt \in [Slot -> 0 .. MaxTime]
    /\ free \in Seq(Slot) /\ Len(free) <= Slots
    /\ session \in [Workers -> 0 .. Slots] /\ client \in [Workers -> Clients \union {0}]
    /\ info \in [Clients -> 0 .. Slots] /\ arriving \subseteq Clients
    /\ heartbeat.slot \in 0 .. Slots /\ heartbeat.now \in 0 .. clock /\ stop.slot \in 0 .. Slots

\* Every slot has one keeper, whoever aborted it and however often: the list of unused
\* ids has it once, or one worker is about to reserve it, or its session is in use.
Keepers(s) ==
    Cardinality({i \in 1 .. Len(free) : free[i] = s})
      + Cardinality({w \in Workers : pc[w] = "init" /\ session[w] = s})
      + IF state[s] = "DISCONNECTED" THEN 0 ELSE 1
NoSlotLeaks == \A s \in Slot : Keepers(s) = 1

\* StopServer returns: whatever connects or fails while it closes the sessions, all of
\* them are released in the end.
StopDone == stop.step \in {"running", "stopped"}

\* A worker that gives a session up gives up the one it reserved, not the reservation or
\* the connection another client has by then.
GivesUpOwn(w, s) ==
    state[s] \in {"RESERVED", "CONNECTED"} /\ state'[s] = "RELEASING" => reservedFor[s] = client[w]
AbortsOwn == [][\A w \in Workers :
    pc'[w] # pc[w] => \A s \in Slot : GivesUpOwn(w, s)]_vars

HeartbeatAborts(s) ==
    /\ heartbeat.due /\ heartbeat'.slot # heartbeat.slot
    /\ state[s] = "RESERVED" /\ state'[s] = "RELEASING"

\* Of the reservations that were there when its pass began the heartbeat thread aborts those
\* only whose clients have had the whole timeout to connect, however the clock and the slots
\* move on during the pass.  One made since, in a slot the pass has not reached, or between
\* the check of a slot and the abort, has no such protection.
OldReservationsWait == [][\A s \in Slot :
    HeartbeatAborts(s) /\ reservedAt[s] < heartbeat.now => clock - reservedAt[s] >= Timeout]_vars

\* The same of every reservation.
WaitsForTimeout == [][\A s \in Slot :
    HeartbeatAborts(s) => clock - reservedAt[s] >= Timeout]_vars

=============================================================================
