------------------------------- MODULE Heartbeat -------------------------------
(***************************************************************************)
(* How the two sides of a connection watch each other.  The heartbeat      *)
(* thread of the server goes over the sessions once per interval and sends *)
(* a heartbeat to one it has heard nothing from for an interval.  The      *)
(* client counts the server as dead when, between two of its checks, the   *)
(* sequence of what it has received has not moved.                         *)
(*                                                                         *)
(* Here nothing is lost: a packet arrives within MaxDelay ticks of the     *)
(* clock, both threads are punctual and the application of the client      *)
(* reads what arrives.                                                     *)
(***************************************************************************)
EXTENDS Integers, FiniteSets

CONSTANTS
    HeartbeatThreadSleepMs, ServerAliveCheckMs, MaxDelay,   \* in ticks
    ClientSends,        \* whether the application of the client sends data
    MaxTime             \* bound of the model

HeartbeatAssumption ==
    /\ {HeartbeatThreadSleepMs, ServerAliveCheckMs, MaxTime} \subseteq Nat \ {0}
    /\ MaxDelay \in Nat /\ MaxDelay < HeartbeatThreadSleepMs
    /\ ClientSends \in BOOLEAN

VARIABLES
    now,
    passAt, passNow,    \* when the next pass begins; what it read on the clock, or -1
    lastReceivedPacketTime,
    toClient, toServer, \* when each packet under way was sent
    nextRecvPacketSequence, beforeCheckSequence, checkAt, serverAlive

serverVars == <<passAt, passNow, lastReceivedPacketTime>>
networkVars == <<toClient, toServer>>
clientVars == <<nextRecvPacketSequence, beforeCheckSequence, checkAt, serverAlive>>
vars == <<now, serverVars, networkVars, clientVars>>

\* The session is connected at time 0, somewhere between two passes.
Init ==
    /\ now = 0 /\ passAt \in 0 .. HeartbeatThreadSleepMs - 1 /\ passNow = -1
    /\ lastReceivedPacketTime = 0
    /\ toClient = {} /\ toServer = {}
    /\ nextRecvPacketSequence = 1 /\ beforeCheckSequence = 0
    /\ checkAt = ServerAliveCheckMs /\ serverAlive = TRUE

-----------------------------------------------------------------------------
(* The heartbeat thread.                                                   *)

PassBegins ==
    /\ now = passAt /\ passNow = -1 /\ passNow' = now
    /\ UNCHANGED <<now, passAt, lastReceivedPacketTime, networkVars, clientVars>>

\* A difference of unsigned numbers: it wraps, here at 2^16, which stands for 2^64.
Elapsed(a, b) == (a - b) % 65536

\* Mutant: only a silence longer than the interval counts.
NeedToSendHeartbeat_Longer ==
    Elapsed(passNow, lastReceivedPacketTime) > HeartbeatThreadSleepMs + MaxDelay

NeedToSendHeartbeat ==
    Elapsed(passNow, lastReceivedPacketTime) >= HeartbeatThreadSleepMs

\* The pass comes to the session; then the thread sleeps until the next pass.
SendHeartbeatPacket ==
    /\ passNow # -1 /\ passNow' = -1 /\ passAt' = passAt + HeartbeatThreadSleepMs
    /\ toClient' = IF NeedToSendHeartbeat THEN toClient \union {now} ELSE toClient
    /\ UNCHANGED <<now, lastReceivedPacketTime, toServer, clientVars>>

\* Whatever decodes counts: data, replies.
RefreshLastReceivedPacketTime(t) ==
    /\ t \in toServer /\ toServer' = toServer \ {t}
    /\ lastReceivedPacketTime' = now
    /\ UNCHANGED <<now, passAt, passNow, toClient, clientVars>>

-----------------------------------------------------------------------------
(* The client.                                                             *)

\* A heartbeat is replied to, and passed over by GetReceivedPacket.
ClientReceives(t) ==
    /\ serverAlive /\ t \in toClient /\ toClient' = toClient \ {t}
    /\ toServer' = toServer \union {now}
    /\ nextRecvPacketSequence' = nextRecvPacketSequence + 1
    /\ UNCHANGED <<now, serverVars, beforeCheckSequence, checkAt, serverAlive>>

\* Data; the reply to it is no packet of the sequence the checker looks at.
ClientSendsData ==
    /\ ClientSends /\ serverAlive
    /\ toServer' = toServer \union {now}
    /\ UNCHANGED <<now, serverVars, toClient, clientVars>>

IsServerAlive ==
    /\ serverAlive' = (serverAlive /\ nextRecvPacketSequence # beforeCheckSequence)
    /\ beforeCheckSequence' = nextRecvPacketSequence

CheckServer ==
    /\ now = checkAt /\ checkAt' = checkAt + ServerAliveCheckMs
    /\ IsServerAlive
    /\ UNCHANGED <<now, serverVars, networkVars, nextRecvPacketSequence>>

-----------------------------------------------------------------------------
\* The clock waits for what is due: a pass to begin, a check, a packet MaxDelay old.  A
\* pass that has begun may come to the session a tick later.
Tick ==
    /\ now < MaxTime /\ now' = now + 1
    /\ IF passNow = -1 THEN passAt > now ELSE passNow = now
    /\ checkAt > now
    /\ \A t \in toServer : now - t < MaxDelay
    /\ serverAlive => \A t \in toClient : now - t < MaxDelay
    /\ UNCHANGED <<serverVars, networkVars, clientVars>>

Next ==
    \/ Tick \/ PassBegins \/ SendHeartbeatPacket \/ CheckServer \/ ClientSendsData
    \/ \E t \in toServer : RefreshLastReceivedPacketTime(t)
    \/ \E t \in toClient : ClientReceives(t)

Spec == Init /\ [][Next]_vars

-----------------------------------------------------------------------------
TypeOK ==
    /\ now \in 0 .. MaxTime /\ passNow \in -1 .. now /\ passAt \in Nat /\ checkAt \in Nat
    /\ lastReceivedPacketTime \in 0 .. now
    /\ toClient \subseteq 0 .. now /\ toServer \subseteq 0 .. now
    /\ nextRecvPacketSequence \in 1 .. 2 + now \div HeartbeatThreadSleepMs
    /\ beforeCheckSequence \in 0 .. nextRecvPacketSequence
    /\ serverAlive \in BOOLEAN

\* The server hears from a client that is there at least every other pass.
HeardEveryOtherPass ==
    serverAlive =>
        now - lastReceivedPacketTime <= 2 * HeartbeatThreadSleepMs + 2 * MaxDelay + 1

\* A client whose server is there does not declare it dead.
ServerStaysAlive == serverAlive

\* A session that is being heard from is sent no heartbeats.
HeartbeatOnlyWhenSilent ==
    [][toClient' \ toClient # {} =>
          now - lastReceivedPacketTime >= HeartbeatThreadSleepMs]_vars
=============================================================================
