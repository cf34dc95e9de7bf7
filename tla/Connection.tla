------------------------------- MODULE Connection ------------------------------
(***************************************************************************)
(* From CONNECT to the end of a connection: one reserved session of the    *)
(* server and the client it was reserved for, over a network that loses,   *)
(* repeats and reorders.                                                   *)
(*                                                                         *)
(* The client registers CONNECT and its first data packet, sends them      *)
(* again until they are replied to, and gives up at the limit.  The server *)
(* handles the packets of a session in one worker; TryConnect there is     *)
(* interleaved with the heartbeat thread, which aborts a reservation that  *)
(* is too old and sends heartbeats, and with the retransmission thread.    *)
(*                                                                         *)
(* One heartbeat stands for all: when it is acknowledged its copies on the *)
(* way, which no longer do anything, are taken away with it.               *)
(***************************************************************************)
EXTENDS Naturals

CONSTANTS
    MaxRetransmissions,     \* maxPacketRetransmissionCount, of both sides
    CountedLosses           \* bound of the model: the history counts this many losses

ConnectionAssumption ==
    MaxRetransmissions \in Nat \ {0} /\ CountedLosses \in Nat

VARIABLES
    state,              \* of the session: "RESERVED", "CONNECTED", "RELEASING"
    worker,             \* where the receive worker is in TryConnect
    hasClientAddr, nextExpected, held,      \* held: data 1 waits in the orderer
    onConnected, delivered,     \* history: calls of OnConnected, of the handler of data 1
    seesTimeout,        \* the heartbeat thread has found the reservation too old
    aborted,            \* history: the reservation was aborted
    heartbeat,          \* count of retransmissions of the heartbeat, or Unsent
    isConnected, gaveUp, recvThread,    \* the client
    tracked,            \* the count of each of its packets, or Unsent, or Acked
    toServer, toClient,
    lost                \* history: datagrams lost, up to CountedLosses

sessionVars == <<state, hasClientAddr, nextExpected, held, onConnected, delivered>>
heartbeatVars == <<seesTimeout, aborted, heartbeat>>
clientVars == <<isConnected, gaveUp, recvThread, tracked>>
networkVars == <<toServer, toClient, lost>>
vars == <<sessionVars, worker, heartbeatVars, clientVars, networkVars>>

ClientPackets == {"connect", "data"}

\* In place of a count: not registered yet, not registered any more.
Unsent == MaxRetransmissions + 1
Acked == MaxRetransmissions + 2

Init ==
    /\ state = "RESERVED" /\ worker = "idle" /\ hasClientAddr = FALSE
    /\ nextExpected = 0 /\ held = FALSE /\ onConnected = 0 /\ delivered = 0
    /\ seesTimeout = FALSE /\ aborted = FALSE /\ heartbeat = Unsent
    /\ isConnected = FALSE /\ gaveUp = FALSE /\ recvThread = TRUE
    /\ tracked = [p \in ClientPackets |-> Unsent]
    /\ toServer = {} /\ toClient = {} /\ lost = 0

-----------------------------------------------------------------------------
(* The client.                                                             *)

\* CONNECT has sequence 0 and the data packet 1; the application may send before the reply.
ClientSends(p) ==
    /\ ~gaveUp /\ tracked[p] = Unsent
    /\ p = "data" => tracked["connect"] # Unsent
    /\ tracked' = [tracked EXCEPT ![p] = 0]
    /\ toServer' = toServer \union {p}
    /\ UNCHANGED <<sessionVars, worker, heartbeatVars, isConnected, gaveUp, recvThread,
                   toClient, lost>>

ClientRetransmits(p) ==
    /\ ~gaveUp /\ tracked[p] \notin {Unsent, Acked}
    /\ IF tracked[p] + 1 >= MaxRetransmissions
       THEN gaveUp' = TRUE /\ isConnected' = FALSE /\ UNCHANGED <<tracked, toServer>>
       ELSE /\ tracked' = [tracked EXCEPT ![p] = @ + 1]
            /\ toServer' = toServer \union {p}
            /\ UNCHANGED <<gaveUp, isConnected>>
    /\ UNCHANGED <<sessionVars, worker, heartbeatVars, recvThread, toClient, lost>>

\* A datagram has come; the thread looks at the flag only after it has handled it.
TakesDatagram == recvThread' = ~gaveUp

ClientTakesReply(p) ==
    /\ recvThread /\ TakesDatagram
    /\ IF p = "connect" THEN "connectReply" \in toClient ELSE "dataReply" \in toClient
    /\ tracked' = [tracked EXCEPT ![p] = Acked]
    /\ isConnected' = (isConnected \/ p = "connect")
    /\ UNCHANGED <<sessionVars, worker, heartbeatVars, gaveUp, networkVars>>

ClientTakesHeartbeat ==
    /\ recvThread /\ TakesDatagram /\ "heartbeat" \in toClient
    /\ toServer' = toServer \union {"heartbeatReply"}
    /\ UNCHANGED <<sessionVars, worker, heartbeatVars, isConnected, gaveUp, tracked, toClient,
                   lost>>

\* One DISCONNECT, which is not sent again.
ClientDisconnects ==
    /\ isConnected /\ isConnected' = FALSE
    /\ toServer' = toServer \union {"disconnect"}
    /\ UNCHANGED <<sessionVars, worker, heartbeatVars, gaveUp, recvThread, tracked,
                   toClient, lost>>

-----------------------------------------------------------------------------
(* The worker of the session: one packet at a time.                        *)

WorkerTakes(m) == worker = "idle" /\ m \in toServer

\* Mutant: a session that was connected already is connected again.
TryConnect_AnyState ==
    /\ WorkerTakes("connect") /\ state # "RELEASING"
    /\ state' = "CONNECTED" /\ worker' = "address"
    /\ UNCHANGED <<hasClientAddr, nextExpected, held, onConnected, delivered,
                   heartbeatVars, clientVars, networkVars>>

\* The compare-and-swap from RESERVED; a CONNECT that comes again changes nothing.
TryConnect ==
    /\ WorkerTakes("connect") /\ state = "RESERVED"
    /\ state' = "CONNECTED" /\ worker' = "address"
    /\ UNCHANGED <<hasClientAddr, nextExpected, held, onConnected, delivered,
                   heartbeatVars, clientVars, networkVars>>

\* No reply.
RepeatedConnect ==
    /\ WorkerTakes("connect") /\ state # "RESERVED"
    /\ toServer' = toServer \ {"connect"}
    /\ UNCHANGED <<sessionVars, worker, heartbeatVars, clientVars, toClient, lost>>

SetClientAddr ==
    /\ worker = "address" /\ worker' = "reset" /\ hasClientAddr' = TRUE
    /\ UNCHANGED <<state, nextExpected, held, onConnected, delivered, heartbeatVars,
                   clientVars, networkVars>>

\* The orderer and the flow manager start at 1 and drop what they hold.
ResetOrder ==
    /\ worker = "reset" /\ worker' = "callback" /\ nextExpected' = 1 /\ held' = FALSE
    /\ UNCHANGED <<state, hasClientAddr, onConnected, delivered, heartbeatVars, clientVars,
                   networkVars>>

CallOnConnected ==
    /\ worker = "callback" /\ worker' = "reply" /\ onConnected' = onConnected + 1
    /\ UNCHANGED <<state, hasClientAddr, nextExpected, held, delivered, heartbeatVars,
                   clientVars, networkVars>>

\* Not registered; dropped once the session is being released.
ReplyToConnect ==
    /\ worker = "reply" /\ worker' = "idle"
    /\ \/ state = "RELEASING" /\ UNCHANGED toClient
       \/ toClient' = toClient \union {"connectReply"}
    /\ UNCHANGED <<sessionVars, heartbeatVars, clientVars, toServer, lost>>

CanProcessPacket == hasClientAddr /\ state # "RELEASING"

\* Data 1: an old one is replied to again, one ahead is held, the next is handled.
OnRecvPacket ==
    /\ WorkerTakes("data") /\ CanProcessPacket
    /\ held' = (held \/ nextExpected < 1)
    /\ IF nextExpected = 1 THEN delivered' = delivered + 1 /\ nextExpected' = 2
       ELSE UNCHANGED <<delivered, nextExpected>>
    /\ toClient' = IF nextExpected < 1 THEN toClient ELSE toClient \union {"dataReply"}
    /\ UNCHANGED <<state, hasClientAddr, onConnected, worker, heartbeatVars, clientVars,
                   toServer, lost>>

OnSendReply ==
    /\ WorkerTakes("heartbeatReply") /\ CanProcessPacket /\ heartbeat # Unsent
    /\ heartbeat' = Unsent
    /\ toServer' = toServer \ {"heartbeatReply"} /\ toClient' = toClient \ {"heartbeat"}
    /\ UNCHANGED <<sessionVars, worker, seesTimeout, aborted, clientVars, lost>>

Disconnect ==
    /\ WorkerTakes("disconnect") /\ CanProcessPacket /\ state' = "RELEASING"
    /\ UNCHANGED <<hasClientAddr, nextExpected, held, onConnected, delivered, worker,
                   heartbeatVars, clientVars, networkVars>>

-----------------------------------------------------------------------------
(* The heartbeat and the retransmission thread of the server.              *)

CheckReservedSessionTimeout ==
    /\ state = "RESERVED" /\ ~seesTimeout /\ seesTimeout' = TRUE
    /\ UNCHANGED <<sessionVars, worker, aborted, heartbeat, clientVars, networkVars>>

\* Mutant: the state is written without the compare-and-swap.
AbortReservedSession_Writes ==
    /\ seesTimeout /\ seesTimeout' = FALSE
    /\ state' = "RELEASING" /\ aborted' = TRUE
    /\ UNCHANGED <<hasClientAddr, nextExpected, held, onConnected, delivered, worker,
                   heartbeat, clientVars, networkVars>>

AbortReservedSession ==
    /\ seesTimeout /\ seesTimeout' = FALSE
    /\ IF state = "RESERVED" THEN state' = "RELEASING" /\ aborted' = TRUE
       ELSE UNCHANGED <<state, aborted>>
    /\ UNCHANGED <<hasClientAddr, nextExpected, held, onConnected, delivered, worker,
                   heartbeat, clientVars, networkVars>>

\* To nowhere while the address is not set; the retransmission then finds it.
Transmit == toClient' = IF hasClientAddr THEN toClient \union {"heartbeat"} ELSE toClient

SendHeartbeatPacket ==
    /\ state = "CONNECTED" /\ heartbeat = Unsent /\ heartbeat' = 0
    /\ Transmit
    /\ UNCHANGED <<sessionVars, worker, seesTimeout, aborted, clientVars, toServer, lost>>

ProcessRetransmission ==
    /\ heartbeat # Unsent /\ state # "RELEASING"
    /\ IF heartbeat + 1 >= MaxRetransmissions
       THEN state' = "RELEASING" /\ UNCHANGED <<heartbeat, toClient>>
       ELSE heartbeat' = heartbeat + 1 /\ Transmit /\ UNCHANGED state
    /\ UNCHANGED <<hasClientAddr, nextExpected, held, onConnected, delivered, worker,
                   seesTimeout, aborted, clientVars, toServer, lost>>

Lose ==
    /\ \/ \E m \in toServer : toServer' = toServer \ {m} /\ UNCHANGED toClient
       \/ \E m \in toClient : toClient' = toClient \ {m} /\ UNCHANGED toServer
    /\ lost' = IF lost < CountedLosses THEN lost + 1 ELSE lost
    /\ UNCHANGED <<sessionVars, worker, heartbeatVars, clientVars>>

-----------------------------------------------------------------------------
Client ==
    \/ \E p \in ClientPackets : ClientSends(p) \/ ClientRetransmits(p) \/ ClientTakesReply(p)
    \/ ClientTakesHeartbeat \/ ClientDisconnects

FinishConnect == SetClientAddr \/ ResetOrder \/ CallOnConnected \/ ReplyToConnect

Server ==
    \/ TryConnect \/ RepeatedConnect \/ FinishConnect \/ OnRecvPacket \/ OnSendReply \/ Disconnect
    \/ CheckReservedSessionTimeout \/ AbortReservedSession
    \/ SendHeartbeatPacket \/ ProcessRetransmission

Next == Client \/ Server \/ Lose

Spec == Init /\ [][Next]_vars

\* Every thread runs; a packet that is sent again and again arrives.
Fairness ==
    /\ \A p \in ClientPackets : WF_vars(ClientRetransmits(p)) /\ SF_vars(ClientTakesReply(p))
    /\ SF_vars(TryConnect) /\ WF_vars(FinishConnect) /\ SF_vars(OnRecvPacket)
    /\ SF_vars(OnSendReply) /\ SF_vars(ClientTakesHeartbeat)
    /\ WF_vars(CheckReservedSessionTimeout) /\ WF_vars(AbortReservedSession)
    /\ WF_vars(SendHeartbeatPacket) /\ WF_vars(ProcessRetransmission)

\* The timeout of the client is longer than a round trip: it sends a packet again only
\* when neither the packet nor the reply is under way.
PunctualNext ==
    /\ Next
    /\ \A p \in ClientPackets :
          ClientRetransmits(p) => p \notin toServer /\ worker = "idle"
                                    /\ toClient \intersect {"connectReply", "dataReply"} = {}

PunctualSpec == Init /\ [][PunctualNext]_vars

LiveSpec == Spec /\ Fairness

-----------------------------------------------------------------------------
TypeOK ==
    /\ state \in {"RESERVED", "CONNECTED", "RELEASING"}
    /\ worker \in {"idle", "address", "reset", "callback", "reply"}
    /\ {hasClientAddr, held, seesTimeout, aborted, isConnected, gaveUp, recvThread}
          \subseteq BOOLEAN
    /\ nextExpected \in 0 .. 2 /\ onConnected \in 0 .. 1 /\ delivered \in Nat
    /\ heartbeat \in 0 .. MaxRetransmissions - 1 \union {Unsent}
    /\ tracked \in [ClientPackets -> 0 .. MaxRetransmissions - 1 \union {Unsent, Acked}]
    /\ toServer \subseteq ClientPackets \union {"heartbeatReply", "disconnect"}
    /\ toClient \subseteq {"connectReply", "dataReply", "heartbeat"}
    /\ lost \in 0 .. CountedLosses

\* OnConnected comes before the handler of the first packet, and that packet is handled
\* once, although CONNECT and data arrive in any order and repeatedly.
HandledInOrder == delivered <= onConnected

\* The first packet of a client never waits in the orderer for one before it, which nobody
\* would send: the session accepts packets only after the orderer has been set to 1.
FirstPacketNotHeld == ~held

\* A reservation is either aborted or connected, however close the timeout and CONNECT are.
AbortExcludesConnect == aborted => onConnected = 0 /\ worker = "idle" /\ ~hasClientAddr

\* A client that counts as connected has a session that was connected for it.
ClientConnectedImpliesSession == isConnected => onConnected = 1 /\ state # "RESERVED"

\* A reservation ends, and a client that tries to connect comes to a result.
ConnectEnded == state # "RESERVED" /\ (tracked["connect"] \in {Unsent, Acked} \/ gaveUp)

\* The session of a client that has given up is released, although its receive thread
\* still handles, and replies to, one more datagram.
NotOrphaned == gaveUp => state = "RELEASING"

\* The documentation of SendPacketInfo: replies are not registered, for the other side
\* sends the packet again and is replied to again.  So the loss of one datagram does not
\* make a client give up connecting to a session that has accepted it.
OneLossIsSurvived ==
    state = "CONNECTED" /\ tracked["connect"] # Acked /\ lost <= 1 => ~gaveUp
=============================================================================
