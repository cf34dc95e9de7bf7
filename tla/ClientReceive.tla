----------------------------- MODULE ClientReceive -----------------------------
(***************************************************************************)
(* The receiving side of RUDPClientCore.  The receive thread takes the     *)
(* packets of a datagram one after the other, queues each in               *)
(* recvPacketHoldingQueue and replies to it; the application takes packets *)
(* out with GetReceivedPacket, in order; ServerAliveChecker stops the core *)
(* when the next sequence has not moved between two of its checks.         *)
(*                                                                         *)
(* The server sends data packets and heartbeats under one numbering, sends *)
(* those without a reply again, and gathers several in a datagram.  The    *)
(* network may lose, repeat and reorder datagrams both ways.               *)
(***************************************************************************)
EXTENDS Integers, Sequences, FiniteSets

CONSTANTS
    MaxSequence,    \* bound of the model: the server sends packets 1 .. MaxSequence
    Heartbeats,     \* those that are heartbeats
    MaxHeld         \* bound of the model: copies of one packet held at a time

ClientReceiveAssumption ==
    /\ MaxSequence \in Nat \ {0} /\ MaxHeld \in Nat \ {0}
    /\ Heartbeats \subseteq 1 .. MaxSequence

Sequences == 1 .. MaxSequence

VARIABLES
    lastSent, unacked,          \* the server
    datagram, replies,          \* the packets being taken from a datagram; replies on the way
    replying,                   \* the packet queued and not yet replied to, or 0
    held,                       \* recvPacketHoldingQueue: copies held of each sequence
    nextRecvPacketSequence,
    given,                      \* history: the packets the application was given
    beforeCheckSequence, serverAlive,
    arrived                     \* history: a packet arrived since the last check

serverVars == <<lastSent, unacked>>
recvVars == <<datagram, replying, replies>>
queueVars == <<held, nextRecvPacketSequence, given>>
checkVars == <<beforeCheckSequence, serverAlive, arrived>>
vars == <<serverVars, recvVars, queueVars, checkVars>>

Init ==
    /\ lastSent = 0 /\ unacked = {}
    /\ datagram = <<>> /\ replies = {} /\ replying = 0
    /\ held = [s \in Sequences |-> 0] /\ nextRecvPacketSequence = 1 /\ given = <<>>
    /\ beforeCheckSequence = 0 /\ serverAlive = TRUE /\ arrived = FALSE

-----------------------------------------------------------------------------
(* The server.                                                             *)

ServerSends ==
    /\ lastSent < MaxSequence
    /\ lastSent' = lastSent + 1 /\ unacked' = unacked \union {lastSent + 1}
    /\ UNCHANGED <<recvVars, queueVars, checkVars>>

ServerTakesReply(s) ==
    /\ s \in replies /\ s \in unacked
    /\ unacked' = unacked \ {s}
    /\ UNCHANGED <<lastSent, recvVars, queueVars, checkVars>>

-----------------------------------------------------------------------------
(* The receive thread.                                                     *)

\* OnRecvStream: a datagram arrives with one packet or two, any of those sent so far.
OnRecvStream(packets) ==
    /\ serverAlive /\ datagram = <<>> /\ replying = 0
    /\ \A i \in DOMAIN packets : packets[i] <= lastSent
    /\ \A s \in Sequences :
          held[s] + Cardinality({i \in DOMAIN packets : packets[i] = s}) <= MaxHeld
    /\ datagram' = packets /\ arrived' = TRUE
    /\ UNCHANGED <<serverVars, replying, replies, queueVars, beforeCheckSequence, serverAlive>>

\* Mutant: a packet ahead of the next one is replied to and not held.
ProcessRecvPacket_DropsAhead ==
    /\ datagram # <<>> /\ replying = 0
    /\ datagram' = Tail(datagram) /\ replying' = Head(datagram)
    /\ held' = IF Head(datagram) = nextRecvPacketSequence
               THEN [held EXCEPT ![Head(datagram)] = @ + 1] ELSE held
    /\ UNCHANGED <<serverVars, replies, nextRecvPacketSequence, given, checkVars>>

\* Every packet is queued, whether it is old, held already, or ahead.
ProcessRecvPacket ==
    /\ datagram # <<>> /\ replying = 0
    /\ datagram' = Tail(datagram) /\ replying' = Head(datagram)
    /\ held' = [held EXCEPT ![Head(datagram)] = @ + 1]
    /\ UNCHANGED <<serverVars, replies, nextRecvPacketSequence, given, checkVars>>

\* Mutant: only a packet the application still waits for is replied to.
SendReplyToServer_OnlyNew ==
    /\ replying # 0 /\ replying' = 0
    /\ replies' = IF replying > nextRecvPacketSequence THEN replies \union {replying}
                  ELSE replies
    /\ UNCHANGED <<serverVars, datagram, queueVars, checkVars>>

SendReplyToServer ==
    /\ replying # 0 /\ replying' = 0
    /\ replies' = replies \union {replying}
    /\ UNCHANGED <<serverVars, datagram, queueVars, checkVars>>

-----------------------------------------------------------------------------
(* The application.                                                        *)

\* GetReceivedPacket takes packets in the order of their sequences.  It throws old copies
\* away and steps over heartbeats, up to a data packet, which it gives, or to a gap.
GetReceivedPacket ==
    /\ serverAlive
    /\ \E stop \in nextRecvPacketSequence .. MaxSequence + 1 :
          /\ \A s \in nextRecvPacketSequence .. stop - 1 : s \in Heartbeats /\ held[s] > 0
          /\ \/ /\ stop \in Sequences \ Heartbeats /\ held[stop] > 0
                /\ given' = Append(given, stop) /\ nextRecvPacketSequence' = stop + 1
                /\ held' = [s \in Sequences |-> IF s < stop THEN 0
                                                ELSE IF s = stop THEN held[s] - 1 ELSE held[s]]
             \/ /\ stop \in Sequences => held[stop] = 0
                /\ UNCHANGED given /\ nextRecvPacketSequence' = stop
                /\ held' = [s \in Sequences |-> IF s < stop THEN 0 ELSE held[s]]
    /\ UNCHANGED <<serverVars, recvVars, checkVars>>

-----------------------------------------------------------------------------
(* The alive checker, once per interval; the core it stops receives no more. *)

IsServerAlive == nextRecvPacketSequence # beforeCheckSequence

CheckServer ==
    /\ serverAlive /\ serverAlive' = IsServerAlive
    /\ beforeCheckSequence' = nextRecvPacketSequence /\ arrived' = FALSE
    /\ UNCHANGED <<serverVars, recvVars, queueVars>>

-----------------------------------------------------------------------------
Datagrams == {<<s>> : s \in Sequences} \union {<<s, t>> : s, t \in Sequences}

Receive ==
    \/ \E packets \in Datagrams : OnRecvStream(packets)
    \/ ProcessRecvPacket \/ SendReplyToServer

Next ==
    \/ ServerSends \/ \E s \in Sequences : ServerTakesReply(s)
    \/ Receive \/ GetReceivedPacket \/ CheckServer

Spec == Init /\ [][Next]_vars

\* The same, between a server that goes on and an application that reads in time.
PollingNext ==
    \/ ServerSends \/ \E s \in Sequences : ServerTakesReply(s)
    \/ Receive \/ GetReceivedPacket

\* The server sends what has no reply again until one of the copies arrives; the receive
\* thread runs; the application keeps polling.
Fairness ==
    /\ WF_vars(ServerSends)
    /\ \A s \in Sequences :
          SF_vars(s \in unacked /\ OnRecvStream(<<s>>)) /\ SF_vars(ServerTakesReply(s))
    /\ WF_vars(ProcessRecvPacket) /\ WF_vars(SendReplyToServer)
    /\ WF_vars(GetReceivedPacket)

LiveSpec == Init /\ [][PollingNext]_vars /\ Fairness

-----------------------------------------------------------------------------
TypeOK ==
    /\ lastSent \in 0 .. MaxSequence /\ unacked \subseteq 1 .. lastSent
    /\ datagram \in {<<>>} \union Datagrams
    /\ replying \in 0 .. lastSent /\ replies \subseteq 1 .. lastSent
    /\ held \in [Sequences -> Nat]
    /\ nextRecvPacketSequence \in 1 .. lastSent + 1
    /\ beforeCheckSequence \in 0 .. lastSent + 1 /\ {serverAlive, arrived} \subseteq BOOLEAN

\* The application is given every data packet below the next sequence, once and in order,
\* and no heartbeat, whatever the network repeats and reorders.
InOrderOnce ==
    /\ \A i, j \in DOMAIN given : i < j => given[i] < given[j]
    /\ {given[i] : i \in DOMAIN given} = (1 .. nextRecvPacketSequence - 1) \ Heartbeats

\* The reply goes out before the application has seen the packet: what the server no
\* longer sends again is held by the client until it is given.
AckedIsKept ==
    \A s \in 1 .. lastSent :
        s \notin unacked /\ s >= nextRecvPacketSequence => held[s] > 0

\* Every packet the server sends is passed by the application, and the server hears of it,
\* even when the first reply was lost and the packet is an old one when it comes again.
SentIsPassed == nextRecvPacketSequence = lastSent + 1 /\ unacked = {}

\* The documentation of ServerAliveChecker: the server counts as dead when no packet came
\* during the interval.
DeadOnlyIfSilent == [][serverAlive /\ arrived => serverAlive']_vars
=============================================================================
