-------------------------- MODULE ClientParts_proofs ---------------------------
(***************************************************************************)
(* Theorems of the client's components and of what connects the two        *)
(* sides, one section each, for every value of the constants: that the     *)
(* sides agree on a session, that nothing is lost, repeated or given up    *)
(* early between them, and that the client core gives back what it takes.  *)
(*                                                                         *)
(* Each section has the inductive invariant in named parts, what every     *)
(* action does to them, and the theorems, whose names say what they show.  *)
(***************************************************************************)
EXTENDS ClientParts, SequenceTheorems, FiniteSetTheorems, TLAPS

-------------------------------------------------------------------------------
(* One connection: TryConnect, the timeout of the reservation and the client.*)

ConnectionTyped ==
    /\ cnState \in {"RESERVED", "CONNECTED", "RELEASING"}
    /\ cnWorker \in {"idle", "address", "reset", "callback", "reply"}
    /\ hasClientAddr \in BOOLEAN /\ cnHeld \in BOOLEAN /\ seesTimeout \in BOOLEAN
    /\ aborted \in BOOLEAN /\ cnIsConnected \in BOOLEAN /\ gaveUp \in BOOLEAN
    /\ recvThread \in BOOLEAN
    /\ cnHeartbeat \in 0 .. cnMaxRetransmissions - 1 \union {CN!Unsent}
    /\ tracked \in [CN!ClientPackets -> 0 .. cnMaxRetransmissions - 1 \union {CN!Unsent, CN!Acked}]
    /\ cnToServer \subseteq CN!ClientPackets \union {"heartbeatReply", "disconnect"}
    /\ cnToClient \subseteq {"connectReply", "dataReply", "heartbeat"}
    /\ lost \in 0 .. cnCountedLosses

\* How far TryConnect has come, and what it has done by then.
NotBegun ==
    /\ cnWorker = "idle" /\ ~ hasClientAddr /\ nextExpected = 0 /\ onConnected = 0
    /\ delivered = 0
Connecting ==
    /\ cnState # "RESERVED" /\ ~ aborted /\ delivered = 0
    /\ \/ cnWorker = "address" /\ ~ hasClientAddr /\ nextExpected = 0 /\ onConnected = 0
       \/ cnWorker = "reset" /\ hasClientAddr /\ nextExpected = 0 /\ onConnected = 0
       \/ cnWorker = "callback" /\ hasClientAddr /\ nextExpected = 1 /\ onConnected = 0
       \/ cnWorker = "reply" /\ hasClientAddr /\ nextExpected = 1 /\ onConnected = 1
WasConnected ==
    /\ cnState # "RESERVED" /\ ~ aborted /\ cnWorker = "idle" /\ hasClientAddr /\ onConnected = 1
    /\ (nextExpected = 1 /\ delivered = 0) \/ (nextExpected = 2 /\ delivered = 1)

ConnectionInv ==
    /\ ConnectionTyped
    /\ ~ cnHeld
    /\ (NotBegun /\ (cnState = "RESERVED" <=> ~ aborted)) \/ Connecting \/ WasConnected
    /\ cnState = "RESERVED" \/ aborted => cnHeartbeat = CN!Unsent
    /\ aborted => cnState = "RELEASING"
    /\ cnIsConnected \/ "connectReply" \in cnToClient => WasConnected

\* The counts of retransmissions and the two values in their place.
LEMMA CountsAre ==
    ASSUME CN!ConnectionAssumption
    PROVE  /\ 0 \in 0 .. cnMaxRetransmissions - 1
           /\ CN!Unsent \notin 0 .. cnMaxRetransmissions - 1 /\ CN!Acked \notin 0 .. cnMaxRetransmissions - 1
           /\ CN!Unsent # CN!Acked
           /\ \A n \in 0 .. cnMaxRetransmissions - 1 :
                 ~ (n + 1 >= cnMaxRetransmissions) => n + 1 \in 0 .. cnMaxRetransmissions - 1
BY DEF CN!ConnectionAssumption, CN!Unsent, CN!Acked

LEMMA InitConnection == ASSUME CN!ConnectionAssumption, CN!Init PROVE ConnectionInv
<1>1. lost \in 0 .. cnCountedLosses
  BY DEF CN!Init, CN!ConnectionAssumption
<1>2. ConnectionTyped
  BY <1>1 DEF CN!Init, ConnectionTyped
<1> QED
  BY <1>2 DEF CN!Init, ConnectionInv, NotBegun

LEMMA StepTyped ==
    ASSUME CN!ConnectionAssumption, ConnectionInv, [CN!Next]_(CN!vars) PROVE ConnectionTyped'
<1> USE CountsAre DEF ConnectionInv, ConnectionTyped, CN!sessionVars, CN!heartbeatVars,
    CN!clientVars,
                      CN!networkVars
<1>1. ASSUME NEW p \in CN!ClientPackets, CN!ClientSends(p) PROVE ConnectionTyped'
  BY <1>1 DEF CN!ClientSends
<1>2. ASSUME NEW p \in CN!ClientPackets, CN!ClientRetransmits(p) PROVE ConnectionTyped'
  <2>1. CASE tracked[p] + 1 >= cnMaxRetransmissions
    BY <1>2, <2>1 DEF CN!ClientRetransmits
  <2>2. CASE ~ (tracked[p] + 1 >= cnMaxRetransmissions)
    <3>1. tracked[p] + 1 \in 0 .. cnMaxRetransmissions - 1
      BY <1>2, <2>2 DEF CN!ClientRetransmits
    <3>2. tracked' \in [CN!ClientPackets -> 0 .. cnMaxRetransmissions - 1 \union {CN!Unsent, CN!Acked}]
      BY <1>2, <2>2, <3>1 DEF CN!ClientRetransmits
    <3> QED
      BY <1>2, <2>2, <3>2 DEF CN!ClientRetransmits
  <2> QED
    BY <2>1, <2>2
<1>3. ASSUME NEW p \in CN!ClientPackets, CN!ClientTakesReply(p) PROVE ConnectionTyped'
  BY <1>3 DEF CN!ClientTakesReply, CN!TakesDatagram, CN!ClientPackets
<1>4. CASE CN!ClientTakesHeartbeat
  BY <1>4 DEF CN!ClientTakesHeartbeat, CN!TakesDatagram
<1>5. CASE CN!ClientDisconnects
  BY <1>5 DEF CN!ClientDisconnects
<1>6. CASE CN!TryConnect
  BY <1>6 DEF CN!TryConnect, CN!WorkerTakes
<1>7. CASE CN!RepeatedConnect
  BY <1>7 DEF CN!RepeatedConnect, CN!WorkerTakes
<1>8. CASE CN!SetClientAddr
  BY <1>8 DEF CN!SetClientAddr
<1>9. CASE CN!ResetOrder
  BY <1>9 DEF CN!ResetOrder
<1>10. CASE CN!CallOnConnected
  BY <1>10 DEF CN!CallOnConnected
<1>11. CASE CN!ReplyToConnect
  BY <1>11 DEF CN!ReplyToConnect
<1>12. CASE CN!OnRecvPacket
  BY <1>12 DEF CN!OnRecvPacket, CN!WorkerTakes, CN!CanProcessPacket
<1>13. CASE CN!OnSendReply
  BY <1>13 DEF CN!OnSendReply, CN!WorkerTakes, CN!CanProcessPacket
<1>14. CASE CN!Disconnect
  BY <1>14 DEF CN!Disconnect, CN!WorkerTakes, CN!CanProcessPacket
<1>15. CASE CN!CheckReservedSessionTimeout
  BY <1>15 DEF CN!CheckReservedSessionTimeout
<1>16. CASE CN!AbortReservedSession
  BY <1>16 DEF CN!AbortReservedSession
<1>17. CASE CN!SendHeartbeatPacket
  BY <1>17 DEF CN!SendHeartbeatPacket, CN!Transmit
<1>18. CASE CN!ProcessRetransmission
  BY <1>18 DEF CN!ProcessRetransmission, CN!Transmit
<1>19. CASE CN!Lose
  <2>1. lost' \in 0 .. cnCountedLosses
    BY <1>19 DEF CN!Lose, CN!ConnectionAssumption
  <2>2. cnToServer' \subseteq cnToServer /\ cnToClient' \subseteq cnToClient
    BY <1>19 DEF CN!Lose
  <2> QED
    BY <1>19, <2>1, <2>2 DEF CN!Lose
<1>20. CASE UNCHANGED CN!vars
  BY <1>20 DEF CN!vars
<1> QED
  BY <1>1, <1>2, <1>3, <1>4, <1>5, <1>6, <1>7, <1>8, <1>9, <1>10, <1>11, <1>12, <1>13,
     <1>14, <1>15, <1>16, <1>17, <1>18, <1>19, <1>20
     DEF CN!Next, CN!Client, CN!Server, CN!FinishConnect

LEMMA StepConnection ==
    ASSUME CN!ConnectionAssumption PROVE ConnectionInv /\ [CN!Next]_(CN!vars) => ConnectionInv'
<1> SUFFICES ASSUME ConnectionInv, [CN!Next]_(CN!vars) PROVE ConnectionInv'
  OBVIOUS
<1> USE StepTyped, CountsAre DEF ConnectionInv, CN!sessionVars, CN!heartbeatVars, CN!clientVars,
    CN!networkVars
<1>1. ASSUME NEW p \in CN!ClientPackets, CN!ClientSends(p) PROVE ConnectionInv'
  BY <1>1 DEF CN!ClientSends, NotBegun, Connecting, WasConnected
<1>2. ASSUME NEW p \in CN!ClientPackets, CN!ClientRetransmits(p) PROVE ConnectionInv'
  BY <1>2 DEF CN!ClientRetransmits, NotBegun, Connecting, WasConnected
<1>3. ASSUME NEW p \in CN!ClientPackets, CN!ClientTakesReply(p) PROVE ConnectionInv'
  BY <1>3 DEF CN!ClientTakesReply, CN!TakesDatagram, CN!ClientPackets, NotBegun, Connecting,
     WasConnected
<1>4. CASE CN!ClientTakesHeartbeat
  BY <1>4 DEF CN!ClientTakesHeartbeat, CN!TakesDatagram, NotBegun, Connecting, WasConnected
<1>5. CASE CN!ClientDisconnects
  BY <1>5 DEF CN!ClientDisconnects, NotBegun, Connecting, WasConnected
<1>6. CASE CN!TryConnect
  BY <1>6 DEF CN!TryConnect, CN!WorkerTakes, NotBegun, Connecting, WasConnected
<1>7. CASE CN!RepeatedConnect
  BY <1>7 DEF CN!RepeatedConnect, CN!WorkerTakes, NotBegun, Connecting, WasConnected
<1>8. CASE CN!SetClientAddr
  BY <1>8 DEF CN!SetClientAddr, NotBegun, Connecting, WasConnected
<1>9. CASE CN!ResetOrder
  BY <1>9 DEF CN!ResetOrder, NotBegun, Connecting, WasConnected
<1>10. CASE CN!CallOnConnected
  BY <1>10 DEF CN!CallOnConnected, NotBegun, Connecting, WasConnected
<1>11. CASE CN!ReplyToConnect
  BY <1>11 DEF CN!ReplyToConnect, NotBegun, Connecting, WasConnected
<1>12. CASE CN!OnRecvPacket
  <2>1. WasConnected /\ ~ aborted
    BY <1>12 DEF CN!OnRecvPacket, CN!WorkerTakes, CN!CanProcessPacket, NotBegun, Connecting,
       WasConnected
  <2>2. UNCHANGED <<cnState, cnWorker, hasClientAddr, onConnected, CN!heartbeatVars, cnIsConnected>>
    BY <1>12 DEF CN!OnRecvPacket
  <2>3. ~ (nextExpected < 1) /\ ~ cnHeld
    BY <2>1 DEF WasConnected
  <2>4. cnHeld' = FALSE
    BY <1>12, <2>3 DEF CN!OnRecvPacket
  <2>5. nextExpected' = 2 /\ delivered' = 1
    BY <1>12, <2>1 DEF CN!OnRecvPacket, WasConnected
  <2>6. WasConnected'
    BY <2>1, <2>2, <2>5 DEF WasConnected
  <2>7. ConnectionTyped'
    BY StepTyped
  <2>8. ~ cnHeld' /\ ~ aborted' /\ cnState' # "RESERVED"
    BY <2>1, <2>2, <2>4 DEF WasConnected
  <2> QED
    BY <2>6, <2>7, <2>8
<1>13. CASE CN!OnSendReply
  BY <1>13 DEF CN!OnSendReply, CN!WorkerTakes, CN!CanProcessPacket, NotBegun, Connecting,
     WasConnected
<1>14. CASE CN!Disconnect
  BY <1>14 DEF CN!Disconnect, CN!WorkerTakes, CN!CanProcessPacket, NotBegun, Connecting,
     WasConnected
<1>15. CASE CN!CheckReservedSessionTimeout
  BY <1>15 DEF CN!CheckReservedSessionTimeout, NotBegun, Connecting, WasConnected
<1>16. CASE CN!AbortReservedSession
  BY <1>16 DEF CN!AbortReservedSession, NotBegun, Connecting, WasConnected
<1>17. CASE CN!SendHeartbeatPacket
  BY <1>17 DEF CN!SendHeartbeatPacket, CN!Transmit, NotBegun, Connecting, WasConnected
<1>18. CASE CN!ProcessRetransmission
  BY <1>18 DEF CN!ProcessRetransmission, CN!Transmit, NotBegun, Connecting, WasConnected
<1>19. CASE CN!Lose
  BY <1>19 DEF CN!Lose, CN!ConnectionAssumption, NotBegun, Connecting, WasConnected
<1>20. CASE UNCHANGED CN!vars
  BY <1>20 DEF CN!vars, NotBegun, Connecting, WasConnected
<1> QED
  BY <1>1, <1>2, <1>3, <1>4, <1>5, <1>6, <1>7, <1>8, <1>9, <1>10, <1>11, <1>12, <1>13,
     <1>14, <1>15, <1>16, <1>17, <1>18, <1>19, <1>20
     DEF CN!Next, CN!Client, CN!Server, CN!FinishConnect

\* The two sides of a connection, its worker, its heartbeat and what is on its way are typed:
\* a packet's retransmissions stay below the limit at which its side gives up.
THEOREM ConnectionTypes == ASSUME CN!ConnectionAssumption PROVE CN!Spec => []CN!TypeOK
<1>1. ConnectionInv => CN!TypeOK
  BY DEF ConnectionInv, ConnectionTyped, NotBegun, Connecting, WasConnected, CN!TypeOK
<1> QED
  BY <1>1, InitConnection, StepConnection, PTL DEF CN!Spec

\* The first packet of data is handled once, and after OnConnected has returned, wherever
\* TryConnect and the arrival of that packet cross.
THEOREM DataAfterConnect == ASSUME CN!ConnectionAssumption PROVE CN!Spec => []CN!HandledInOrder
<1>1. ConnectionInv => CN!HandledInOrder
  BY DEF ConnectionInv, ConnectionTyped, NotBegun, Connecting, WasConnected, CN!HandledInOrder
<1> QED
  BY <1>1, InitConnection, StepConnection, PTL DEF CN!Spec

\* TryConnect sets the expected sequence before the reply that lets the client send: the first
\* packet is never put aside.
THEOREM FirstIsNotHeld == ASSUME CN!ConnectionAssumption PROVE CN!Spec => []CN!FirstPacketNotHeld
<1>1. ConnectionInv => CN!FirstPacketNotHeld
  BY DEF ConnectionInv, ConnectionTyped, NotBegun, Connecting, WasConnected, CN!FirstPacketNotHeld
<1> QED
  BY <1>1, InitConnection, StepConnection, PTL DEF CN!Spec

\* The reservation that the timeout aborted is connected to nobody: TryConnect and the abort
\* take it with one compare-and-swap each, and one wins.
THEOREM AbortedIsUnconnected == ASSUME CN!ConnectionAssumption PROVE CN!Spec => []CN!AbortExcludesConnect
<1>1. ConnectionInv => CN!AbortExcludesConnect
  BY DEF ConnectionInv, ConnectionTyped, NotBegun, Connecting, WasConnected, CN!AbortExcludesConnect
<1> QED
  BY <1>1, InitConnection, StepConnection, PTL DEF CN!Spec

\* A client that counts itself connected has a session that is connected, or was.
THEOREM ConnectedHasSession ==
    ASSUME CN!ConnectionAssumption PROVE CN!Spec => []CN!ClientConnectedImpliesSession
<1>1. ConnectionInv => CN!ClientConnectedImpliesSession
  BY DEF ConnectionInv, ConnectionTyped, NotBegun, Connecting, WasConnected,
         CN!ClientConnectedImpliesSession
<1> QED
  BY <1>1, InitConnection, StepConnection, PTL DEF CN!Spec

-------------------------------------------------------------------------------
(* The sending side of the client.                                           *)

\* The operators that CS takes from the library are those of the library.
LEMMA CSLibrary ==
    \A S : CS!Cardinality(S) = Cardinality(S) /\ CS!IsFiniteSet(S) = IsFiniteSet(S)
BY DEF CS!Cardinality, Cardinality, CS!IsFiniteSet, IsFiniteSet

Pcs == {"idle", "load", "check", "push", "insert", "enqueue"}
Windows == {0, 1, csWindow}
SenderRecords == [pc : Pcs, packet : Nat, window : Windows]
RecvRecords ==
    [pc : {"idle", "erase", "flush", "insert", "enqueue"}, packet : Nat, window : Windows]
RtRecords == [pc : {"idle", "count", "resend"}, packet : Nat, window : Windows]
ThreadsTyped ==
    /\ csSender \in [csSenders -> SenderRecords]
    /\ \A t \in csSenders :
          csSender[t] = CS!Resting \/ (csSender[t].pc # "idle" /\ csSender[t].packet \in CS!Packets \ {CS!Connect})
    /\ \A t \in csSenders : csSender[t].pc = "check" => csSender[t].window \in {1, csWindow}
    /\ csRecv \in RecvRecords
    /\ csRecv.pc \in {"erase", "insert", "enqueue"} => csRecv.packet \in CS!Packets
    /\ csRecv.pc \in {"flush", "insert", "enqueue"} => csRecv.window \in {1, csWindow}
    /\ csRt \in RtRecords
    /\ csRt.pc # "idle" => csRt.packet \in CS!Packets
QueuesTyped ==
    /\ csLastSendPacketSequence \in CS!Packets /\ remoteAdvertisedWindow \in {1, csWindow}
    /\ csSendPacketInfoMap \subseteq CS!Packets
    /\ csPendingPacketQueue \subseteq CS!Packets \ {CS!Connect} /\ sendBufferQueue \in Seq(CS!Packets)
ServerTyped ==
    /\ csToServer \subseteq CS!Packets /\ csToClient \subseteq CS!Packets
    /\ serverNext \in 0 .. CS!NoPacket /\ serverHeld \subseteq CS!Packets

\* A packet is sent again below its limit only, and nothing after it.
CountsBelowLimit ==
    /\ csIsConnected \in BOOLEAN /\ csThreadStopFlag \in BOOLEAN
    /\ csRetransmissionCount \in [CS!Packets -> 0 .. csMaxRetransmissions]
    /\ ~ csThreadStopFlag =>
          \A p \in CS!Packets : csRetransmissionCount[p] < csMaxRetransmissions
    /\ csRt.pc = "count" => ~ csThreadStopFlag

\* What the server sent a reply for it has, and it has what it expects no more.
ServerHas ==
    /\ \A p \in csToClient : p < serverNext
    /\ \A p \in CS!Packets : p < serverNext => p \in csToServer
    /\ serverHeld \subseteq csToServer
    /\ csRecv.pc = "erase" => csRecv.packet \in csToClient

\* Where a packet waits to be registered, and what there is of it once it is.
Holds(t, p) ==
    csSender[t].pc \in {"load", "check", "push", "insert"} /\ csSender[t].packet = p
RecvHolds(p) == csRecv.pc = "insert" /\ csRecv.packet = p
Waiting(p) == p \in csPendingPacketQueue \/ RecvHolds(p) \/ \E t \in csSenders : Holds(t, p)
InQueue(p) == \E i \in 1 .. Len(sendBufferQueue) : sendBufferQueue[i] = p
Enqueuing(p) ==
    \/ \E t \in csSenders : csSender[t].pc = "enqueue" /\ csSender[t].packet = p
    \/ csRecv.pc = "enqueue" /\ csRecv.packet = p
    \/ csRt.pc = "resend" /\ csRt.packet = p
Registered(p) == p \in csSendPacketInfoMap \/ Enqueuing(p) \/ InQueue(p) \/ p \in csToServer

OnePlace(p) ==
    /\ Waiting(p) => ~ Registered(p)
    /\ Waiting(p) \/ Registered(p) => p <= csLastSendPacketSequence
    /\ p \in csPendingPacketQueue => ~ RecvHolds(p) /\ \A t \in csSenders : ~ Holds(t, p)
    /\ RecvHolds(p) => \A t \in csSenders : ~ Holds(t, p)
    /\ \A t, u \in csSenders : Holds(t, p) /\ Holds(u, p) => t = u
    /\ p <= csLastSendPacketSequence => Waiting(p) \/ p \in csSendPacketInfoMap \/ p < serverNext
InOnePlace == \A p \in CS!Packets : OnePlace(p)

\* The threads that have passed the check of the window and not yet registered: as long as
\* a BYTE counts them all, the window bounds them.
Inserting == {t \in csSenders : csSender[t].pc = "insert"}
InsertingBounded == CS!WindowFits =>
    CS!Outstanding + Cardinality(Inserting) + (IF csRecv.pc = "insert" THEN 1 ELSE 0)
        <= csWindow + Cardinality(csSenders)

CSInv ==
    /\ ThreadsTyped /\ QueuesTyped /\ ServerTyped /\ CountsBelowLimit /\ ServerHas
    /\ InOnePlace /\ InsertingBounded

LEMMA PacketsAre ==
    ASSUME CS!ClientSendAssumption
    PROVE  /\ csMaxSequence \in Nat /\ CS!NoPacket \in Nat /\ CS!NoPacket \notin CS!Packets
           /\ CS!Connect = 0 /\ CS!Connect \in CS!Packets
           /\ \A p \in CS!Packets : p \in Nat /\ p < CS!NoPacket /\ p >= 0 /\ p <= csMaxSequence
           /\ \A n \in Nat : n <= csMaxSequence => n \in CS!Packets
BY DEF CS!ClientSendAssumption, CS!Packets, CS!Connect, CS!NoPacket

LEMMA MapIsFinite ==
    ASSUME CS!ClientSendAssumption, NEW S \in SUBSET CS!Packets
    PROVE  IsFiniteSet(S) /\ Cardinality(S) \in Nat
<1>1. IsFiniteSet(CS!Packets)
  BY PacketsAre, FS_Interval DEF CS!Packets
<1> QED
  BY <1>1, FS_Subset, FS_CardinalityType

LEMMA InsertingCounted ==
    ASSUME CS!ClientSendAssumption
    PROVE  /\ IsFiniteSet(Inserting) /\ Cardinality(Inserting) \in Nat
           /\ Cardinality(csSenders) \in Nat /\ Cardinality(Inserting) <= Cardinality(csSenders)
<1>1. Inserting \subseteq csSenders
  BY DEF Inserting
<1> QED
  BY CSLibrary, <1>1, FS_Subset, FS_CardinalityType DEF CS!ClientSendAssumption

LEMMA QueueAppended ==
    ASSUME sendBufferQueue \in Seq(CS!Packets), NEW q \in CS!Packets,
           sendBufferQueue' = Append(sendBufferQueue, q)
    PROVE  \A p : InQueue(p)' <=> (InQueue(p) \/ p = q)
<1>1. Len(sendBufferQueue) \in Nat /\ Len(sendBufferQueue') = Len(sendBufferQueue) + 1
  OBVIOUS
<1>2. \A i \in 1 .. Len(sendBufferQueue) : sendBufferQueue'[i] = sendBufferQueue[i]
  OBVIOUS
<1>3. sendBufferQueue'[Len(sendBufferQueue) + 1] = q
  OBVIOUS
<1> SUFFICES ASSUME NEW p PROVE InQueue(p)' <=> (InQueue(p) \/ p = q)
  OBVIOUS
<1>4. InQueue(p)' => InQueue(p) \/ p = q
  <2> SUFFICES ASSUME NEW i \in 1 .. Len(sendBufferQueue'), sendBufferQueue'[i] = p
        PROVE  InQueue(p) \/ p = q
    BY DEF InQueue
  <2>1. i = Len(sendBufferQueue) + 1 \/ i \in 1 .. Len(sendBufferQueue)
    BY <1>1
  <2> QED
    BY <1>2, <1>3, <2>1 DEF InQueue
<1>5. InQueue(p) => InQueue(p)'
  <2> SUFFICES ASSUME NEW i \in 1 .. Len(sendBufferQueue), sendBufferQueue[i] = p
        PROVE  InQueue(p)'
    BY DEF InQueue
  <2>1. i \in 1 .. Len(sendBufferQueue') /\ sendBufferQueue'[i] = p
    BY <1>1, <1>2
  <2> QED
    BY <2>1 DEF InQueue
<1>6. p = q => InQueue(p)'
  <2>1. Len(sendBufferQueue) + 1 \in 1 .. Len(sendBufferQueue')
    BY <1>1
  <2> QED
    BY <1>3, <2>1 DEF InQueue
<1> QED
  BY <1>4, <1>5, <1>6

LEMMA QueueSent ==
    ASSUME sendBufferQueue \in Seq(CS!Packets), sendBufferQueue # <<>>,
           sendBufferQueue' = Tail(sendBufferQueue)
    PROVE  /\ \A p : InQueue(p)' => InQueue(p)
           /\ InQueue(Head(sendBufferQueue))
<1>1. Len(sendBufferQueue) \in Nat /\ Len(sendBufferQueue) >= 1
      /\ Len(sendBufferQueue') = Len(sendBufferQueue) - 1
  OBVIOUS
<1>2. \A i \in 1 .. Len(sendBufferQueue') : sendBufferQueue'[i] = sendBufferQueue[i + 1]
  OBVIOUS
<1>3. ASSUME NEW p, InQueue(p)' PROVE InQueue(p)
  <2>1. PICK i \in 1 .. Len(sendBufferQueue') : sendBufferQueue'[i] = p
    BY <1>3 DEF InQueue
  <2>2. i + 1 \in 1 .. Len(sendBufferQueue) /\ sendBufferQueue[i + 1] = p
    BY <1>1, <1>2, <2>1
  <2> QED
    BY <2>2 DEF InQueue
<1>4. 1 \in 1 .. Len(sendBufferQueue) /\ sendBufferQueue[1] = Head(sendBufferQueue)
  BY <1>1
<1> QED
  BY <1>3, <1>4 DEF InQueue

Less == OpToRel(LAMBDA m, n : m < n, Nat)
LEMMA LessWellFounded == IsWellFoundedOn(Less, Nat)
BY NatLessThanWellFounded DEF Less

\* A nonempty set of numbers has a least one.
LEMMA LeastExists ==
    ASSUME NEW S \in SUBSET Nat, S # {}
    PROVE  \E n \in S : \A m \in S : n <= m
<1>1. PICK n \in S : \A m \in S : <<m, n>> \notin Less
  BY LessWellFounded, WFMin
<1>2. \A m \in Nat, k \in Nat : m < k => <<m, k>> \in Less
  BY DEF Less, OpToRel
<1>3. ASSUME NEW m \in S PROVE n <= m
  <2>1. m \in Nat /\ n \in Nat /\ ~ (m < n)
    BY <1>1, <1>2
  <2> QED
    BY <2>1
<1> QED
  BY <1>3

LEMMA LowestPending ==
    ASSUME CS!ClientSendAssumption, QueuesTyped, csPendingPacketQueue # {}
    PROVE  CS!Min(csPendingPacketQueue) \in csPendingPacketQueue
<1>1. csPendingPacketQueue \in SUBSET Nat
  BY PacketsAre DEF QueuesTyped
<1> QED
  BY <1>1, LeastExists DEF CS!Min

LEMMA RestingIs ==
    ASSUME CS!ClientSendAssumption
    PROVE  /\ CS!Resting \in SenderRecords /\ CS!Resting \in RecvRecords
           /\ CS!Resting \in RtRecords /\ CS!Resting.pc = "idle"
BY PacketsAre DEF CS!Resting, Pcs, Windows, SenderRecords, RecvRecords, RtRecords

\* A thread of the application has handed its packet over, or takes its next step.
LEMMA SenderRests ==
    ASSUME CS!ClientSendAssumption, ThreadsTyped, NEW t \in csSenders, UNCHANGED <<csRecv, csRt>>,
           csSender' = [csSender EXCEPT ![t] = CS!Resting]
    PROVE  ThreadsTyped'
<1> HIDE DEF CS!Resting
<1>1. csSender' \in [csSenders -> SenderRecords]
  BY RestingIs DEF ThreadsTyped
<1>2. \A u \in csSenders : csSender'[u] = IF u = t THEN CS!Resting ELSE csSender[u]
  BY DEF ThreadsTyped
<1> QED
  BY <1>1, <1>2, RestingIs DEF ThreadsTyped

LEMMA SenderGoes ==
    ASSUME CS!ClientSendAssumption, ThreadsTyped, NEW t \in csSenders, UNCHANGED <<csRecv, csRt>>,
           NEW pc \in Pcs \ {"idle"}, NEW w \in Windows, csSender[t].pc # "idle",
           csSender' = [csSender EXCEPT ![t].pc = pc, ![t].window = w],
           pc = "check" => w \in {1, csWindow}
    PROVE  ThreadsTyped'
<1>1. csSender' \in [csSenders -> SenderRecords]
  BY DEF ThreadsTyped, SenderRecords
<1>2. \A u \in csSenders : u # t => csSender'[u] = csSender[u]
  BY DEF ThreadsTyped
<1>3. csSender'[t].pc = pc /\ csSender'[t].packet = csSender[t].packet /\ csSender'[t].window = w
  BY DEF ThreadsTyped, SenderRecords
<1>4. csSender[t].packet \in CS!Packets \ {CS!Connect}
  BY RestingIs DEF ThreadsTyped
<1> QED
  BY <1>1, <1>2, <1>3, <1>4 DEF ThreadsTyped

\* What the check of the window says, while a BYTE counts what is outstanding.
LEMMA RoomIsBelow ==
    ASSUME CS!ClientSendAssumption, QueuesTyped, InsertingBounded, CS!WindowFits,
           NEW w \in {1, csWindow}, CS!HasRoom(w)
    PROVE  CS!Outstanding \in Nat /\ csWindow \in Nat /\ CS!Outstanding < csWindow
<1>1. CS!Outstanding \in Nat
  BY CSLibrary, MapIsFinite DEF CS!Outstanding, QueuesTyped
<1>2. csWindow \in Nat /\ csWindow >= 1 /\ csByteRange \in Nat
  BY DEF CS!ClientSendAssumption
<1>3. CS!Outstanding < csByteRange
  BY CSLibrary, <1>1, <1>2, InsertingCounted DEF InsertingBounded, CS!WindowFits
<1>4. CS!Outstanding % csByteRange = CS!Outstanding
  BY <1>1, <1>2, <1>3
<1> QED
  BY <1>1, <1>2, <1>4 DEF CS!HasRoom

\* One packet more is outstanding at most.
LEMMA InsertCounted ==
    ASSUME CS!ClientSendAssumption, QueuesTyped, NEW p \in CS!Packets,
           csSendPacketInfoMap' = csSendPacketInfoMap \cup {p}
    PROVE  CS!Outstanding \in Nat /\ CS!Outstanding' \in Nat /\ CS!Outstanding' <= CS!Outstanding + 1
<1>1. IsFiniteSet(csSendPacketInfoMap) /\ Cardinality(csSendPacketInfoMap) \in Nat
  BY MapIsFinite DEF QueuesTyped
<1>2. Cardinality(csSendPacketInfoMap \cup {p}) \in Nat
  BY MapIsFinite DEF QueuesTyped
<1>3. Cardinality(csSendPacketInfoMap \cup {p}) <= Cardinality(csSendPacketInfoMap) + 1
  <2>1. CASE p \in csSendPacketInfoMap
    <3>1. csSendPacketInfoMap \cup {p} = csSendPacketInfoMap
      BY <2>1
    <3> QED
      BY <1>1, <3>1
  <2>2. CASE p \notin csSendPacketInfoMap
    <3>1. Cardinality(csSendPacketInfoMap \cup {p}) = Cardinality(csSendPacketInfoMap) + 1
      BY <1>1, <2>2, FS_AddElement
    <3> QED
      BY <1>1, <3>1
  <2> QED
    BY <2>1, <2>2
<1> QED
  BY CSLibrary, <1>1, <1>2, <1>3 DEF CS!Outstanding

LEMMA InitSends == ASSUME CS!ClientSendAssumption, CS!Init PROVE CSInv
<1>1. ThreadsTyped
  BY RestingIs DEF CS!Init, ThreadsTyped
<1>2. QueuesTyped
  BY PacketsAre DEF CS!Init, QueuesTyped
<1>3. ServerTyped /\ ServerHas
  <2>1. serverNext = 0 /\ csToServer = {} /\ csToClient = {} /\ serverHeld = {} /\ csRecv.pc = "idle"
    BY PacketsAre DEF CS!Init, CS!Resting
  <2>2. \A p \in CS!Packets : ~ (p < 0)
    BY PacketsAre
  <2>3. ServerTyped
    BY <2>1, PacketsAre DEF ServerTyped
  <2>4. ServerHas
    BY <2>1, <2>2 DEF ServerHas
  <2> QED
    BY <2>3, <2>4
<1>4. CountsBelowLimit
  <2>1. csRetransmissionCount = [p \in CS!Packets |-> 0] /\ csRt.pc = "idle"
    BY DEF CS!Init, CS!Resting
  <2>2. csIsConnected = FALSE /\ csThreadStopFlag = FALSE
    BY DEF CS!Init
  <2>3. /\ csRetransmissionCount \in [CS!Packets -> 0 .. csMaxRetransmissions]
        /\ \A p \in CS!Packets : csRetransmissionCount[p] < csMaxRetransmissions
    BY <2>1 DEF CS!ClientSendAssumption
  <2> QED
    BY <2>1, <2>2, <2>3 DEF CountsBelowLimit
<1>5. InOnePlace
  <2> SUFFICES ASSUME NEW p \in CS!Packets PROVE OnePlace(p)
    BY DEF InOnePlace
  <2>1. ~ Waiting(p)
    BY DEF CS!Init, Waiting, Holds, RecvHolds, CS!Resting
  <2>2. Registered(p) => p = CS!Connect
    <3>1. InQueue(p) => p = CS!Connect
      BY DEF CS!Init, InQueue
    <3> QED
      BY <3>1 DEF CS!Init, Registered, Enqueuing, CS!Resting
  <2>3. p <= csLastSendPacketSequence => p = CS!Connect
    BY PacketsAre DEF CS!Init
  <2> QED
    BY <2>1, <2>2, <2>3, PacketsAre DEF CS!Init, OnePlace, Waiting
<1>6. InsertingBounded
  <2>1. Inserting = {} /\ csRecv.pc # "insert" /\ csSendPacketInfoMap = {CS!Connect}
    BY DEF CS!Init, Inserting, CS!Resting
  <2>2. Cardinality(Inserting) = 0 /\ CS!Outstanding = 1
    BY CSLibrary, <2>1, FS_EmptySet, FS_Singleton DEF CS!Outstanding
  <2> QED
    BY <2>1, <2>2, InsertingCounted DEF InsertingBounded, CS!ClientSendAssumption
<1> QED
  BY <1>1, <1>2, <1>3, <1>4, <1>5, <1>6 DEF CSInv

\* The bound is about three numbers only.
LEMMA BoundKept ==
    ASSUME InsertingBounded, UNCHANGED csSendPacketInfoMap, Inserting' = Inserting,
           (csRecv'.pc = "insert") = (csRecv.pc = "insert")
    PROVE  InsertingBounded'
BY DEF InsertingBounded, CS!Outstanding, CS!WindowFits

LEMMA TakeSequenceSends ==
    ASSUME CS!ClientSendAssumption, CSInv, NEW t \in csSenders, CS!TakeSequence(t) PROVE CSInv'
<1> USE DEF CSInv, CS!TakeSequence
<1>1. ThreadsTyped'
  <2>1. csLastSendPacketSequence + 1 \in CS!Packets \ {CS!Connect}
    BY PacketsAre DEF QueuesTyped
  <2> QED
    BY <2>1, PacketsAre, RestingIs DEF ThreadsTyped, Pcs, Windows, SenderRecords
<1>2. QueuesTyped' /\ ServerTyped'
  BY PacketsAre DEF QueuesTyped, ServerTyped, ThreadsTyped, CS!serverVars
<1>3. CountsBelowLimit'
  BY DEF CountsBelowLimit, CS!flagVars, CS!Resting
<1>4. ServerHas'
  BY DEF ServerHas, CS!serverVars, CS!Resting
<1>5. InOnePlace'
  <2> SUFFICES ASSUME NEW p \in CS!Packets PROVE OnePlace(p)'
    BY DEF InOnePlace
  <2> OnePlace(p)
    BY DEF InOnePlace
  <2> DEFINE new == csLastSendPacketSequence + 1
  <2>1. /\ csSender'[t] = [pc |-> "load", packet |-> new, window |-> 0] /\ csSender[t].pc = "idle"
        /\ \A u \in csSenders : u # t => csSender'[u] = csSender[u]
    BY DEF ThreadsTyped
  <2>2. new \in CS!Packets /\ csLastSendPacketSequence \in Nat /\ csLastSendPacketSequence' = new
    BY PacketsAre DEF QueuesTyped
  <2>3. \A u \in csSenders : Holds(u, p)' <=> (Holds(u, p) \/ (u = t /\ p = new))
    BY <2>1 DEF Holds
  <2>4. (RecvHolds(p)' <=> RecvHolds(p)) /\ (p \in csPendingPacketQueue' <=> p \in csPendingPacketQueue)
    BY DEF RecvHolds
  <2>5. Registered(p)' <=> Registered(p)
    BY <2>1 DEF Registered, Enqueuing, InQueue, CS!serverVars
  <2>6. p \in Nat
    BY PacketsAre
  <2>7. p = new => ~ Waiting(p) /\ ~ Registered(p)
    BY <2>2 DEF OnePlace
  <2> HIDE DEF CS!TakeSequence, new
  <2>8. /\ p = new => \A u \in csSenders : ~ Holds(u, p)
        /\ p <= new => p <= csLastSendPacketSequence \/ p = new
    BY <2>2, <2>6, <2>7 DEF new, Waiting
  <2>9. UNCHANGED <<serverNext, csSendPacketInfoMap>>
    BY DEF CS!TakeSequence, CS!serverVars
  <2> QED
    BY <2>2, <2>3, <2>4, <2>5, <2>6, <2>7, <2>8, <2>9 DEF OnePlace, Waiting, new
<1>6. InsertingBounded'
  BY BoundKept DEF Inserting, ThreadsTyped, CS!Resting
<1> QED
  BY <1>1, <1>2, <1>3, <1>4, <1>5, <1>6

\* The window is one of the two that it can be.
LEMMA LoadWindowSends ==
    ASSUME CS!ClientSendAssumption, CSInv, NEW t \in csSenders, CS!LoadWindow(t) PROVE CSInv'
<1> USE DEF CSInv, CS!LoadWindow, CS!queueVars
<1>1. ThreadsTyped'
  <2>1. "check" \in Pcs \ {"idle"} /\ remoteAdvertisedWindow \in Windows \cap {1, csWindow}
    BY DEF Pcs, Windows, QueuesTyped
  <2>2. csSender[t].pc # "idle" /\ UNCHANGED <<csRecv, csRt>> /\ ThreadsTyped
    OBVIOUS
  <2> QED
    BY <2>1, <2>2, SenderGoes
<1>2. QueuesTyped' /\ ServerTyped'
  BY DEF QueuesTyped, ServerTyped, CS!serverVars
<1>3. CountsBelowLimit' /\ ServerHas'
  BY DEF CountsBelowLimit, ServerHas, CS!flagVars, CS!serverVars
<1>4. InOnePlace'
  <2> SUFFICES ASSUME NEW p \in CS!Packets PROVE OnePlace(p)'
    BY DEF InOnePlace
  <2> OnePlace(p)
    BY DEF InOnePlace
  <2>1. /\ csSender[t].pc = "load" /\ csSender'[t].pc = "check"
        /\ csSender'[t].packet = csSender[t].packet
        /\ \A u \in csSenders : u # t => csSender'[u] = csSender[u]
    BY DEF ThreadsTyped, SenderRecords
  <2>2. \A u \in csSenders : Holds(u, p)' <=> Holds(u, p)
    BY <2>1 DEF Holds
  <2>3. Registered(p)' <=> Registered(p)
    BY <2>1 DEF Registered, Enqueuing, InQueue, CS!serverVars
  <2> QED
    BY <2>2, <2>3 DEF OnePlace, Waiting, RecvHolds, CS!serverVars
<1>5. InsertingBounded'
  BY BoundKept DEF Inserting, ThreadsTyped, SenderRecords
<1> QED
  BY <1>1, <1>2, <1>3, <1>4, <1>5

LEMMA CheckWindowSends ==
    ASSUME CS!ClientSendAssumption, CSInv, NEW t \in csSenders, CS!CheckWindow(t) PROVE CSInv'
<1> USE DEF CSInv, CS!CheckWindow, CS!queueVars
<1> DEFINE room == CS!HasRoom(csSender[t].window)
           pc == IF room THEN "insert" ELSE "push"
<1>0. csSender' = [csSender EXCEPT ![t].pc = pc, ![t].window = 0]
  OBVIOUS
<1>1. ThreadsTyped'
  <2>1. pc \in Pcs \ {"idle"} /\ pc # "check" /\ 0 \in Windows
    BY DEF Pcs, Windows
  <2>2. csSender[t].pc # "idle" /\ UNCHANGED <<csRecv, csRt>> /\ ThreadsTyped
    OBVIOUS
  <2> HIDE DEF pc, CS!CheckWindow
  <2> QED
    BY <1>0, <2>1, <2>2, SenderGoes
<1> HIDE DEF room
<1>2. QueuesTyped' /\ ServerTyped'
  BY PacketsAre DEF QueuesTyped, ServerTyped, ThreadsTyped, CS!serverVars
<1>3. CountsBelowLimit'
  BY DEF CountsBelowLimit, CS!flagVars, CS!Resting
<1>4. ServerHas'
  BY DEF ServerHas, CS!serverVars, CS!Resting
<1>5. InOnePlace'
  <2> SUFFICES ASSUME NEW p \in CS!Packets PROVE OnePlace(p)'
    BY DEF InOnePlace
  <2> OnePlace(p)
    BY DEF InOnePlace
  <2>1. /\ csSender[t].pc = "check" /\ csSender'[t].pc \in {"insert", "push"}
        /\ csSender'[t].packet = csSender[t].packet
        /\ \A u \in csSenders : u # t => csSender'[u] = csSender[u]
    BY <1>0 DEF ThreadsTyped, SenderRecords
  <2>2. \A u \in csSenders : Holds(u, p)' <=> Holds(u, p)
    BY <2>1 DEF Holds
  <2>3. Registered(p)' <=> Registered(p)
    BY <2>1 DEF Registered, Enqueuing, InQueue, CS!serverVars, CS!queueVars
  <2> QED
    BY <2>2, <2>3 DEF OnePlace, Waiting, RecvHolds, CS!queueVars, CS!serverVars
<1>6. InsertingBounded'
  <2>1. CASE ~ room
    BY <1>0, <2>1, BoundKept DEF Inserting, ThreadsTyped, SenderRecords
  <2>2. CASE room
    <3> SUFFICES ASSUME CS!WindowFits PROVE InsertingBounded'
      BY DEF InsertingBounded, CS!WindowFits
    <3>1. /\ Inserting' = Inserting \cup {t} /\ t \notin Inserting
          /\ UNCHANGED <<csSendPacketInfoMap, csRecv>>
      BY <1>0, <2>2 DEF Inserting, ThreadsTyped, SenderRecords
    <3>2. Inserting' \subseteq csSenders
      BY DEF Inserting
    <3>3. Cardinality(Inserting') <= Cardinality(csSenders) /\ Cardinality(Inserting') \in Nat
      BY CSLibrary, <3>2, FS_Subset, FS_CardinalityType DEF CS!ClientSendAssumption
    <3>4. csSender[t].window \in {1, csWindow}
      BY DEF ThreadsTyped
    <3>5. CS!Outstanding \in Nat /\ CS!Outstanding < csWindow /\ csWindow \in Nat
      BY <2>2, <3>4, RoomIsBelow DEF room
    <3>6. CS!Outstanding' = CS!Outstanding
      BY <3>1 DEF CS!Outstanding
    <3> QED
      BY <3>1, <3>3, <3>5, <3>6, InsertingCounted DEF InsertingBounded
  <2> QED
    BY <2>1, <2>2
<1> QED
  BY <1>1, <1>2, <1>3, <1>4, <1>5, <1>6

LEMMA PushPendingSends ==
    ASSUME CS!ClientSendAssumption, CSInv, NEW t \in csSenders, CS!PushPending(t) PROVE CSInv'
<1> USE DEF CSInv, CS!PushPending
<1>1. ThreadsTyped'
  <2>1. csSender' = [csSender EXCEPT ![t] = CS!Resting] /\ UNCHANGED <<csRecv, csRt>> /\ ThreadsTyped
    OBVIOUS
  <2> QED
    BY <2>1, SenderRests
<1>2. QueuesTyped' /\ ServerTyped'
  <2>1. csSender[t].packet \in CS!Packets \ {CS!Connect}
    BY RestingIs DEF ThreadsTyped
  <2> QED
    BY <2>1 DEF QueuesTyped, ServerTyped, CS!serverVars
<1>3. CountsBelowLimit'
  BY DEF CountsBelowLimit, CS!flagVars, CS!Resting
<1>4. ServerHas'
  BY DEF ServerHas, CS!serverVars, CS!Resting
<1>5. InOnePlace'
  <2> SUFFICES ASSUME NEW p \in CS!Packets PROVE OnePlace(p)'
    BY DEF InOnePlace
  <2> OnePlace(p)
    BY DEF InOnePlace
  <2>1. /\ csSender[t].pc = "push" /\ csSender'[t].pc = "idle"
        /\ \A u \in csSenders : u # t => csSender'[u] = csSender[u]
    BY DEF ThreadsTyped, CS!Resting
  <2>2. \A u \in csSenders : Holds(u, p)' <=> (Holds(u, p) /\ u # t)
    BY <2>1 DEF Holds
  <2>3. p \in csPendingPacketQueue' <=> (p \in csPendingPacketQueue \/ Holds(t, p))
    BY <2>1 DEF Holds
  <2>4. Registered(p)' <=> Registered(p)
    BY <2>1 DEF Registered, Enqueuing, InQueue, CS!serverVars
  <2>5. ~ RecvHolds(p)' /\ ~ RecvHolds(p)
    BY DEF RecvHolds, CS!Flushing
  <2>6. UNCHANGED <<csLastSendPacketSequence, csSendPacketInfoMap, serverNext>>
    BY DEF CS!serverVars
  <2> HIDE DEF CS!PushPending
  <2> QED
    BY <2>2, <2>3, <2>4, <2>5, <2>6 DEF OnePlace, Waiting
<1>6. InsertingBounded'
  BY BoundKept DEF Inserting, ThreadsTyped, CS!Resting
<1> QED
  BY <1>1, <1>2, <1>3, <1>4, <1>5, <1>6

LEMMA RegisterSends ==
    ASSUME CS!ClientSendAssumption, CSInv, NEW t \in csSenders, CS!RegisterSendPacketInfo(t) PROVE CSInv'
<1> USE DEF CSInv, CS!RegisterSendPacketInfo, CS!Insert, CS!Enqueue
<1>1. ThreadsTyped'
  <2>1. CASE csSender[t].pc = "insert"
    <3>1. "enqueue" \in Pcs \ {"idle"} /\ csSender[t].window \in Windows
      BY DEF Pcs, ThreadsTyped, SenderRecords
    <3>2. csSender' = [csSender EXCEPT ![t].pc = "enqueue", ![t].window = csSender[t].window]
      BY <2>1 DEF ThreadsTyped, SenderRecords
    <3>3. csSender[t].pc # "idle" /\ UNCHANGED <<csRecv, csRt>> /\ ThreadsTyped
      BY <2>1
    <3> HIDE DEF CS!RegisterSendPacketInfo, CSInv
    <3> QED
      BY <3>1, <3>2, <3>3, SenderGoes
  <2>2. CASE csSender[t].pc = "enqueue"
    BY <2>2, SenderRests
  <2> QED
    BY <2>1, <2>2
<1>2. QueuesTyped' /\ ServerTyped'
  <2>1. csSender[t].packet \in CS!Packets
    BY RestingIs DEF ThreadsTyped
  <2> QED
    BY <2>1 DEF QueuesTyped, ServerTyped, CS!serverVars
<1>3. CountsBelowLimit'
  BY DEF CountsBelowLimit, CS!flagVars, CS!Resting
<1>4. ServerHas'
  BY DEF ServerHas, CS!serverVars, CS!Resting
<1>5. InOnePlace'
  <2> SUFFICES ASSUME NEW p \in CS!Packets PROVE OnePlace(p)'
    BY DEF InOnePlace
  <2> OnePlace(p)
    BY DEF InOnePlace
  <2>1. \A u \in csSenders : u # t => csSender'[u] = csSender[u]
    BY DEF ThreadsTyped, CS!Resting
  <2>2. CASE csSender[t].pc = "insert"
    <3>1. csSender'[t].pc = "enqueue" /\ csSender'[t].packet = csSender[t].packet
      BY <2>2 DEF ThreadsTyped, SenderRecords
    <3>2. \A u \in csSenders : Holds(u, p)' <=> (Holds(u, p) /\ u # t)
      BY <2>1, <3>1 DEF Holds
    <3>3. InQueue(p)' <=> InQueue(p)
      BY <2>2 DEF InQueue
    <3>4. p \in csSendPacketInfoMap' <=> (p \in csSendPacketInfoMap \/ Holds(t, p))
      BY <2>2 DEF Holds
    <3>5. Enqueuing(p)' <=> (Enqueuing(p) \/ Holds(t, p))
      BY <2>1, <2>2, <3>1 DEF Enqueuing, Holds
    <3>6. Registered(p)' <=> (Registered(p) \/ Holds(t, p))
      BY <3>3, <3>4, <3>5 DEF Registered, CS!serverVars
    <3>7. UNCHANGED <<csRecv, csLastSendPacketSequence, csPendingPacketQueue, serverNext>>
      BY <2>2 DEF CS!serverVars
    <3> HIDE DEF CS!RegisterSendPacketInfo
    <3> QED
      BY <3>2, <3>4, <3>6, <3>7 DEF OnePlace, Waiting, RecvHolds
  <2>3. CASE csSender[t].pc = "enqueue"
    <3>1. csSender'[t].pc = "idle" /\ csSender[t].packet \in CS!Packets
      BY <2>3 DEF ThreadsTyped, CS!Resting
    <3>2. \A u \in csSenders : Holds(u, p)' <=> Holds(u, p)
      BY <2>1, <2>3, <3>1 DEF Holds
    <3>3. /\ sendBufferQueue' = Append(sendBufferQueue, csSender[t].packet)
          /\ sendBufferQueue \in Seq(CS!Packets)
      BY <2>3 DEF QueuesTyped
    <3>4. InQueue(p)' <=> (InQueue(p) \/ p = csSender[t].packet)
      BY <3>1, <3>3, QueueAppended
    <3>5. Registered(p)' <=> Registered(p)
      <4>1. Enqueuing(p) => Enqueuing(p)' \/ p = csSender[t].packet
        BY <2>1, <2>3, <3>1 DEF Enqueuing
      <4>2. Enqueuing(p)' => Enqueuing(p)
        BY <2>1, <2>3, <3>1 DEF Enqueuing
      <4>3. p = csSender[t].packet => Enqueuing(p)
        BY <2>3 DEF Enqueuing
      <4> QED
        BY <2>3, <3>4, <4>1, <4>2, <4>3 DEF Registered, CS!serverVars
    <3>6. UNCHANGED <<csRecv, csLastSendPacketSequence, csPendingPacketQueue, csSendPacketInfoMap,
                      serverNext>>
      BY <2>3 DEF CS!serverVars
    <3> HIDE DEF CS!RegisterSendPacketInfo
    <3> QED
      BY <3>2, <3>5, <3>6 DEF OnePlace, Waiting, RecvHolds
  <2> QED
    BY <2>2, <2>3
<1>6. InsertingBounded'
  <2>1. CASE csSender[t].pc = "insert"
    <3>1. t \in Inserting /\ Inserting' = Inserting \ {t} /\ UNCHANGED csRecv
      BY <2>1 DEF Inserting, ThreadsTyped, SenderRecords
    <3>2. Cardinality(Inserting') = Cardinality(Inserting) - 1
      BY <3>1, InsertingCounted, FS_RemoveElement
    <3>3. CS!Outstanding' <= CS!Outstanding + 1 /\ CS!Outstanding \in Nat /\ CS!Outstanding' \in Nat
      BY <2>1, InsertCounted, RestingIs DEF ThreadsTyped
    <3>4. InsertingBounded /\ csWindow \in Nat
      BY DEF CS!ClientSendAssumption
    <3>5. csRecv'.pc = csRecv.pc
      BY <3>1
    <3> HIDE DEF CSInv, CS!RegisterSendPacketInfo
    <3> QED
      BY <3>2, <3>3, <3>4, <3>5, InsertingCounted DEF InsertingBounded, CS!WindowFits
  <2>2. CASE csSender[t].pc = "enqueue"
    <3>1. csSender'[t].pc = "idle" /\ \A u \in csSenders : u # t => csSender'[u] = csSender[u]
      BY <2>2, RestingIs DEF ThreadsTyped
    <3>2. Inserting' = Inserting /\ UNCHANGED <<csRecv, csSendPacketInfoMap>>
      BY <2>2, <3>1 DEF Inserting
    <3> QED
      BY <3>2, BoundKept
  <2> QED
    BY <2>1, <2>2
<1> QED
  BY <1>1, <1>2, <1>3, <1>4, <1>5, <1>6

LEMMA OnSendReplySends ==
    ASSUME CS!ClientSendAssumption, CSInv, NEW p \in CS!Packets, CS!OnSendReply(p) PROVE CSInv'
<1> USE DEF CSInv, CS!OnSendReply
<1>1. ThreadsTyped'
  BY PacketsAre DEF ThreadsTyped, RecvRecords, Windows
<1>2. QueuesTyped' /\ ServerTyped'
  BY DEF QueuesTyped, ServerTyped, CS!serverVars
<1>3. CountsBelowLimit'
  <2>1. csIsConnected' \in BOOLEAN
    BY DEF CountsBelowLimit
  <2> QED
    BY <2>1 DEF CountsBelowLimit
<1>4. ServerHas'
  BY DEF ServerHas, CS!serverVars
<1>5. InOnePlace'
  <2> SUFFICES ASSUME NEW q \in CS!Packets PROVE OnePlace(q)'
    BY DEF InOnePlace
  <2> OnePlace(q)
    BY DEF InOnePlace
  <2>1. csRecv.pc = "idle" /\ csRecv'.pc = "erase" /\ UNCHANGED <<csSender, csRt>>
    OBVIOUS
  <2>2. (\A u \in csSenders : Holds(u, q)' <=> Holds(u, q)) /\ (RecvHolds(q)' <=> RecvHolds(q))
    BY <2>1 DEF Holds, RecvHolds
  <2>3. Registered(q)' <=> Registered(q)
    BY <2>1 DEF Registered, Enqueuing, InQueue, CS!serverVars
  <2> QED
    BY <2>2, <2>3 DEF OnePlace, Waiting, CS!serverVars
<1>6. InsertingBounded'
  BY BoundKept DEF Inserting
<1> QED
  BY <1>1, <1>2, <1>3, <1>4, <1>5, <1>6

LEMMA EraseSends ==
    ASSUME CS!ClientSendAssumption, CSInv, CS!EraseSendPacketInfo PROVE CSInv'
<1> USE DEF CSInv, CS!EraseSendPacketInfo
<1>1. ThreadsTyped'
  BY PacketsAre DEF ThreadsTyped, QueuesTyped, RecvRecords, Windows
<1>2. QueuesTyped' /\ ServerTyped'
  BY DEF QueuesTyped, ServerTyped, CS!serverVars
<1>3. CountsBelowLimit'
  BY DEF CountsBelowLimit, CS!flagVars
<1>4. ServerHas'
  BY DEF ServerHas, CS!serverVars
<1>5. InOnePlace'
  <2> SUFFICES ASSUME NEW q \in CS!Packets PROVE OnePlace(q)'
    BY DEF InOnePlace
  <2> OnePlace(q)
    BY DEF InOnePlace
  <2>1. csRecv.pc = "erase" /\ csRecv'.pc = "flush" /\ UNCHANGED <<csSender, csRt>>
    OBVIOUS
  <2>2. (\A u \in csSenders : Holds(u, q)' <=> Holds(u, q)) /\ (RecvHolds(q)' <=> RecvHolds(q))
    BY <2>1 DEF Holds, RecvHolds
  <2>3. Registered(q)' => Registered(q)
    BY <2>1 DEF Registered, Enqueuing, InQueue, CS!serverVars
  <2>4. q \in csSendPacketInfoMap => q \in csSendPacketInfoMap' \/ q < serverNext
    BY DEF ServerHas
  <2>5. q \in csSendPacketInfoMap' => q \in csSendPacketInfoMap
    OBVIOUS
  <2>6. UNCHANGED <<serverNext, csPendingPacketQueue, csLastSendPacketSequence>>
    BY DEF CS!serverVars
  <2> HIDE DEF CS!EraseSendPacketInfo
  <2> QED
    BY <2>2, <2>3, <2>4, <2>5, <2>6 DEF OnePlace, Waiting
<1>6. InsertingBounded'
  <2>1. Inserting' = Inserting /\ csRecv.pc = "erase" /\ csRecv'.pc = "flush"
    BY DEF Inserting
  <2>2. CS!Outstanding' <= CS!Outstanding
    <3>1. csSendPacketInfoMap' \subseteq csSendPacketInfoMap
      OBVIOUS
    <3> QED
      BY CSLibrary, <3>1, MapIsFinite, FS_Subset DEF CS!Outstanding, QueuesTyped
  <2>3. CS!Outstanding \in Nat /\ CS!Outstanding' \in Nat
    BY CSLibrary, <1>2, MapIsFinite DEF CS!Outstanding, QueuesTyped
  <2> QED
    BY <2>1, <2>2, <2>3, InsertingCounted
       DEF InsertingBounded, CS!WindowFits, CS!ClientSendAssumption
<1> QED
  BY <1>1, <1>2, <1>3, <1>4, <1>5, <1>6

LEMMA TryFlushSends ==
    ASSUME CS!ClientSendAssumption, CSInv, CS!TryFlushPendingQueue PROVE CSInv'
<1> USE DEF CSInv, CS!TryFlushPendingQueue
<1>1. CASE csRecv' = CS!Resting /\ UNCHANGED csPendingPacketQueue
  <2> USE <1>1
  <2>0. csRecv.pc = "flush" /\ csRecv'.pc = "idle" /\ UNCHANGED <<csSender, csRt>>
    BY RestingIs
  <2>1. ThreadsTyped'
    BY <2>0, RestingIs DEF ThreadsTyped
  <2>2. QueuesTyped' /\ ServerTyped'
    BY DEF QueuesTyped, ServerTyped, CS!serverVars
  <2>3. CountsBelowLimit'
    BY DEF CountsBelowLimit, CS!flagVars
  <2>4. ServerHas'
    BY <2>0 DEF ServerHas, CS!serverVars
  <2>5. InOnePlace'
    <3> SUFFICES ASSUME NEW q \in CS!Packets PROVE OnePlace(q)'
      BY DEF InOnePlace
    <3> OnePlace(q)
      BY DEF InOnePlace
    <3>1. (\A u \in csSenders : Holds(u, q)' <=> Holds(u, q)) /\ (RecvHolds(q)' <=> RecvHolds(q))
      BY <2>0 DEF Holds, RecvHolds
    <3>2. Registered(q)' <=> Registered(q)
      BY <2>0 DEF Registered, Enqueuing, InQueue, CS!serverVars
    <3> QED
      BY <3>1, <3>2 DEF OnePlace, Waiting, CS!serverVars
  <2>6. InsertingBounded'
    BY <2>0, BoundKept DEF Inserting
  <2> QED
    BY <2>1, <2>2, <2>3, <2>4, <2>5, <2>6
<1>2. ASSUME CS!HasRoom(csRecv.window), NEW p \in csPendingPacketQueue,
             csPendingPacketQueue' = csPendingPacketQueue \ {p},
             csRecv' = [csRecv EXCEPT !.pc = "insert", !.packet = p]
      PROVE  CSInv'
  <2> USE <1>2
  <2>0. /\ csRecv.pc = "flush" /\ csRecv'.pc = "insert" /\ csRecv'.packet = p /\ p \in CS!Packets
        /\ csRecv'.window = csRecv.window /\ csRecv.window \in {1, csWindow}
        /\ csRecv' \in RecvRecords /\ UNCHANGED <<csSender, csRt>>
    BY PacketsAre DEF QueuesTyped, ThreadsTyped, RecvRecords
  <2>1. ThreadsTyped'
    BY <2>0, PacketsAre DEF ThreadsTyped
  <2>2. QueuesTyped' /\ ServerTyped'
    BY DEF QueuesTyped, ServerTyped, CS!serverVars
  <2>3. CountsBelowLimit'
    BY DEF CountsBelowLimit, CS!flagVars
  <2>4. ServerHas'
    BY <2>0 DEF ServerHas, CS!serverVars
  <2>5. InOnePlace'
    <3> SUFFICES ASSUME NEW q \in CS!Packets PROVE OnePlace(q)'
      BY DEF InOnePlace
    <3> OnePlace(q)
      BY DEF InOnePlace
    <3>1. \A u \in csSenders : Holds(u, q)' <=> Holds(u, q)
      BY <2>0 DEF Holds
    <3>2. (RecvHolds(q)' <=> q = p) /\ ~ RecvHolds(q)
      BY <2>0 DEF RecvHolds
    <3>3. q \in csPendingPacketQueue' <=> (q \in csPendingPacketQueue /\ q # p)
      OBVIOUS
    <3>4. Registered(q)' <=> Registered(q)
      BY <2>0 DEF Registered, Enqueuing, InQueue, CS!serverVars
    <3>5. UNCHANGED <<serverNext, csSendPacketInfoMap, csLastSendPacketSequence>>
      BY DEF CS!serverVars
    <3>6. p \in csPendingPacketQueue
      OBVIOUS
    <3> HIDE DEF CS!TryFlushPendingQueue
    <3> QED
      BY <3>1, <3>2, <3>3, <3>4, <3>5, <3>6 DEF OnePlace, Waiting
  <2>6. InsertingBounded'
    <3> SUFFICES ASSUME CS!WindowFits PROVE InsertingBounded'
      BY DEF InsertingBounded, CS!WindowFits
    <3>1. Inserting' = Inserting /\ CS!Outstanding' = CS!Outstanding
      BY <2>0 DEF Inserting, CS!Outstanding
    <3>2. CS!Outstanding \in Nat /\ CS!Outstanding < csWindow /\ csWindow \in Nat
      BY <2>0, RoomIsBelow
    <3> QED
      BY <2>0, <3>1, <3>2, InsertingCounted DEF InsertingBounded
  <2> QED
    BY <2>1, <2>2, <2>3, <2>4, <2>5, <2>6
<1>3. CASE csPendingPacketQueue # {} /\ CS!HasRoom(csRecv.window)
  <2>1. CS!Min(csPendingPacketQueue) \in csPendingPacketQueue
    BY <1>3, LowestPending
  <2> DEFINE p == CS!Min(csPendingPacketQueue)
  <2>2. /\ csPendingPacketQueue' = csPendingPacketQueue \ {p}
        /\ csRecv' = [csRecv EXCEPT !.pc = "insert", !.packet = p]
    BY <1>3
  <2>3. p \in csPendingPacketQueue
    BY <2>1
  <2> HIDE DEF p, CSInv, CS!TryFlushPendingQueue
  <2> QED
    BY <1>2, <1>3, <2>2, <2>3
<1> QED
  BY <1>1, <1>3

LEMMA RegisterPendingSends ==
    ASSUME CS!ClientSendAssumption, CSInv, CS!RegisterPending PROVE CSInv'
<1> USE DEF CSInv, CS!RegisterPending, CS!Insert, CS!Enqueue
<1> DEFINE p == csRecv.packet
<1>0. p \in CS!Packets
  BY DEF ThreadsTyped
<1> HIDE DEF p
<1>1. ThreadsTyped'
  BY PacketsAre DEF ThreadsTyped, RecvRecords
<1>2. QueuesTyped' /\ ServerTyped'
  BY <1>0 DEF QueuesTyped, ServerTyped, CS!serverVars, p
<1>3. CountsBelowLimit'
  BY DEF CountsBelowLimit, CS!flagVars
<1>4. ServerHas'
  BY DEF ServerHas, CS!serverVars, ThreadsTyped, RecvRecords
<1>5. InOnePlace'
  <2> SUFFICES ASSUME NEW q \in CS!Packets PROVE OnePlace(q)'
    BY DEF InOnePlace
  <2> OnePlace(q)
    BY DEF InOnePlace
  <2>1. \A u \in csSenders : Holds(u, q)' <=> Holds(u, q)
    BY DEF Holds
  <2>2. CASE csRecv.pc = "insert"
    <3>1. csRecv'.pc = "enqueue" /\ csRecv'.packet = p
      BY <2>2 DEF ThreadsTyped, RecvRecords, p
    <3>2. ~ RecvHolds(q)' /\ (RecvHolds(q) <=> q = p)
      BY <2>2, <3>1 DEF RecvHolds, p
    <3>3. q \in csSendPacketInfoMap' <=> (q \in csSendPacketInfoMap \/ q = p)
      BY <2>2 DEF p
    <3>4. Registered(q)' => Registered(q) \/ q = p
      BY <2>2, <3>1, <3>3 DEF Registered, Enqueuing, InQueue, CS!serverVars
    <3>5. UNCHANGED <<csLastSendPacketSequence, csPendingPacketQueue, serverNext>>
      BY <2>2 DEF CS!serverVars
    <3> HIDE DEF CS!RegisterPending
    <3> QED
      BY <2>1, <3>2, <3>3, <3>4, <3>5 DEF OnePlace, Waiting
  <2>3. CASE csRecv.pc = "enqueue"
    <3>1. csRecv'.pc = "flush"
      BY <2>3 DEF ThreadsTyped, RecvRecords
    <3>2. ~ RecvHolds(q)' /\ ~ RecvHolds(q)
      BY <2>3, <3>1 DEF RecvHolds
    <3>3. sendBufferQueue' = Append(sendBufferQueue, p) /\ sendBufferQueue \in Seq(CS!Packets)
      BY <2>3 DEF QueuesTyped, p
    <3>4. InQueue(q)' <=> (InQueue(q) \/ q = p)
      BY <1>0, <3>3, QueueAppended
    <3>5. Enqueuing(p)
      BY <2>3 DEF Enqueuing, p
    <3>6. Enqueuing(q)' => Enqueuing(q)
      BY <2>3, <3>1 DEF Enqueuing
    <3>7. Registered(q)' => Registered(q)
      BY <2>3, <3>4, <3>5, <3>6 DEF Registered, CS!serverVars
    <3>8. UNCHANGED <<csLastSendPacketSequence, csPendingPacketQueue, csSendPacketInfoMap, serverNext>>
      BY <2>3 DEF CS!serverVars
    <3> HIDE DEF CS!RegisterPending
    <3> QED
      BY <2>1, <3>2, <3>7, <3>8 DEF OnePlace, Waiting
  <2> QED
    BY <2>2, <2>3
<1>6. InsertingBounded'
  <2>0. Inserting' = Inserting
    BY DEF Inserting
  <2>1. CASE csRecv.pc = "insert"
    <3>1. csRecv'.pc = "enqueue"
      BY <2>1 DEF ThreadsTyped, RecvRecords
    <3>2. CS!Outstanding' <= CS!Outstanding + 1 /\ CS!Outstanding \in Nat /\ CS!Outstanding' \in Nat
      BY <1>0, <2>1, InsertCounted DEF p
    <3> QED
      BY <2>0, <2>1, <3>1, <3>2, InsertingCounted
         DEF InsertingBounded, CS!WindowFits, CS!ClientSendAssumption
  <2>2. CASE csRecv.pc = "enqueue"
    BY <2>0, <2>2, BoundKept DEF ThreadsTyped, RecvRecords
  <2> QED
    BY <2>1, <2>2
<1> QED
  BY <1>1, <1>2, <1>3, <1>4, <1>5, <1>6

\* The retransmission thread moves, and hands a packet to the queue at most.
LEMMA RetransmissionPlaces ==
    ASSUME CS!ClientSendAssumption, CSInv,
           UNCHANGED <<csLastSendPacketSequence, csSendPacketInfoMap, csPendingPacketQueue,
                       csSender, csRecv, CS!serverVars>>,
           \A q \in CS!Packets : Registered(q)' => Registered(q)
    PROVE  InOnePlace' /\ ServerHas' /\ ServerTyped' /\ InsertingBounded'
<1> USE DEF CSInv
<1>1. InOnePlace'
  <2> SUFFICES ASSUME NEW q \in CS!Packets PROVE OnePlace(q)'
    BY DEF InOnePlace
  <2> OnePlace(q)
    BY DEF InOnePlace
  <2>1. (\A u \in csSenders : Holds(u, q)' <=> Holds(u, q)) /\ (RecvHolds(q)' <=> RecvHolds(q))
    BY DEF Holds, RecvHolds
  <2> QED
    BY <2>1 DEF OnePlace, Waiting, CS!serverVars
<1>2. ServerHas' /\ ServerTyped'
  BY DEF ServerHas, ServerTyped, CS!serverVars
<1>3. InsertingBounded'
  BY BoundKept DEF Inserting
<1> QED
  BY <1>1, <1>2, <1>3

LEMMA ScanTimeoutSends ==
    ASSUME CS!ClientSendAssumption, CSInv, NEW p \in CS!Packets, CS!ScanTimeout(p) PROVE CSInv'
<1> USE DEF CSInv, CS!ScanTimeout, CS!queueVars
<1>1. ThreadsTyped'
  BY PacketsAre DEF ThreadsTyped, RtRecords
<1>2. QueuesTyped'
  BY DEF QueuesTyped
<1>3. CountsBelowLimit'
  BY DEF CountsBelowLimit, CS!flagVars
<1>4. \A q \in CS!Packets : Registered(q)' => Registered(q)
  BY DEF ThreadsTyped, RtRecords, Registered, Enqueuing, InQueue, CS!serverVars
<1> QED
  BY <1>1, <1>2, <1>3, <1>4, RetransmissionPlaces

LEMMA CountRetransmissionSends ==
    ASSUME CS!ClientSendAssumption, CSInv, CS!CountRetransmission PROVE CSInv'
<1> USE DEF CSInv, CS!CountRetransmission
<1> DEFINE p == csRt.packet
<1>0. p \in CS!Packets /\ ~ csThreadStopFlag /\ p \in Nat
  BY PacketsAre DEF ThreadsTyped, CountsBelowLimit
<1> HIDE DEF p
<1>1. ThreadsTyped'
  BY PacketsAre, RestingIs DEF ThreadsTyped, RtRecords
<1>2. QueuesTyped'
  BY DEF QueuesTyped
<1>3. CountsBelowLimit'
  <2>1. CASE p \notin csSendPacketInfoMap
    BY <2>1, RestingIs DEF CountsBelowLimit, CS!flagVars, p
  <2>2. CASE p \in csSendPacketInfoMap
    <3> DEFINE n == csRetransmissionCount[p] + 1
    <3>1. csRetransmissionCount' = [csRetransmissionCount EXCEPT ![p] = n] /\ csRt'.pc # "count"
      BY <2>2, RestingIs DEF p, ThreadsTyped, RtRecords
    <3>2. n \in 0 .. csMaxRetransmissions
      BY <1>0 DEF CountsBelowLimit, CS!ClientSendAssumption
    <3>3. csRetransmissionCount' \in [CS!Packets -> 0 .. csMaxRetransmissions]
      <4> HIDE DEF n
      <4> QED
        BY <1>0, <3>1, <3>2 DEF CountsBelowLimit
    <3>4. CASE n >= csMaxRetransmissions
      <4>1. csIsConnected' = FALSE /\ csThreadStopFlag' = TRUE
        BY <2>2, <3>4 DEF p
      <4> QED
        BY <3>1, <3>3, <4>1 DEF CountsBelowLimit
    <3>5. CASE ~ (n >= csMaxRetransmissions)
      <4>1. UNCHANGED CS!flagVars
        BY <2>2, <3>5 DEF p
      <4>2. \A q \in CS!Packets : csRetransmissionCount'[q] < csMaxRetransmissions
        <5>1. csRetransmissionCount'[p] = n
              /\ \A q \in CS!Packets : q # p => csRetransmissionCount'[q] = csRetransmissionCount[q]
          BY <1>0, <3>1 DEF CountsBelowLimit
        <5>2. n < csMaxRetransmissions
          BY <3>2, <3>5 DEF CS!ClientSendAssumption
        <5> HIDE DEF n
        <5> QED
          BY <1>0, <5>1, <5>2 DEF CountsBelowLimit
      <4> QED
        BY <3>1, <3>3, <4>1, <4>2 DEF CountsBelowLimit, CS!flagVars
    <3> QED
      BY <3>4, <3>5
  <2> QED
    BY <2>1, <2>2
<1>4. \A q \in CS!Packets : Registered(q)' => Registered(q)
  <2>1. csRt'.pc = "resend" => csRt'.packet = csRt.packet /\ csRt.packet \in csSendPacketInfoMap
    BY RestingIs DEF ThreadsTyped, RtRecords
  <2>2. UNCHANGED <<csSender, csRecv, sendBufferQueue, csSendPacketInfoMap, csToServer>>
    BY DEF CS!serverVars
  <2> HIDE DEF CS!CountRetransmission
  <2> QED
    BY <2>1, <2>2 DEF Registered, Enqueuing, InQueue
<1> QED
  BY <1>1, <1>2, <1>3, <1>4, RetransmissionPlaces

LEMMA ResendSends ==
    ASSUME CS!ClientSendAssumption, CSInv, CS!Resend PROVE CSInv'
<1> USE DEF CSInv, CS!Resend, CS!Enqueue
<1>0. csRt.packet \in CS!Packets
  BY DEF ThreadsTyped
<1>1. ThreadsTyped'
  BY RestingIs DEF ThreadsTyped
<1>2. QueuesTyped'
  BY <1>0 DEF QueuesTyped
<1>3. CountsBelowLimit'
  BY RestingIs DEF CountsBelowLimit, CS!flagVars
<1>4. \A q \in CS!Packets : Registered(q)' => Registered(q)
  <2>1. sendBufferQueue \in Seq(CS!Packets) /\ sendBufferQueue' = Append(sendBufferQueue, csRt.packet)
    BY DEF QueuesTyped
  <2>2. \A q : InQueue(q)' <=> (InQueue(q) \/ q = csRt.packet)
    BY <1>0, <2>1, QueueAppended
  <2>3. Enqueuing(csRt.packet)
    BY DEF Enqueuing
  <2>4. \A q : Enqueuing(q)' => Enqueuing(q)
    BY RestingIs DEF Enqueuing
  <2> QED
    BY <2>2, <2>3, <2>4 DEF Registered, CS!serverVars
<1> QED
  BY <1>1, <1>2, <1>3, <1>4, RetransmissionPlaces

LEMMA DoSendSends ==
    ASSUME CS!ClientSendAssumption, CSInv, CS!DoSend PROVE CSInv'
<1> USE DEF CSInv, CS!DoSend
<1>0. /\ sendBufferQueue \in Seq(CS!Packets) /\ Head(sendBufferQueue) \in CS!Packets
      /\ sendBufferQueue' \in Seq(CS!Packets)
  BY DEF QueuesTyped
<1>1. ThreadsTyped'
  BY DEF ThreadsTyped
<1>2. QueuesTyped' /\ ServerTyped'
  BY <1>0 DEF QueuesTyped, ServerTyped
<1>3. CountsBelowLimit'
  BY DEF CountsBelowLimit, CS!flagVars
<1>4. ServerHas'
  BY DEF ServerHas
<1>5. InOnePlace'
  <2> SUFFICES ASSUME NEW q \in CS!Packets PROVE OnePlace(q)'
    BY DEF InOnePlace
  <2> OnePlace(q)
    BY DEF InOnePlace
  <2>1. (\A u \in csSenders : Holds(u, q)' <=> Holds(u, q)) /\ (RecvHolds(q)' <=> RecvHolds(q))
    BY DEF Holds, RecvHolds
  <2>2. (InQueue(q)' => InQueue(q)) /\ (q = Head(sendBufferQueue) => InQueue(q))
    BY <1>0, QueueSent
  <2>3. q \in csToServer' => q \in csToServer \/ InQueue(q)
    BY <2>2
  <2>4. (Enqueuing(q)' <=> Enqueuing(q))
    BY DEF Enqueuing
  <2>5. Registered(q)' => Registered(q)
    BY <2>2, <2>3, <2>4 DEF Registered
  <2>6. UNCHANGED <<csLastSendPacketSequence, csPendingPacketQueue, csSendPacketInfoMap, serverNext>>
    OBVIOUS
  <2> HIDE DEF CS!DoSend
  <2> QED
    BY <2>1, <2>5, <2>6 DEF OnePlace, Waiting
<1>6. InsertingBounded'
  BY BoundKept DEF Inserting
<1> QED
  BY <1>1, <1>2, <1>3, <1>4, <1>5, <1>6

\* There is a first packet the server has not got.
FirstMissing(n) ==
    n \notin serverHeld /\ \A m \in serverNext + 1 .. n - 1 : m \in serverHeld
First == CHOOSE n \in serverNext + 1 .. CS!NoPacket : FirstMissing(n)
LEMMA FirstIsMissing ==
    ASSUME CS!ClientSendAssumption, ServerTyped, serverNext \in CS!Packets
    PROVE  First \in serverNext + 1 .. CS!NoPacket /\ FirstMissing(First)
<1> DEFINE S == (serverNext + 1 .. CS!NoPacket) \ serverHeld
<1>1. serverNext \in Nat /\ serverNext < CS!NoPacket /\ CS!NoPacket \in Nat /\ CS!NoPacket \notin serverHeld
  BY PacketsAre DEF ServerTyped
<1>2. S \in SUBSET Nat /\ CS!NoPacket \in S
  BY <1>1
<1>3. PICK n \in S : \A m \in S : n <= m
  BY <1>2, LeastExists
<1>4. FirstMissing(n)
  <2> SUFFICES ASSUME NEW m \in serverNext + 1 .. n - 1, m \notin serverHeld PROVE FALSE
    BY <1>3 DEF FirstMissing
  <2>1. m \in S /\ m < n
    BY <1>1, <1>3
  <2> QED
    BY <1>1, <1>3, <2>1
<1> QED
  BY <1>3, <1>4 DEF First

LEMMA ServerReceivesSends ==
    ASSUME CS!ClientSendAssumption, CSInv, NEW p \in CS!Packets, CS!ServerReceives(p) PROVE CSInv'
<1> USE DEF CSInv
<1> DEFINE handedOn == serverNext .. First - 1
<1>0. /\ p \in csToServer
      /\ \/ /\ p = serverNext
            /\ serverNext' = First /\ serverHeld' = serverHeld \ handedOn
            /\ csToClient' = csToClient \cup handedOn
         \/ /\ p < serverNext
            /\ csToClient' = csToClient \cup {p} /\ UNCHANGED <<serverNext, serverHeld>>
         \/ serverHeld' = serverHeld \cup {p} /\ UNCHANGED <<serverNext, csToClient>>
      /\ UNCHANGED <<CS!queueVars, CS!flagVars, csSender, csRecv, csRt, csToServer>>
  BY DEF CS!ServerReceives, First, FirstMissing
<1>1. p = serverNext => First \in serverNext + 1 .. CS!NoPacket /\ FirstMissing(First)
  BY FirstIsMissing
<1>2. p = serverNext => \A q \in handedOn : q \in CS!Packets /\ q \in csToServer /\ q < First
  <2> SUFFICES ASSUME p = serverNext, NEW q \in handedOn
        PROVE  q \in CS!Packets /\ q \in csToServer /\ q < First
    OBVIOUS
  <2>1. serverNext \in Nat /\ First \in Nat /\ First <= CS!NoPacket
    BY <1>1, PacketsAre DEF ServerTyped
  <2>2. q \in Nat /\ q < First /\ q >= serverNext
    BY <2>1
  <2>3. CASE q = serverNext
    BY <1>0, <2>2, <2>3
  <2>4. CASE q # serverNext
    <3>1. q \in serverNext + 1 .. First - 1
      BY <2>1, <2>2, <2>4
    <3>2. q \in serverHeld
      BY <1>1, <3>1 DEF FirstMissing
    <3> QED
      BY <2>2, <3>2 DEF ServerTyped, ServerHas
  <2> QED
    BY <2>3, <2>4
<1>3. serverNext \in Nat /\ serverNext <= CS!NoPacket /\ CS!NoPacket \in Nat
  BY PacketsAre DEF ServerTyped
<1>4. serverNext' \in 0 .. CS!NoPacket /\ serverNext' >= serverNext
  BY <1>0, <1>1, <1>3 DEF ServerTyped
<1>5. ServerTyped'
  BY <1>0, <1>2, <1>4 DEF ServerTyped
<1>6. ThreadsTyped' /\ QueuesTyped'
  BY <1>0 DEF ThreadsTyped, QueuesTyped, CS!queueVars
<1>7. CountsBelowLimit'
  BY <1>0 DEF CountsBelowLimit, CS!flagVars, CS!queueVars
<1>8. ServerHas'
  <2>1. \A q \in csToClient' : q < serverNext'
    <3> SUFFICES ASSUME NEW q \in csToClient' PROVE q < serverNext'
      OBVIOUS
    <3>1. q \in CS!Packets /\ q \in Nat
      BY <1>5, PacketsAre DEF ServerTyped
    <3>2. CASE q \in csToClient
      BY <1>3, <1>4, <3>1, <3>2 DEF ServerHas
    <3>3. CASE q \notin csToClient /\ p = serverNext
      BY <1>0, <1>2, <1>3, <3>3
    <3>4. CASE q \notin csToClient /\ p # serverNext
      BY <1>0, <3>4
    <3> QED
      BY <3>2, <3>3, <3>4
  <2>2. \A q \in CS!Packets : q < serverNext' => q \in csToServer'
    <3> SUFFICES ASSUME NEW q \in CS!Packets, q < serverNext' PROVE q \in csToServer
      BY <1>0
    <3>1. q \in Nat
      BY PacketsAre
    <3>2. CASE q < serverNext
      BY <3>2 DEF ServerHas
    <3>3. CASE q >= serverNext
      <4>1. p = serverNext /\ serverNext' = First
        BY <1>0, <1>3, <3>1, <3>3
      <4>2. q \in handedOn
        BY <1>1, <1>3, <3>1, <3>3, <4>1
      <4> QED
        BY <1>2, <4>1, <4>2
    <3> QED
      BY <1>3, <3>1, <3>2, <3>3
  <2>3. serverHeld' \subseteq csToServer'
    BY <1>0 DEF ServerHas
  <2>4. csRecv'.pc = "erase" => csRecv'.packet \in csToClient'
    BY <1>0 DEF ServerHas
  <2> QED
    BY <2>1, <2>2, <2>3, <2>4 DEF ServerHas
<1>9. InOnePlace'
  <2> SUFFICES ASSUME NEW q \in CS!Packets PROVE OnePlace(q)'
    BY DEF InOnePlace
  <2> OnePlace(q)
    BY DEF InOnePlace
  <2>1. (\A u \in csSenders : Holds(u, q)' <=> Holds(u, q)) /\ (RecvHolds(q)' <=> RecvHolds(q))
    BY <1>0 DEF Holds, RecvHolds
  <2>2. Registered(q)' <=> Registered(q)
    BY <1>0 DEF Registered, Enqueuing, InQueue, CS!queueVars
  <2>3. UNCHANGED <<csLastSendPacketSequence, csPendingPacketQueue, csSendPacketInfoMap>>
    BY <1>0 DEF CS!queueVars
  <2>4. q < serverNext => q < serverNext'
    <3>1. q \in Nat
      BY PacketsAre
    <3> QED
      BY <1>3, <1>4, <3>1
  <2> QED
    BY <2>1, <2>2, <2>3, <2>4 DEF OnePlace, Waiting
<1>10. InsertingBounded'
  BY <1>0, BoundKept DEF Inserting, CS!queueVars
<1> QED
  BY <1>5, <1>6, <1>7, <1>8, <1>9, <1>10

LEMMA StutterSends == ASSUME CSInv, UNCHANGED CS!vars PROVE CSInv'
<1> USE DEF CSInv, CS!vars, CS!queueVars, CS!flagVars, CS!serverVars
<1>1. ThreadsTyped' /\ QueuesTyped' /\ ServerTyped'
  BY DEF ThreadsTyped, QueuesTyped, ServerTyped
<1>2. CountsBelowLimit' /\ ServerHas'
  BY DEF CountsBelowLimit, ServerHas
<1>3. InOnePlace'
  BY DEF InOnePlace, OnePlace, Waiting, Registered, Enqueuing, InQueue, Holds, RecvHolds
<1>4. InsertingBounded'
  BY BoundKept DEF Inserting
<1> QED
  BY <1>1, <1>2, <1>3, <1>4

LEMMA SendsAlways == ASSUME CS!ClientSendAssumption PROVE CS!Spec => []CSInv
<1>1. CS!Init => CSInv
  BY InitSends
<1>2. CSInv /\ [CS!Next]_(CS!vars) => CSInv'
  <2> SUFFICES ASSUME CSInv, [CS!Next]_(CS!vars) PROVE CSInv'
    OBVIOUS
  <2>1. ASSUME NEW t \in csSenders, CS!Sending(t) PROVE CSInv'
    BY <2>1, TakeSequenceSends, LoadWindowSends, CheckWindowSends, PushPendingSends, RegisterSends DEF CS!Sending
  <2>2. ASSUME NEW p \in CS!Packets, CS!OnSendReply(p) \/ CS!ScanTimeout(p) \/ CS!ServerReceives(p)
        PROVE  CSInv'
    BY <2>2, OnSendReplySends, ScanTimeoutSends, ServerReceivesSends
  <2>3. CASE CS!Flush
    BY <2>3, EraseSends, TryFlushSends, RegisterPendingSends DEF CS!Flush
  <2>4. CASE CS!CountRetransmission \/ CS!Resend \/ CS!DoSend
    BY <2>4, CountRetransmissionSends, ResendSends, DoSendSends
  <2>5. CASE UNCHANGED CS!vars
    BY <2>5, StutterSends
  <2> QED
    BY <2>1, <2>2, <2>3, <2>4, <2>5 DEF CS!Next
<1> QED
  BY <1>1, <1>2, PTL DEF CS!Spec

\* What the client keeps of its sending has the types its code gives it: CONNECT is never
\* left pending, and a packet's count of retransmissions never exceeds the limit.
THEOREM ClientSendTypes == ASSUME CS!ClientSendAssumption PROVE CS!Spec => []CS!TypeOK
<1>1. CSInv => CS!TypeOK
  <2> SUFFICES ASSUME CSInv PROVE CS!TypeOK
    OBVIOUS
  <2> USE DEF CSInv
  <2> DEFINE records == [pc : Pcs, packet : CS!Packets \cup {CS!NoPacket}, window : Windows]
  <2>1. csSender \in [csSenders -> records]
    <3>1. \A t \in csSenders : csSender[t] \in records
      <4> SUFFICES ASSUME NEW t \in csSenders PROVE csSender[t] \in records
        OBVIOUS
      <4>1. CASE csSender[t] = CS!Resting
        BY <4>1 DEF CS!Resting, Pcs, Windows
      <4>2. CASE csSender[t].packet \in CS!Packets
        BY <4>2 DEF ThreadsTyped, SenderRecords
      <4> QED
        BY <4>1, <4>2 DEF ThreadsTyped
    <3>2. csSender = [t \in csSenders |-> csSender[t]]
      BY DEF ThreadsTyped
    <3> HIDE DEF records
    <3> QED
      BY <3>1, <3>2
  <2>2. csRecv.pc \in {"idle", "erase", "flush", "insert", "enqueue"}
        /\ csRt.pc \in {"idle", "count", "resend"}
    BY DEF ThreadsTyped, RecvRecords, RtRecords
  <2>3. /\ csRetransmissionCount \in [CS!Packets -> 0 .. csMaxRetransmissions]
        /\ csIsConnected \in BOOLEAN /\ csThreadStopFlag \in BOOLEAN
    BY DEF CountsBelowLimit
  <2> QED
    BY <2>1, <2>2, <2>3 DEF CS!TypeOK, QueuesTyped, ServerTyped, Pcs, Windows
<1> QED
  BY <1>1, SendsAlways, PTL

\* SendPacket and TryFlushPendingQueue check the window under one lock and register under
\* another: however their threads cross, each exceeds the window by one packet at most, as
\* long as the BYTE that counts what is outstanding can hold that many.
THEOREM WindowAndThreads == ASSUME CS!ClientSendAssumption PROVE CS!Spec => []CS!OutstandingBounded
<1>1. CSInv => CS!OutstandingBounded
  <2> SUFFICES ASSUME CSInv PROVE CS!OutstandingBounded
    OBVIOUS
  <2>1. CS!Outstanding \in Nat
    BY CSLibrary, MapIsFinite DEF CSInv, QueuesTyped, CS!Outstanding
  <2> QED
    BY CSLibrary, <2>1, InsertingCounted
       DEF CSInv, InsertingBounded, CS!OutstandingBounded, CS!WindowFits, CS!ClientSendAssumption
<1> QED
  BY <1>1, SendsAlways, PTL

\* A set in which any two are the same holds one at most.
LEMMA CSOneOrNone ==
    ASSUME NEW S, \A x, y \in S : x = y
    PROVE  Cardinality(S) \in {0, 1} /\ (Cardinality(S) = 0 <=> S = {})
<1>1. CASE S = {}
  BY <1>1, FS_EmptySet
<1>2. CASE S # {}
  <2>1. PICK x \in S : TRUE
    BY <1>2
  <2>2. S = {x}
    BY <2>1
  <2>3. Cardinality(S) = 1
    BY <2>2, FS_Singleton
  <2> QED
    BY <1>2, <2>3
<1> QED
  BY <1>1, <1>2

\* A packet that SendPacket numbered is with one thread, or pending, or outstanding, until
\* the server has handedOn it: a reply, a flush and a push that cross lose none and
\* register none twice.
THEOREM InOnePlaceOnly == ASSUME CS!ClientSendAssumption PROVE CS!Spec => []CS!EachPacketInOnePlace
<1>1. CSInv => CS!EachPacketInOnePlace
  <2> SUFFICES ASSUME CSInv, NEW p \in CS!Packets, p <= csLastSendPacketSequence
        PROVE  LET places == Cardinality(CS!Handling(p))
                                 + (IF p \in csPendingPacketQueue THEN 1 ELSE 0)
                                 + (IF p \in csSendPacketInfoMap THEN 1 ELSE 0)
               IN  places <= 1 /\ (places = 0 => p < serverNext)
    BY CSLibrary DEF CS!EachPacketInOnePlace
  <2> USE DEF CSInv
  <2>1. OnePlace(p)
    BY DEF InOnePlace
  <2>2. \A t \in csSenders : csSender[t].packet = p /\ csSender[t].pc # "enqueue" <=> Holds(t, p)
    <3>1. p # CS!NoPacket
      BY PacketsAre
    <3>2. \A t \in csSenders : csSender[t].packet = p => csSender[t].pc # "idle"
      BY <3>1 DEF ThreadsTyped, CS!Resting
    <3>3. \A t \in csSenders : csSender[t].pc \in Pcs
      BY DEF ThreadsTyped, SenderRecords
    <3> QED
      BY <3>2, <3>3 DEF Holds, Pcs
  <2>3. CS!Handling(p) = {t \in csSenders : Holds(t, p)} \cup {r \in {"recv"} : RecvHolds(p)}
    BY <2>2 DEF CS!Handling, RecvHolds
  <2>4. \A x, y \in CS!Handling(p) : x = y
    BY <2>1, <2>3 DEF OnePlace
  <2>5. /\ Cardinality(CS!Handling(p)) \in {0, 1}
        /\ Cardinality(CS!Handling(p)) = 0 <=> CS!Handling(p) = {}
    BY <2>4, CSOneOrNone
  <2>6. CS!Handling(p) # {} => Waiting(p) /\ p \notin csPendingPacketQueue
    BY <2>1, <2>3 DEF OnePlace, Waiting
  <2>7. p \in csPendingPacketQueue => Waiting(p)
    BY DEF Waiting
  <2>8. Waiting(p) => p \notin csSendPacketInfoMap
    BY <2>1 DEF OnePlace, Registered
  <2>9. Waiting(p) => CS!Handling(p) # {} \/ p \in csPendingPacketQueue
    BY <2>3 DEF Waiting
  <2>10. Waiting(p) \/ p \in csSendPacketInfoMap \/ p < serverNext
    BY <2>1 DEF OnePlace
  <2> QED
    BY <2>5, <2>6, <2>7, <2>8, <2>9, <2>10
<1> QED
  BY <1>1, SendsAlways, PTL

-------------------------------------------------------------------------------
(* The receiving side of the client: in order and once, and kept.            *)

CRTypes ==
    /\ lastSent \in 0 .. crMaxSequence /\ unacked \subseteq 1 .. lastSent
    /\ datagram \in Seq(1 .. lastSent) /\ replying \in 0 .. lastSent /\ replies \subseteq 1 .. lastSent
    /\ crHeld \in [1 .. crMaxSequence -> Nat] /\ crNextRecvPacketSequence \in 1 .. crMaxSequence + 1
    /\ given \in Seq(Nat)

\* What was replied to, or is about to be, the application has passed or will find held.
RepliedIsKept ==
    \A s \in 1 .. crMaxSequence :
        (s \in replies \/ s = replying \/ (s <= lastSent /\ s \notin unacked)) =>
            s < crNextRecvPacketSequence \/ crHeld[s] > 0
CRInv == CRTypes /\ CR!InOrderOnce /\ RepliedIsKept

LEMMA CRNumbers ==
    ASSUME CR!ClientReceiveAssumption, CRTypes
    PROVE  /\ crMaxSequence \in Nat /\ crMaxSequence >= 1 /\ lastSent \in Nat
           /\ crNextRecvPacketSequence \in Nat /\ crNextRecvPacketSequence >= 1
           /\ \A s \in 1 .. crMaxSequence : crHeld[s] \in Nat
           /\ CR!Sequences = 1 .. crMaxSequence
BY DEF CR!ClientReceiveAssumption, CRTypes, CR!Sequences

\* The stop of a pass over the packets held: what lies before it is done with.
LEMMA PassStops ==
    ASSUME CR!ClientReceiveAssumption, CRInv, CR!GetReceivedPacket
    PROVE  \E stop \in crNextRecvPacketSequence .. crMaxSequence + 1 :
              /\ \A s \in crNextRecvPacketSequence .. stop - 1 : s \in crHeartbeats
              /\ crHeld' \in [1 .. crMaxSequence -> Nat]
              /\ \A s \in 1 .. crMaxSequence : s > stop => crHeld'[s] = crHeld[s]
              /\ \/ /\ stop \in (1 .. crMaxSequence) \ crHeartbeats
                    /\ given' = Append(given, stop) /\ crNextRecvPacketSequence' = stop + 1
                 \/ /\ UNCHANGED given /\ crNextRecvPacketSequence' = stop
                    /\ stop \in 1 .. crMaxSequence => crHeld'[stop] = crHeld[stop]
<1>1. PICK stop \in crNextRecvPacketSequence .. crMaxSequence + 1 :
        /\ \A s \in crNextRecvPacketSequence .. stop - 1 : s \in crHeartbeats /\ crHeld[s] > 0
        /\ \/ /\ stop \in CR!Sequences \ crHeartbeats /\ crHeld[stop] > 0
              /\ given' = Append(given, stop) /\ crNextRecvPacketSequence' = stop + 1
              /\ crHeld' = [s \in CR!Sequences |->
                              IF s < stop THEN 0
                              ELSE IF s = stop THEN crHeld[s] - 1 ELSE crHeld[s]]
           \/ /\ stop \in CR!Sequences => crHeld[stop] = 0
              /\ UNCHANGED given /\ crNextRecvPacketSequence' = stop
              /\ crHeld' = [s \in CR!Sequences |-> IF s < stop THEN 0 ELSE crHeld[s]]
  BY DEF CR!GetReceivedPacket
<1>2. CRTypes
  BY DEF CRInv
<1>3. stop \in Nat
  BY <1>1, <1>2, CRNumbers
<1>4. \A s \in crNextRecvPacketSequence .. stop - 1 : s \in crHeartbeats
  BY <1>1
<1>5. CASE /\ stop \in CR!Sequences \ crHeartbeats /\ crHeld[stop] > 0
           /\ given' = Append(given, stop) /\ crNextRecvPacketSequence' = stop + 1
           /\ crHeld' = [s \in CR!Sequences |->
                           IF s < stop THEN 0
                           ELSE IF s = stop THEN crHeld[s] - 1 ELSE crHeld[s]]
  <2>1. crHeld' \in [1 .. crMaxSequence -> Nat]
    BY <1>2, <1>3, <1>5, CRNumbers
  <2>2. \A s \in 1 .. crMaxSequence : s > stop => crHeld'[s] = crHeld[s]
    BY <1>2, <1>3, <1>5, CRNumbers
  <2> QED
    BY <1>1, <1>2, <1>4, <1>5, <2>1, <2>2, CRNumbers
<1>6. CASE /\ stop \in CR!Sequences => crHeld[stop] = 0
           /\ UNCHANGED given /\ crNextRecvPacketSequence' = stop
           /\ crHeld' = [s \in CR!Sequences |-> IF s < stop THEN 0 ELSE crHeld[s]]
  <2>1. crHeld' \in [1 .. crMaxSequence -> Nat]
    BY <1>2, <1>3, <1>6, CRNumbers
  <2>2. \A s \in 1 .. crMaxSequence : s >= stop => crHeld'[s] = crHeld[s]
    BY <1>2, <1>3, <1>6, CRNumbers
  <2> QED
    BY <1>1, <1>3, <1>4, <1>6, <2>1, <2>2
<1> QED
  BY <1>1, <1>5, <1>6

LEMMA CRStep ==
    ASSUME CR!ClientReceiveAssumption, CRInv, [CR!Next]_(CR!vars)
    PROVE  CRInv'
<1> USE DEF CRInv
<1>1. CASE UNCHANGED CR!vars
  BY <1>1 DEF CRTypes, RepliedIsKept, CR!InOrderOnce, CR!vars, CR!serverVars, CR!recvVars,
     CR!queueVars
<1>2. CASE CR!CheckServer
  BY <1>2 DEF CRTypes, RepliedIsKept, CR!InOrderOnce, CR!CheckServer, CR!serverVars, CR!recvVars,
     CR!queueVars
<1>3. CASE CR!ServerSends
  <2>1. /\ lastSent < crMaxSequence /\ lastSent' = lastSent + 1
        /\ unacked' = unacked \union {lastSent + 1}
        /\ UNCHANGED <<datagram, replying, replies, crHeld, crNextRecvPacketSequence, given>>
    BY <1>3 DEF CR!ServerSends, CR!recvVars, CR!queueVars
  <2>2. lastSent' \in 0 .. crMaxSequence /\ 1 .. lastSent \subseteq 1 .. lastSent'
        /\ lastSent + 1 \in 1 .. lastSent' /\ replying' \in 0 .. lastSent'
    BY <2>1, CRNumbers DEF CRTypes
  <2>3. datagram' \in Seq(1 .. lastSent')
    BY <2>1, <2>2 DEF CRTypes
  <2>4. CRTypes'
    BY <2>1, <2>2, <2>3 DEF CRTypes
  <2>5. RepliedIsKept'
    BY <2>1, CRNumbers DEF RepliedIsKept
  <2> QED
    BY <2>1, <2>4, <2>5 DEF CR!InOrderOnce
<1>4. CASE \E s \in CR!Sequences : CR!ServerTakesReply(s)
  <2>1. PICK s \in CR!Sequences : CR!ServerTakesReply(s)
    BY <1>4
  <2>2. /\ s \in replies /\ unacked' = unacked \ {s}
        /\ UNCHANGED <<lastSent, datagram, replying, replies, crHeld, crNextRecvPacketSequence,
                       given>>
    BY <2>1 DEF CR!ServerTakesReply, CR!recvVars, CR!queueVars
  <2> QED
    BY <2>2 DEF CRTypes, RepliedIsKept, CR!InOrderOnce
<1>5. CASE \E packets \in CR!Datagrams : CR!OnRecvStream(packets)
  <2>1. PICK packets \in CR!Datagrams : CR!OnRecvStream(packets)
    BY <1>5
  <2>2. /\ UNCHANGED <<lastSent, unacked, replying, replies, crHeld, crNextRecvPacketSequence,
                       given>>
        /\ datagram' = packets /\ \A i \in DOMAIN packets : packets[i] <= lastSent
    BY <2>1 DEF CR!OnRecvStream, CR!serverVars, CR!queueVars
  <2>3. packets \in Seq(1 .. lastSent)
    <3>1. PICK u \in 1 .. crMaxSequence, v \in 1 .. crMaxSequence :
             packets = <<u>> \/ packets = <<u, v>>
      BY <2>1, CRNumbers DEF CR!Datagrams
    <3>2. CASE packets = <<u>>
      <4>1. packets[1] = u /\ 1 \in DOMAIN packets
        BY <3>2
      <4>2. u \in 1 .. lastSent
        BY <2>2, <4>1, CRNumbers
      <4> QED
        BY <3>2, <4>2
    <3>3. CASE packets = <<u, v>>
      <4>1. packets[1] = u /\ packets[2] = v /\ 1 \in DOMAIN packets /\ 2 \in DOMAIN packets
        BY <3>3
      <4>2. u \in 1 .. lastSent /\ v \in 1 .. lastSent
        BY <2>2, <4>1, CRNumbers
      <4> QED
        BY <3>3, <4>2
    <3> QED
      BY <3>1, <3>2, <3>3
  <2> QED
    BY <2>2, <2>3 DEF CRTypes, RepliedIsKept, CR!InOrderOnce
<1>6. CASE CR!ProcessRecvPacket
  <2>1. /\ datagram # << >> /\ datagram' = Tail(datagram) /\ replying' = Head(datagram)
        /\ replying = 0
        /\ crHeld' = [crHeld EXCEPT ![Head(datagram)] = @ + 1]
        /\ UNCHANGED <<lastSent, unacked, replies, crNextRecvPacketSequence, given>>
    BY <1>6 DEF CR!ProcessRecvPacket, CR!serverVars
  <2>2. /\ Head(datagram) \in 1 .. lastSent /\ Tail(datagram) \in Seq(1 .. lastSent)
    BY <2>1 DEF CRTypes
  <2>3. Head(datagram) \in 1 .. crMaxSequence
    BY <2>2, CRNumbers DEF CRTypes
  <2>4. /\ crHeld' \in [1 .. crMaxSequence -> Nat] /\ crHeld'[Head(datagram)] > 0
        /\ \A s \in 1 .. crMaxSequence : crHeld[s] > 0 => crHeld'[s] > 0
    BY <2>1, <2>3 DEF CRTypes
  <2>5. CRTypes'
    BY <2>1, <2>2, <2>4 DEF CRTypes
  <2>6. RepliedIsKept'
    BY <2>1, <2>4 DEF RepliedIsKept
  <2> QED
    BY <2>1, <2>5, <2>6 DEF CR!InOrderOnce
<1>7. CASE CR!SendReplyToServer
  <2>1. /\ replying # 0 /\ replying' = 0 /\ replies' = replies \union {replying}
        /\ UNCHANGED <<lastSent, unacked, datagram, crHeld, crNextRecvPacketSequence, given>>
    BY <1>7 DEF CR!SendReplyToServer, CR!serverVars, CR!queueVars
  <2>2. replying \in 1 .. lastSent /\ 0 \in 0 .. lastSent
    BY <2>1, CRNumbers DEF CRTypes
  <2>3. CRTypes'
    BY <2>1, <2>2 DEF CRTypes
  <2>4. RepliedIsKept'
    BY <2>1 DEF RepliedIsKept
  <2> QED
    BY <2>1, <2>3, <2>4 DEF CR!InOrderOnce
<1>8. CASE CR!GetReceivedPacket
  <2>1. UNCHANGED <<lastSent, unacked, datagram, replying, replies>>
    BY <1>8 DEF CR!GetReceivedPacket, CR!serverVars, CR!recvVars
  <2>2. PICK stop \in crNextRecvPacketSequence .. crMaxSequence + 1 :
              /\ \A s \in crNextRecvPacketSequence .. stop - 1 : s \in crHeartbeats
              /\ crHeld' \in [1 .. crMaxSequence -> Nat]
              /\ \A s \in 1 .. crMaxSequence : s > stop => crHeld'[s] = crHeld[s]
              /\ \/ /\ stop \in (1 .. crMaxSequence) \ crHeartbeats
                    /\ given' = Append(given, stop) /\ crNextRecvPacketSequence' = stop + 1
                 \/ /\ UNCHANGED given /\ crNextRecvPacketSequence' = stop
                    /\ stop \in 1 .. crMaxSequence => crHeld'[stop] = crHeld[stop]
    BY <1>8, PassStops
  <2>3. /\ crNextRecvPacketSequence \in Nat /\ crNextRecvPacketSequence >= 1 /\ stop \in Nat
        /\ crMaxSequence \in Nat /\ stop >= crNextRecvPacketSequence /\ given \in Seq(Nat)
    BY <2>2, CRNumbers DEF CRTypes
  <2>4. CRTypes'
    <3>1. crNextRecvPacketSequence' \in 1 .. crMaxSequence + 1
      BY <2>2, <2>3
    <3>2. given' = given \/ given' = Append(given, stop)
      BY <2>2
    <3>3. Append(given, stop) \in Seq(Nat)
      BY <2>3
    <3>4. given' \in Seq(Nat)
      BY <2>3, <3>2, <3>3
    <3> QED
      BY <2>1, <2>2, <3>1, <3>4 DEF CRTypes
  <2>5. RepliedIsKept'
    <3> SUFFICES ASSUME NEW s \in 1 .. crMaxSequence,
                        s \in replies \/ s = replying \/ (s <= lastSent /\ s \notin unacked),
                        ~ (s < crNextRecvPacketSequence')
                 PROVE  crHeld'[s] > 0
      BY <2>1 DEF RepliedIsKept
    <3>1. ~ (s < crNextRecvPacketSequence) /\ crHeld'[s] = crHeld[s]
      BY <2>2, <2>3
    <3> QED
      BY <3>1 DEF RepliedIsKept
  <2>6. CR!InOrderOnce'
    <3>1. /\ \A i, j \in DOMAIN given : i < j => given[i] < given[j]
          /\ {given[i] : i \in DOMAIN given} = (1 .. crNextRecvPacketSequence - 1) \ crHeartbeats
      BY DEF CR!InOrderOnce
    <3>2. (1 .. stop - 1) \ crHeartbeats = (1 .. crNextRecvPacketSequence - 1) \ crHeartbeats
      BY <2>2, <2>3
    <3>3. CASE UNCHANGED given /\ crNextRecvPacketSequence' = stop
      BY <3>1, <3>2, <3>3 DEF CR!InOrderOnce
    <3>4. CASE /\ stop \in (1 .. crMaxSequence) \ crHeartbeats
               /\ given' = Append(given, stop) /\ crNextRecvPacketSequence' = stop + 1
      <4>1. /\ Len(given) \in Nat /\ DOMAIN given = 1 .. Len(given)
            /\ DOMAIN given' = 1 .. Len(given) + 1 /\ given'[Len(given) + 1] = stop
            /\ \A i \in 1 .. Len(given) : given'[i] = given[i]
        BY <2>3, <3>4
      <4>2. (1 .. stop + 1 - 1) \ crHeartbeats = ((1 .. stop - 1) \ crHeartbeats) \union {stop}
        BY <2>3, <3>4
      <4>3. \A i \in 1 .. Len(given) : given[i] \in Nat /\ given[i] < stop
        <5>1. ASSUME NEW i \in 1 .. Len(given) PROVE given[i] \in 1 .. crNextRecvPacketSequence - 1
          BY <3>1, <4>1
        <5> QED
          BY <2>3, <5>1
      <4>4. {given'[i] : i \in DOMAIN given'} = {given[i] : i \in DOMAIN given} \union {stop}
        BY <4>1
      <4>5. ASSUME NEW i \in DOMAIN given', NEW j \in DOMAIN given', i < j
            PROVE  given'[i] < given'[j]
        <5>1. i \in 1 .. Len(given)
          BY <4>1, <4>5
        <5>2. CASE j \in 1 .. Len(given)
          BY <3>1, <4>1, <4>5, <5>1, <5>2
        <5>3. CASE j = Len(given) + 1
          BY <4>1, <4>3, <5>1, <5>3
        <5> QED
          BY <4>1, <5>2, <5>3
      <4> QED
        BY <3>1, <3>2, <3>4, <4>2, <4>4, <4>5 DEF CR!InOrderOnce
    <3> QED
      BY <2>2, <3>3, <3>4
  <2> QED
    BY <2>4, <2>5, <2>6
<1> QED
  BY <1>1, <1>2, <1>3, <1>4, <1>5, <1>6, <1>7, <1>8 DEF CR!Next, CR!Receive

LEMMA ReceiveAlways ==
    ASSUME CR!ClientReceiveAssumption
    PROVE  CR!Init /\ [][CR!Next]_(CR!vars) => [](CR!InOrderOnce /\ CR!AckedIsKept)
<1>1. CR!Init => CRInv
  <2> SUFFICES ASSUME CR!Init PROVE CRInv
    OBVIOUS
  <2>1. CRTypes
    BY DEF CR!Init, CR!ClientReceiveAssumption, CRTypes, CR!Sequences
  <2>2. RepliedIsKept
    BY DEF CR!Init, RepliedIsKept
  <2>3. CR!InOrderOnce
    BY DEF CR!Init, CR!InOrderOnce
  <2> QED
    BY <2>1, <2>2, <2>3 DEF CRInv
<1>2. CRInv => CR!InOrderOnce /\ CR!AckedIsKept
  <2> SUFFICES ASSUME CRInv, NEW s \in 1 .. lastSent, s \notin unacked,
                      s >= crNextRecvPacketSequence
               PROVE  crHeld[s] > 0
    BY DEF CR!AckedIsKept, CRInv
  <2>1. s \in 1 .. crMaxSequence /\ s <= lastSent /\ ~ (s < crNextRecvPacketSequence)
    BY CRNumbers DEF CRInv, CRTypes
  <2> QED
    BY <2>1 DEF CRInv, RepliedIsKept
<1> QED
  BY <1>1, <1>2, CRStep, PTL

\* Whatever the network repeats and reorders, the application is given every data packet once
\* and in order, and a packet the server no longer sends is held until it is given.
THEOREM GivenInOrder ==
    ASSUME CR!ClientReceiveAssumption
    PROVE  CR!Spec => [](CR!InOrderOnce /\ CR!AckedIsKept)
BY ReceiveAlways, PTL DEF CR!Spec

-------------------------------------------------------------------------------
(* The client core: Start, Disconnect and Stop against its threads.            *)

ClientTyped ==
    /\ clStarts \in 0 .. clMaxStarts
    /\ app \in {"off", "starting", "threads", "connecting", "started", "joining", "stopping"}
    /\ clRecv \in {"blocked", "ended"} /\ send \in {"waiting", "ended"}
    /\ clRt \in {"running", "ended"} /\ checker \in {"sleeping", "stopping", "ended"}
    /\ clStop \in [by : {"nobody", "app", "checker"},
                   pc : {"none", "checker", "joinChecker", "joinThreads", "close"}]
    /\ connectReply \in {"none", "due", "taken"}
    /\ joiner \in {"nobody", "disconnect", "app"}

FlagsTyped ==
    /\ isStopped \in BOOLEAN /\ clThreadStopFlag \in BOOLEAN /\ clIsConnected \in BOOLEAN
    /\ rudpSocket \in BOOLEAN /\ clHandles \in BOOLEAN /\ stopEvent \in BOOLEAN
    /\ checkerStopped \in BOOLEAN /\ checkerJoinable \in BOOLEAN /\ disconnected \in BOOLEAN

SequencesTyped ==
    /\ clBeforeCheckSequence \in Nat /\ clLastSendPacketSequence \in Nat
    /\ clNextRecvPacketSequence \in Nat \ {0}

\* The count of the clients of the process is that of those who hold a reference.
CountInv ==
    /\ hasClientProcessReference \in BOOLEAN /\ otherReference \in BOOLEAN
    /\ clientCountInThisProcess = (IF hasClientProcessReference THEN 1 ELSE 0)
                                      + (IF otherReference THEN 1 ELSE 0)
    /\ winsock \in BOOLEAN /\ (winsock <=> clientCountInThisProcess > 0)

InStart == app \in {"starting", "threads", "connecting"}
StopUnderWay == clStop.pc # "none"

\* Who stops the core, and when nobody does.
StopperInv ==
    /\ StopUnderWay <=> clStop.by # "nobody"
    /\ clStop.by = "checker" <=> checker = "stopping"
    /\ clStop.by = "app" => app = "stopping"
    /\ StopUnderWay \/ InStart \/ app \in {"off", "stopping"} => isStopped
    /\ InStart => ~StopUnderWay

\* The core holds its reference while it starts, while it is not stopped and while it stops.
HolderInv == hasClientProcessReference <=> InStart \/ ~isStopped \/ StopUnderWay

\* A thread lives between RunThreads and the joins of Stop, and the checker starts once.
ThreadInv ==
    /\ clRecv = "blocked" \/ send = "waiting" \/ clRt = "running"
          => clHandles /\ hasClientProcessReference /\ clStop.pc # "close" /\ app # "starting"
    /\ app \in {"starting", "threads"} => connectReply = "none" /\ checker = "ended"
    /\ connectReply = "due" => checker = "ended"

LifeInv == StopperInv /\ HolderInv /\ ThreadInv

ClientInv == ClientTyped /\ FlagsTyped /\ SequencesTyped /\ CountInv /\ LifeInv

LEMMA InitClient == ASSUME CL!ClientLifecycleAssumption, CL!Init PROVE ClientInv
<1>1. CountInv
  <2>1. /\ hasClientProcessReference \in BOOLEAN /\ ~hasClientProcessReference
        /\ otherReference \in BOOLEAN /\ ~otherReference
        /\ winsock \in BOOLEAN /\ ~winsock
    BY Zenon DEF CL!Init
  <2>2. clientCountInThisProcess = 0
    BY Zenon DEF CL!Init
  <2> QED
    BY <2>1, <2>2 DEF CountInv
<1>2. ClientTyped
  BY DEF CL!Init, ClientTyped, CL!NotStopping, CL!ClientLifecycleAssumption
<1>3. FlagsTyped
  BY Zenon DEF CL!Init, FlagsTyped
<1>4. SequencesTyped
  BY DEF CL!Init, SequencesTyped
<1>5. LifeInv
  BY DEF CL!Init, LifeInv, StopperInv, HolderInv, ThreadInv, InStart, StopUnderWay,
         CL!NotStopping
<1> QED
  BY <1>1, <1>2, <1>3, <1>4, <1>5 DEF ClientInv

LEMMA IsComparison ==
    ASSUME NEW w, NEW a \in Int, w = (a > 1)
    PROVE  w \in BOOLEAN /\ (w <=> a > 1)
<1>1. CASE a > 1
  <2>1. (a > 1) = TRUE
    BY <1>1, Zenon
  <2> QED
    BY <1>1, <2>1, Zenon
<1>2. CASE a <= 1
  <2>1. (a > 1) = FALSE
    BY <1>2, SMT
  <2>2. w = FALSE
    BY <2>1, Zenon
  <2> QED
    BY <1>2, <2>2, SMT
<1> QED
  BY <1>1, <1>2, SMT

LEMMA Released ==
    ASSUME clientCountInThisProcess \in Int, CL!Release
    PROVE  /\ clientCountInThisProcess' = clientCountInThisProcess - 1
           /\ winsock' \in BOOLEAN /\ (winsock' <=> clientCountInThisProcess > 1)
<1>1. winsock' = (clientCountInThisProcess > 1)
  BY Zenon DEF CL!Release
<1>2. clientCountInThisProcess' = clientCountInThisProcess - 1
  BY DEF CL!Release
<1> QED
  BY <1>1, <1>2, IsComparison, Zenon

\* What a step does to the count, whoever takes or gives up a reference.
LEMMA CountStep ==
    ASSUME CL!ClientLifecycleAssumption, ClientInv, [CL!Next]_(CL!vars)
    PROVE  CountInv'
<1> CountInv /\ clientCountInThisProcess \in Int
  BY DEF ClientInv, CountInv
<1>1. CASE CL!OtherClient
  <2>1. CASE otherReference
    <3>1. CL!Release /\ ~otherReference' /\ UNCHANGED hasClientProcessReference
      BY <1>1, <2>1, Zenon DEF CL!OtherClient
    <3>2. otherReference' \in BOOLEAN
      BY <1>1, Zenon DEF CL!OtherClient
    <3> QED
      BY <2>1, <3>1, <3>2, Released DEF CountInv
  <2>2. CASE ~otherReference
    <3>1. CL!Acquire /\ otherReference' = TRUE /\ UNCHANGED hasClientProcessReference
      BY <1>1, <2>2, Zenon DEF CL!OtherClient
    <3>2. clientCountInThisProcess' = clientCountInThisProcess + 1 /\ winsock' = TRUE
      BY <3>1, Zenon DEF CL!Acquire
    <3> QED
      BY <2>2, <3>1, <3>2 DEF CountInv
  <2> QED
    BY <2>1, <2>2
<1>2. CASE CL!StartBegins
  <2>1. ~hasClientProcessReference
    BY <1>2 DEF ClientInv, LifeInv, HolderInv, StopperInv, CL!StartBegins, CL!AllEnded,
                InStart, StopUnderWay, ClientTyped
  <2>2. CL!Acquire /\ hasClientProcessReference' = TRUE /\ UNCHANGED otherReference
    BY <1>2, Zenon DEF CL!StartBegins
  <2>3. clientCountInThisProcess' = clientCountInThisProcess + 1 /\ winsock' = TRUE
    BY <2>2, Zenon DEF CL!Acquire
  <2> QED
    BY <2>1, <2>2, <2>3 DEF CountInv
<1>3. ASSUME CL!ReleaseClientProcessReference, UNCHANGED otherReference PROVE CountInv'
  <2>1. CASE hasClientProcessReference
    <3>1. /\ CL!Release
          /\ hasClientProcessReference' \in BOOLEAN /\ ~hasClientProcessReference'
      BY <1>3, <2>1, Zenon DEF CL!ReleaseClientProcessReference
    <3> QED
      BY <1>3, <2>1, <3>1, Released DEF CountInv
  <2>2. CASE ~hasClientProcessReference
    BY <1>3, <2>2 DEF CL!ReleaseClientProcessReference, CountInv
  <2> QED
    BY <2>1, <2>2
<1>4. CL!StartFails \/ CL!FinishStop
        => CL!ReleaseClientProcessReference /\ UNCHANGED otherReference
  BY DEF CL!StartFails, CL!FinishStop
<1>5. CASE UNCHANGED CL!referenceVars
  BY <1>5 DEF CL!referenceVars, CountInv
<1>6. UNCHANGED CL!vars => UNCHANGED CL!referenceVars
  BY DEF CL!vars, CL!referenceVars
<1>7. CL!RunThreads \/ CL!SendConnectPacket \/ CL!StartReturns \/ CL!AppSends \/ CL!AppReceives
        \/ CL!DisconnectBegins \/ CL!Disconnect \/ CL!AppStops \/ CL!StopChecker \/ CL!JoinThreads
        \/ CL!StopReturns \/ CL!RecvConnectReply \/ CL!LimitReached \/ CL!CheckServer \/ CL!Threads
        => UNCHANGED CL!referenceVars
  BY DEF CL!RunThreads, CL!SendConnectPacket, CL!StartReturns, CL!AppSends, CL!AppReceives,
         CL!DisconnectBegins, CL!Disconnect, CL!AppStops, CL!StopChecker, CL!JoinThreads,
         CL!StopReturns, CL!RecvConnectReply, CL!LimitReached, CL!CheckServer, CL!Threads,
         CL!RecvEnds, CL!SendEnds, CL!RtEnds, CL!BeginStop, CL!resourceVars, CL!referenceVars
<1> QED
  BY <1>1, <1>2, <1>3, <1>4, <1>5, <1>6, <1>7 DEF CL!Next, CL!Starting, CL!Stopping

LEMMA ClientTypedStep ==
    ASSUME CL!ClientLifecycleAssumption, ClientInv, [CL!Next]_(CL!vars)
    PROVE  ClientTyped'
<1> USE DEF ClientTyped
<1> ClientTyped
  BY DEF ClientInv
<1>1. CASE CL!StartBegins
  BY <1>1 DEF CL!StartBegins, CL!ClientLifecycleAssumption, CL!threadVars, CL!checkerVars
<1>2. CASE CL!Starting
  BY <1>2 DEF CL!Starting, CL!StartFails, CL!RunThreads, CL!SendConnectPacket, CL!StartReturns,
              CL!threadVars, CL!checkerVars
<1>3. CASE CL!AppSends \/ CL!AppReceives \/ CL!OtherClient \/ CL!LimitReached
  BY <1>3 DEF CL!AppSends, CL!AppReceives, CL!OtherClient, CL!LimitReached, CL!threadVars,
              CL!checkerVars
<1>4. CASE CL!DisconnectBegins \/ CL!Disconnect
  BY <1>4 DEF CL!DisconnectBegins, CL!Disconnect, CL!StopServerAliveCheck, CL!Join,
              CL!threadVars
<1>5. CASE CL!AppStops
  BY <1>5 DEF CL!AppStops, CL!BeginStop, CL!threadVars, CL!checkerVars
<1>6. CASE CL!StopChecker
  <2>1. clStop.by # "nobody" /\ clStop.by # "checker" => clStop.by = "app"
    OBVIOUS
  <2>2. clStop.by # "nobody"
    BY <1>6 DEF CL!StopChecker, ClientInv, LifeInv, StopperInv, StopUnderWay
  <2> QED
    BY <1>6, <2>1, <2>2 DEF CL!StopChecker, CL!StopServerAliveCheck, CL!threadVars
<1>7. CASE CL!JoinThreads \/ CL!StopReturns
  BY <1>7 DEF CL!JoinThreads, CL!Join, CL!StopReturns, CL!threadVars, CL!checkerVars
<1>8. CASE CL!FinishStop
  BY <1>8 DEF CL!FinishStop, CL!NotStopping, CL!threadVars
<1>9. CASE CL!RecvConnectReply \/ CL!Threads
  BY <1>9 DEF CL!RecvConnectReply, CL!Threads, CL!RecvEnds, CL!SendEnds, CL!RtEnds,
              CL!threadVars, CL!checkerVars
<1>10. CASE CL!CheckServer
  BY <1>10 DEF CL!CheckServer, CL!BeginStop, CL!threadVars
<1>11. CASE UNCHANGED CL!vars
  BY <1>11 DEF CL!vars, CL!threadVars, CL!checkerVars
<1> QED
  BY <1>1, <1>2, <1>3, <1>4, <1>5, <1>6, <1>7, <1>8, <1>9, <1>10, <1>11 DEF CL!Next, CL!Stopping

LEMMA FlagsTypedStep ==
    ASSUME ClientInv, [CL!Next]_(CL!vars)
    PROVE  FlagsTyped'
<1> USE DEF FlagsTyped
<1> FlagsTyped
  BY DEF ClientInv
<1>1. CASE CL!StartBegins \/ CL!Starting
  BY <1>1 DEF CL!StartBegins, CL!Starting, CL!StartFails, CL!RunThreads, CL!SendConnectPacket,
              CL!StartReturns, CL!flagVars, CL!resourceVars, CL!checkerVars
<1>2. CASE CL!AppSends \/ CL!AppReceives \/ CL!OtherClient \/ CL!LimitReached
  BY <1>2 DEF CL!AppSends, CL!AppReceives, CL!OtherClient, CL!LimitReached, CL!flagVars,
              CL!resourceVars, CL!checkerVars
<1>3. CASE CL!DisconnectBegins \/ CL!Disconnect
  BY <1>3 DEF CL!DisconnectBegins, CL!Disconnect, CL!StopServerAliveCheck, CL!Join,
              CL!flagVars, CL!resourceVars
<1>4. CASE CL!AppStops
  BY <1>4 DEF CL!AppStops, CL!BeginStop, CL!flagVars, CL!resourceVars, CL!checkerVars
<1>5. CASE CL!Stopping
  BY <1>5 DEF CL!Stopping, CL!StopChecker, CL!StopServerAliveCheck, CL!JoinThreads, CL!Join,
              CL!FinishStop, CL!StopReturns, CL!flagVars, CL!resourceVars, CL!checkerVars
<1>6. CASE CL!RecvConnectReply \/ CL!Threads
  BY <1>6 DEF CL!RecvConnectReply, CL!Threads, CL!RecvEnds, CL!SendEnds, CL!RtEnds,
              CL!flagVars, CL!resourceVars, CL!checkerVars
<1>7. CASE CL!CheckServer
  BY <1>7 DEF CL!CheckServer, CL!BeginStop, CL!flagVars, CL!resourceVars
<1>8. CASE UNCHANGED CL!vars
  BY <1>8 DEF CL!vars, CL!flagVars, CL!resourceVars, CL!checkerVars
<1> QED
  BY <1>1, <1>2, <1>3, <1>4, <1>5, <1>6, <1>7, <1>8 DEF CL!Next

LEMMA SequencesTypedStep ==
    ASSUME ClientInv, [CL!Next]_(CL!vars)
    PROVE  SequencesTyped'
<1> USE DEF SequencesTyped
<1> SequencesTyped
  BY DEF ClientInv
<1>1. CASE CL!AppSends \/ CL!AppReceives \/ CL!Disconnect
  BY <1>1 DEF CL!AppSends, CL!AppReceives, CL!Disconnect, CL!checkerVars
<1>2. CASE CL!CheckServer
  BY <1>2 DEF CL!CheckServer, CL!sequenceVars
<1>3. CASE UNCHANGED <<CL!sequenceVars, clBeforeCheckSequence>>
  BY <1>3 DEF CL!sequenceVars
<1>4. CL!StartBegins \/ CL!Starting \/ CL!DisconnectBegins \/ CL!AppStops \/ CL!Stopping
        \/ CL!RecvConnectReply \/ CL!LimitReached \/ CL!Threads \/ CL!OtherClient
        \/ UNCHANGED CL!vars
        => UNCHANGED <<CL!sequenceVars, clBeforeCheckSequence>>
  BY DEF CL!StartBegins, CL!Starting, CL!StartFails, CL!RunThreads, CL!SendConnectPacket,
         CL!StartReturns, CL!DisconnectBegins, CL!AppStops, CL!Stopping, CL!StopChecker,
         CL!JoinThreads, CL!FinishStop, CL!StopReturns, CL!RecvConnectReply, CL!LimitReached,
         CL!Threads, CL!RecvEnds, CL!SendEnds, CL!RtEnds, CL!OtherClient, CL!vars,
         CL!checkerVars, CL!sequenceVars
<1> QED
  BY <1>1, <1>2, <1>3, <1>4 DEF CL!Next

LEMMA LifeStep ==
    ASSUME ClientInv, [CL!Next]_(CL!vars)
    PROVE  LifeInv'
<1> USE DEF LifeInv, StopperInv, HolderInv, ThreadInv, InStart, StopUnderWay
<1> LifeInv /\ ClientTyped /\ isStopped \in BOOLEAN /\ hasClientProcessReference \in BOOLEAN
      /\ clHandles \in BOOLEAN
  BY DEF ClientInv, FlagsTyped, CountInv
<1>1. CASE CL!StartBegins
  <2>1. clStop.pc = "none"
    BY <1>1 DEF CL!StartBegins, CL!AllEnded, ClientTyped
  <2> QED
    BY <1>1, <2>1 DEF CL!StartBegins, CL!AllEnded, CL!resourceVars, CL!threadVars, CL!checkerVars
<1>2. CASE CL!StartFails
  BY <1>2 DEF CL!StartFails, CL!ReleaseClientProcessReference, CL!flagVars, CL!threadVars,
              CL!checkerVars, ClientTyped
<1>3. CASE CL!RunThreads \/ CL!SendConnectPacket \/ CL!StartReturns
  BY <1>3 DEF CL!RunThreads, CL!SendConnectPacket, CL!StartReturns, CL!flagVars,
              CL!resourceVars, CL!referenceVars, CL!threadVars, CL!checkerVars
<1>4. CASE CL!AppSends \/ CL!AppReceives \/ CL!OtherClient \/ CL!LimitReached
  BY <1>4 DEF CL!AppSends, CL!AppReceives, CL!OtherClient, CL!LimitReached, CL!flagVars,
              CL!resourceVars, CL!referenceVars, CL!threadVars, CL!checkerVars
<1>5. CASE CL!DisconnectBegins \/ CL!Disconnect
  BY <1>5 DEF CL!DisconnectBegins, CL!Disconnect, CL!flagVars, CL!resourceVars,
              CL!referenceVars, CL!threadVars, ClientTyped
<1>6. CASE CL!AppStops
  BY <1>6 DEF CL!AppStops, CL!BeginStop, CL!referenceVars, CL!threadVars, CL!checkerVars,
              ClientTyped
<1>7. CASE CL!StopChecker \/ CL!JoinThreads
  BY <1>7 DEF CL!StopChecker, CL!JoinThreads, CL!flagVars, CL!resourceVars, CL!referenceVars,
              CL!threadVars, ClientTyped
<1>8. CASE CL!FinishStop
  BY <1>8 DEF CL!FinishStop, CL!NotStopping, CL!ReleaseClientProcessReference, CL!flagVars,
              CL!threadVars, ClientTyped
<1>9. CASE CL!StopReturns
  BY <1>9 DEF CL!StopReturns, CL!flagVars, CL!resourceVars, CL!referenceVars, CL!threadVars,
              CL!checkerVars, ClientTyped
<1>10. CASE CL!RecvConnectReply \/ CL!Threads
  BY <1>10 DEF CL!RecvConnectReply, CL!Threads, CL!RecvEnds, CL!SendEnds, CL!RtEnds,
              CL!flagVars, CL!resourceVars, CL!referenceVars, CL!threadVars, CL!checkerVars
<1>11. CASE CL!CheckServer
  BY <1>11 DEF CL!CheckServer, CL!BeginStop, CL!flagVars, CL!resourceVars, CL!referenceVars,
              CL!threadVars, ClientTyped
<1>12. CASE UNCHANGED CL!vars
  BY <1>12 DEF CL!vars, CL!flagVars, CL!resourceVars, CL!referenceVars, CL!threadVars,
              CL!checkerVars
<1> QED
  BY <1>1, <1>2, <1>3, <1>4, <1>5, <1>6, <1>7, <1>8, <1>9, <1>10, <1>11, <1>12
     DEF CL!Next, CL!Starting, CL!Stopping

LEMMA ClientAlways == ASSUME CL!ClientLifecycleAssumption PROVE CL!Spec => []ClientInv
<1>1. ClientInv /\ [CL!Next]_(CL!vars) => ClientInv'
  BY CountStep, ClientTypedStep, FlagsTypedStep, SequencesTypedStep, LifeStep DEF ClientInv
<1> QED
  BY <1>1, InitClient, PTL DEF CL!Spec

\* Type correctness of the client core.
THEOREM ClientTypes == ASSUME CL!ClientLifecycleAssumption PROVE CL!Spec => []CL!TypeOK
<1>1. ASSUME ClientInv PROVE CL!TypeOK
  <2>1. winsock \in BOOLEAN /\ clientCountInThisProcess \in 0 .. 2
    BY <1>1 DEF ClientInv, CountInv
  <2> QED
    BY <1>1, <2>1 DEF ClientInv, CountInv, ClientTyped, FlagsTyped, SequencesTyped, CL!TypeOK
<1> QED
  BY <1>1, ClientAlways, PTL

\* The reference to Winsock: however a start fails and whoever stops the core, it is given
\* back exactly once, and Winsock is up exactly while a client of the process holds one.
THEOREM GivenBackOnce ==
    ASSUME CL!ClientLifecycleAssumption PROVE CL!Spec => []CL!ReferencesBalanced
<1>1. ASSUME ClientInv PROVE CL!ReferencesBalanced
  BY <1>1 DEF ClientInv, CountInv, LifeInv, StopperInv, HolderInv, InStart, StopUnderWay,
              CL!ReferencesBalanced
<1> QED
  BY <1>1, ClientAlways, PTL

\* The joins of Stop: a thread of the core ends before its handles are closed and before
\* the reference to Winsock is given back.
THEOREM ThreadsEndFirst ==
    ASSUME CL!ClientLifecycleAssumption PROVE CL!Spec => []CL!ThreadsOutlivedByHandles
<1>1. ASSUME ClientInv PROVE CL!ThreadsOutlivedByHandles
  BY <1>1 DEF ClientInv, LifeInv, ThreadInv, CL!ThreadsOutlivedByHandles
<1> QED
  BY <1>1, ClientAlways, PTL

-------------------------------------------------------------------------------
(* The issue of a session: what the broker sends against what the client reads. *)

Pieces ==
    {"ClientHello", "ServerHello", "ClientFinished", "Finished", "Info", "Refused",
     "CloseNotify"} \X (1 .. siFragments)

\* The last piece of record r is in the stream.
Ends(stream, r) == \E i \in 1 .. Len(stream) : stream[i] = <<r, siFragments>>

InTransit(r) == Ends(clientBuffer, r) \/ Ends(siToClient, r)

StreamsTyped ==
    /\ siToClient \in Seq(Pieces) /\ clientBuffer \in Seq(Pieces)
    /\ {serverFin, reset, payloadComplete} \subseteq BOOLEAN
    /\ siWorker \in {"off", "handshake", "finish", "reserve", "send", "close", "drain", "done"}

\* The record that the worker sends, of which unsent is the end.
Outgoing ==
    IF siWorker = "close" THEN "CloseNotify"
    ELSE IF reservation = "reserved" THEN "Info" ELSE "Refused"

UnsentInv ==
    siWorker \in {"send", "close"} =>
        /\ unsent \in Seq(Pieces) /\ Len(unsent) <= siFragments
        /\ \A i \in 1 .. Len(unsent) :
              unsent[i] = <<Outgoing, siFragments - Len(unsent) + i>>

\* The reservation against where the worker is.
ReservationInv ==
    /\ reservation \in {"none", "reserved", "refused", "aborted"}
    /\ siWorker \in {"off", "handshake", "finish", "reserve"} => reservation = "none"
    /\ siWorker \in {"send", "close", "drain"} => reservation \in {"reserved", "refused"}
    /\ reservation = "aborted" => siWorker = "done"
    /\ serverFin => siWorker \in {"drain", "done"}
    /\ siClient \in {"start", "connect"} => siWorker = "off"

\* All of the answer, or all that follows it, has been given to TCP.
AnswerSent ==
    /\ reservation # "none" /\ siWorker \in {"send", "close", "drain", "done"}
    /\ siWorker = "send" => unsent = << >>
CloseSent ==
    /\ siWorker \in {"close", "drain", "done"}
    /\ siWorker = "close" => unsent = << >>

\* What has arrived was sent; nothing was when the worker failed before it could answer.
ArrivedInv ==
    /\ reservation = "aborted" /\ ~reset =>
          ~(payloadComplete \/ InTransit("Info") \/ InTransit("Refused"))
    /\ InTransit("Info") => AnswerSent /\ reservation \in {"reserved", "aborted"}
    /\ InTransit("Refused") => AnswerSent
    /\ payloadComplete => AnswerSent
    /\ InTransit("CloseNotify") => CloseSent

ResultInv ==
    result = "session" =>
        siClient = "done" /\ reservation = "reserved" /\ payloadComplete /\ CloseSent

IssueInv == StreamsTyped /\ UnsentInv /\ ReservationInv /\ ArrivedInv /\ ResultInv

-------------------------------------------------------------------------------
(* Streams and their pieces.                                                   *)

LEMMA RecordIsSeq ==
    ASSUME SI!SessionIssueAssumption, NEW r
    PROVE  /\ siFragments \in Nat /\ siFragments >= 1
           /\ SI!Record(r) \in Seq({r} \X (1 .. siFragments))
           /\ Len(SI!Record(r)) = siFragments
           /\ \A i \in 1 .. siFragments : SI!Record(r)[i] = <<r, i>>
<1>1. siFragments \in Nat /\ siFragments >= 1
  BY DEF SI!SessionIssueAssumption
<1> QED
  BY <1>1 DEF SI!Record

LEMMA RecordPieces ==
    ASSUME SI!SessionIssueAssumption,
           NEW r \in {"ClientHello", "ServerHello", "ClientFinished", "Finished", "Info",
                      "Refused", "CloseNotify"}
    PROVE  SI!Record(r) \in Seq(Pieces)
<1>1. siFragments \in Nat
  BY DEF SI!SessionIssueAssumption
<1> QED
  BY <1>1 DEF SI!Record, Pieces

LEMMA HasLast ==
    ASSUME SI!SessionIssueAssumption, NEW s \in Seq(Pieces), NEW r, SI!StartsWith(s, r)
    PROVE  siFragments <= Len(s) /\ s[siFragments] = <<r, siFragments>> /\ Ends(s, r)
<1> DEFINE R == SI!Record(r)
           S == {r} \X (1 .. siFragments)
<1>1. /\ siFragments \in Nat /\ siFragments >= 1
      /\ R \in Seq(S) /\ Len(R) = siFragments /\ R[siFragments] = <<r, siFragments>>
  <2>1. siFragments \in Nat /\ siFragments >= 1 /\ R \in Seq(S) /\ Len(R) = siFragments
    BY RecordIsSeq
  <2>2. \A i \in 1 .. siFragments : R[i] = <<r, i>>
    BY RecordIsSeq
  <2> QED
    BY <2>1, <2>2
<1>2. Len(R) <= Len(s) /\ SubSeq(R, 1, Len(R)) = SubSeq(s, 1, Len(R))
  BY DEF SI!StartsWith, SI!IsPrefix
<1> HIDE DEF R, S
<1>3. SubSeq(R, 1, siFragments)[siFragments] = R[siFragments]
  BY <1>1, SubSeqProperties
<1>4. SubSeq(s, 1, siFragments)[siFragments] = s[siFragments]
  BY <1>1, <1>2, SubSeqProperties
<1>5. s[siFragments] = <<r, siFragments>>
  BY <1>1, <1>2, <1>3, <1>4
<1> QED
  BY <1>1, <1>2, <1>5 DEF Ends

LEMMA EndsJoined ==
    ASSUME NEW s \in Seq(Pieces), NEW t \in Seq(Pieces), NEW r, Ends(s \o t, r)
    PROVE  Ends(s, r) \/ Ends(t, r)
<1>1. PICK i \in 1 .. Len(s \o t) : (s \o t)[i] = <<r, siFragments>>
  BY DEF Ends
<1>2. CASE i <= Len(s)
  BY <1>1, <1>2 DEF Ends
<1>3. CASE i > Len(s)
  <2>1. i - Len(s) \in 1 .. Len(t) /\ (s \o t)[i] = t[i - Len(s)]
    BY <1>1, <1>3
  <2> QED
    BY <1>1, <2>1 DEF Ends
<1> QED
  BY <1>1, <1>2, <1>3

LEMMA EndsWithin ==
    ASSUME NEW s \in Seq(Pieces), NEW m \in 1 .. Len(s) + 1, NEW n \in 0 .. Len(s), NEW r,
           Ends(SubSeq(s, m, n), r)
    PROVE  Ends(s, r)
<1>1. PICK i \in 1 .. Len(SubSeq(s, m, n)) : SubSeq(s, m, n)[i] = <<r, siFragments>>
  BY DEF Ends
<1>2. m <= n /\ i \in 1 .. (n - m + 1) /\ SubSeq(s, m, n)[i] = s[m + i - 1]
  BY <1>1, SubSeqProperties
<1>3. m + i - 1 \in 1 .. Len(s)
  BY <1>2
<1> QED
  BY <1>1, <1>2, <1>3 DEF Ends

\* What a recv leaves behind and hands over is what was there.
LEMMA ReadFrom ==
    ASSUME StreamsTyped, NEW n \in 1 .. Len(siToClient)
    PROVE  /\ SI!Received(n) \in Seq(Pieces)
           /\ SubSeq(siToClient, n + 1, Len(siToClient)) \in Seq(Pieces)
           /\ \A r : Ends(SI!Received(n), r) => InTransit(r)
           /\ \A r : Ends(SubSeq(siToClient, n + 1, Len(siToClient)), r) => InTransit(r)
<1> siToClient \in Seq(Pieces) /\ clientBuffer \in Seq(Pieces)
  BY DEF StreamsTyped
<1> DEFINE front == SubSeq(siToClient, 1, n)
           back == SubSeq(siToClient, n + 1, Len(siToClient))
<1>1. front \in Seq(Pieces) /\ back \in Seq(Pieces)
  BY SubSeqProperties
<1>2. \A r : Ends(front, r) => Ends(siToClient, r)
  BY EndsWithin
<1>3. \A r : Ends(back, r) => Ends(siToClient, r)
  BY EndsWithin
<1>4. SI!Received(n) = clientBuffer \o front
  BY DEF SI!Received
<1>5. clientBuffer \o front \in Seq(Pieces)
  BY <1>1
<1>6. \A r : Ends(clientBuffer \o front, r) => Ends(clientBuffer, r) \/ Ends(front, r)
  BY <1>1, EndsJoined
<1> HIDE DEF front
<1> QED
  BY <1>1, <1>2, <1>3, <1>4, <1>5, <1>6 DEF InTransit

LEMMA RestOf ==
    ASSUME SI!SessionIssueAssumption, NEW s \in Seq(Pieces), siFragments <= Len(s)
    PROVE  SI!Rest(s) \in Seq(Pieces) /\ \A r : Ends(SI!Rest(s), r) => Ends(s, r)
<1>1. siFragments \in Nat /\ siFragments + 1 \in 1 .. Len(s) + 1 /\ Len(s) \in 0 .. Len(s)
  BY DEF SI!SessionIssueAssumption
<1>2. SubSeq(s, siFragments + 1, Len(s)) \in Seq(Pieces)
  BY <1>1, SubSeqProperties
<1>3. \A r : Ends(SubSeq(s, siFragments + 1, Len(s)), r) => Ends(s, r)
  BY <1>1, EndsWithin
<1> QED
  BY <1>2, <1>3 DEF SI!Rest

-------------------------------------------------------------------------------
(* The steps of the client.                                                    *)

Kept == UNCHANGED <<siWorker, unsent, reservation, serverFin>> /\ reset' \in BOOLEAN
Consumes ==
    /\ siToClient' \in Seq(Pieces) /\ clientBuffer' \in Seq(Pieces)
    /\ \A r : InTransit(r)' => InTransit(r)

LEMMA ClientSide ==
    ASSUME IssueInv, Kept, Consumes, reset => reset',
           payloadComplete' \in BOOLEAN,
           payloadComplete' => payloadComplete \/ InTransit("Info") \/ InTransit("Refused"),
           siClient' \in {"start", "connect"} => siClient \in {"start", "connect"},
           result' = "session" => /\ siClient' = "done" /\ reservation = "reserved"
                                  /\ payloadComplete' /\ CloseSent
    PROVE  IssueInv'
<1>1. StreamsTyped'
  BY DEF IssueInv, StreamsTyped, Kept, Consumes
<1>2. UnsentInv'
  BY DEF IssueInv, UnsentInv, Kept, Outgoing
<1>3. ReservationInv'
  BY DEF IssueInv, ReservationInv, Kept
<1>4. (AnswerSent' <=> AnswerSent) /\ (CloseSent' <=> CloseSent) /\ reservation' = reservation
  BY DEF Kept, AnswerSent, CloseSent
<1>5. ArrivedInv'
  BY <1>4 DEF IssueInv, ArrivedInv, Consumes
<1>6. ResultInv'
  BY <1>4 DEF IssueInv, ResultInv
<1> QED
  BY <1>1, <1>2, <1>3, <1>5, <1>6 DEF IssueInv

LEMMA NoneEnds == << >> \in Seq(Pieces) /\ \A r : ~Ends(<< >>, r)
BY DEF Ends

LEMMA ClientInvStep ==
    ASSUME SI!SessionIssueAssumption, IssueInv,
           \/ SI!Initialize \/ SI!ConnectFails \/ SI!ClientHandshake \/ SI!ClientHandshakeFails
           \/ SI!ReceiveInfo \/ SI!ReceiveEnds \/ SI!ReceiveFails \/ SI!Reset
           \/ UNCHANGED SI!vars
    PROVE  IssueInv'
<1> StreamsTyped /\ ReservationInv /\ ArrivedInv /\ ResultInv
  BY DEF IssueInv
<1> USE DEF Kept, SI!serverVars
<1>1. CASE SI!Initialize
  <2>1. result' # "session" /\ siClient # "done" /\ siClient = "start"
    BY <1>1 DEF SI!Initialize, SI!ClientFails, ResultInv
  <2>2. Consumes
    BY <1>1, NoneEnds DEF SI!Initialize, SI!ClientFails, Consumes, InTransit, StreamsTyped
  <2> QED
    BY <1>1, <2>1, <2>2, ClientSide DEF SI!Initialize, StreamsTyped
<1>2. CASE SI!ConnectFails
  <2>1. result' # "session" /\ siClient = "connect"
    BY <1>2 DEF SI!ConnectFails, SI!ClientFails, ResultInv
  <2>2. Consumes
    BY <1>2, NoneEnds DEF SI!ConnectFails, SI!ClientFails, Consumes, InTransit, StreamsTyped
  <2> QED
    BY <1>2, <2>1, <2>2, ClientSide DEF SI!ConnectFails, StreamsTyped
<1>3. CASE SI!ClientHandshake
  <2>1. result' # "session" /\ siClient' \notin {"start", "connect"}
    BY <1>3 DEF SI!ClientHandshake, ResultInv
  <2>2. PICK n \in 1 .. Len(siToClient) :
          /\ siToClient' = SubSeq(siToClient, n + 1, Len(siToClient))
          /\ \/ clientBuffer' = SI!Received(n) \/ clientBuffer' = << >>
             \/ /\ SI!StartsWith(SI!Received(n), "ServerHello")
                /\ clientBuffer' = SI!Rest(SI!Received(n))
    BY <1>3 DEF SI!ClientHandshake, SI!Readable
  <2>3. SI!StartsWith(SI!Received(n), "ServerHello")
          => /\ SI!Rest(SI!Received(n)) \in Seq(Pieces)
             /\ \A r : Ends(SI!Rest(SI!Received(n)), r) => Ends(SI!Received(n), r)
    BY ReadFrom, HasLast, RestOf
  <2>4. Consumes
    BY <2>2, <2>3, ReadFrom, NoneEnds DEF Consumes, InTransit
  <2> QED
    BY <1>3, <2>1, <2>4, ClientSide DEF SI!ClientHandshake, StreamsTyped
<1>4. CASE SI!ClientHandshakeFails \/ SI!ReceiveFails
  <2>1. result' # "session" /\ siClient' = "done"
    BY <1>4 DEF SI!ClientHandshakeFails, SI!ReceiveFails, SI!ClientFails
  <2>2. Consumes
    BY <1>4 DEF SI!ClientHandshakeFails, SI!ReceiveFails, SI!ClientFails, Consumes, InTransit,
                StreamsTyped
  <2> QED
    BY <1>4, <2>1, <2>2, ClientSide DEF SI!ClientHandshakeFails, SI!ReceiveFails, StreamsTyped
<1>5. CASE SI!ReceiveInfo
  <2>1. PICK n \in 1 .. Len(siToClient) :
          /\ siToClient' = SubSeq(siToClient, n + 1, Len(siToClient))
          /\ payloadComplete' = (payloadComplete \/ SI!HoldsInfo(SI!Received(n)))
          /\ clientBuffer' = SI!AfterInfo(SI!Received(n))
          /\ IF ~ SI!Decrypts(SI!Received(n)) THEN SI!Leave("failed")
             ELSE IF SI!HoldsClose(SI!Received(n)) THEN SI!Leave(SI!Accepted)
             ELSE UNCHANGED <<siClient, socketOpen, clientFin, bufferHeld, result>>
    BY <1>5, Zenon DEF SI!ReceiveInfo
  <2> DEFINE stream == SI!Received(n)
  <2>2. stream \in Seq(Pieces) /\ \A r : Ends(stream, r) => InTransit(r)
    BY ReadFrom
  <2> HIDE DEF stream
  <2>3. SI!AfterInfo(stream) \in Seq(Pieces) /\ \A r : Ends(SI!AfterInfo(stream), r) => Ends(stream, r)
    BY <2>2, HasLast, RestOf DEF SI!AfterInfo, SI!HoldsInfo
  <2>4. Consumes
    BY <2>1, <2>2, <2>3, ReadFrom DEF Consumes, InTransit, stream
  <2>5. SI!HoldsInfo(stream) => ~payloadComplete /\ InTransit(SI!InfoRecord)
    BY <2>2, HasLast DEF SI!HoldsInfo
  <2>6. payloadComplete' \in BOOLEAN /\ (payloadComplete' <=> payloadComplete \/ SI!HoldsInfo(stream))
    BY <2>1, Zenon DEF stream
  <2>7. SI!InfoRecord \in {"Info", "Refused"}
    BY DEF SI!InfoRecord
  <2>8. ASSUME result' = "session"
        PROVE  siClient' = "done" /\ reservation = "reserved" /\ payloadComplete' /\ CloseSent
    <3>1. siClient # "done" /\ result # "session" /\ ~reset
      BY <1>5 DEF SI!ReceiveInfo, ResultInv
    <3>2. SI!HoldsClose(stream) /\ SI!Leave(SI!Accepted)
      BY <2>1, <2>8, <3>1 DEF SI!Leave, stream
    <3>3. siClient' = "done" /\ reservation # "refused"
      BY <2>8, <3>2 DEF SI!Leave, SI!Accepted, SI!InfoRecord
    <3>4. payloadComplete' /\ Ends(SI!AfterInfo(stream), "CloseNotify")
      BY <2>3, <2>6, <3>2, HasLast DEF SI!HoldsClose
    <3>5. InTransit("CloseNotify")
      BY <2>2, <2>3, <3>4
    <3>6. reservation # "none"
      BY <2>5, <2>6, <2>7, <3>4 DEF ArrivedInv, AnswerSent
    <3>7. reservation = "reserved"
      BY <2>5, <2>6, <2>7, <3>1, <3>3, <3>4, <3>6 DEF ArrivedInv, ReservationInv
    <3> QED
      BY <3>3, <3>4, <3>5, <3>7 DEF ArrivedInv
  <2>9. siClient' \notin {"start", "connect"} /\ Kept /\ reset' = reset
    BY <1>5, <2>1 DEF SI!ReceiveInfo, SI!Leave, StreamsTyped
  <2>10. payloadComplete' => payloadComplete \/ InTransit("Info") \/ InTransit("Refused")
    BY <2>5, <2>6, <2>7
  <2> QED
    BY <2>4, <2>6, <2>8, <2>9, <2>10, ClientSide
<1>6. CASE SI!ReceiveEnds
  <2>1. Consumes
    BY <1>6 DEF SI!ReceiveEnds, SI!Leave, Consumes, InTransit, StreamsTyped
  <2>2. ASSUME result' = "session"
        PROVE  siClient' = "done" /\ reservation = "reserved" /\ payloadComplete' /\ CloseSent
    <3>1. payloadComplete /\ siClient' = "done" /\ reservation # "refused" /\ ~reset /\ serverFin
          /\ UNCHANGED payloadComplete
      BY <1>6, <2>2 DEF SI!ReceiveEnds, SI!Leave, SI!Accepted, SI!InfoRecord
    <3> QED
      BY <3>1 DEF ArrivedInv, AnswerSent, ReservationInv, CloseSent
  <2> QED
    BY <1>6, <2>1, <2>2, ClientSide DEF SI!ReceiveEnds, SI!Leave, StreamsTyped
<1>7. CASE SI!Reset
  <2>1. Consumes
    BY <1>7, NoneEnds DEF SI!Reset, SI!clientVars, Consumes, InTransit, StreamsTyped
  <2>2. reset' = TRUE /\ UNCHANGED <<siClient, result, payloadComplete>> /\ Kept
    BY <1>7 DEF SI!Reset, SI!clientVars
  <2> QED
    BY <2>1, <2>2, ClientSide DEF StreamsTyped, ResultInv
<1>8. CASE UNCHANGED SI!vars
  <2>1. Consumes
    BY <1>8 DEF SI!vars, SI!tcpVars, SI!clientVars, Consumes, InTransit, StreamsTyped
  <2> QED
    BY <1>8, <2>1, ClientSide DEF SI!vars, SI!tcpVars, SI!clientVars, StreamsTyped, ResultInv
<1> QED
  BY <1>1, <1>2, <1>3, <1>4, <1>5, <1>6, <1>7, <1>8

-------------------------------------------------------------------------------
(* The steps of the worker.                                                    *)

\* Nothing that the client could have read changes but what the worker appends.
Appends(records) ==
    /\ UNCHANGED <<clientBuffer, payloadComplete, siClient, result, reset>>
    /\ siToClient' \in Seq(Pieces)
    /\ \A r \in {"Info", "Refused", "CloseNotify"} :
          InTransit(r)' => InTransit(r) \/ r \in records

LEMMA ServerSide ==
    ASSUME IssueInv, NEW records, Appends(records), UnsentInv', ReservationInv',
           serverFin' \in BOOLEAN,
           siWorker' \in {"off", "handshake", "finish", "reserve", "send", "close", "drain", "done"},
           AnswerSent => AnswerSent' /\ (reservation = "reserved" => reservation' # "refused"),
           CloseSent => CloseSent',
           "Info" \in records => AnswerSent' /\ reservation' \in {"reserved", "aborted"},
           "Refused" \in records => AnswerSent', "CloseNotify" \in records => CloseSent',
           reservation = "reserved" => reservation' = "reserved" \/ result # "session",
           reservation = "aborted" => reservation' = "aborted",
           reservation' = "aborted" =>
              reset \/ (records = {} /\ (reservation = "aborted" \/ ~AnswerSent))
    PROVE  IssueInv'
<1>1. StreamsTyped'
  BY DEF IssueInv, StreamsTyped, Appends
<1>2. ArrivedInv'
  BY DEF IssueInv, ArrivedInv, Appends, AnswerSent, ReservationInv
<1>3. ResultInv'
  BY DEF IssueInv, ResultInv, Appends
<1> QED
  BY <1>1, <1>2, <1>3 DEF IssueInv

LEMMA SameStream ==
    ASSUME StreamsTyped, UNCHANGED <<siToClient, SI!clientVars, reset>>
    PROVE  Appends({})
BY DEF Appends, StreamsTyped, InTransit, SI!clientVars

LEMMA TokenAppended ==
    ASSUME SI!SessionIssueAssumption, StreamsTyped, NEW r \in {"ServerHello", "Finished"}
    PROVE  /\ SI!SendToken(siToClient, r) \in Seq(Pieces)
           /\ \A q \in {"Info", "Refused", "CloseNotify"} :
                 Ends(SI!SendToken(siToClient, r), q) => Ends(siToClient, q)
<1> DEFINE R == SI!Record(r)
<1>1. R \in Seq(Pieces)
  BY RecordPieces
<1>2. \A i \in 1 .. Len(R) : R[i] = <<r, i>>
  BY RecordIsSeq
<1>3. \A q \in {"Info", "Refused", "CloseNotify"} : ~Ends(R, q)
  BY <1>2 DEF Ends
<1>4. SI!SendToken(siToClient, r) = siToClient \o R
  BY DEF SI!SendToken
<1> HIDE DEF R
<1> QED
  BY <1>1, <1>3, <1>4, EndsJoined DEF StreamsTyped

\* SendAll hands on the next piece; with the last one nothing is left to send.
LEMMA PieceAppended ==
    ASSUME SI!SessionIssueAssumption, StreamsTyped, UnsentInv, siWorker \in {"send", "close"},
           unsent # << >>
    PROVE  /\ Append(siToClient, Head(unsent)) \in Seq(Pieces)
           /\ \A q : Ends(Append(siToClient, Head(unsent)), q)
                       => Ends(siToClient, q) \/ (q = Outgoing /\ Tail(unsent) = << >>)
           /\ Tail(unsent) \in Seq(Pieces) /\ Len(Tail(unsent)) = Len(unsent) - 1
           /\ Len(unsent) \in 1 .. siFragments
           /\ \A i \in 1 .. Len(Tail(unsent)) : Tail(unsent)[i] = unsent[i + 1]
<1>1. /\ unsent \in Seq(Pieces) /\ Len(unsent) <= siFragments /\ siFragments \in Nat
      /\ unsent[1] = <<Outgoing, siFragments - Len(unsent) + 1>> /\ Len(unsent) \in Nat \ {0}
  BY DEF UnsentInv, SI!SessionIssueAssumption
<1>2. Head(unsent) = unsent[1] /\ unsent[1] \in Pieces
  BY <1>1
<1>3. siToClient \in Seq(Pieces)
  BY DEF StreamsTyped
<1>4. Append(siToClient, Head(unsent)) \in Seq(Pieces)
  BY <1>2, <1>3
<1>5. ASSUME NEW q, Ends(Append(siToClient, Head(unsent)), q)
      PROVE  Ends(siToClient, q) \/ (q = Outgoing /\ Tail(unsent) = << >>)
  <2>1. PICK i \in 1 .. Len(Append(siToClient, Head(unsent))) :
          Append(siToClient, Head(unsent))[i] = <<q, siFragments>>
    BY <1>5 DEF Ends
  <2>2. CASE i <= Len(siToClient)
    BY <1>3, <2>1, <2>2 DEF Ends
  <2>3. CASE i = Len(siToClient) + 1
    <3>1. <<q, siFragments>> = <<Outgoing, siFragments - Len(unsent) + 1>>
      BY <1>1, <1>2, <1>3, <2>1, <2>3
    <3>2. q = Outgoing /\ siFragments = siFragments - Len(unsent) + 1
      <4> DEFINE k == siFragments - Len(unsent) + 1
      <4>1. <<q, siFragments>> = <<Outgoing, k>>
        BY <3>1
      <4> HIDE DEF k
      <4>2. q = Outgoing /\ siFragments = k
        BY <4>1
      <4> QED
        BY <4>2 DEF k
    <3>3. Len(unsent) = 1
      <4>1. Len(unsent) \in Nat /\ siFragments \in Nat
        BY <1>1
      <4>2. siFragments = siFragments - Len(unsent) + 1
        BY <3>2
      <4> QED
        BY <4>1, <4>2
    <3>4. Tail(unsent) \in Seq(Pieces) /\ Len(Tail(unsent)) = 0
      BY <1>1, <3>3
    <3>5. Tail(unsent) = << >>
      BY <3>4, EmptySeq
    <3> QED
      BY <3>2, <3>5
  <2> QED
    BY <1>3, <2>1, <2>2, <2>3
<1>6. /\ Tail(unsent) \in Seq(Pieces) /\ Len(Tail(unsent)) = Len(unsent) - 1
      /\ \A i \in 1 .. Len(Tail(unsent)) : Tail(unsent)[i] = unsent[i + 1]
  BY <1>1
<1> QED
  BY <1>1, <1>4, <1>5, <1>6

LEMMA ServerInvStep ==
    ASSUME SI!SessionIssueAssumption, IssueInv, SI!ServerStep \/ SI!Connect \/ SI!ServerInitializeFails
    PROVE  IssueInv'
<1> StreamsTyped /\ UnsentInv /\ ReservationInv /\ ArrivedInv /\ ResultInv
  BY DEF IssueInv
<1>1. CASE SI!Connect
  <2>1. /\ siWorker = "off" /\ siWorker' = "handshake" /\ siClient = "connect"
        /\ siClient' = "hello" /\ result' = result
        /\ UNCHANGED <<reservation, serverFin, unsent>>
    BY <1>1 DEF SI!Connect, ReservationInv
  <2>2. UNCHANGED <<siToClient, clientBuffer, payloadComplete, reset>>
    BY <1>1 DEF SI!Connect
  <2>3. /\ ~InTransit("Info") /\ ~InTransit("Refused") /\ ~InTransit("CloseNotify")
        /\ ~payloadComplete
    BY <2>1 DEF ArrivedInv, AnswerSent, CloseSent
  <2>4. ArrivedInv' /\ StreamsTyped'
    BY <2>1, <2>2, <2>3 DEF ArrivedInv, InTransit, StreamsTyped
  <2>5. UnsentInv' /\ ReservationInv' /\ ResultInv'
    BY <2>1, <2>2 DEF UnsentInv, ReservationInv, ResultInv
  <2> QED
    BY <2>4, <2>5 DEF IssueInv
<1>2. CASE SI!ServerHandshake
  <2>1. /\ siWorker \in {"handshake", "finish"} /\ siWorker' \in {"handshake", "finish", "reserve"}
        /\ UNCHANGED <<serverFin, reset, unsent, reservation, SI!clientVars>>
        /\ siToClient' = siToClient \/ \E r \in {"ServerHello", "Finished"} :
                                         siToClient' = SI!SendToken(siToClient, r)
    BY <1>2 DEF SI!ServerHandshake
  <2>2. Appends({})
    BY <2>1, TokenAppended DEF Appends, InTransit, SI!clientVars, StreamsTyped
  <2>3. UnsentInv' /\ ReservationInv'
    BY <2>1 DEF UnsentInv, ReservationInv, SI!clientVars
  <2>4. ~AnswerSent /\ ~CloseSent
    BY <2>1 DEF AnswerSent, CloseSent
  <2> QED
    BY <2>1, <2>2, <2>3, <2>4, ServerSide DEF StreamsTyped
<1>3. CASE SI!ServerInitializeFails \/ SI!ServerHandshakeFails
  <2>1. /\ siWorker \in {"handshake", "finish"} /\ siWorker' = "done" /\ serverFin' = TRUE
        /\ UNCHANGED <<siToClient, reset, unsent, reservation, SI!clientVars>>
    BY <1>3 DEF SI!ServerInitializeFails, SI!ServerHandshakeFails, SI!CloseSocket
  <2>2. Appends({})
    BY <2>1, SameStream
  <2>3. UnsentInv' /\ ReservationInv'
    BY <2>1 DEF UnsentInv, ReservationInv, SI!clientVars
  <2>4. ~AnswerSent /\ ~CloseSent
    BY <2>1 DEF AnswerSent, CloseSent
  <2> QED
    BY <2>1, <2>2, <2>3, <2>4, ServerSide
<1>4. CASE SI!Reserve /\ siWorker' = "send"
  <2>1. /\ siWorker = "reserve" /\ siWorker' = "send" /\ reservation' \in {"reserved", "refused"}
        /\ unsent' = SI!Record(IF reservation' = "reserved" THEN "Info" ELSE "Refused")
        /\ UNCHANGED <<siToClient, serverFin, reset, SI!clientVars>>
    BY <1>4 DEF SI!Reserve, SI!tcpVars, SI!CloseSocket
  <2>2. Appends({})
    BY <2>1, SameStream
  <2>3. UnsentInv'
    <3>1. Outgoing' = IF reservation' = "reserved" THEN "Info" ELSE "Refused"
      BY <2>1 DEF Outgoing
    <3>2. Outgoing' \in {"Info", "Refused"} /\ unsent' = SI!Record(Outgoing')
      BY <2>1, <3>1
    <3>3. unsent' \in Seq(Pieces) /\ Len(unsent') = siFragments /\ siFragments \in Nat
      BY <3>2, RecordPieces, RecordIsSeq
    <3>4. \A i \in 1 .. siFragments : unsent'[i] = <<Outgoing', i>>
      BY <3>2, RecordIsSeq
    <3> QED
      BY <3>3, <3>4 DEF UnsentInv
  <2>4. ReservationInv'
    BY <2>1 DEF ReservationInv, SI!clientVars
  <2>5. ~AnswerSent /\ ~CloseSent /\ reservation = "none"
    BY <2>1 DEF AnswerSent, CloseSent, ReservationInv
  <2> QED
    BY <2>1, <2>2, <2>3, <2>4, <2>5, ServerSide DEF StreamsTyped
<1>5. CASE SI!Reserve /\ siWorker' # "send"
  <2>1. /\ siWorker = "reserve" /\ siWorker' = "done" /\ reservation' \in {"aborted", "refused"}
        /\ serverFin' = TRUE /\ UNCHANGED <<siToClient, unsent, reset, SI!clientVars>>
    BY <1>5 DEF SI!Reserve, SI!CloseSocket
  <2>2. Appends({})
    BY <2>1, SameStream
  <2>3. UnsentInv' /\ ReservationInv'
    BY <2>1 DEF UnsentInv, ReservationInv, SI!clientVars
  <2>4. ~AnswerSent /\ ~CloseSent /\ reservation = "none"
    BY <2>1 DEF AnswerSent, CloseSent, ReservationInv
  <2> QED
    BY <2>1, <2>2, <2>3, <2>4, ServerSide DEF StreamsTyped
<1>6. CASE SI!SendAll
  <2>1. /\ siWorker \in {"send", "close"} /\ unsent # << >>
        /\ siToClient' = Append(siToClient, Head(unsent)) /\ unsent' = Tail(unsent)
        /\ UNCHANGED <<serverFin, reset, siWorker, reservation, SI!clientVars>>
    BY <1>6 DEF SI!SendAll
  <2> DEFINE records == IF Tail(unsent) = << >> THEN {Outgoing} ELSE {}
  <2>2. Appends(records)
    BY <2>1, PieceAppended DEF Appends, InTransit, SI!clientVars
  <2>3. UnsentInv'
    <3>1. Outgoing' = Outgoing
      BY <2>1 DEF Outgoing
    <3>2. /\ unsent' \in Seq(Pieces) /\ Len(unsent') = Len(unsent) - 1
          /\ Len(unsent) \in 1 .. siFragments /\ siFragments \in Nat
          /\ \A i \in 1 .. Len(unsent') : unsent'[i] = unsent[i + 1]
      BY <2>1, PieceAppended DEF SI!SessionIssueAssumption
    <3>3. \A i \in 1 .. Len(unsent) : unsent[i] = <<Outgoing, siFragments - Len(unsent) + i>>
      BY <2>1 DEF UnsentInv
    <3>4. ASSUME NEW i \in 1 .. Len(unsent')
          PROVE  unsent'[i] = <<Outgoing', siFragments - Len(unsent') + i>>
      <4>1. i + 1 \in 1 .. Len(unsent)
        BY <3>2
      <4>2. unsent'[i] = <<Outgoing, siFragments - Len(unsent) + (i + 1)>>
        BY <3>2, <3>3, <4>1
      <4>3. siFragments - Len(unsent) + (i + 1) = siFragments - Len(unsent') + i
        BY <3>2
      <4> QED
        BY <3>1, <4>2, <4>3
    <3>5. Len(unsent') <= siFragments
      BY <3>2
    <3> QED
      BY <3>2, <3>4, <3>5 DEF UnsentInv
  <2>4. ReservationInv'
    BY <2>1 DEF ReservationInv, SI!clientVars
  <2>5. ~AnswerSent \/ siWorker = "close"
    BY <2>1 DEF AnswerSent
  <2>6. AnswerSent => AnswerSent'
    BY <2>1, <2>5 DEF AnswerSent
  <2>7. ~CloseSent \/ siWorker = "send"
    BY <2>1 DEF CloseSent
  <2>8. CloseSent => CloseSent'
    BY <2>1, <2>7 DEF CloseSent
  <2>9. ASSUME Tail(unsent) = << >>
        PROVE  /\ Outgoing = "CloseNotify" => CloseSent'
               /\ Outgoing \in {"Info", "Refused"} => AnswerSent'
               /\ Outgoing = "Info" => reservation' = "reserved"
    BY <2>1, <2>9 DEF Outgoing, CloseSent, AnswerSent, ReservationInv
  <2>10. reservation' # "aborted"
    BY <2>1 DEF ReservationInv
  <2> QED
    BY <2>1, <2>2, <2>3, <2>4, <2>6, <2>8, <2>9, <2>10, ServerSide DEF StreamsTyped
<1>7. CASE SI!EncryptCloseNotify
  <2>1. /\ siWorker = "send" /\ unsent = << >> /\ siWorker' = "close"
        /\ unsent' = << >> \/ unsent' = SI!Record("CloseNotify")
        /\ UNCHANGED <<siToClient, serverFin, reset, reservation, SI!clientVars>>
    BY <1>7 DEF SI!EncryptCloseNotify, SI!tcpVars
  <2>2. Appends({})
    BY <2>1, SameStream
  <2>3. UnsentInv'
    <3>1. Outgoing' = "CloseNotify" /\ siFragments \in Nat
      BY <2>1 DEF Outgoing, SI!SessionIssueAssumption
    <3>2. CASE unsent' = << >>
      BY <3>1, <3>2 DEF UnsentInv
    <3>3. CASE unsent' = SI!Record("CloseNotify")
      <4>1. unsent' \in Seq(Pieces) /\ Len(unsent') = siFragments
        BY <3>3, RecordPieces, RecordIsSeq
      <4>2. \A i \in 1 .. siFragments : unsent'[i] = <<"CloseNotify", i>>
        BY <3>3, RecordIsSeq
      <4> QED
        BY <3>1, <4>1, <4>2 DEF UnsentInv
    <3> QED
      BY <2>1, <3>2, <3>3
  <2>4. ReservationInv'
    BY <2>1 DEF ReservationInv, SI!clientVars
  <2>5. ~CloseSent /\ AnswerSent'
    BY <2>1 DEF AnswerSent, CloseSent, ReservationInv
  <2> QED
    BY <2>1, <2>2, <2>3, <2>4, <2>5, ServerSide DEF StreamsTyped
<1>8. CASE SI!Shutdown \/ SI!Drain
  <2>1. /\ \/ siWorker = "close" /\ unsent = << >> /\ siWorker' = "drain"
           \/ siWorker = "drain" /\ siWorker' = "done"
        /\ serverFin' = TRUE
        /\ UNCHANGED <<siToClient, reset, unsent, reservation, SI!clientVars>>
    BY <1>8 DEF SI!Shutdown, SI!Drain, SI!CloseSocket
  <2>2. Appends({})
    BY <2>1, SameStream
  <2>3. UnsentInv' /\ ReservationInv'
    BY <2>1 DEF UnsentInv, ReservationInv, SI!clientVars
  <2>4. AnswerSent' /\ CloseSent'
    BY <2>1 DEF AnswerSent, CloseSent, ReservationInv
  <2> QED
    BY <2>1, <2>2, <2>3, <2>4, ServerSide
<1>9. CASE SI!SendFails
  <2>1. /\ siWorker \in {"send", "close"} /\ reset /\ unsent # << >> /\ siWorker' = "done"
        /\ serverFin' = TRUE
        /\ reservation' = IF reservation = "reserved" THEN "aborted" ELSE reservation
        /\ UNCHANGED <<siToClient, reset, unsent, SI!clientVars>>
    BY <1>9 DEF SI!SendFails, SI!CloseSocket
  <2>2. Appends({})
    BY <2>1, SameStream
  <2>3. UnsentInv' /\ ReservationInv'
    BY <2>1 DEF UnsentInv, ReservationInv, SI!clientVars
  <2>4. AnswerSent' /\ CloseSent' /\ result # "session"
    BY <2>1 DEF AnswerSent, CloseSent, ReservationInv, ResultInv
  <2> QED
    BY <2>1, <2>2, <2>3, <2>4, ServerSide
<1> QED
  BY <1>1, <1>2, <1>3, <1>4, <1>5, <1>6, <1>7, <1>8, <1>9 DEF SI!ServerStep

LEMMA InitIssue == ASSUME SI!Init PROVE IssueInv
BY NoneEnds DEF SI!Init, IssueInv, StreamsTyped, UnsentInv, ReservationInv, ArrivedInv, ResultInv,
       InTransit

LEMMA IssueAlways ==
    ASSUME SI!SessionIssueAssumption PROVE SI!Init /\ [][SI!Next]_(SI!vars) => []IssueInv
<1>1. IssueInv /\ [SI!Next]_(SI!vars) => IssueInv'
  BY ClientInvStep, ServerInvStep DEF SI!Next, SI!ClientStep
<1> QED
  BY <1>1, InitIssue, PTL

LEMMA AcceptedFromInv == IssueInv => SI!AcceptedIsReserved
BY DEF IssueInv, ResultInv, CloseSent, SI!AcceptedIsReserved

\* The two sides of the issue agree: a client that goes on with a session has one that the
\* server keeps for it, however TCP cut the stream and wherever the connection broke.
THEOREM AcceptedWasReserved ==
    ASSUME SI!SessionIssueAssumption PROVE SI!Spec => []SI!AcceptedIsReserved
BY AcceptedFromInv, IssueAlways, PTL DEF SI!Spec

LEMMA ReturnsAlways ==
    SI!Init /\ [][SI!Next]_(SI!vars) => []SI!ClientReturnsAll
<1>1. ASSUME SI!ClientReturnsAll, [SI!Next]_(SI!vars) PROVE SI!ClientReturnsAll'
  <2>1. CASE SI!ClientStep \/ SI!ConnectFails
    BY <1>1, <2>1 DEF SI!ClientStep, SI!Initialize, SI!Connect, SI!ClientHandshake,
          SI!ClientHandshakeFails, SI!ReceiveInfo, SI!ReceiveEnds, SI!ReceiveFails, SI!ConnectFails,
          SI!ClientFails, SI!Leave, SI!Accepted, SI!ClientReturnsAll
  <2>2. CASE UNCHANGED SI!clientVars
    BY <1>1, <2>2 DEF SI!clientVars, SI!ClientReturnsAll
  <2>3. SI!ServerStep \/ SI!ServerInitializeFails \/ SI!Reset \/ UNCHANGED SI!vars
          => UNCHANGED SI!clientVars
    BY DEF SI!ServerStep, SI!ServerHandshake, SI!ServerHandshakeFails, SI!Reserve, SI!SendAll,
           SI!EncryptCloseNotify, SI!Shutdown, SI!Drain, SI!SendFails, SI!ServerInitializeFails,
           SI!Reset, SI!vars, SI!clientVars
  <2> QED
    BY <1>1, <2>1, <2>2, <2>3 DEF SI!Next
<1>2. SI!Init => SI!ClientReturnsAll
  BY DEF SI!Init, SI!ClientReturnsAll
<1> QED
  BY <1>1, <1>2, PTL

\* GetSessionInfoFromServer: whichever step fails, a client that is done has closed its
\* socket and returned its buffer, and knows how it ended.
THEOREM ClientKeepsNothing == SI!Spec => []SI!ClientReturnsAll
BY ReturnsAlways, PTL DEF SI!Spec

-------------------------------------------------------------------------------
(* The retransmission timeout of one session.                                *)

RTOs == RE!MinRto .. RE!MaxRto

LEMMA RtoRange ==
    ASSUME RE!RtoEstimatorAssumption
    PROVE  /\ RE!MinRto \in Nat /\ RE!MaxRto \in Nat /\ 1 <= RE!MinRto /\ RE!MinRto <= RE!MaxRto
           /\ reMaxSteady \in Nat /\ reMaxSteady >= 1
BY DEF RE!RtoEstimatorAssumption, RE!MinRto, RE!MaxRto, RE!Larger

LEMMA ClampIs ==
    ASSUME RE!RtoEstimatorAssumption, NEW rtoMs \in Int PROVE RE!ClampRto(rtoMs) \in RTOs
BY RtoRange DEF RE!ClampRto, RTOs

EstimatorTyped ==
    /\ hasRttSample \in BOOLEAN
    /\ smoothedRttMs \in 0 .. RE!MaxRto /\ rttVariationMs \in 0 .. RE!MaxRto
    /\ cachedRtoMs \in RTOs

\* A window lasts no longer than the timeout of the backoff it belongs to.
WindowTyped == backoffSuppressed \in 0 .. RE!MaxRto /\ backoffSuppressed <= cachedRtoMs

SteadyTyped == steady \in [rtt : 0 .. RE!MaxRto, count : 0 .. reMaxSteady]

Flights == [since : 0 .. RE!MaxRto, rto : 0 .. RE!MaxRto, resent : BOOLEAN, before : BOOLEAN]

\* A packet that was on its way when the timeout was backed off reaches its own timeout
\* only after the window, unless that timeout is longer than the one now in force.
BeforeInWindow(f) ==
    f.before => 1 <= f.since /\ cachedRtoMs + 1 <= backoffSuppressed + f.since

FlightsHold ==
    /\ reInFlight \in [rePackets -> Flights]
    /\ \A p \in rePackets : reInFlight[p].since <= reInFlight[p].rto
    /\ \A p \in rePackets : BeforeInWindow(reInFlight[p])

RtoInv == EstimatorTyped /\ WindowTyped /\ SteadyTyped /\ FlightsHold

LEMMA RtoInit == ASSUME RE!RtoEstimatorAssumption, RE!Init PROVE RtoInv
<1>1. reInitialRto \in Int
  BY DEF RE!RtoEstimatorAssumption
<1>2. cachedRtoMs \in RTOs
  BY <1>1, ClampIs DEF RE!Init
<1>3. EstimatorTyped
  <2>1. hasRttSample \in BOOLEAN
    BY DEF RE!Init
  <2>2. smoothedRttMs \in 0 .. RE!MaxRto /\ rttVariationMs \in 0 .. RE!MaxRto
    <3>1. 0 \in 0 .. RE!MaxRto
      BY RtoRange
    <3> QED
      BY <3>1 DEF RE!Init
  <2> QED
    BY <1>2, <2>1, <2>2 DEF EstimatorTyped
<1>4. WindowTyped
  BY <1>2, RtoRange DEF RE!Init, WindowTyped, RTOs
<1>5. SteadyTyped
  BY RtoRange DEF RE!Init, SteadyTyped
<1>6. FlightsHold
  <2>1. RE!NotSent \in Flights
    BY RtoRange DEF RE!NotSent, Flights
  <2> QED
    BY <2>1, RtoRange DEF RE!Init, FlightsHold, BeforeInWindow, RE!NotSent
<1> QED
  BY <1>3, <1>4, <1>5, <1>6 DEF RtoInv

\* What one packet in flight may become, when the estimator stays as it is.
LEMMA FreshFlight ==
    ASSUME RE!RtoEstimatorAssumption, NEW rto \in RTOs, NEW again \in BOOLEAN
    PROVE  LET f == [since |-> 0, rto |-> rto, resent |-> again, before |-> FALSE] IN
           f \in Flights /\ f.since <= f.rto /\ ~f.before
BY RtoRange DEF Flights, RTOs

LEMMA NotSentFlight ==
    ASSUME RE!RtoEstimatorAssumption
    PROVE  RE!NotSent \in Flights /\ RE!NotSent.since <= RE!NotSent.rto /\ ~RE!NotSent.before
BY RtoRange DEF Flights, RE!NotSent

LEMMA SendKeepsRto ==
    ASSUME RE!RtoEstimatorAssumption, RtoInv, NEW p \in rePackets, RE!Send(p) PROVE RtoInv'
<1>1. UNCHANGED <<hasRttSample, smoothedRttMs, rttVariationMs, cachedRtoMs, backoffSuppressed, steady>>
  BY DEF RE!Send, RE!estimatorVars
<1>2. EstimatorTyped' /\ WindowTyped' /\ SteadyTyped'
  BY <1>1 DEF RtoInv, EstimatorTyped, WindowTyped, SteadyTyped
<1> DEFINE f == [since |-> 0, rto |-> cachedRtoMs, resent |-> FALSE, before |-> FALSE]
<1>3. f \in Flights /\ f.since <= f.rto /\ ~f.before
  BY FreshFlight DEF RtoInv, EstimatorTyped
<1>4. reInFlight' = [reInFlight EXCEPT ![p] = f]
  BY <1>1 DEF RE!Send, RE!Sent
<1> HIDE DEF f
<1>5. FlightsHold'
  BY <1>1, <1>3, <1>4 DEF RtoInv, FlightsHold, BeforeInWindow
<1> QED
  BY <1>2, <1>5 DEF RtoInv

LEMMA SampleTypes ==
    ASSUME RE!RtoEstimatorAssumption, EstimatorTyped, NEW sample \in 1 .. RE!MaxRto
    PROVE  RE!Smoothed(sample) \in 0 .. RE!MaxRto /\ RE!Variation(sample) \in 0 .. RE!MaxRto
<1>1. /\ RE!MaxRto \in Nat /\ smoothedRttMs \in 0 .. RE!MaxRto /\ rttVariationMs \in 0 .. RE!MaxRto
  BY RtoRange DEF EstimatorTyped
<1>2. RE!Smoothed(sample) \in 0 .. RE!MaxRto
  BY <1>1 DEF RE!Smoothed
<1>3. RE!Larger(smoothedRttMs - sample, sample - smoothedRttMs) \in 0 .. RE!MaxRto
  BY <1>1 DEF RE!Larger
<1>4. RE!Variation(sample) \in 0 .. RE!MaxRto
  BY <1>1, <1>3 DEF RE!Variation
<1> QED
  BY <1>2, <1>4

LEMMA AcknowledgeKeepsRto ==
    ASSUME RE!RtoEstimatorAssumption, RtoInv, NEW p \in rePackets, RE!Acknowledge(p) PROVE RtoInv'
<1>1. reInFlight[p] \in Flights /\ reInFlight[p].since \in 0 .. RE!MaxRto
  BY DEF RtoInv, FlightsHold, Flights
<1>2. CASE reInFlight[p].resent
  <2>1. /\ UNCHANGED <<hasRttSample, smoothedRttMs, rttVariationMs, cachedRtoMs, backoffSuppressed, steady>>
        /\ reInFlight' = [reInFlight EXCEPT ![p] = RE!NotSent]
    BY <1>2 DEF RE!Acknowledge, RE!estimatorVars
  <2>2. EstimatorTyped' /\ WindowTyped' /\ SteadyTyped'
    BY <2>1 DEF RtoInv, EstimatorTyped, WindowTyped, SteadyTyped
  <2>3. FlightsHold'
    BY <2>1, NotSentFlight DEF RtoInv, FlightsHold, BeforeInWindow
  <2> QED
    BY <2>2, <2>3 DEF RtoInv
<1>3. CASE ~reInFlight[p].resent
  <2> DEFINE rtt == RE!Larger(1, reInFlight[p].since)
             count == IF steady.rtt = rtt THEN steady.count + 1 ELSE 1
             few == IF count > reMaxSteady THEN reMaxSteady ELSE count
  <2>1. rtt \in 1 .. RE!MaxRto
    BY <1>1, RtoRange DEF RE!Larger
  <2>2. /\ RE!OnRttSample(rtt) /\ steady' = [rtt |-> rtt, count |-> few]
        /\ reInFlight' = [q \in rePackets |->
              IF q = p THEN RE!NotSent ELSE [reInFlight[q] EXCEPT !.before = FALSE]]
    BY <1>3 DEF RE!Acknowledge
  <2>3. steady.count \in 0 .. reMaxSteady
    BY DEF RtoInv, SteadyTyped
  <2>4. few \in 0 .. reMaxSteady
    BY <2>3, RtoRange
  <2> HIDE DEF rtt, few
  <2>5. SteadyTyped'
    BY <2>1, <2>2, <2>4, RtoRange DEF SteadyTyped
  <2>6. /\ smoothedRttMs' \in 0 .. RE!MaxRto /\ rttVariationMs' \in 0 .. RE!MaxRto
        /\ hasRttSample' = TRUE /\ backoffSuppressed' = 0
        /\ cachedRtoMs' = RE!ClampRto(smoothedRttMs' + RE!Larger(1, 4 * rttVariationMs'))
    BY <2>1, <2>2, SampleTypes DEF RE!OnRttSample, RtoInv
  <2>7. smoothedRttMs' + RE!Larger(1, 4 * rttVariationMs') \in Int
    <3>1. smoothedRttMs' \in Int /\ rttVariationMs' \in Int
      BY <2>6, RtoRange
    <3>2. \A a, b \in Int : a + RE!Larger(1, 4 * b) \in Int
      BY DEF RE!Larger
    <3> QED
      BY <3>1, <3>2
  <2>8. cachedRtoMs' \in RTOs
    BY <2>6, <2>7, ClampIs
  <2>9. EstimatorTyped' /\ WindowTyped'
    BY <2>6, <2>8, RtoRange DEF EstimatorTyped, WindowTyped, RTOs
  <2>10. FlightsHold'
    <3> SUFFICES ASSUME NEW q \in rePackets
                 PROVE  /\ reInFlight'[q] \in Flights /\ reInFlight'[q].since <= reInFlight'[q].rto
                        /\ ~reInFlight'[q].before
      BY <2>2 DEF FlightsHold, BeforeInWindow
    <3>1. CASE q = p
      BY <2>2, <3>1, NotSentFlight
    <3>2. CASE q # p
      <4>1. reInFlight'[q] = [reInFlight[q] EXCEPT !.before = FALSE]
        BY <2>2, <3>2
      <4>2. reInFlight[q] \in Flights /\ reInFlight[q].since <= reInFlight[q].rto
        BY DEF RtoInv, FlightsHold
      <4> QED
        BY <4>1, <4>2 DEF Flights
    <3> QED
      BY <3>1, <3>2
  <2> QED
    BY <2>5, <2>9, <2>10 DEF RtoInv
<1> QED
  BY <1>2, <1>3

LEMMA TimeoutKeepsRto ==
    ASSUME RE!RtoEstimatorAssumption, RtoInv, NEW p \in rePackets, RE!OnTimeout(p) PROVE RtoInv'
<1>1. steady' = steady /\ reInFlight \in [rePackets -> Flights] /\ cachedRtoMs \in RTOs
  BY DEF RE!OnTimeout, RtoInv, FlightsHold, EstimatorTyped
<1> DEFINE f == [since |-> 0, rto |-> cachedRtoMs', resent |-> TRUE, before |-> FALSE]
<1>2. CASE RE!InWindow
  <2>1. /\ UNCHANGED <<hasRttSample, smoothedRttMs, rttVariationMs, cachedRtoMs, backoffSuppressed>>
        /\ reInFlight' = [reInFlight EXCEPT ![p] = f]
    BY <1>2 DEF RE!OnTimeout, RE!estimatorVars, RE!Sent
  <2>2. EstimatorTyped' /\ WindowTyped' /\ SteadyTyped'
    BY <1>1, <2>1 DEF RtoInv, EstimatorTyped, WindowTyped, SteadyTyped
  <2>3. f \in Flights /\ f.since <= f.rto /\ ~f.before
    BY <1>1, <2>1, FreshFlight
  <2> HIDE DEF f
  <2>4. FlightsHold'
    BY <2>1, <2>3 DEF RtoInv, FlightsHold, BeforeInWindow
  <2> QED
    BY <2>2, <2>4 DEF RtoInv
<1>3. CASE ~RE!InWindow
  <2>1. /\ cachedRtoMs' = RE!ClampRto(2 * cachedRtoMs) /\ backoffSuppressed' = cachedRtoMs'
        /\ UNCHANGED <<hasRttSample, smoothedRttMs, rttVariationMs>>
        /\ reInFlight' = [RE!MarkBefore EXCEPT ![p] = RE!Sent(p, TRUE)[p]]
    BY <1>3 DEF RE!OnTimeout
  <2>2. 2 * cachedRtoMs \in Int
    BY <1>1, RtoRange DEF RTOs
  <2>3. cachedRtoMs' \in RTOs
    BY <2>1, <2>2, ClampIs
  <2>4. EstimatorTyped' /\ WindowTyped' /\ SteadyTyped'
    BY <1>1, <2>1, <2>3, RtoRange DEF RtoInv, EstimatorTyped, WindowTyped, SteadyTyped, RTOs
  <2>5. RE!Sent(p, TRUE)[p] = f
    BY <1>1 DEF RE!Sent
  <2>6. f \in Flights /\ f.since <= f.rto /\ ~f.before
    BY <2>3, FreshFlight
  <2> HIDE DEF f
  <2>7. reInFlight' = [q \in rePackets |-> IF q = p THEN f ELSE RE!MarkBefore[q]]
    BY <2>1, <2>5 DEF RE!MarkBefore
  <2>8. FlightsHold'
    <3> SUFFICES ASSUME NEW q \in rePackets
                 PROVE  /\ reInFlight'[q] \in Flights /\ reInFlight'[q].since <= reInFlight'[q].rto
                        /\ BeforeInWindow(reInFlight[q])'
      BY <2>7 DEF FlightsHold
    <3>1. CASE q = p
      BY <2>6, <2>7, <3>1 DEF BeforeInWindow
    <3>2. CASE q # p
      <4>1. /\ reInFlight[q] \in Flights /\ reInFlight[q].since <= reInFlight[q].rto
            /\ BeforeInWindow(reInFlight[q])
        BY DEF RtoInv, FlightsHold
      <4>2. reInFlight[q].since \in Nat
        BY <4>1, RtoRange DEF Flights
      <4>3. reInFlight'[q] = IF reInFlight[q].since > 0 THEN [reInFlight[q] EXCEPT !.before = TRUE]
                                                      ELSE reInFlight[q]
        BY <2>7, <3>2 DEF RE!MarkBefore
      <4>4. reInFlight'[q] \in Flights /\ reInFlight'[q].since = reInFlight[q].since
            /\ reInFlight'[q].rto = reInFlight[q].rto
        BY <4>1, <4>3 DEF Flights
      <4>5. reInFlight'[q].before => reInFlight[q].since >= 1
        BY <4>1, <4>2, <4>3 DEF BeforeInWindow
      <4>6. cachedRtoMs' \in Nat
        BY <2>3, RtoRange DEF RTOs
      <4>7. BeforeInWindow(reInFlight[q])'
        <5> SUFFICES ASSUME reInFlight'[q].before
                     PROVE  /\ 1 <= reInFlight'[q].since
                            /\ cachedRtoMs' + 1 <= backoffSuppressed' + reInFlight'[q].since
          BY DEF BeforeInWindow
        <5>1. reInFlight[q].since >= 1 /\ backoffSuppressed' = cachedRtoMs'
          BY <2>1, <4>5
        <5> QED
          BY <4>2, <4>4, <4>6, <5>1
      <4> QED
        BY <4>1, <4>4, <4>7
    <3> QED
      BY <3>1, <3>2
  <2> QED
    BY <2>4, <2>8 DEF RtoInv
<1> QED
  BY <1>2, <1>3

LEMMA TickKeepsRto == ASSUME RE!RtoEstimatorAssumption, RtoInv, RE!Tick PROVE RtoInv'
<1>1. /\ UNCHANGED <<hasRttSample, smoothedRttMs, rttVariationMs, cachedRtoMs, steady>>
      /\ backoffSuppressed' = RE!Larger(0, backoffSuppressed - 1)
  BY DEF RE!Tick
<1>2. EstimatorTyped' /\ SteadyTyped'
  BY <1>1 DEF RtoInv, EstimatorTyped, SteadyTyped
<1>3. /\ backoffSuppressed \in 0 .. RE!MaxRto /\ RE!MaxRto \in Nat /\ cachedRtoMs \in Nat
      /\ backoffSuppressed <= cachedRtoMs
  BY RtoRange DEF RtoInv, WindowTyped, EstimatorTyped, RTOs
<1>4. backoffSuppressed' \in Nat /\ backoffSuppressed - 1 <= backoffSuppressed'
      /\ backoffSuppressed' <= backoffSuppressed
  BY <1>1, <1>3 DEF RE!Larger
<1>5. WindowTyped'
  BY <1>1, <1>3, <1>4 DEF WindowTyped
<1>6. FlightsHold'
  <2>1. reInFlight' = [q \in rePackets |->
           IF RE!InFlight(q) THEN [reInFlight[q] EXCEPT !.since = @ + 1] ELSE RE!NotSent]
    BY DEF RE!Tick
  <2> SUFFICES ASSUME NEW q \in rePackets
               PROVE  /\ reInFlight'[q] \in Flights /\ reInFlight'[q].since <= reInFlight'[q].rto
                      /\ BeforeInWindow(reInFlight[q])'
    BY <2>1 DEF FlightsHold
  <2>2. CASE ~RE!InFlight(q)
    BY <2>1, <2>2, NotSentFlight DEF BeforeInWindow
  <2>3. CASE RE!InFlight(q)
    <3>1. reInFlight'[q] = [reInFlight[q] EXCEPT !.since = reInFlight[q].since + 1]
      BY <2>1, <2>3
    <3>2. /\ reInFlight[q] \in Flights /\ BeforeInWindow(reInFlight[q])
          /\ reInFlight[q].since < reInFlight[q].rto
      BY <2>3 DEF RE!Tick, RtoInv, FlightsHold
    <3>3. reInFlight[q].since \in Nat /\ reInFlight[q].rto \in 0 .. RE!MaxRto
      BY <3>2, RtoRange DEF Flights
    <3>4. /\ reInFlight'[q] \in Flights /\ reInFlight'[q].since = reInFlight[q].since + 1
          /\ reInFlight'[q].rto = reInFlight[q].rto
          /\ reInFlight'[q].before <=> reInFlight[q].before
      <4>1. reInFlight[q].since + 1 \in 0 .. RE!MaxRto
        BY <1>3, <3>2, <3>3
      <4> QED
        BY <3>1, <3>2, <4>1 DEF Flights
    <3>5. BeforeInWindow(reInFlight[q])'
      <4> SUFFICES ASSUME reInFlight'[q].before
                   PROVE  /\ 1 <= reInFlight'[q].since
                          /\ cachedRtoMs' + 1 <= backoffSuppressed' + reInFlight'[q].since
        BY DEF BeforeInWindow
      <4>1. cachedRtoMs + 1 <= backoffSuppressed + reInFlight[q].since
        BY <3>2, <3>4 DEF BeforeInWindow
      <4> QED
        BY <1>1, <1>3, <1>4, <3>3, <3>4, <4>1
    <3> QED
      BY <3>2, <3>3, <3>4, <3>5
  <2> QED
    BY <2>2, <2>3
<1> QED
  BY <1>2, <1>5, <1>6 DEF RtoInv

LEMMA RtoAlways == ASSUME RE!RtoEstimatorAssumption PROVE RE!Spec => []RtoInv
<1>1. RE!Init => RtoInv
  BY RtoInit
<1>2. ASSUME RtoInv, [RE!Next]_(RE!vars) PROVE RtoInv'
  <2>1. ASSUME UNCHANGED RE!vars PROVE RtoInv'
    BY <1>2, <2>1 DEF RE!vars, RE!estimatorVars, RtoInv, EstimatorTyped, WindowTyped, SteadyTyped,
                      FlightsHold, BeforeInWindow
  <2> QED
    BY <1>2, <2>1, SendKeepsRto, AcknowledgeKeepsRto, TimeoutKeepsRto, TickKeepsRto DEF RE!Next
<1>3. RtoInv /\ [RE!Next]_(RE!vars) => RtoInv'
  BY <1>2
<1> QED
  BY <1>1, <1>3, PTL DEF RE!Spec

\* The estimator keeps its types, the timeout its bounds, whatever samples and losses come.
THEOREM RtoTypes == ASSUME RE!RtoEstimatorAssumption PROVE RE!Spec => []RE!TypeOK
<1>1. RtoInv => RE!TypeOK
  BY DEF RtoInv, EstimatorTyped, WindowTyped, SteadyTyped, FlightsHold, Flights, RTOs, RE!TypeOK
<1> QED
  BY <1>1, RtoAlways, PTL

\* The window in which losses do not count lasts no longer than the timeout in force, also after
\* a sample that lowers the timeout.
THEOREM WindowsEnd == ASSUME RE!RtoEstimatorAssumption PROVE RE!Spec => []RE!WindowOnlyAfterBackoff
<1>1. RtoInv => RE!WindowOnlyAfterBackoff
  BY DEF RtoInv, WindowTyped, RE!WindowOnlyAfterBackoff
<1> QED
  BY <1>1, RtoAlways, PTL

\* Of the packets on their way when the timeout was backed off none backs it off again, unless
\* its own timeout is longer than the new one: one burst of losses counts once.
THEOREM OneBackoffPerBurst == ASSUME RE!RtoEstimatorAssumption PROVE RE!Spec => RE!BurstBacksOffOnce
<1> DEFINE Once == \A p \in rePackets :
          RE!OnTimeout(p) /\ reInFlight[p].before /\ reInFlight[p].rto <= cachedRtoMs
              => cachedRtoMs' = cachedRtoMs /\ backoffSuppressed' = backoffSuppressed
<1>1. ASSUME RtoInv PROVE Once
  <2> SUFFICES ASSUME NEW p \in rePackets, RE!OnTimeout(p), reInFlight[p].before,
                      reInFlight[p].rto <= cachedRtoMs
               PROVE  cachedRtoMs' = cachedRtoMs /\ backoffSuppressed' = backoffSuppressed
    OBVIOUS
  <2>1. /\ reInFlight[p].since = reInFlight[p].rto /\ reInFlight[p].since \in Nat
        /\ cachedRtoMs + 1 <= backoffSuppressed + reInFlight[p].since
        /\ cachedRtoMs \in Nat /\ backoffSuppressed \in Nat
    BY <1>1, RtoRange DEF RE!OnTimeout, RtoInv, FlightsHold, Flights, BeforeInWindow, EstimatorTyped,
                          WindowTyped, RTOs
  <2>2. RE!InWindow
    BY <2>1 DEF RE!InWindow
  <2> QED
    BY <2>2 DEF RE!OnTimeout, RE!estimatorVars
<1>2. RtoInv => [Once]_(RE!vars)
  BY <1>1
<1> QED
  BY <1>2, RtoAlways, PTL DEF RE!Spec, RE!BurstBacksOffOnce

-------------------------------------------------------------------------------
(* The heartbeat: how long a side of a connection hears nothing.             *)

ClockRange ==
    /\ now \in Nat /\ passAt \in Nat /\ lastReceivedPacketTime \in 0 .. now
    /\ passNow = -1 => now <= passAt /\ passAt <= now + hbSleepMs
    /\ passNow # -1 => passNow = passAt /\ passAt <= now /\ now <= passAt + 1
    /\ hbToServer \subseteq Nat /\ \A t \in hbToServer : t <= now /\ now <= t + hbMaxDelay
    /\ hbToClient \subseteq Nat /\ \A t \in hbToClient : t <= now
    /\ hbServerAlive \in BOOLEAN
    /\ hbServerAlive => \A t \in hbToClient : now <= t + hbMaxDelay

\* The server will hear from the client in time: a heartbeat or a reply that was sent early
\* enough is under way, or the next pass comes less than two intervals after it has heard.
Quiet == passAt < lastReceivedPacketTime + 2 * hbSleepMs
WillHear ==
    hbServerAlive =>
        \/ \E t \in hbToClient : t <= lastReceivedPacketTime + 2 * hbSleepMs
        \/ \E t \in hbToServer : t <= lastReceivedPacketTime + 2 * hbSleepMs + hbMaxDelay
        \/ Quiet

\* Intervals are so short that their difference does not wrap at the width of the model.
SleepFits == HB!HeartbeatAssumption /\ 2 * hbSleepMs <= 65536

LEMMA SleepFacts ==
    ASSUME HB!HeartbeatAssumption
    PROVE  /\ hbSleepMs \in Nat /\ hbSleepMs >= 1 /\ hbMaxDelay \in Nat
           /\ hbCheckMs \in Nat /\ hbCheckMs >= 1
BY DEF HB!HeartbeatAssumption

LEMMA ClockStep == ASSUME SleepFits, ClockRange, [HB!Next]_(HB!vars) PROVE ClockRange'
<1> USE SleepFacts DEF SleepFits
<1>1. CASE UNCHANGED HB!vars
  BY <1>1 DEF ClockRange, HB!vars, HB!serverVars, HB!networkVars, HB!clientVars
<1>2. CASE HB!Tick
  BY <1>2 DEF ClockRange, HB!Tick, HB!serverVars, HB!networkVars, HB!clientVars
<1>3. CASE HB!PassBegins
  BY <1>3 DEF ClockRange, HB!PassBegins, HB!networkVars, HB!clientVars
<1>4. CASE HB!SendHeartbeatPacket
  <2>1. /\ passNow # -1 /\ passNow' = -1 /\ passAt' = passAt + hbSleepMs
        /\ hbToClient' \subseteq hbToClient \union {now}
        /\ UNCHANGED <<now, lastReceivedPacketTime, hbToServer, hbServerAlive>>
    BY <1>4 DEF HB!SendHeartbeatPacket, HB!clientVars
  <2> QED
    BY <2>1 DEF ClockRange
<1>5. CASE HB!CheckServer
  <2>1. /\ hbServerAlive' \in BOOLEAN /\ (hbServerAlive' => hbServerAlive)
        /\ UNCHANGED <<now, passAt, passNow, lastReceivedPacketTime, hbToClient, hbToServer>>
    BY <1>5 DEF HB!CheckServer, HB!IsServerAlive, HB!serverVars, HB!networkVars, ClockRange
  <2> QED
    BY <2>1 DEF ClockRange
<1>6. CASE HB!ClientSendsData
  BY <1>6 DEF ClockRange, HB!ClientSendsData, HB!serverVars, HB!clientVars
<1>7. ASSUME NEW t \in hbToServer, HB!RefreshLastReceivedPacketTime(t) PROVE ClockRange'
  BY <1>7 DEF ClockRange, HB!RefreshLastReceivedPacketTime, HB!clientVars
<1>8. ASSUME NEW t \in hbToClient, HB!ClientReceives(t) PROVE ClockRange'
  BY <1>8 DEF ClockRange, HB!ClientReceives, HB!serverVars
<1> QED
  BY <1>1, <1>2, <1>3, <1>4, <1>5, <1>6, <1>7, <1>8 DEF HB!Next

\* A pass that sends no heartbeat has heard less than an interval ago.
LEMMA SilentPass ==
    ASSUME SleepFits, ClockRange, Quiet, HB!SendHeartbeatPacket
    PROVE  \/ hbToClient' = hbToClient \union {now} /\ now <= lastReceivedPacketTime + 2 * hbSleepMs
           \/ hbToClient' = hbToClient /\ passAt < lastReceivedPacketTime + hbSleepMs
<1>1. /\ passNow = passAt /\ now <= passAt + 1
      /\ hbSleepMs \in Nat /\ lastReceivedPacketTime \in Nat /\ passAt \in Nat /\ now \in Nat
  BY SleepFacts DEF SleepFits, ClockRange, HB!SendHeartbeatPacket
<1>2. CASE HB!NeedToSendHeartbeat
  <2>1. hbToClient' = hbToClient \union {now}
    BY <1>2 DEF HB!SendHeartbeatPacket
  <2> QED
    BY <1>1, <2>1 DEF Quiet
<1>3. CASE ~ HB!NeedToSendHeartbeat
  <2>1. hbToClient' = hbToClient
    BY <1>3 DEF HB!SendHeartbeatPacket
  <2>2. (passAt - lastReceivedPacketTime) % 65536 < hbSleepMs
    BY <1>1, <1>3 DEF HB!NeedToSendHeartbeat, HB!Elapsed
  <2>3. CASE passAt < lastReceivedPacketTime
    BY <1>1, <2>1, <2>3
  <2>4. CASE passAt >= lastReceivedPacketTime
    <3>1. PICK d \in Nat : d = passAt - lastReceivedPacketTime
      BY <1>1, <2>4
    <3>2. d < 2 * hbSleepMs /\ 2 * hbSleepMs <= 65536
      BY <1>1, <3>1 DEF Quiet, SleepFits
    <3>3. d < 65536
      BY <1>1, <3>2
    <3>4. d % 65536 = d
      BY <3>3
    <3>5. d < hbSleepMs
      BY <2>2, <3>1, <3>4
    <3> QED
      BY <1>1, <2>1, <3>1, <3>5
  <2> QED
    BY <1>1, <2>3, <2>4
<1> QED
  BY <1>2, <1>3

LEMMA HearStep ==
    ASSUME SleepFits, ClockRange, WillHear, [HB!Next]_(HB!vars) PROVE WillHear'
<1> USE SleepFacts DEF SleepFits
<1>1. CASE UNCHANGED HB!vars \/ HB!Tick \/ HB!PassBegins
  <2>1. UNCHANGED <<passAt, lastReceivedPacketTime, hbToClient, hbToServer, hbServerAlive>>
    BY <1>1 DEF HB!vars, HB!Tick, HB!PassBegins, HB!serverVars, HB!networkVars, HB!clientVars
  <2> QED
    BY <2>1 DEF WillHear, Quiet
<1>2. CASE HB!SendHeartbeatPacket
  <2>1. /\ passAt' = passAt + hbSleepMs /\ hbToClient \subseteq hbToClient' /\ now \in Nat
        /\ UNCHANGED <<lastReceivedPacketTime, hbToServer, hbServerAlive>>
        /\ passAt \in Nat /\ lastReceivedPacketTime \in Nat
    BY <1>2 DEF HB!SendHeartbeatPacket, HB!clientVars, ClockRange
  <2>2. CASE Quiet
    BY <1>2, <2>1, <2>2, SilentPass DEF WillHear, Quiet
  <2>3. CASE ~ Quiet
    BY <2>1, <2>3 DEF WillHear
  <2> QED
    BY <2>2, <2>3
<1>3. CASE HB!CheckServer
  <2>1. /\ hbServerAlive' => hbServerAlive
        /\ UNCHANGED <<passAt, lastReceivedPacketTime, hbToClient, hbToServer>>
    BY <1>3 DEF HB!CheckServer, HB!IsServerAlive, HB!serverVars, HB!networkVars, ClockRange
  <2> QED
    BY <2>1 DEF WillHear, Quiet
<1>4. CASE HB!ClientSendsData
  BY <1>4 DEF WillHear, Quiet, HB!ClientSendsData, HB!serverVars, HB!clientVars
<1>5. ASSUME NEW t \in hbToServer, HB!RefreshLastReceivedPacketTime(t) PROVE WillHear'
  <2>1. lastReceivedPacketTime' = now /\ passAt' = passAt /\ passAt <= now + hbSleepMs
        /\ now \in Nat /\ passAt \in Nat
    BY <1>5 DEF HB!RefreshLastReceivedPacketTime, ClockRange
  <2>2. Quiet'
    BY <2>1 DEF Quiet
  <2> QED
    BY <2>2 DEF WillHear
<1>6. ASSUME NEW t \in hbToClient, HB!ClientReceives(t) PROVE WillHear'
  <2>1. /\ hbServerAlive /\ hbToClient' = hbToClient \ {t} /\ hbToServer' = hbToServer \union {now}
        /\ UNCHANGED <<passAt, lastReceivedPacketTime>>
        /\ now <= t + hbMaxDelay /\ t \in Nat /\ now \in Nat /\ lastReceivedPacketTime \in Nat
    BY <1>6 DEF HB!ClientReceives, HB!serverVars, ClockRange
  <2>2. CASE t <= lastReceivedPacketTime + 2 * hbSleepMs
    <3>1. now <= lastReceivedPacketTime + 2 * hbSleepMs + hbMaxDelay
      BY <2>1, <2>2
    <3> QED
      BY <2>1, <3>1 DEF WillHear
  <2>3. CASE ~ (t <= lastReceivedPacketTime + 2 * hbSleepMs)
    BY <2>1, <2>3 DEF WillHear, Quiet
  <2> QED
    BY <2>2, <2>3
<1> QED
  BY <1>1, <1>2, <1>3, <1>4, <1>5, <1>6 DEF HB!Next

LEMMA HeardFromInv ==
    ASSUME SleepFits, ClockRange, WillHear PROVE HB!HeardEveryOtherPass
<1> SUFFICES ASSUME hbServerAlive
             PROVE  now - lastReceivedPacketTime <= 2 * hbSleepMs + 2 * hbMaxDelay + 1
  BY DEF HB!HeardEveryOtherPass
<1>1. hbSleepMs \in Nat /\ hbMaxDelay \in Nat /\ now \in Nat /\ lastReceivedPacketTime \in Nat
      /\ passAt \in Nat /\ now <= passAt + 1
  BY SleepFacts DEF SleepFits, ClockRange
<1>2. CASE \E t \in hbToClient : t <= lastReceivedPacketTime + 2 * hbSleepMs
  BY <1>1, <1>2 DEF ClockRange
<1>3. CASE \E t \in hbToServer : t <= lastReceivedPacketTime + 2 * hbSleepMs + hbMaxDelay
  BY <1>1, <1>3 DEF ClockRange
<1>4. CASE Quiet
  BY <1>1, <1>4 DEF Quiet
<1> QED
  BY <1>2, <1>3, <1>4 DEF WillHear

\* The client will hear before its next check, when it has heard nothing since the one
\* before: a heartbeat is on its way to it; or its reply is, which starts the interval of
\* the server; or the interval of the server ends in time.
WillBeHeard ==
    /\ hbServerAlive
    /\ hbNextRecvPacketSequence \in Nat /\ hbBeforeCheckSequence \in Nat
    /\ hbBeforeCheckSequence <= hbNextRecvPacketSequence
    /\ checkAt \in Nat /\ now <= checkAt
    /\ hbNextRecvPacketSequence = hbBeforeCheckSequence =>
         \/ \E t \in hbToClient : t + hbMaxDelay < checkAt
         \/ /\ \A t \in hbToServer : t + 2 * hbSleepMs + 2 * hbMaxDelay < checkAt
            /\ \/ hbToServer # {}
               \/ Quiet /\ lastReceivedPacketTime + 2 * hbSleepMs + hbMaxDelay < checkAt

\* The client checks less often than the server passes twice, and the two ways of a packet.
ChecksSeldom == SleepFits /\ ~ hbClientSends /\ hbCheckMs > 2 * hbSleepMs + 2 * hbMaxDelay

LEMMA CheckFindsMore ==
    ASSUME ChecksSeldom, ClockRange, WillHear, WillBeHeard, HB!CheckServer
    PROVE  hbNextRecvPacketSequence # hbBeforeCheckSequence
<1>1. hbSleepMs \in Nat /\ hbMaxDelay \in Nat /\ now \in Nat /\ lastReceivedPacketTime \in Nat
      /\ passAt \in Nat /\ now <= passAt + 1 /\ now = checkAt
  BY SleepFacts DEF ChecksSeldom, SleepFits, ClockRange, HB!CheckServer
<1>2. ~ \E t \in hbToClient : t + hbMaxDelay < checkAt
  BY <1>1 DEF ClockRange, WillBeHeard
<1>3. \A t \in hbToServer : ~ (t + 2 * hbSleepMs + 2 * hbMaxDelay < checkAt)
  BY <1>1 DEF ClockRange
<1>4. ~ (Quiet /\ lastReceivedPacketTime + 2 * hbSleepMs + hbMaxDelay < checkAt)
  BY <1>1 DEF Quiet
<1> QED
  BY <1>2, <1>3, <1>4 DEF WillBeHeard

LEMMA CheckPasses ==
    ASSUME HB!IsServerAlive, hbServerAlive, hbNextRecvPacketSequence # hbBeforeCheckSequence
    PROVE  hbServerAlive' /\ hbBeforeCheckSequence' = hbNextRecvPacketSequence
BY DEF HB!IsServerAlive

LEMMA BeHeardStep ==
    ASSUME ChecksSeldom, ClockRange, WillHear, WillBeHeard, [HB!Next]_(HB!vars)
    PROVE  WillBeHeard'
<1> USE SleepFacts DEF SleepFits, ChecksSeldom
<1>1. CASE UNCHANGED HB!vars \/ HB!Tick \/ HB!PassBegins
  <2>1. /\ UNCHANGED <<passAt, lastReceivedPacketTime, hbToClient, hbToServer, hbServerAlive>>
        /\ UNCHANGED <<hbNextRecvPacketSequence, hbBeforeCheckSequence, checkAt>>
    BY <1>1 DEF HB!vars, HB!Tick, HB!PassBegins, HB!serverVars, HB!networkVars, HB!clientVars
  <2>2. now' = now \/ (now' = now + 1 /\ checkAt > now)
    BY <1>1 DEF HB!vars, HB!Tick, HB!PassBegins
  <2>3. now' <= checkAt'
    BY <2>1, <2>2 DEF WillBeHeard, ClockRange
  <2> QED
    BY <2>1, <2>3 DEF WillBeHeard, Quiet
<1>2. CASE HB!SendHeartbeatPacket
  <2>1. /\ passAt' = passAt + hbSleepMs /\ hbToClient \subseteq hbToClient'
        /\ UNCHANGED <<now, lastReceivedPacketTime, hbToServer, hbServerAlive, checkAt>>
        /\ UNCHANGED <<hbNextRecvPacketSequence, hbBeforeCheckSequence>>
        /\ passAt \in Nat /\ lastReceivedPacketTime \in Nat /\ now \in Nat
    BY <1>2 DEF HB!SendHeartbeatPacket, HB!clientVars, ClockRange
  <2>2. CASE Quiet /\ lastReceivedPacketTime + 2 * hbSleepMs + hbMaxDelay < checkAt
    <3>1. \/ now \in hbToClient' /\ now <= lastReceivedPacketTime + 2 * hbSleepMs
          \/ Quiet'
      BY <1>2, <2>1, <2>2, SilentPass DEF Quiet
    <3>2. CASE now \in hbToClient' /\ now <= lastReceivedPacketTime + 2 * hbSleepMs
      <4>1. now + hbMaxDelay < checkAt
        BY <2>1, <2>2, <3>2 DEF WillBeHeard
      <4> QED
        BY <2>1, <3>2, <4>1 DEF WillBeHeard
    <3>3. CASE Quiet'
      BY <2>1, <2>2, <3>3 DEF WillBeHeard
    <3> QED
      BY <3>1, <3>2, <3>3
  <2>3. CASE ~ (Quiet /\ lastReceivedPacketTime + 2 * hbSleepMs + hbMaxDelay < checkAt)
    BY <2>1, <2>3 DEF WillBeHeard
  <2> QED
    BY <2>2, <2>3
<1>3. CASE HB!CheckServer
  <2>1. /\ hbServerAlive' /\ hbBeforeCheckSequence' = hbNextRecvPacketSequence
        /\ checkAt' = now + hbCheckMs
        /\ UNCHANGED <<now, passAt, lastReceivedPacketTime, hbToClient, hbToServer>>
        /\ UNCHANGED hbNextRecvPacketSequence
    <3>1. /\ HB!IsServerAlive /\ checkAt' = checkAt + hbCheckMs /\ now = checkAt
          /\ UNCHANGED <<now, passAt, lastReceivedPacketTime, hbToClient, hbToServer>>
          /\ UNCHANGED hbNextRecvPacketSequence
      BY <1>3 DEF HB!CheckServer, HB!serverVars, HB!networkVars
    <3>2. hbServerAlive /\ hbNextRecvPacketSequence # hbBeforeCheckSequence
      BY <1>3, CheckFindsMore DEF WillBeHeard
    <3>3. hbServerAlive' /\ hbBeforeCheckSequence' = hbNextRecvPacketSequence
      BY <3>1, <3>2, CheckPasses
    <3> QED
      BY <3>1, <3>3
  <2>2. now \in Nat /\ lastReceivedPacketTime \in Nat /\ lastReceivedPacketTime <= now
        /\ checkAt' \in Nat /\ now <= checkAt'
    BY <2>1 DEF ClockRange
  <2>3. \A t \in hbToClient : t + hbMaxDelay < checkAt'
    BY <2>1, <2>2 DEF ClockRange
  <2>4. \A t \in hbToServer : t + 2 * hbSleepMs + 2 * hbMaxDelay < checkAt'
    BY <2>1, <2>2 DEF ClockRange
  <2>5. lastReceivedPacketTime + 2 * hbSleepMs + hbMaxDelay < checkAt'
    BY <2>1, <2>2
  <2>6. hbToClient # {} \/ hbToServer # {} \/ Quiet
    BY DEF WillHear, WillBeHeard
  <2> QED
    BY <2>1, <2>2, <2>3, <2>4, <2>5, <2>6 DEF WillBeHeard, Quiet
<1>4. CASE HB!ClientSendsData
  BY <1>4 DEF HB!ClientSendsData
<1>5. ASSUME NEW t \in hbToServer, HB!RefreshLastReceivedPacketTime(t) PROVE WillBeHeard'
  <2>1. /\ lastReceivedPacketTime' = now /\ hbToServer' = hbToServer \ {t}
        /\ UNCHANGED <<now, passAt, hbToClient, hbServerAlive, checkAt>>
        /\ UNCHANGED <<hbNextRecvPacketSequence, hbBeforeCheckSequence>>
        /\ passAt <= now + hbSleepMs /\ now <= t + hbMaxDelay
        /\ now \in Nat /\ passAt \in Nat /\ t \in Nat
    BY <1>5 DEF HB!RefreshLastReceivedPacketTime, HB!clientVars, ClockRange
  <2>2. Quiet'
    BY <2>1 DEF Quiet
  <2>3. t + 2 * hbSleepMs + 2 * hbMaxDelay < checkAt =>
          lastReceivedPacketTime' + 2 * hbSleepMs + hbMaxDelay < checkAt'
    BY <2>1 DEF WillBeHeard
  <2> QED
    BY <2>1, <2>2, <2>3 DEF WillBeHeard
<1>6. ASSUME NEW t \in hbToClient, HB!ClientReceives(t) PROVE WillBeHeard'
  BY <1>6 DEF HB!ClientReceives, HB!serverVars, WillBeHeard
<1> QED
  BY <1>1, <1>2, <1>3, <1>4, <1>5, <1>6 DEF HB!Next

LEMMA HeartbeatBegins ==
    ASSUME HB!HeartbeatAssumption, HB!Init PROVE ClockRange /\ WillHear /\ WillBeHeard
BY SleepFacts DEF HB!Init, ClockRange, WillHear, WillBeHeard, Quiet

\* The server hears from a client that is there at least every other pass of the heartbeat
\* thread, whatever the application of the client sends.
THEOREM HeardInTime == ASSUME SleepFits PROVE HB!Spec => []HB!HeardEveryOtherPass
<1>1. HB!Init => ClockRange /\ WillHear
  BY HeartbeatBegins DEF SleepFits
<1>2. ClockRange /\ WillHear /\ [HB!Next]_(HB!vars) => ClockRange' /\ WillHear'
  BY ClockStep, HearStep
<1>3. ClockRange /\ WillHear => HB!HeardEveryOtherPass
  BY HeardFromInv
<1> QED
  BY <1>1, <1>2, <1>3, PTL DEF HB!Spec

\* A client with nothing to send, whose server is there, does not declare it dead: a
\* heartbeat moves the sequence between any two of its checks, if it checks less often than
\* the heartbeat thread passes twice and a packet goes forth and back.
THEOREM IdleStaysAlive == ASSUME ChecksSeldom PROVE HB!Spec => []HB!ServerStaysAlive
<1>1. HB!Init => ClockRange /\ WillHear /\ WillBeHeard
  BY HeartbeatBegins DEF ChecksSeldom, SleepFits
<1>2. ClockRange /\ WillHear /\ WillBeHeard /\ [HB!Next]_(HB!vars)
        => ClockRange' /\ WillHear' /\ WillBeHeard'
  BY ClockStep, HearStep, BeHeardStep DEF ChecksSeldom
<1>3. WillBeHeard => HB!ServerStaysAlive
  BY DEF WillBeHeard, HB!ServerStaysAlive
<1> QED
  BY <1>1, <1>2, <1>3, PTL DEF HB!Spec
================================================================================
