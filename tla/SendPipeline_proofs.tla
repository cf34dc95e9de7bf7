-------------------------- MODULE SendPipeline_proofs -------------------------
(***************************************************************************)
(* For any number of sending threads, any buffer and any packets: the send *)
(* buffer of a session has one user at a time, packets leave the queue in  *)
(* the order they were submitted, a datagram is its packets unless one of  *)
(* them was found acknowledged while it was made, and no thread leaves a   *)
(* packet behind in the queue but for a stream that came out empty so.     *)
(***************************************************************************)
EXTENDS SendPipeline, Integers, SequenceTheorems, FiniteSetTheorems, WellFoundedInduction, TLAPS

-----------------------------------------------------------------------------
(* Packets and sequences of them.                                          *)

LEMMA PacketIs == ASSUME PipelineAssumption, NEW n \in Packets PROVE n \in 1 .. MaxPackets /\ n # 0
BY DEF PipelineAssumption, Packets

LEMMA Bounds ==
    ASSUME PipelineAssumption
    PROVE  /\ Capacity \in Nat /\ {0, 1, 2} \subseteq 0 .. Capacity
           /\ MaxPackets \in Nat /\ 0 \in 0 .. MaxPackets
           /\ MaxPushes \in Nat /\ 0 \in 0 .. MaxPushes
BY DEF PipelineAssumption

LEMMA SizeIs == ASSUME NEW n PROVE Size(n) \in {1, 2}
BY DEF Size

\* What is in a sequence with one more element.
LEMMA ToSetAppend ==
    ASSUME NEW S, NEW s \in Seq(S), NEW x \in S
    PROVE  ToSet(Append(s, x)) = ToSet(s) \cup {x}
<1>1. /\ Len(Append(s, x)) = Len(s) + 1 /\ Len(s) \in Nat
      /\ DOMAIN s = 1 .. Len(s) /\ DOMAIN Append(s, x) = 1 .. Len(s) + 1
      /\ Append(s, x)[Len(s) + 1] = x
      /\ \A i \in 1 .. Len(s) : Append(s, x)[i] = s[i]
  OBVIOUS
<1>2. DOMAIN Append(s, x) = DOMAIN s \cup {Len(s) + 1}
  BY <1>1
<1> QED
  BY <1>1, <1>2 DEF ToSet

LEMMA ToSetIn ==
    ASSUME NEW S, NEW s \in Seq(S)
    PROVE  ToSet(s) \subseteq S
BY DEF ToSet

LEMMA InjectiveAppend ==
    ASSUME NEW S, NEW s \in Seq(S), NEW x \in S, IsInjective(s), x \notin ToSet(s)
    PROVE  IsInjective(Append(s, x))
<1>1. /\ Len(s) \in Nat
      /\ DOMAIN s = 1 .. Len(s) /\ DOMAIN Append(s, x) = 1 .. Len(s) + 1
      /\ Append(s, x)[Len(s) + 1] = x
      /\ \A i \in 1 .. Len(s) : Append(s, x)[i] = s[i] /\ s[i] # x
  BY DEF ToSet
<1>2. SUFFICES ASSUME NEW a \in 1 .. Len(s) + 1, NEW b \in 1 .. Len(s) + 1,
                      Append(s, x)[a] = Append(s, x)[b]
               PROVE  a = b
  BY <1>1 DEF IsInjective
<1>3. \A i, j \in 1 .. Len(s) : s[i] = s[j] => i = j
  BY <1>1 DEF IsInjective
<1>4. CASE a \in 1 .. Len(s) /\ b \in 1 .. Len(s)
  BY <1>1, <1>2, <1>3, <1>4
<1>5. CASE a = Len(s) + 1 \/ b = Len(s) + 1
  BY <1>1, <1>2, <1>5
<1> QED
  BY <1>1, <1>4, <1>5

-----------------------------------------------------------------------------
(* Type correctness.                                                       *)

Labels == {"idle", "cas", "entered", "giveBack", "recheck", "begin", "stream"}

LEMMA InitType == ASSUME PipelineAssumption, Init PROVE TypeOK
<1>1. <<>> \in Seq(Packets)
  OBVIOUS
<1>2. /\ left \in [Threads -> Nat] /\ totalSendSize \in [Threads -> 0 .. Capacity]
      /\ pc \in [Threads -> Labels] /\ rioSendBuffer \in [1 .. Capacity -> 0 .. MaxPackets]
  BY Bounds DEF Init, Labels
<1>3. /\ posted \in 0 .. Capacity /\ submitted \in 0 .. MaxPackets /\ pushes \in 0 .. MaxPushes
      /\ reservedSendPacketInfo \in 0 .. MaxPackets
  BY Bounds DEF Init
<1> QED
  BY <1>1, <1>2, <1>3 DEF Init, TypeOK, Labels

\* A thread submits a packet.
LEMMA PushType ==
    ASSUME PipelineAssumption, TypeOK, NEW t \in Threads, NEW n \in Packets, Push(t, n),
           submitted' \in 0 .. MaxPackets
    PROVE  TypeOK'
<1>1. Append(sendPacketInfoQueue, n) \in Seq(Packets)
  BY DEF TypeOK
<1>2. pc' \in [Threads -> Labels]
  BY DEF Push, Goto, TypeOK, Labels
<1>3. pushes' \in 0 .. MaxPushes
  BY DEF Push, TypeOK, PipelineAssumption
<1> QED
  BY <1>1, <1>2, <1>3 DEF Push, TypeOK, Labels, streamVars

\* The stream begins with the packet held back, if there is one.
LEMMA BeginType ==
    ASSUME PipelineAssumption, TypeOK, NEW t \in Threads, BeginStream(t)
    PROVE  TypeOK'
<1>1. pc' \in [Threads -> Labels] /\ left' \in [Threads -> Nat]
  BY DEF BeginStream, Goto, TypeOK, Labels
<1>2. CASE reservedSendPacketInfo = 0
  <2>1. totalSendSize' = [totalSendSize EXCEPT ![t] = 0]
    BY <1>2 DEF BeginStream, ReservedFirst
  <2>2. totalSendSize' \in [Threads -> 0 .. Capacity]
    BY <2>1, Bounds DEF TypeOK
  <2> QED
    BY <1>1, <1>2, <2>2 DEF BeginStream, ReservedFirst, TypeOK, Labels, queueVars, historyVars
<1>3. CASE reservedSendPacketInfo # 0
  <2> DEFINE n == reservedSendPacketInfo
  <2>1. n \in Packets
    BY <1>3 DEF TypeOK, Packets, PipelineAssumption
  <2>2. Size(n) \in 0 .. Capacity
    BY SizeIs, Bounds
  <2>7. \/ totalSendSize' = [totalSendSize EXCEPT ![t] = 0]
        \/ totalSendSize' = [totalSendSize EXCEPT ![t] = Size(n)]
    BY <1>3 DEF BeginStream, ReservedFirst
  <2>3. totalSendSize' \in [Threads -> 0 .. Capacity]
    BY <2>2, <2>7, Bounds DEF TypeOK
  <2>4. /\ reservedSendPacketInfo' = 0 /\ taken' = Append(taken, n)
        /\ sendPacketInfoQueue' = sendPacketInfoQueue
    BY <1>3 DEF BeginStream, ReservedFirst
  <2>5. taken' \in Seq(Packets)
    BY <2>1, <2>4 DEF TypeOK
  <2>6. /\ rioSendBuffer' \in [1 .. Capacity -> 0 .. MaxPackets]
        /\ batch' \in Seq(Packets) /\ cachedSequenceSet' \subseteq Packets
        /\ skipped' \subseteq Packets
    <3>1. CASE n \in erased
      BY <1>3, <2>1, <3>1 DEF BeginStream, ReservedFirst, TypeOK
    <3>2. CASE n \notin erased
      <4>1. /\ rioSendBuffer' = [i \in 1 .. Capacity |->
                                    IF i <= Size(n) THEN n ELSE rioSendBuffer[i]]
            /\ cachedSequenceSet' = {n} /\ batch' = <<n>> /\ skipped' = {}
        BY <1>3, <3>2 DEF BeginStream, ReservedFirst
      <4>2. n \in 0 .. MaxPackets
        BY DEF TypeOK
      <4> QED
        BY <2>1, <4>1, <4>2 DEF TypeOK
    <3> QED
      BY <3>1, <3>2
  <2> QED
    BY <1>1, <2>3, <2>4, <2>5, <2>6, Bounds DEF BeginStream, TypeOK, Labels, historyVars
<1> QED
  BY <1>2, <1>3

\* The front of the queue is written, held back, or left out.
LEMMA StoredType ==
    ASSUME PipelineAssumption, TypeOK, NEW t \in Threads, StoredToStream(t)
    PROVE  TypeOK'
<1> DEFINE n == Head(sendPacketInfoQueue)
<1>1. n \in Packets /\ Tail(sendPacketInfoQueue) \in Seq(Packets)
  BY DEF StoredToStream, TryGetFrontAndPop, TypeOK
<1>2. /\ sendPacketInfoQueue' \in Seq(Packets)
      /\ UNCHANGED <<ioMode, pc, posted, erased, historyVars, releasing>>
  BY <1>1 DEF StoredToStream, TryGetFrontAndPop
<1>3. left' \in [Threads -> Nat]
  <2>1. left \in [Threads -> Nat] /\ left[t] - 1 \in Nat
    BY DEF StoredToStream, TypeOK
  <2>2. \/ left' = [left EXCEPT ![t] = left[t] - 1]
        \/ left' = [left EXCEPT ![t] = 0]
    BY DEF StoredToStream
  <2> QED
    BY <2>1, <2>2
<1>4. Append(taken, n) \in Seq(Packets) /\ Append(batch, n) \in Seq(Packets)
  BY <1>1 DEF TypeOK
<1>5. n \in 0 .. MaxPackets
  BY <1>1, PacketIs DEF PipelineAssumption
<1>6. Size(n) \in Nat
  BY SizeIs
<1> HIDE DEF n
<1>7. reservedSendPacketInfo' \in 0 .. MaxPackets /\ taken' \in Seq(Packets)
  BY <1>4, <1>5 DEF StoredToStream, TypeOK, n
<1>8. totalSendSize' \in [Threads -> 0 .. Capacity]
  <2>1. CASE UNCHANGED totalSendSize
    BY <2>1 DEF TypeOK
  <2>2. CASE Fits(t, n) /\ totalSendSize' = [totalSendSize EXCEPT ![t] = @ + Size(n)]
    <3>1. totalSendSize[t] \in Nat /\ totalSendSize[t] + Size(n) \in 0 .. Capacity
      BY <1>6, <2>2 DEF Fits, TypeOK, PipelineAssumption
    <3> QED
      BY <2>2, <3>1 DEF TypeOK
  <2> QED
    BY <2>1, <2>2 DEF StoredToStream, n
<1>9. /\ rioSendBuffer' \in [1 .. Capacity -> 0 .. MaxPackets]
      /\ batch' \in Seq(Packets) /\ cachedSequenceSet' \subseteq Packets
  <2>1. CASE UNCHANGED <<rioSendBuffer, batch, cachedSequenceSet>>
    BY <2>1 DEF TypeOK
  <2>2. CASE WriteAt(totalSendSize[t], n)
    BY <1>1, <1>4, <1>5, <2>2 DEF WriteAt, TypeOK, n
  <2> QED
    BY <2>1, <2>2 DEF StoredToStream, n
<1>10. skipped' \subseteq Packets
  BY <1>1 DEF StoredToStream, TypeOK, n
<1> QED
  BY <1>2, <1>3, <1>7, <1>8, <1>9, <1>10 DEF TypeOK, historyVars

\* The other steps of DoSend move the thread, ioMode, what is posted and releasing.
LEMMA MovesType ==
    ASSUME TypeOK, pc' \in [Threads -> Labels], ioMode' \in {"NONE", "SENDING"},
           posted' \in 0 .. Capacity, onWire' \subseteq Packets, erased' \subseteq Packets,
           releasing' \in BOOLEAN, UNCHANGED <<queueVars, streamVars, submitted, pushes>>
    PROVE  TypeOK'
BY DEF TypeOK, Labels, queueVars, streamVars

LEMMA TypeStep ==
    ASSUME PipelineAssumption, TypeOK, [Next]_vars
    PROVE  TypeOK'
<1>1. ASSUME NEW t \in Threads, SendNewPacket(t) PROVE TypeOK'
  <2>1. submitted + 1 \in Packets /\ submitted' \in 0 .. MaxPackets
    BY <1>1 DEF SendNewPacket, TypeOK, Packets, PipelineAssumption
  <2> QED
    BY <1>1, <2>1, PushType DEF SendNewPacket
<1>2. ASSUME NEW n \in Packets, Retransmit(n) PROVE TypeOK'
  <2>1. Retransmitter \in Threads /\ submitted' \in 0 .. MaxPackets
    BY <1>2 DEF Retransmit, TypeOK, Threads
  <2> QED
    BY <1>2, <2>1, PushType DEF Retransmit
<1>3. ASSUME NEW t \in Threads, BeginStream(t) PROVE TypeOK'
  BY <1>3, BeginType
<1>4. ASSUME NEW t \in Threads, StoredToStream(t) PROVE TypeOK'
  BY <1>4, StoredType
<1>5. ASSUME NEW t \in Threads, DoSend(t) PROVE TypeOK'
  <2>1. pc' \in [Threads -> Labels] /\ ioMode' \in {"NONE", "SENDING"}
    BY <1>5 DEF DoSend, TryEnter, Goto, TypeOK, Labels
  <2> QED
    BY <1>5, <2>1, MovesType DEF DoSend, TypeOK, historyVars
<1>6. ASSUME NEW t \in Threads, Entered(t) \/ GiveBack(t) \/ Recheck(t) \/ NothingMade(t)
                                    \/ DatagramDropped(t)
      PROVE  TypeOK'
  <2>1. pc' \in [Threads -> Labels] /\ ioMode' \in {"NONE", "SENDING"}
    BY <1>6 DEF Entered, GiveBack, Recheck, NothingMade, DatagramDropped, ReleaseIOSending, Goto,
                TypeOK, Labels
  <2>2. UNCHANGED <<queueVars, streamVars, posted, erased, historyVars, releasing>>
    BY <1>6 DEF Entered, GiveBack, Recheck, NothingMade, DatagramDropped
  <2> QED
    BY <2>1, <2>2, MovesType DEF TypeOK, historyVars
<1>7. ASSUME NEW t \in Threads, TryRIOSend(t) PROVE TypeOK'
  <2>1. pc' \in [Threads -> Labels] /\ posted' \in 0 .. Capacity
    BY <1>7 DEF TryRIOSend, Goto, TypeOK, Labels
  <2>2. onWire' \subseteq Packets
    BY <1>7, ToSetIn DEF TryRIOSend, TypeOK
  <2> QED
    BY <1>7, <2>1, <2>2, MovesType DEF TryRIOSend, TypeOK
<1>8. ASSUME NEW t \in Threads, SendFails(t) PROVE TypeOK'
  <2>1. pc' \in [Threads -> Labels]
    BY <1>8 DEF SendFails, Goto, TypeOK, Labels
  <2> QED
    BY <1>8, <2>1, MovesType DEF SendFails, ReleaseIOSending, TypeOK, historyVars
<1>9. ASSUME SendIOCompleted PROVE TypeOK'
  <2>1. pc' \in [Threads -> Labels]
    BY <1>9 DEF SendIOCompleted, Goto, TypeOK, Labels
  <2> QED
    BY <1>9, <2>1, Bounds, MovesType DEF SendIOCompleted, ReleaseIOSending, TypeOK, historyVars
<1>10. ASSUME NEW n \in Packets, MarkSendPacketInfoErased(n) PROVE TypeOK'
  BY <1>10, MovesType DEF MarkSendPacketInfoErased, TypeOK, Labels, historyVars
<1>11. ASSUME Release PROVE TypeOK'
  BY <1>11, MovesType DEF Release, TypeOK, Labels, historyVars
<1>12. ASSUME UNCHANGED vars PROVE TypeOK'
  BY <1>12 DEF vars, TypeOK, queueVars, streamVars, historyVars
<1> QED
  BY <1>1, <1>2, <1>3, <1>4, <1>5, <1>6, <1>7, <1>8, <1>9, <1>10, <1>11, <1>12 DEF Next, Sending

\* Type correctness of DoSend, of SendPacket's queue and of the completion.
THEOREM TypeCorrect == ASSUME PipelineAssumption PROVE Spec => []TypeOK
<1>1. Init => TypeOK
  BY InitType
<1>2. TypeOK /\ [Next]_vars => TypeOK'
  BY TypeStep
<1> QED
  BY <1>1, <1>2, PTL DEF Spec

-----------------------------------------------------------------------------
(* One user of the send buffer.                                            *)

\* At most one thread is between winning ioMode and giving it back, never while a send
\* is in flight; and ioMode is taken exactly while there is such a thread or a send.
UserInv ==
    /\ \A t, u \in InBuffer : t = u
    /\ InBuffer # {} => posted = 0
    /\ ioMode = "SENDING" <=> InBuffer # {} \/ posted # 0

\* Where a thread that moves to a label is.
LEMMA GotoMoves ==
    ASSUME TypeOK, NEW t \in Threads, NEW l, Goto(t, l)
    PROVE  /\ pc'[t] = l
           /\ \A u \in Threads \ {t} : pc'[u] = pc[u]
           /\ InBuffer' = IF l \in {"entered", "giveBack", "begin", "stream"}
                          THEN InBuffer \cup {t} ELSE InBuffer \ {t}
<1>1. pc'[t] = l /\ \A u \in Threads \ {t} : pc'[u] = pc[u]
  BY DEF Goto, TypeOK
<1> QED
  BY <1>1 DEF InBuffer

\* The steps that change who uses the buffer.
Stays == UNCHANGED <<InBuffer, posted, ioMode>>
Wins(t) == ioMode = "NONE" /\ ioMode' = "SENDING" /\ InBuffer' = InBuffer \cup {t} /\ UNCHANGED posted
GivesBack(t) == t \in InBuffer /\ ioMode' = "NONE" /\ InBuffer' = InBuffer \ {t} /\ UNCHANGED posted
Posts(t) == t \in InBuffer /\ InBuffer' = InBuffer \ {t} /\ posted' # 0 /\ UNCHANGED ioMode
Completes == posted # 0 /\ posted' = 0 /\ ioMode' = "NONE" /\ InBuffer' = InBuffer \ {IOWorker}

LEMMA BufferMoves ==
    ASSUME PipelineAssumption, TypeOK, [Next]_vars
    PROVE  Stays \/ Completes \/ \E t \in Threads : Wins(t) \/ GivesBack(t) \/ Posts(t)
<1> DEFINE Moved == Stays \/ Completes \/ \E t \in Threads : Wins(t) \/ GivesBack(t) \/ Posts(t)
<1>1. ASSUME NEW t \in Threads, SendNewPacket(t) PROVE Moved
  BY <1>1, GotoMoves DEF SendNewPacket, Push, Stays, InBuffer
<1>2. ASSUME NEW n \in Packets, Retransmit(n) PROVE Moved
  BY <1>2, GotoMoves DEF Retransmit, Push, Stays, InBuffer, Threads
<1>3. ASSUME NEW t \in Threads, DoSend(t) PROVE Moved
  <2>1. CASE releasing \/ ioMode = "SENDING"
    BY <1>3, <2>1, GotoMoves DEF DoSend, TryEnter, Stays, InBuffer
  <2>2. CASE ~releasing /\ ioMode = "NONE"
    BY <1>3, <2>2, GotoMoves DEF DoSend, TryEnter, Wins
  <2> QED
    BY <2>1, <2>2 DEF TypeOK
<1>4. ASSUME NEW t \in Threads, Entered(t) PROVE Moved
  <2>1. CASE releasing
    BY <1>4, <2>1, GotoMoves DEF Entered, ReleaseIOSending, GivesBack, InBuffer
  <2>2. CASE ~releasing
    BY <1>4, <2>2, GotoMoves DEF Entered, Stays, InBuffer
  <2> QED
    BY <2>1, <2>2
<1>5. ASSUME NEW t \in Threads, GiveBack(t) \/ NothingMade(t) \/ DatagramDropped(t) PROVE Moved
  BY <1>5, GotoMoves
  DEF GiveBack, NothingMade, DatagramDropped, StreamMade, ReleaseIOSending, GivesBack, InBuffer
<1>6. ASSUME NEW t \in Threads, Recheck(t) PROVE Moved
  BY <1>6, GotoMoves DEF Recheck, Stays, InBuffer
<1>7. ASSUME NEW t \in Threads, BeginStream(t) PROVE Moved
  BY <1>7, GotoMoves DEF BeginStream, Stays, InBuffer
<1>8. ASSUME NEW t \in Threads, StoredToStream(t) PROVE Moved
  BY <1>8 DEF StoredToStream, Stays, InBuffer
<1>9. ASSUME NEW t \in Threads, TryRIOSend(t) PROVE Moved
  <2>1. t \in InBuffer /\ posted' # 0
    BY <1>9 DEF TryRIOSend, StreamMade, InBuffer, TypeOK
  <2> QED
    BY <1>9, <2>1, GotoMoves DEF TryRIOSend, Posts
<1>10. ASSUME NEW t \in Threads, SendFails(t) PROVE Moved
  BY <1>10, GotoMoves DEF SendFails, StreamMade, ReleaseIOSending, GivesBack, InBuffer
<1>11. ASSUME SendIOCompleted PROVE Moved
  <2>1. IOWorker \in Threads
    BY DEF Threads
  <2>2. posted # 0 /\ posted' = 0 /\ ioMode' = "NONE"
    BY <1>11, Bounds DEF SendIOCompleted, ReleaseIOSending, TypeOK
  <2>3. PICK l \in {"idle", "cas"} : Goto(IOWorker, l)
    BY <1>11 DEF SendIOCompleted
  <2>4. InBuffer' = InBuffer \ {IOWorker}
    BY <2>1, <2>3, GotoMoves
  <2> QED
    BY <2>2, <2>4 DEF Completes
<1>12. ASSUME NEW n \in Packets, MarkSendPacketInfoErased(n) PROVE Moved
  BY <1>12 DEF MarkSendPacketInfoErased, Stays, InBuffer
<1>13. ASSUME Release \/ UNCHANGED vars PROVE Moved
  BY <1>13 DEF Release, vars, Stays, InBuffer
<1> QED
  BY <1>1, <1>2, <1>3, <1>4, <1>5, <1>6, <1>7, <1>8, <1>9, <1>10, <1>11, <1>12, <1>13
  DEF Next, Sending

LEMMA UserStep ==
    ASSUME PipelineAssumption, TypeOK, UserInv, [Next]_vars
    PROVE  UserInv'
<1>1. ASSUME Stays PROVE UserInv'
  BY <1>1 DEF Stays, UserInv
<1>2. ASSUME Completes PROVE UserInv'
  BY <1>2 DEF Completes, UserInv
<1>3. ASSUME NEW t \in Threads, Wins(t) PROVE UserInv'
  BY <1>3 DEF Wins, UserInv
<1>4. ASSUME NEW t \in Threads, GivesBack(t) PROVE UserInv'
  BY <1>4 DEF GivesBack, UserInv
<1>5. ASSUME NEW t \in Threads, Posts(t) PROVE UserInv'
  BY <1>5 DEF Posts, UserInv
<1> QED
  BY <1>1, <1>2, <1>3, <1>4, <1>5, BufferMoves

LEMMA UserInit == ASSUME Init PROVE UserInv
BY DEF Init, UserInv, InBuffer

LEMMA OneUserIs ==
    ASSUME PipelineAssumption, TypeOK, UserInv
    PROVE  OneUserOfBuffer
<1>1. CASE InBuffer = {}
  BY <1>1, FS_EmptySet DEF UserInv, OneUserOfBuffer, TypeOK
<1>2. CASE InBuffer # {}
  <2>1. PICK t \in InBuffer : InBuffer = {t}
    BY <1>2 DEF UserInv
  <2>2. Cardinality(InBuffer) = 1
    BY <2>1, FS_Singleton
  <2> QED
    BY <1>2, <2>2 DEF UserInv, OneUserOfBuffer
<1> QED
  BY <1>1, <1>2

\* No datagram is written over before its send completes, and no second send is posted
\* while one reads the buffer (RUDPIOHandler::DoSend, SendIOCompleted).
THEOREM OneUser == ASSUME PipelineAssumption PROVE Spec => []OneUserOfBuffer
<1>1. Init => TypeOK /\ UserInv
  BY InitType, UserInit
<1>2. TypeOK /\ UserInv /\ [Next]_vars => (TypeOK /\ UserInv)'
  BY TypeStep, UserStep
<1>3. TypeOK /\ UserInv => OneUserOfBuffer
  BY OneUserIs
<1> QED
  BY <1>1, <1>2, <1>3, PTL DEF Spec

-----------------------------------------------------------------------------
(* The queue, with the packet held back in front.                          *)

\* While a thread has packets of the queue still to take, none is held back.
HeldInv == \A t \in Threads : pc[t] = "stream" /\ left[t] > 0 => reservedSendPacketInfo = 0

\* The steps that neither make a stream nor enter one.
Apart == UNCHANGED <<reservedSendPacketInfo, streamVars>>
         /\ \A t \in Threads : pc'[t] = "stream" => pc[t] = "stream"

LEMMA ApartSteps ==
    ASSUME PipelineAssumption, TypeOK, [Next]_vars
    PROVE  Apart \/ \E t \in Threads : BeginStream(t) \/ StoredToStream(t)
<1> DEFINE Goal == Apart \/ \E t \in Threads : BeginStream(t) \/ StoredToStream(t)
<1>1. ASSUME NEW t \in Threads, NEW l, l # "stream", Goto(t, l)
      PROVE  \A u \in Threads : pc'[u] = "stream" => pc[u] = "stream"
  BY <1>1, GotoMoves
<1>2. ASSUME NEW t \in Threads, SendNewPacket(t) PROVE Goal
  BY <1>1, <1>2 DEF SendNewPacket, Push, Apart
<1>3. ASSUME NEW n \in Packets, Retransmit(n) PROVE Goal
  BY <1>1, <1>3 DEF Retransmit, Push, Apart, Threads
<1>4. ASSUME NEW t \in Threads, DoSend(t) \/ Entered(t) \/ GiveBack(t) \/ Recheck(t) PROVE Goal
  <2>1. PICK l \in {"idle", "entered", "giveBack", "begin", "recheck", "cas"} : Goto(t, l)
    BY <1>4 DEF DoSend, TryEnter, Entered, GiveBack, Recheck
  <2>2. UNCHANGED <<reservedSendPacketInfo, streamVars>>
    BY <1>4 DEF DoSend, Entered, GiveBack, Recheck, queueVars
  <2> QED
    BY <1>1, <2>1, <2>2 DEF Apart
<1>5. ASSUME NEW t \in Threads, NothingMade(t) \/ DatagramDropped(t) \/ TryRIOSend(t) \/ SendFails(t)
      PROVE  Goal
  <2>1. PICK l \in {"idle", "cas"} : Goto(t, l)
    BY <1>5 DEF NothingMade, DatagramDropped, TryRIOSend, SendFails
  <2>2. UNCHANGED <<reservedSendPacketInfo, streamVars>>
    BY <1>5 DEF NothingMade, DatagramDropped, TryRIOSend, SendFails, queueVars
  <2> QED
    BY <1>1, <2>1, <2>2 DEF Apart
<1>6. ASSUME SendIOCompleted PROVE Goal
  <2>1. PICK l \in {"idle", "cas"} : Goto(IOWorker, l)
    BY <1>6 DEF SendIOCompleted
  <2>2. IOWorker \in Threads
    BY DEF Threads
  <2>3. UNCHANGED <<reservedSendPacketInfo, streamVars>>
    BY <1>6 DEF SendIOCompleted, queueVars
  <2> QED
    BY <1>1, <2>1, <2>2, <2>3 DEF Apart
<1>7. ASSUME NEW n \in Packets, MarkSendPacketInfoErased(n) PROVE Goal
  BY <1>7 DEF MarkSendPacketInfoErased, Apart, queueVars
<1>8. ASSUME Release \/ UNCHANGED vars PROVE Goal
  BY <1>8 DEF Release, vars, Apart, queueVars
<1> QED
  BY <1>2, <1>3, <1>4, <1>5, <1>6, <1>7, <1>8 DEF Next, Sending

LEMMA HeldStep ==
    ASSUME PipelineAssumption, TypeOK, UserInv, HeldInv, [Next]_vars
    PROVE  HeldInv'
<1>1. ASSUME Apart PROVE HeldInv'
  BY <1>1 DEF Apart, HeldInv, streamVars
<1>2. ASSUME NEW t \in Threads, BeginStream(t) PROVE HeldInv'
  BY <1>2 DEF BeginStream, ReservedFirst, HeldInv, queueVars
<1>3. ASSUME NEW t \in Threads, StoredToStream(t) PROVE HeldInv'
  <2>1. \A u \in Threads : pc'[u] = "stream" => u = t
    BY <1>3 DEF StoredToStream, UserInv, InBuffer
  <2>2. reservedSendPacketInfo = 0
    BY <1>3 DEF StoredToStream, HeldInv
  <2>3. left'[t] = 0 \/ UNCHANGED reservedSendPacketInfo
    BY <1>3 DEF StoredToStream, TypeOK
  <2> QED
    BY <2>1, <2>2, <2>3 DEF HeldInv
<1> QED
  BY <1>1, <1>2, <1>3, ApartSteps

LEMMA HeldInit == ASSUME Init PROVE HeldInv
BY DEF Init, HeldInv

\* A packet held back is in front of the queue.
LEMMA WaitingIs ==
    ASSUME PipelineAssumption, TypeOK
    PROVE  /\ reservedSendPacketInfo = 0 => Waiting = sendPacketInfoQueue
           /\ reservedSendPacketInfo # 0 =>
                 /\ Waiting # <<>>
                 /\ Head(Waiting) = reservedSendPacketInfo
                 /\ Tail(Waiting) = sendPacketInfoQueue
           /\ \A n \in Packets :
                 Append(Waiting, n) =
                     (IF reservedSendPacketInfo = 0 THEN <<>> ELSE <<reservedSendPacketInfo>>)
                         \o Append(sendPacketInfoQueue, n)
<1>1. sendPacketInfoQueue \in Seq(Packets)
  BY DEF TypeOK
<1>2. CASE reservedSendPacketInfo = 0
  <2>1. Waiting = sendPacketInfoQueue
    BY <1>1, <1>2, ConcatEmptySeq DEF Waiting
  <2>2. \A n \in Packets : <<>> \o Append(sendPacketInfoQueue, n) = Append(sendPacketInfoQueue, n)
    BY <1>1, ConcatEmptySeq
  <2> QED
    BY <1>2, <2>1, <2>2
<1>3. CASE reservedSendPacketInfo # 0
  <2>1. <<reservedSendPacketInfo>> \in Seq(Packets)
    BY <1>3 DEF TypeOK, Packets
  <2>2. Waiting = <<reservedSendPacketInfo>> \o sendPacketInfoQueue
    BY <1>3 DEF Waiting
  <2>3. /\ Waiting # <<>> /\ Head(Waiting) = reservedSendPacketInfo
        /\ Tail(Waiting) = sendPacketInfoQueue
    BY <1>1, <2>1, <2>2
  <2>4. ASSUME NEW n \in Packets
        PROVE  Append(Waiting, n) = <<reservedSendPacketInfo>> \o Append(sendPacketInfoQueue, n)
    BY <1>1, <2>1, <2>2
  <2> QED
    BY <1>3, <2>3, <2>4
<1> QED
  BY <1>2, <1>3

\* Every step is a step of SendQueue or changes nothing of what it sees.
LEMMA QueueStep ==
    ASSUME PipelineAssumption, TypeOK, HeldInv, [Next]_vars
    PROVE  [Queue!QueueNext]_<<Waiting, taken, ~releasing>>
<1> DEFINE Same == UNCHANGED <<Waiting, taken, ~releasing>>
<1>0. ASSUME UNCHANGED queueVars PROVE UNCHANGED <<Waiting, taken>>
  BY <1>0 DEF queueVars, Waiting
<1>1. ASSUME NEW t \in Threads, NEW n \in Packets, Push(t, n) PROVE Queue!Submit(n)
  <2>1. /\ sendPacketInfoQueue' = Append(sendPacketInfoQueue, n) /\ ~releasing
        /\ UNCHANGED <<reservedSendPacketInfo, taken, releasing>>
    BY <1>1 DEF Push
  <2>2. Waiting' = (IF reservedSendPacketInfo = 0 THEN <<>> ELSE <<reservedSendPacketInfo>>)
                       \o Append(sendPacketInfoQueue, n)
    BY <2>1 DEF Waiting
  <2>3. Waiting' = Append(Waiting, n)
    BY <2>2, WaitingIs
  <2> QED
    BY <2>1, <2>3 DEF Queue!Submit
<1>2. ASSUME NEW t \in Threads, SendNewPacket(t) PROVE Queue!QueueNext
  <2>1. submitted + 1 \in Packets
    BY <1>2 DEF SendNewPacket, TypeOK, Packets, PipelineAssumption
  <2> QED
    BY <1>1, <1>2, <2>1 DEF SendNewPacket, Queue!QueueNext
<1>3. ASSUME NEW n \in Packets, Retransmit(n) PROVE Queue!QueueNext
  <2>1. Retransmitter \in Threads
    BY DEF Threads
  <2> QED
    BY <1>1, <1>3, <2>1 DEF Retransmit, Queue!QueueNext
<1>4. ASSUME NEW t \in Threads, BeginStream(t) PROVE Same \/ Queue!QueueNext
  <2>1. CASE reservedSendPacketInfo = 0
    BY <1>0, <1>4, <2>1 DEF BeginStream, ReservedFirst
  <2>2. CASE reservedSendPacketInfo # 0
    <3>1. /\ reservedSendPacketInfo' = 0 /\ taken' = Append(taken, reservedSendPacketInfo)
          /\ UNCHANGED <<sendPacketInfoQueue, releasing>>
      BY <1>4, <2>2 DEF BeginStream, ReservedFirst
    <3>2. Waiting' = sendPacketInfoQueue
      BY <3>1, ConcatEmptySeq DEF Waiting, TypeOK
    <3>3. /\ Waiting # <<>> /\ Head(Waiting) = reservedSendPacketInfo
          /\ Tail(Waiting) = sendPacketInfoQueue
      BY <2>2, WaitingIs
    <3> QED
      BY <3>1, <3>2, <3>3 DEF Queue!QueueNext, Queue!Take
  <2> QED
    BY <2>1, <2>2
<1>5. ASSUME NEW t \in Threads, StoredToStream(t) PROVE Same \/ Queue!QueueNext
  <2> DEFINE n == Head(sendPacketInfoQueue)
  <2>1. /\ n \in Packets /\ Tail(sendPacketInfoQueue) \in Seq(Packets)
        /\ sendPacketInfoQueue # <<>> /\ sendPacketInfoQueue' = Tail(sendPacketInfoQueue)
        /\ sendPacketInfoQueue = <<n>> \o Tail(sendPacketInfoQueue)
    BY <1>5 DEF StoredToStream, TryGetFrontAndPop, TypeOK
  <2>2. reservedSendPacketInfo = 0 /\ Waiting = sendPacketInfoQueue
    BY <1>5, WaitingIs DEF StoredToStream, HeldInv
  <2>3. n # 0 /\ releasing' = releasing
    BY <1>5, <2>1, PacketIs DEF StoredToStream
  <2> HIDE DEF n
  <2>4. CASE reservedSendPacketInfo' = n /\ UNCHANGED taken
    <3>1. Waiting' = <<n>> \o Tail(sendPacketInfoQueue)
      BY <2>1, <2>3, <2>4 DEF Waiting
    <3> QED
      BY <2>1, <2>2, <2>3, <2>4, <3>1
  <2>5. CASE reservedSendPacketInfo' = reservedSendPacketInfo /\ taken' = Append(taken, n)
    <3>1. Waiting' = Tail(sendPacketInfoQueue)
      BY <2>1, <2>2, <2>5, ConcatEmptySeq DEF Waiting
    <3>2. Queue!Take
      BY <2>1, <2>2, <2>3, <2>5, <3>1 DEF Queue!Take, n
    <3> QED
      BY <3>2 DEF Queue!QueueNext
  <2> QED
    BY <1>5, <2>4, <2>5 DEF StoredToStream, n
<1>6. ASSUME NEW t \in Threads, DoSend(t) \/ Entered(t) \/ GiveBack(t) \/ Recheck(t)
                  \/ NothingMade(t) \/ DatagramDropped(t)
      PROVE  Same
  <2>1. UNCHANGED queueVars /\ UNCHANGED releasing
    BY <1>6 DEF DoSend, Entered, GiveBack, Recheck, NothingMade, DatagramDropped
  <2> QED
    BY <1>0, <2>1
<1>7. ASSUME NEW t \in Threads, TryRIOSend(t) PROVE Same
  BY <1>0, <1>7 DEF TryRIOSend
<1>8. ASSUME UNCHANGED queueVars, releasing' = TRUE PROVE Same \/ Queue!QueueNext
  <2>1. UNCHANGED <<Waiting, taken>> /\ releasing' = TRUE
    BY <1>0, <1>8
  <2>2. CASE releasing
    BY <2>1, <2>2
  <2>3. CASE ~releasing
    BY <2>1, <2>3 DEF Queue!QueueNext, Queue!Stop
  <2> QED
    BY <2>2, <2>3
<1>9. ASSUME SendIOCompleted PROVE Same
  BY <1>0, <1>9 DEF SendIOCompleted
<1>10. ASSUME NEW n \in Packets, MarkSendPacketInfoErased(n) PROVE Same
  BY <1>0, <1>10 DEF MarkSendPacketInfoErased
<1>11. ASSUME UNCHANGED vars PROVE Same
  BY <1>0, <1>11 DEF vars
<1>12. ASSUME NEW t \in Threads, SendFails(t) PROVE Same \/ Queue!QueueNext
  BY <1>8, <1>12 DEF SendFails
<1>13. ASSUME Release PROVE Same \/ Queue!QueueNext
  BY <1>8, <1>13 DEF Release
<1> QED
  BY <1>2, <1>3, <1>4, <1>5, <1>6, <1>7, <1>9, <1>10, <1>11, <1>12, <1>13 DEF Next, Sending

\* ImplementsQueue: whichever threads call DoSend, whatever datagram is dropped or refused,
\* the packets of a session are taken in the order they were submitted, and none is lost.
THEOREM PipelineIsQueue == ASSUME PipelineAssumption PROVE Spec => ImplementsQueue
<1>1. Init => TypeOK /\ UserInv /\ HeldInv
  BY InitType, UserInit, HeldInit
<1>2. Init => Queue!QueueInit
  BY ConcatEmptySeq DEF Init, Queue!QueueInit, Waiting
<1>3. TypeOK /\ UserInv /\ HeldInv /\ [Next]_vars => (TypeOK /\ UserInv /\ HeldInv)'
  BY TypeStep, UserStep, HeldStep
<1>4. TypeOK /\ HeldInv /\ [Next]_vars => [Queue!QueueNext]_<<Waiting, taken, ~releasing>>
  BY QueueStep
<1> QED
  BY <1>1, <1>2, <1>3, <1>4, PTL DEF Spec, ImplementsQueue, Queue!QueueSpec

-----------------------------------------------------------------------------
(* Nothing is left behind, but for an empty stream of acknowledged packets.  *)

\* A thread makes a stream only when there is something to send.
BegunInv == \A t \in Threads : pc[t] = "begin" => ~IsNothingToSend

\* What it has begun comes out empty only if it was found acknowledged.
FilledInv ==
    \A t \in Threads : pc[t] = "stream" =>
        /\ left[t] > 0 \/ totalSendSize[t] > 0 \/ skipped # {}
        /\ cachedSequenceSet # {} \/ batch # <<>> => totalSendSize[t] > 0

WorkInv == BegunInv /\ FilledInv

LEMMA WorkInit == ASSUME Init PROVE WorkInv
BY DEF Init, WorkInv, BegunInv, FilledInv

\* The begun stream takes the packet held back, or has packets of the queue to take.
LEMMA BeginWork ==
    ASSUME PipelineAssumption, TypeOK, UserInv, WorkInv, NEW t \in Threads, BeginStream(t)
    PROVE  WorkInv'
<1>1. \A u \in Threads : u # t => pc'[u] \notin {"begin", "stream"}
  BY GotoMoves DEF BeginStream, UserInv, InBuffer
<1>2. pc'[t] = "stream"
  BY GotoMoves DEF BeginStream
<1>3. left'[t] = Len(sendPacketInfoQueue)
  BY DEF BeginStream, TypeOK
<1>4. CASE reservedSendPacketInfo = 0
  <2>1. sendPacketInfoQueue # <<>>
    BY <1>4 DEF BeginStream, WorkInv, BegunInv, IsNothingToSend
  <2>2. left'[t] > 0 /\ cachedSequenceSet' = {} /\ batch' = <<>>
    BY <1>3, <1>4, <2>1 DEF BeginStream, ReservedFirst, TypeOK
  <2> QED
    BY <1>1, <1>2, <2>2 DEF WorkInv, BegunInv, FilledInv
<1>5. CASE reservedSendPacketInfo # 0 /\ reservedSendPacketInfo \notin erased
  <2>1. totalSendSize' = [totalSendSize EXCEPT ![t] = Size(reservedSendPacketInfo)]
    BY <1>5 DEF BeginStream, ReservedFirst
  <2>2. totalSendSize'[t] > 0
    <3>1. totalSendSize'[t] = Size(reservedSendPacketInfo)
      BY <2>1 DEF TypeOK
    <3> QED
      BY <3>1, SizeIs
  <2> QED
    BY <1>1, <1>2, <2>2 DEF WorkInv, BegunInv, FilledInv
<1>6. CASE reservedSendPacketInfo # 0 /\ reservedSendPacketInfo \in erased
  <2>1. skipped' # {} /\ cachedSequenceSet' = {} /\ batch' = <<>>
    BY <1>6 DEF BeginStream, ReservedFirst
  <2> QED
    BY <1>1, <1>2, <2>1 DEF WorkInv, BegunInv, FilledInv
<1> QED
  BY <1>4, <1>5, <1>6

\* The front of the queue makes the stream longer, is in it already, or does not fit:
\* the stream is not empty afterwards.
LEMMA StoredWork ==
    ASSUME PipelineAssumption, TypeOK, UserInv, WorkInv, NEW t \in Threads, StoredToStream(t)
    PROVE  WorkInv'
<1> DEFINE n == Head(sendPacketInfoQueue)
<1>1. \A u \in Threads : u # t => pc'[u] \notin {"begin", "stream"}
  BY DEF StoredToStream, UserInv, InBuffer
<1>2. pc'[t] = "stream"
  BY DEF StoredToStream
<1> SUFFICES FilledInv'
  BY <1>1, <1>2 DEF WorkInv, BegunInv
<1>3. totalSendSize[t] \in Nat /\ (cachedSequenceSet # {} => totalSendSize[t] > 0)
  BY DEF StoredToStream, TypeOK, WorkInv, FilledInv
<1>4. totalSendSize'[t] > 0
  <2>1. CASE n \in cachedSequenceSet /\ UNCHANGED totalSendSize
    BY <1>3, <2>1
  <2>2. CASE ~Fits(t, n) /\ UNCHANGED totalSendSize
    BY <1>3, <2>2, SizeIs, Bounds DEF Fits, PipelineAssumption
  <2>3. CASE totalSendSize' = [totalSendSize EXCEPT ![t] = @ + Size(n)]
    <3>1. totalSendSize'[t] = totalSendSize[t] + Size(n)
      BY <2>3 DEF TypeOK
    <3>2. Size(n) \in {1, 2}
      BY SizeIs
    <3> QED
      BY <1>3, <3>1, <3>2
  <2> QED
    BY <2>1, <2>2, <2>3 DEF StoredToStream
<1> QED
  BY <1>1, <1>2, <1>4 DEF FilledInv

\* Elsewhere the queue only grows, and only a thread that found it filled goes on to begin.
LEMMA WorkStep ==
    ASSUME PipelineAssumption, TypeOK, UserInv, WorkInv, [Next]_vars
    PROVE  WorkInv'
<1>1. ASSUME NEW t \in Threads, BeginStream(t) PROVE WorkInv'
  BY <1>1, BeginWork
<1>2. ASSUME NEW t \in Threads, StoredToStream(t) PROVE WorkInv'
  BY <1>2, StoredWork
<1>3. ASSUME NEW t \in Threads, NEW n \in Packets, Push(t, n) PROVE WorkInv'
  <2>1. UNCHANGED <<reservedSendPacketInfo, batch, skipped, cachedSequenceSet, left, totalSendSize>>
    BY <1>3 DEF Push, streamVars
  <2>2. \A u \in Threads : pc'[u] \in {"begin", "stream"} => pc'[u] = pc[u]
    BY <1>3, GotoMoves DEF Push
  <2>3. sendPacketInfoQueue' # <<>>
    <3>1. sendPacketInfoQueue \in Seq(Packets) /\ sendPacketInfoQueue' = Append(sendPacketInfoQueue, n)
      BY <1>3 DEF Push, TypeOK
    <3> QED
      BY <3>1
  <2> QED
    BY <2>1, <2>2, <2>3 DEF WorkInv, BegunInv, FilledInv, IsNothingToSend
<1>4. ASSUME NEW t \in Threads, SendNewPacket(t) PROVE WorkInv'
  <2>1. submitted + 1 \in Packets
    BY <1>4 DEF SendNewPacket, TypeOK, Packets, PipelineAssumption
  <2> QED
    BY <1>3, <1>4, <2>1 DEF SendNewPacket
<1>5. ASSUME NEW n \in Packets, Retransmit(n) PROVE WorkInv'
  <2>1. Retransmitter \in Threads
    BY DEF Threads
  <2> QED
    BY <1>3, <1>5, <2>1 DEF Retransmit
<1>6. ASSUME UNCHANGED <<queueVars, streamVars>>,
             \A u \in Threads : pc'[u] \in {"begin", "stream"} => pc'[u] = pc[u]
      PROVE  WorkInv'
  BY <1>6 DEF WorkInv, BegunInv, FilledInv, IsNothingToSend, queueVars, streamVars
<1>7. ASSUME NEW t \in Threads, NEW l, l \notin {"begin", "stream"}, Goto(t, l)
      PROVE  \A u \in Threads : pc'[u] \in {"begin", "stream"} => pc'[u] = pc[u]
  BY <1>7, GotoMoves
<1>8. ASSUME NEW t \in Threads, Entered(t) PROVE WorkInv'
  <2>1. UNCHANGED <<queueVars, streamVars>>
    BY <1>8 DEF Entered
  <2>2. CASE releasing \/ IsNothingToSend
    <3>1. PICK l \in {"idle", "giveBack"} : Goto(t, l)
      BY <1>8, <2>2 DEF Entered
    <3> QED
      BY <1>6, <1>7, <2>1, <3>1
  <2>3. CASE ~releasing /\ ~IsNothingToSend
    <3>1. Goto(t, "begin")
      BY <1>8, <2>3 DEF Entered
    <3> QED
      BY <2>1, <2>3, <3>1, GotoMoves DEF WorkInv, BegunInv, FilledInv, IsNothingToSend, queueVars, streamVars
  <2> QED
    BY <2>2, <2>3
<1>9. ASSUME NEW t \in Threads, DoSend(t) \/ GiveBack(t) \/ Recheck(t) PROVE WorkInv'
  <2>1. UNCHANGED <<queueVars, streamVars>>
    BY <1>9 DEF DoSend, GiveBack, Recheck
  <2>2. PICK l \in {"idle", "entered", "recheck", "cas"} : Goto(t, l)
    BY <1>9 DEF DoSend, TryEnter, GiveBack, Recheck
  <2> QED
    BY <1>6, <1>7, <2>1, <2>2
<1>10. ASSUME NEW t \in Threads, NothingMade(t) \/ DatagramDropped(t) \/ TryRIOSend(t) \/ SendFails(t)
       PROVE  WorkInv'
  <2>1. UNCHANGED <<queueVars, streamVars>>
    BY <1>10 DEF NothingMade, DatagramDropped, TryRIOSend, SendFails
  <2>2. PICK l \in {"idle", "cas"} : Goto(t, l)
    BY <1>10 DEF NothingMade, DatagramDropped, TryRIOSend, SendFails
  <2> QED
    BY <1>6, <1>7, <2>1, <2>2
<1>11. ASSUME SendIOCompleted PROVE WorkInv'
  <2>1. UNCHANGED <<queueVars, streamVars>> /\ IOWorker \in Threads
    BY <1>11 DEF SendIOCompleted, Threads
  <2>2. PICK l \in {"idle", "cas"} : Goto(IOWorker, l)
    BY <1>11 DEF SendIOCompleted
  <2> QED
    BY <1>6, <1>7, <2>1, <2>2
<1>12. ASSUME NEW n \in Packets, MarkSendPacketInfoErased(n) PROVE WorkInv'
  BY <1>6, <1>12 DEF MarkSendPacketInfoErased
<1>13. ASSUME Release \/ UNCHANGED vars PROVE WorkInv'
  BY <1>6, <1>13 DEF Release, vars
<1> QED
  BY <1>1, <1>2, <1>4, <1>5, <1>8, <1>9, <1>10, <1>11, <1>12, <1>13 DEF Next, Sending

\* A thread gives ioMode back for a stream that came out empty, its packet being acknowledged.
EmptyStream == skipped # {} /\ \E t \in Threads : NothingMade(t)

\* Whenever something waits, a thread is in DoSend or a send is in flight.
LEMMA LeftStep ==
    ASSUME PipelineAssumption, TypeOK, UserInv, WorkInv, NothingLeftBehind, [Next]_vars, ~EmptyStream
    PROVE  NothingLeftBehind'
<1> SUFFICES ASSUME ~releasing', posted' = 0, \A t \in Threads : pc'[t] = "idle"
             PROVE  IsNothingToSend'
  BY DEF NothingLeftBehind
<1>1. InBuffer' = {}
  BY DEF InBuffer
<1>2. ASSUME UNCHANGED <<queueVars, pc, posted, releasing>> PROVE IsNothingToSend'
  BY <1>2 DEF NothingLeftBehind, IsNothingToSend, queueVars
<1>3. ASSUME NEW t \in Threads, NEW l, Goto(t, l) PROVE l = "idle"
  BY <1>3, GotoMoves
<1>4. ASSUME NEW t \in Threads, DoSend(t) PROVE IsNothingToSend'
  <2>1. UNCHANGED <<posted, releasing>> /\ ioMode = "SENDING" /\ Goto(t, "idle") /\ pc[t] = "cas"
    BY <1>3, <1>4 DEF DoSend, TryEnter
  <2>2. InBuffer # {}
    BY <2>1 DEF UserInv
  <2>3. PICK u \in Threads : u \in InBuffer
    BY <2>2 DEF InBuffer
  <2>4. u # t /\ pc'[u] = pc[u] /\ pc[u] # "idle"
    BY <2>1, <2>3, GotoMoves DEF InBuffer
  <2> QED
    BY <2>4
<1>5. ASSUME NEW t \in Threads, Recheck(t) PROVE IsNothingToSend'
  <2>1. IsNothingToSend /\ UNCHANGED queueVars
    BY <1>3, <1>5 DEF Recheck
  <2> QED
    BY <2>1 DEF IsNothingToSend, queueVars
<1>6. ASSUME NEW t \in Threads, NothingMade(t) PROVE FALSE
  BY <1>6 DEF NothingMade, StreamMade, EmptyStream, WorkInv, FilledInv
<1>7. ASSUME NEW t \in Threads, TryRIOSend(t) PROVE FALSE
  BY <1>7 DEF TryRIOSend, TypeOK
<1>8. ASSUME NEW t \in Threads, SendFails(t) PROVE FALSE
  BY <1>8 DEF SendFails
<1>9. ASSUME NEW t \in Threads, DatagramDropped(t) \/ GiveBack(t) \/ BeginStream(t) PROVE FALSE
  BY <1>3, <1>9 DEF DatagramDropped, GiveBack, BeginStream
<1>10. ASSUME NEW t \in Threads, Entered(t) PROVE FALSE
  BY <1>3, <1>10 DEF Entered
<1>11. ASSUME NEW t \in Threads, StoredToStream(t) PROVE FALSE
  BY <1>11 DEF StoredToStream
<1>12. ASSUME NEW t \in Threads, NEW n \in Packets, Push(t, n) PROVE FALSE
  BY <1>3, <1>12 DEF Push
<1>13. ASSUME NEW t \in Threads, SendNewPacket(t) PROVE FALSE
  BY <1>3, <1>13 DEF SendNewPacket, Push
<1>14. ASSUME NEW n \in Packets, Retransmit(n) PROVE FALSE
  BY <1>12, <1>14 DEF Retransmit, Threads
<1>15. ASSUME SendIOCompleted PROVE FALSE
  <2>1. IOWorker \in Threads /\ Goto(IOWorker, "cas")
    BY <1>15 DEF SendIOCompleted, Threads
  <2> QED
    BY <1>3, <2>1
<1>16. ASSUME NEW n \in Packets, MarkSendPacketInfoErased(n) PROVE IsNothingToSend'
  BY <1>2, <1>16 DEF MarkSendPacketInfoErased
<1>17. ASSUME Release PROVE FALSE
  BY <1>17 DEF Release
<1>18. ASSUME UNCHANGED vars PROVE IsNothingToSend'
  BY <1>2, <1>18 DEF vars
<1> QED
  BY <1>4, <1>5, <1>6, <1>7, <1>8, <1>9, <1>10, <1>11, <1>13, <1>14, <1>15, <1>16, <1>17, <1>18
  DEF Next, Sending

\* A stream that came out empty stays the last one until somebody makes another.
LEMMA EmptyStep ==
    ASSUME PipelineAssumption, TypeOK, UserInv, WorkInv, LeftOnlyByAcks, [Next]_vars
    PROVE  LeftOnlyByAcks'
<1>1. CASE NothingLeftBehind /\ ~EmptyStream
  BY <1>1, LeftStep DEF LeftOnlyByAcks
<1>2. CASE EmptyStream
  <2>1. PICK t \in Threads : NothingMade(t)
    BY <1>2 DEF EmptyStream
  <2>2. skipped # {} /\ batch = <<>>
    BY <1>2, <2>1 DEF EmptyStream, NothingMade, StreamMade, WorkInv, FilledInv
  <2>3. UNCHANGED <<skipped, batch>>
    BY <2>1 DEF NothingMade, streamVars
  <2> QED
    BY <2>2, <2>3 DEF LeftOnlyByAcks, EmptyForAcks
<1>3. CASE EmptyForAcks
  <2>1. CASE Apart
    BY <1>3, <2>1 DEF Apart, streamVars, LeftOnlyByAcks, EmptyForAcks
  <2>2. ASSUME NEW t \in Threads, BeginStream(t) \/ StoredToStream(t) PROVE LeftOnlyByAcks'
    <3>1. pc'[t] = "stream"
      BY <2>2, GotoMoves DEF BeginStream, StoredToStream
    <3> QED
      BY <3>1 DEF LeftOnlyByAcks, NothingLeftBehind
  <2> QED
    BY <2>1, <2>2, ApartSteps
<1> QED
  BY <1>1, <1>2, <1>3 DEF LeftOnlyByAcks

LEMMA WorkHolds == ASSUME PipelineAssumption PROVE Spec => [](TypeOK /\ UserInv /\ WorkInv)
<1>1. Init => TypeOK /\ UserInv /\ WorkInv
  BY InitType, UserInit, WorkInit
<1>2. TypeOK /\ UserInv /\ WorkInv /\ [Next]_vars => (TypeOK /\ UserInv /\ WorkInv)'
  BY TypeStep, UserStep, WorkStep
<1> QED
  BY <1>1, <1>2, PTL DEF Spec

\* A thread that loses the race for ioMode may leave its packet to the winner: whatever waits
\* has somebody to send it, unless the last stream made came out empty because its packet was
\* acknowledged meanwhile (RUDPIOHandler.cpp:238).
THEOREM NoneStranded == ASSUME PipelineAssumption PROVE Spec => []LeftOnlyByAcks
<1>1. Spec => [](TypeOK /\ UserInv /\ WorkInv)
  BY WorkHolds
<1>2. Init => LeftOnlyByAcks
  BY DEF Init, LeftOnlyByAcks, NothingLeftBehind, IsNothingToSend
<1>3. TypeOK /\ UserInv /\ WorkInv /\ LeftOnlyByAcks /\ [Next]_vars => LeftOnlyByAcks'
  BY EmptyStep
<1> QED
  BY <1>1, <1>2, <1>3, PTL DEF Spec

\* And the one step after which a packet may wait with nobody to send it is the one of the
\* finding Stranded: DoSend gives ioMode back for an empty stream and does not look again
\* (RUDPIOHandler.cpp:238).
THEOREM StrandedOnlyByEmptyStream ==
    ASSUME PipelineAssumption
    PROVE  Spec => [][NothingLeftBehind /\ ~NothingLeftBehind' => EmptyStream]_vars
<1>1. Spec => [](TypeOK /\ UserInv /\ WorkInv)
  BY WorkHolds
<1>2. TypeOK /\ UserInv /\ WorkInv /\ [Next]_vars
          => [NothingLeftBehind /\ ~NothingLeftBehind' => EmptyStream]_vars
  BY LeftStep
<1> QED
  BY <1>1, <1>2, PTL DEF Spec

-----------------------------------------------------------------------------
(* Laying packets out in the buffer.                                       *)

Less == {p \in Nat \X Nat : p[1] < p[2]}

\* A set of numbers that is not empty has a least one.
LEMMA LeastIs ==
    ASSUME NEW T \in SUBSET Nat, T # {}
    PROVE  \E t \in T : \A u \in T : t <= u
<1>1. IsWellFoundedOn(Less, Nat)
  BY NatLessThanWellFounded DEF OpToRel, Less
<1>2. PICK t \in T : \A u \in T : <<u, t>> \notin Less
  BY <1>1, WFMin
<1>3. ASSUME NEW u \in T PROVE t <= u
  <2>1. u \in Nat /\ t \in Nat /\ ~(u < t)
    BY <1>2 DEF Less
  <2> QED
    BY <2>1
<1> QED
  BY <1>3

\* The recursive function inside FlattenSeq, on the first n sequences of s.
Flattens(f, s, n) == f = [i \in 1 .. n |-> IF i = 1 THEN s[i] ELSE f[i-1] \o s[i]]

LEMMA FlattensExists ==
    ASSUME NEW s, NEW n \in Nat
    PROVE  \E f : Flattens(f, s, n)
<1> DEFINE T == {m \in Nat : ~\E f : Flattens(f, s, m)}
<1>1. SUFFICES ASSUME T # {} PROVE FALSE
  OBVIOUS
<1>2. PICK m \in T : \A u \in T : m <= u
  BY <1>1, LeastIs
<1>3. CASE m <= 1
  <2> DEFINE f == [i \in 1 .. m |-> s[i]]
  <2>1. \A i \in 1 .. m : i = 1
    BY <1>2, <1>3
  <2>2. f = [i \in 1 .. m |-> IF i = 1 THEN s[i] ELSE f[i-1] \o s[i]]
    BY <2>1
  <2>3. Flattens(f, s, m)
    BY <2>2 DEF Flattens
  <2> QED
    BY <2>3
<1>4. CASE m > 1
  <2>1. m \in Nat /\ m - 1 \in Nat /\ m - 1 \notin T
    BY <1>2, <1>4
  <2>2. PICK f : Flattens(f, s, m - 1)
    BY <2>1
  <2> DEFINE g == [i \in 1 .. m |-> IF i = m THEN f[m - 1] \o s[m] ELSE f[i]]
  <2>3. ASSUME NEW i \in 1 .. m
        PROVE  g[i] = IF i = 1 THEN s[i] ELSE g[i-1] \o s[i]
    <3>1. CASE i = m
      <4>1. m \in 1 .. m /\ m - 1 \in 1 .. m /\ m - 1 # m /\ m # 1
        BY <1>4, <2>1
      <4>2. g[m] = f[m - 1] \o s[m] /\ g[m - 1] = f[m - 1] /\ m # 1
        BY <4>1
      <4> QED
        BY <3>1, <4>2
    <3>2. CASE i # m
      <4>1. i \in 1 .. m - 1 /\ (i # 1 => i - 1 \in 1 .. m /\ i - 1 # m)
        BY <2>1, <3>2
      <4>2. f[i] = IF i = 1 THEN s[i] ELSE f[i-1] \o s[i]
        BY <2>2, <4>1 DEF Flattens
      <4>3. g[i] = f[i] /\ (i # 1 => g[i-1] = f[i-1])
        BY <3>2, <4>1
      <4> QED
        BY <4>2, <4>3
    <3> QED
      BY <3>1, <3>2
  <2>4. g = [i \in 1 .. m |-> IF i = 1 THEN s[i] ELSE g[i-1] \o s[i]]
    BY <2>3
  <2>5. Flattens(g, s, m)
    BY <2>4 DEF Flattens
  <2> QED
    BY <2>5
<1> QED
  BY <1>2, <1>3, <1>4

\* The function on a longer sequence agrees with the one on a shorter.
LEMMA FlattensAgree ==
    ASSUME NEW s, NEW u, NEW m \in Nat, NEW n \in Nat, m <= n,
           \A i \in 1 .. m : s[i] = u[i],
           NEW f, Flattens(f, s, m), NEW g, Flattens(g, u, n), NEW k \in 1 .. m
    PROVE  f[k] = g[k]
<1> DEFINE T == {i \in 1 .. m : f[i] # g[i]}
<1>1. SUFFICES ASSUME T # {} PROVE FALSE
  OBVIOUS
<1>2. PICK i \in T : \A j \in T : i <= j
  <2>1. T \in SUBSET Nat
    OBVIOUS
  <2> QED
    BY <1>1, <2>1, LeastIs
<1>3. i \in 1 .. m /\ i \in 1 .. n /\ f[i] # g[i]
  BY <1>2
<1>4. /\ f[i] = IF i = 1 THEN s[i] ELSE f[i-1] \o s[i]
      /\ g[i] = IF i = 1 THEN u[i] ELSE g[i-1] \o u[i]
  <2>1. f[i] = IF i = 1 THEN s[i] ELSE f[i-1] \o s[i]
    BY <1>3 DEF Flattens
  <2>2. g[i] = IF i = 1 THEN u[i] ELSE g[i-1] \o u[i]
    BY <1>3 DEF Flattens
  <2> QED
    BY <2>1, <2>2
<1>5. CASE i = 1
  BY <1>3, <1>4, <1>5
<1>6. CASE i # 1
  <2>1. i - 1 \in 1 .. m /\ i - 1 < i
    BY <1>3, <1>6
  <2>2. f[i-1] = g[i-1]
    BY <1>2, <2>1
  <2> QED
    BY <1>3, <1>4, <1>6, <2>2
<1> QED
  BY <1>5, <1>6

LEMMA FlattenIs ==
    ASSUME NEW S, NEW s \in Seq(S), Len(s) > 0, NEW f, Flattens(f, s, Len(s))
    PROVE  FlattenSeq(s) = f[Len(s)]
<1> DEFINE F(g) == g = [i \in 1 .. Len(s) |-> IF i = 1 THEN s[i] ELSE g[i-1] \o s[i]]
<1>1. F(f)
  BY Zenon DEF Flattens
<1>2. F(CHOOSE g : F(g))
  BY <1>1, Zenon
<1> DEFINE g == CHOOSE h : F(h)
<1>3. Flattens(g, s, Len(s))
  BY <1>2, Zenon DEF Flattens
<1>4. FlattenSeq(s) = g[Len(s)]
  BY DEF FlattenSeq
<1>5. Len(s) \in Nat /\ Len(s) \in 1 .. Len(s)
  OBVIOUS
<1> HIDE DEF g
<1> QED
  BY <1>3, <1>4, <1>5, FlattensAgree

\* The cells of one packet.
Cells(n) == [j \in 1 .. Size(n) |-> n]

LEMMA CellsType ==
    ASSUME NEW D, NEW n \in D
    PROVE  Cells(n) \in Seq(D) /\ Len(Cells(n)) = Size(n) /\ \A j \in 1 .. Size(n) : Cells(n)[j] = n
<1>1. PICK z \in Nat : z = Size(n)
  BY SizeIs
<1>2. Cells(n) = [j \in 1 .. z |-> n]
  BY <1>1 DEF Cells
<1>3. [j \in 1 .. z |-> n] \in Seq(D)
  OBVIOUS
<1> QED
  BY <1>1, <1>2, <1>3

LEMMA LayoutEmpty == Layout(<<>>) = <<>>
<1>1. [i \in DOMAIN <<>> |-> [j \in 1 .. Size(<<>>[i]) |-> <<>>[i]]] = <<>>
  OBVIOUS
<1>2. FlattenSeq(<<>>) = <<>>
  BY DEF FlattenSeq
<1> QED
  BY <1>1, <1>2 DEF Layout

LEMMA FlattensAt ==
    ASSUME NEW f, NEW s, NEW n \in Nat, Flattens(f, s, n)
    PROVE  \A i \in 1 .. n : f[i] = IF i = 1 THEN s[i] ELSE f[i-1] \o s[i]
<1>1. f = [j \in 1 .. n |-> IF j = 1 THEN s[j] ELSE f[j-1] \o s[j]]
  BY DEF Flattens
<1> DEFINE F(j) == IF j = 1 THEN s[j] ELSE f[j-1] \o s[j]
<1>2. f = [j \in 1 .. n |-> F(j)]
  BY <1>1
<1> HIDE DEF F
<1>3. \A i \in 1 .. n : f[i] = F(i)
  BY <1>2
<1> QED
  BY <1>3 DEF F

\* One more sequence is one more piece at the end.
LEMMA FlattenLonger ==
    ASSUME NEW S, NEW s \in Seq(S), NEW u \in Seq(S), NEW n \in Nat, n > 0, NEW m \in Nat, m = n + 1,
           Len(s) = n, Len(u) = m, \A i \in 1 .. n : s[i] = u[i]
    PROVE  FlattenSeq(u) = FlattenSeq(s) \o u[m]
<1>1. n <= m /\ n \in 1 .. n /\ m \in 1 .. m /\ m # 1 /\ m - 1 = n /\ m > 0
  OBVIOUS
<1>2. PICK f : Flattens(f, s, n)
  BY FlattensExists
<1>3. PICK g : Flattens(g, u, m)
  BY FlattensExists
<1>4. FlattenSeq(s) = f[n] /\ FlattenSeq(u) = g[m]
  <2>1. FlattenSeq(s) = f[Len(s)]
    BY <1>2, FlattenIs
  <2>2. FlattenSeq(u) = g[Len(u)]
    BY <1>1, <1>3, FlattenIs
  <2> QED
    BY <2>1, <2>2
<1>5. f[n] = g[n]
  BY <1>1, <1>2, <1>3, FlattensAgree
<1>6. g[m] = IF m = 1 THEN u[m] ELSE g[m - 1] \o u[m]
  <2>1. \A i \in 1 .. m : g[i] = IF i = 1 THEN u[i] ELSE g[i-1] \o u[i]
    BY <1>3, FlattensAt
  <2> QED
    BY <1>1, <2>1
<1> QED
  BY <1>1, <1>4, <1>5, <1>6

\* The last packet stands behind the others.
LEMMA LayoutAppend ==
    ASSUME NEW b \in Seq(Packets), NEW n \in Packets
    PROVE  Layout(Append(b, n)) = Layout(b) \o Cells(n)
<1> DEFINE s == [i \in DOMAIN b |-> Cells(b[i])]
           u == [i \in DOMAIN Append(b, n) |-> Cells(Append(b, n)[i])]
           S == Seq(Packets)
<1>1. /\ Len(b) \in Nat /\ DOMAIN b = 1 .. Len(b)
      /\ DOMAIN Append(b, n) = 1 .. Len(b) + 1
      /\ Append(b, n)[Len(b) + 1] = n
      /\ \A i \in 1 .. Len(b) : b[i] \in Packets /\ Append(b, n)[i] = b[i]
  OBVIOUS
<1>2. Layout(b) = FlattenSeq(s) /\ Layout(Append(b, n)) = FlattenSeq(u)
  BY DEF Layout, Cells
<1>3. s \in Seq(S) /\ Len(s) = Len(b)
  <2>1. \A i \in 1 .. Len(b) : Cells(b[i]) \in S
    BY <1>1, CellsType
  <2> HIDE DEF S
  <2> QED
    BY <1>1, <2>1
<1>4. u \in Seq(S) /\ Len(u) = Len(b) + 1
  <2>1. \A i \in 1 .. Len(b) + 1 : Append(b, n)[i] \in Packets
    BY <1>1
  <2>2. \A i \in 1 .. Len(b) + 1 : Cells(Append(b, n)[i]) \in S
    BY <2>1, CellsType
  <2> HIDE DEF S
  <2> QED
    BY <1>1, <2>2
<1>5. u[Len(b) + 1] = Cells(n) /\ \A i \in 1 .. Len(b) : s[i] = u[i]
  BY <1>1
<1> HIDE DEF s, u, S
<1>6. CASE Len(b) = 0
  <2>1. b = <<>> /\ Len(u) = 1 /\ u[1] = Cells(n)
    BY <1>4, <1>5, <1>6
  <2>2. FlattenSeq(u) = u[1]
    <3>1. PICK g : Flattens(g, u, 1)
      BY FlattensExists
    <3>2. g[1] = u[1]
      BY <3>1, FlattensAt
    <3>3. Flattens(g, u, Len(u)) /\ Len(u) > 0
      BY <2>1, <3>1
    <3>4. FlattenSeq(u) = g[Len(u)]
      BY <1>4, <3>3, FlattenIs
    <3> QED
      BY <2>1, <3>2, <3>4
  <2> QED
    BY <1>2, <2>1, <2>2, LayoutEmpty, CellsType, ConcatEmptySeq
<1>7. CASE Len(b) > 0
  <2>1. FlattenSeq(u) = FlattenSeq(s) \o u[Len(b) + 1]
    <3>1. Len(b) \in Nat /\ Len(b) + 1 \in Nat
      BY <1>1
    <3>2. PICK k \in Nat, m \in Nat : k = Len(b) /\ m = Len(b) + 1
      BY <3>1
    <3>3. FlattenSeq(u) = FlattenSeq(s) \o u[m]
      BY <1>3, <1>4, <1>5, <1>7, <3>2, FlattenLonger
    <3> QED
      BY <3>2, <3>3
  <2> QED
    BY <1>2, <1>5, <2>1
<1> QED
  BY <1>1, <1>6, <1>7

\* w is r with the cells of n written behind the first k.
Writes(w, r, n, k) == w = [i \in 1 .. Capacity |-> IF i - k \in 1 .. Size(n) THEN n ELSE r[i]]

\* Writing a packet's cells behind the first k makes the buffer's prefix longer by them.
LEMMA PacketWritten ==
    ASSUME PipelineAssumption, NEW n \in Packets, NEW k \in Nat, k + Size(n) <= Capacity,
           NEW r \in [1 .. Capacity -> 0 .. MaxPackets], NEW w, Writes(w, r, n, k)
    PROVE  SubSeq(w, 1, k + Size(n)) = SubSeq(r, 1, k) \o Cells(n)
<1> DEFINE D == 0 .. MaxPackets
           c == Capacity
           z == Size(n)
           cells == Cells(n)
           p == SubSeq(w, 1, k + z)
           q == SubSeq(r, 1, k)
<1>1. n \in D /\ Capacity \in Nat
  <2>1. n \in 1 .. MaxPackets /\ MaxPackets \in Nat
    BY PacketIs, Bounds
  <2> QED
    BY <2>1, Bounds
<1>2. Size(n) \in Nat
  BY SizeIs
<1>3. cells \in Seq(D) /\ Len(cells) = z /\ \A j \in 1 .. z : cells[j] = n
  <2> HIDE DEF D
  <2> QED
    BY <1>1, CellsType
<1>4. n \in D /\ c \in Nat /\ z \in Nat /\ k + z <= c
  BY <1>1, <1>2
<1>5. /\ r \in [1 .. c -> D] /\ w \in [1 .. c -> D]
      /\ \A i \in 1 .. c : w[i] = IF i - k \in 1 .. z THEN n ELSE r[i]
  <2> HIDE DEF D
  <2>1. r \in [1 .. Capacity -> D]
    BY DEF D
  <2>2. w \in [1 .. Capacity -> D]
    BY <1>1, <2>1 DEF Writes
  <2>3. \A i \in 1 .. Capacity : w[i] = IF i - k \in 1 .. Size(n) THEN n ELSE r[i]
    BY DEF Writes
  <2> QED
    BY <2>1, <2>2, <2>3
<1> HIDE DEF D, c, z, cells
<1>6. r \in Seq(D) /\ w \in Seq(D) /\ Len(r) = c /\ Len(w) = c /\ k <= c /\ k + z \in Nat
  <2>1. k <= c /\ k + z \in Nat
    BY <1>4
  <2> QED
    BY <1>4, <1>5, <2>1
<1>7. p \in Seq(D) /\ Len(p) = k + z /\ \A i \in 1 .. k + z : p[i] = w[i]
  <2>1. \A i \in 1 .. k + z : w[i] \in D
    BY <1>4, <1>5
  <2>2. p = [i \in 1 .. k + z |-> w[i]]
    BY <1>4, <1>6
  <2> QED
    BY <1>4, <1>6, <2>1, <2>2
<1>8. q \in Seq(D) /\ Len(q) = k /\ \A i \in 1 .. k : q[i] = r[i]
  <2>1. \A i \in 1 .. k : r[i] \in D
    BY <1>4, <1>5
  <2>2. q = [i \in 1 .. k |-> r[i]]
    BY <1>4, <1>6
  <2> QED
    BY <1>4, <1>6, <2>1, <2>2
<1> HIDE DEF p, q
<1>9. /\ q \o cells \in Seq(D) /\ Len(q \o cells) = k + z
      /\ \A i \in 1 .. k + z : (q \o cells)[i] = IF i <= k THEN q[i] ELSE cells[i - k]
  <2>1. /\ q \o cells \in Seq(D) /\ Len(q \o cells) = Len(q) + Len(cells)
        /\ \A i \in 1 .. Len(q) + Len(cells) :
              (q \o cells)[i] = IF i <= Len(q) THEN q[i] ELSE cells[i - Len(q)]
    BY <1>3, <1>8, ConcatProperties
  <2>2. Len(q) = k /\ Len(cells) = z
    BY <1>3, <1>8
  <2> QED
    BY <2>1, <2>2, Zenon
<1>10. ASSUME NEW i \in 1 .. k + z PROVE p[i] = (q \o cells)[i]
  <2>1. i \in 1 .. c
    BY <1>4
  <2>2. CASE i <= k
    <3>1. i \in 1 .. k /\ i - k \notin 1 .. z
      BY <1>4, <2>2
    <3> QED
      BY <1>5, <1>7, <1>8, <1>9, <2>1, <2>2, <3>1
  <2>3. CASE ~(i <= k)
    <3>1. i - k \in 1 .. z
      BY <1>4, <2>3
    <3> QED
      BY <1>5, <1>3, <1>7, <1>9, <2>1, <2>3, <3>1
  <2> QED
    BY <2>2, <2>3
<1>11. p = q \o cells
  BY <1>6, <1>7, <1>9, <1>10, SeqEqual
<1> QED
  BY <1>11 DEF p, q, cells, z

-----------------------------------------------------------------------------
(* A datagram is its packets.                                              *)

\* The set of sequences remembers the packets written.
BatchInv == IsInjective(batch) /\ cachedSequenceSet = ToSet(batch)

\* What a thread has written, and what is in flight, are the packets written, one behind
\* another from the start of the buffer.
BytesHold ==
    /\ \A t \in Threads : pc[t] = "stream" => SubSeq(rioSendBuffer, 1, totalSendSize[t]) = Layout(batch)
    /\ posted > 0 => SubSeq(rioSendBuffer, 1, posted) = Layout(batch)

BytesInv == skipped = {} => BytesHold

LEMMA BatchInit == ASSUME Init PROVE BatchInv /\ BytesInv
BY DEF Init, BatchInv, BytesInv, BytesHold, IsInjective, ToSet

LEMMA BatchStep ==
    ASSUME PipelineAssumption, TypeOK, BatchInv, [Next]_vars
    PROVE  BatchInv'
<1>1. ASSUME UNCHANGED <<batch, cachedSequenceSet>> PROVE BatchInv'
  BY <1>1 DEF BatchInv, IsInjective, ToSet
<1>2. ASSUME NEW t \in Threads, BeginStream(t) PROVE BatchInv'
  <2>1. CASE cachedSequenceSet' = {} /\ batch' = <<>>
    BY <2>1 DEF BatchInv, IsInjective, ToSet
  <2>2. CASE cachedSequenceSet' = {reservedSendPacketInfo} /\ batch' = <<reservedSendPacketInfo>>
    <3>1. DOMAIN batch' = {1} /\ batch'[1] = reservedSendPacketInfo
      BY <2>2
    <3> QED
      BY <2>2, <3>1 DEF BatchInv, IsInjective, ToSet
  <2> QED
    BY <1>2, <2>1, <2>2 DEF BeginStream, ReservedFirst
<1>3. ASSUME NEW t \in Threads, StoredToStream(t) PROVE BatchInv'
  <2> DEFINE n == Head(sendPacketInfoQueue)
  <2>1. n \in Packets
    BY <1>3 DEF StoredToStream, TryGetFrontAndPop, TypeOK
  <2> HIDE DEF n
  <2>2. CASE n \notin cachedSequenceSet /\ WriteAt(totalSendSize[t], n)
    <3>1. batch' = Append(batch, n) /\ cachedSequenceSet' = cachedSequenceSet \cup {n}
      BY <2>2 DEF WriteAt
    <3>2. batch \in Seq(Packets)
      BY DEF TypeOK
    <3>3. ToSet(batch') = cachedSequenceSet'
      BY <2>1, <3>1, <3>2, ToSetAppend DEF BatchInv
    <3>4. IsInjective(batch')
      BY <2>1, <2>2, <3>1, <3>2, InjectiveAppend DEF BatchInv
    <3> QED
      BY <3>3, <3>4 DEF BatchInv, IsInjective, ToSet
  <2> QED
    BY <1>1, <1>3, <2>2 DEF StoredToStream, n
<1> QED
  BY <1>1, <1>2, <1>3, ApartSteps DEF Apart, streamVars

\* A send that is posted takes what a thread has written; a posted send stays, or completes.
LEMMA PostedMoves ==
    ASSUME [Next]_vars
    PROVE  posted' \in {posted, 0} \/ \E t \in Threads : pc[t] = "stream" /\ posted' = totalSendSize[t]
<1>1. ASSUME NEW t \in Threads, Sending(t), ~TryRIOSend(t) PROVE UNCHANGED posted
  BY <1>1 DEF Sending, DoSend, Entered, GiveBack, Recheck, BeginStream, StoredToStream, NothingMade,
              DatagramDropped, SendFails
<1>2. ASSUME NEW t \in Threads, TryRIOSend(t)
      PROVE  pc[t] = "stream" /\ posted' = totalSendSize[t]
  BY <1>2 DEF TryRIOSend, StreamMade
<1> QED
  BY <1>1, <1>2 DEF Next, SendNewPacket, Retransmit, Push, SendIOCompleted, MarkSendPacketInfoErased,
                    Release, vars

LEMMA LayoutPrimed == Layout(batch)' = Layout(batch')
BY DEF Layout

\* The begun stream is empty, or is the packet held back.
LEMMA BeginBytes ==
    ASSUME PipelineAssumption, TypeOK, UserInv, NEW t \in Threads, BeginStream(t), skipped' = {}
    PROVE  BytesHold'
<1>1. \A u \in Threads : pc'[u] = "stream" => u = t
  BY GotoMoves DEF BeginStream, UserInv, InBuffer
<1>2. posted' = 0
  BY DEF BeginStream, UserInv, InBuffer
<1>3. SubSeq(rioSendBuffer', 1, totalSendSize'[t]) = Layout(batch')
  <2>1. CASE reservedSendPacketInfo = 0
    <3>1. totalSendSize'[t] = 0 /\ batch' = <<>>
      BY <2>1 DEF BeginStream, ReservedFirst, TypeOK
    <3>2. SubSeq(rioSendBuffer', 1, 0) = <<>>
      OBVIOUS
    <3> QED
      BY <3>1, <3>2, LayoutEmpty
  <2>2. CASE reservedSendPacketInfo # 0
    <3> DEFINE n == reservedSendPacketInfo
    <3>1. n \in Packets /\ n \in 0 .. MaxPackets
      BY <2>2 DEF TypeOK, Packets
    <3>2. /\ totalSendSize'[t] = Size(n) /\ batch' = <<n>>
          /\ rioSendBuffer' = [i \in 1 .. Capacity |-> IF i <= Size(n) THEN n ELSE rioSendBuffer[i]]
      BY <2>2 DEF BeginStream, ReservedFirst, TypeOK
    <3>3. Size(n) \in Nat /\ 0 + Size(n) = Size(n) /\ Size(n) <= Capacity /\ Capacity \in Nat
      BY SizeIs, Bounds
    <3> HIDE DEF n
    <3>4. rioSendBuffer' = [i \in 1 .. Capacity |->
                               IF i - 0 \in 1 .. Size(n) THEN n ELSE rioSendBuffer[i]]
      <4>1. \A i \in 1 .. Capacity : i <= Size(n) <=> i - 0 \in 1 .. Size(n)
        BY <3>3
      <4> QED
        BY <3>2, <4>1
    <3>5. rioSendBuffer \in [1 .. Capacity -> 0 .. MaxPackets] /\ 0 \in Nat
      BY DEF TypeOK
    <3>6. SubSeq(rioSendBuffer', 1, 0 + Size(n)) = SubSeq(rioSendBuffer, 1, 0) \o Cells(n)
      BY <3>1, <3>3, <3>4, <3>5, PacketWritten DEF Writes
    <3>7. Layout(Append(<<>>, n)) = <<>> \o Cells(n)
      <4>1. <<>> \in Seq(Packets)
        OBVIOUS
      <4> QED
        BY <3>1, <4>1, LayoutAppend, LayoutEmpty
    <3>8. Append(<<>>, n) = <<n>> /\ SubSeq(rioSendBuffer, 1, 0) = <<>>
      BY <3>1
    <3> QED
      BY <3>2, <3>3, <3>6, <3>7, <3>8
  <2> QED
    BY <2>1, <2>2
<1> QED
  BY <1>1, <1>2, <1>3, LayoutPrimed DEF BytesHold

\* A packet written goes behind those written before.
LEMMA StoredBytes ==
    ASSUME PipelineAssumption, TypeOK, UserInv, BytesHold, NEW t \in Threads, StoredToStream(t),
           skipped' = {}
    PROVE  BytesHold'
<1> DEFINE n == Head(sendPacketInfoQueue)
           k == totalSendSize[t]
<1>1. \A u \in Threads : pc'[u] = "stream" => u = t
  BY DEF StoredToStream, UserInv, InBuffer
<1>2. posted' = 0 /\ SubSeq(rioSendBuffer, 1, k) = Layout(batch)
  BY DEF StoredToStream, UserInv, InBuffer, BytesHold
<1>3. n \in Packets
  BY DEF StoredToStream, TryGetFrontAndPop, TypeOK
<1>4. k \in Nat /\ Size(n) \in Nat /\ Capacity \in Nat
  <2>1. k \in 0 .. Capacity
    BY DEF TypeOK
  <2>2. Size(n) \in {1, 2}
    BY SizeIs
  <2> HIDE DEF k, n
  <2> QED
    BY <2>1, <2>2, Bounds
<1> HIDE DEF n
<1>5. SubSeq(rioSendBuffer', 1, totalSendSize'[t]) = Layout(batch')
  <2>1. CASE UNCHANGED <<rioSendBuffer, batch, totalSendSize>>
    BY <1>2, <2>1
  <2>2. CASE Fits(t, n) /\ totalSendSize' = [totalSendSize EXCEPT ![t] = @ + Size(n)] /\ WriteAt(k, n)
    <3>1. totalSendSize'[t] = k + Size(n) /\ k + Size(n) <= Capacity /\ batch' = Append(batch, n)
      BY <2>2 DEF TypeOK, WriteAt, Fits
    <3>2. rioSendBuffer' = [i \in 1 .. Capacity |->
                               IF i - k \in 1 .. Size(n) THEN n ELSE rioSendBuffer[i]]
      BY <2>2 DEF WriteAt
    <3>3. rioSendBuffer \in [1 .. Capacity -> 0 .. MaxPackets]
      BY DEF TypeOK
    <3> HIDE DEF k
    <3>4. SubSeq(rioSendBuffer', 1, k + Size(n)) = SubSeq(rioSendBuffer, 1, k) \o Cells(n)
      BY <1>3, <1>4, <3>1, <3>2, <3>3, PacketWritten DEF Writes
    <3>5. Layout(Append(batch, n)) = Layout(batch) \o Cells(n)
      BY <1>3, LayoutAppend DEF TypeOK
    <3> QED
      BY <1>2, <3>1, <3>4, <3>5
  <2> QED
    BY <2>1, <2>2 DEF StoredToStream, n
<1> QED
  BY <1>1, <1>2, <1>5, LayoutPrimed DEF BytesHold

LEMMA BytesStep ==
    ASSUME PipelineAssumption, TypeOK, UserInv, BytesInv, [Next]_vars
    PROVE  BytesInv'
<1> SUFFICES ASSUME skipped' = {} PROVE BytesHold'
  BY DEF BytesInv
<1>1. ASSUME Apart PROVE BytesHold'
  <2>1. UNCHANGED <<rioSendBuffer, batch, totalSendSize>> /\ Layout(batch)' = Layout(batch)
    BY <1>1 DEF Apart, streamVars, Layout
  <2>2. \A t \in Threads : pc'[t] = "stream" => pc[t] = "stream"
    BY <1>1 DEF Apart
  <2>3. BytesHold
    BY <1>1 DEF Apart, streamVars, BytesInv
  <2>4. posted' > 0 => SubSeq(rioSendBuffer, 1, posted') = Layout(batch)
    BY <2>3, PostedMoves DEF BytesHold
  <2> QED
    BY <2>1, <2>2, <2>3, <2>4 DEF BytesHold
<1>2. ASSUME NEW t \in Threads, StoredToStream(t) PROVE BytesHold'
  <2>1. skipped = {}
    BY <1>2 DEF StoredToStream
  <2> QED
    BY <1>2, <2>1, StoredBytes DEF BytesInv
<1> QED
  BY <1>1, <1>2, BeginBytes, ApartSteps

\* No packet is written twice into a datagram; and its bytes are those of its packets, whole, in
\* the order they were taken, and nothing of an earlier datagram, unless one of them was found
\* acknowledged while it was made.  (What that one breaks is the finding StaleBytes.)
THEOREM DatagramIsWhole ==
    ASSUME PipelineAssumption
    PROVE  Spec => [](IsInjective(batch) /\ DatagramWholeUnlessSkipped)
<1>1. Init => TypeOK /\ UserInv /\ BatchInv /\ BytesInv
  BY InitType, UserInit, BatchInit
<1>2. TypeOK /\ UserInv /\ BatchInv /\ BytesInv /\ [Next]_vars
          => (TypeOK /\ UserInv /\ BatchInv /\ BytesInv)'
  BY TypeStep, UserStep, BatchStep, BytesStep
<1>3. BatchInv /\ BytesInv => IsInjective(batch) /\ DatagramWholeUnlessSkipped
  BY DEF BatchInv, BytesInv, BytesHold, DatagramWholeUnlessSkipped, DatagramIsItsPackets
<1> QED
  BY <1>1, <1>2, <1>3, PTL DEF Spec

=============================================================================
