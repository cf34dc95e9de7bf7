-------------------------- MODULE SendWindow_proofs ---------------------------
(***************************************************************************)
(* For any number of content threads, any windows and any number of        *)
(* packets: the congestion window keeps its bounds although two threads    *)
(* write it without a lock, its base is the highest reply, and nothing is  *)
(* sent beyond the largest window above it.                                *)
(***************************************************************************)
EXTENDS SendWindow, SequenceTheorems, FiniteSetTheorems, WellFoundedInduction, TLAPS

-----------------------------------------------------------------------------
(* Maxima.                                                                 *)

LEMMA MaxIs ==
    ASSUME NEW S \in SUBSET Int, NEW m \in S, \A n \in S : n <= m
    PROVE  Max(S) = m
<1>1. \A x \in S : (\A y \in S : x >= y) <=> x = m
  OBVIOUS
<1> QED
  BY <1>1 DEF Max

Less == {p \in Nat \X Nat : p[1] < p[2]}

LEMMA LessWellFounded == IsWellFoundedOn(Less, Nat)
BY NatLessThanWellFounded DEF OpToRel, Less

LEMMA BoundedHasMax ==
    ASSUME NEW bound \in Nat, NEW S \in SUBSET (0 .. bound), S # {}
    PROVE  Max(S) \in S
<1> DEFINE T == {bound - n : n \in S}
<1>1. \A n \in S : n \in Int /\ bound - n \in Nat
  OBVIOUS
<1>6. \A n \in S : bound - n \in T
  OBVIOUS
<1>2. T \in SUBSET Nat /\ T # {}
  BY <1>1, <1>6
<1> HIDE DEF T
<1>3. PICK t \in T : \A u \in T : t <= u
  <2>1. PICK t \in T : \A u \in T : <<u, t>> \notin Less
    BY <1>2, LessWellFounded, WFMin
  <2>2. \A u \in Nat, v \in Nat : u < v => <<u, v>> \in Less
    BY DEF Less
  <2>3. \A u \in T : u \in Nat
    BY <1>2
  <2>4. ASSUME NEW u \in T PROVE t <= u
    <3>1. u \in Nat /\ t \in Nat /\ ~(u < t)
      BY <2>1, <2>2, <2>3
    <3> QED
      BY <3>1
  <2> QED
    BY <2>4
<1>4. PICK m \in S : t = bound - m
  BY DEF T
<1>5. \A n \in S : n <= m
  BY <1>1, <1>3, <1>4, <1>6
<1> QED
  BY <1>1, <1>4, <1>5, MaxIs

LEMMA HalvedIs ==
    ASSUME WindowAssumption, NEW window \in 1 .. MaxCwnd
    PROVE  Halved(window) \in 1 .. MaxCwnd /\ Halved(window) <= window
<1>1. window \div 2 \in 0 .. window
  OBVIOUS
<1>2. CASE window \div 2 >= 1
  <2>1. Max({window \div 2, 1}) = window \div 2
    BY <1>1, <1>2, MaxIs
  <2> QED
    BY <1>1, <1>2, <2>1 DEF Halved, WindowAssumption
<1>3. CASE ~(window \div 2 >= 1)
  <2>1. Max({window \div 2, 1}) = 1
    BY <1>1, <1>3, MaxIs
  <2> QED
    BY <1>1, <1>3, <2>1 DEF Halved, WindowAssumption
<1> QED
  BY <1>2, <1>3

LEMMA GrownIs ==
    ASSUME WindowAssumption, NEW window \in 1 .. MaxCwnd
    PROVE  Grown(window) \in 1 .. MaxCwnd
BY DEF Grown, Min, WindowAssumption

-----------------------------------------------------------------------------
(* The invariant.                                                          *)

\* TypeOK in two parts: the provers take Booleans and numbers best apart.
NumbersOK ==
    /\ lastSendPacketSequence \in 0 .. MaxSent
    /\ pc \in [Threads -> {"idle", "checked", "numbered", "immediate"}]
    /\ inHand \in [Threads -> 0 .. MaxSent]
    /\ pendingPacketQueue \in Seq(1 .. MaxSent)
    /\ sendPacketInfoMap \subseteq 1 .. MaxSent
    /\ cwnd \in Nat /\ lastReplySequence \in 0 .. MaxSent
    /\ workerPc \in {"idle", "window", "grow", "flush", "sending"}
    /\ workerCwnd \in Nat /\ timeoutCwnd \in Nat
    /\ sendBuffers \in Seq(1 .. MaxSent)
    /\ heartbeats \subseteq 1 .. MaxSent /\ sentAsCore \subseteq 1 .. MaxSent
    /\ acked \subseteq 1 .. MaxSent

BooleansOK == inRecovery \in BOOLEAN /\ closed \in BOOLEAN

LEMMA TypesAre == TypeOK <=> NumbersOK /\ BooleansOK
BY DEF TypeOK, NumbersOK, BooleansOK

\* The highest reply, as a bound instead of a maximum.
BaseInv ==
    /\ lastReplySequence \in acked \cup {0}
    /\ \A n \in acked : n <= lastReplySequence

\* A sequence flow control has let through.
InWindow(n) == n <= lastReplySequence + MaxCwnd

\* Everything past the pending queue was let through; a thread that holds a number
\* holds a real one, and the worker sends from a batch that is not empty.
SentInv ==
    /\ \A n \in sendPacketInfoMap : InWindow(n)
    /\ \A i \in DOMAIN sendBuffers : InWindow(sendBuffers[i])
    /\ \A t \in Threads : pc[t] = "immediate" => InWindow(inHand[t])
    /\ \A t \in Threads : pc[t] \in {"numbered", "immediate"} => inHand[t] # 0
    /\ workerPc = "sending" => sendBuffers # <<>>

Inv == NumbersOK /\ BooleansOK /\ CwndBounded /\ BaseInv /\ SentInv

Assumptions == WindowAssumption /\ SendersAssumption /\ BoundsAssumption

LEMMA InitInv ==
    ASSUME Assumptions, Init
    PROVE  Inv
<1> USE DEF Assumptions, WindowAssumption, BoundsAssumption
<1>1. <<>> \in Seq(1 .. MaxSent) /\ DOMAIN <<>> = {}
  OBVIOUS
<1>2. NumbersOK
  BY <1>1 DEF Init, NumbersOK
<1>2b. BooleansOK
  BY <1>1 DEF Init, BooleansOK
<1>3. CwndBounded
  BY DEF Init, CwndBounded
<1>4. BaseInv
  BY DEF Init, BaseInv
<1>5. SentInv
  BY <1>1 DEF Init, SentInv
<1> QED
  BY <1>2, <1>3, <1>4, <1>5, <1>2b DEF Inv

\* What flow control lets through is in the largest window.
LEMMA CanSendIsInWindow ==
    ASSUME Assumptions, Inv, NEW n \in 1 .. MaxSent, CanSend(n)
    PROVE  InWindow(n)
BY DEF Assumptions, WindowAssumption, BoundsAssumption, Inv, NumbersOK, CwndBounded, CanSend, InWindow

-----------------------------------------------------------------------------
(* The sending threads.                                                    *)

LEMMA NumberingKeeps ==
    ASSUME Assumptions, Inv, NEW t \in Threads,
           SendPacket(t) \/ SendHeartbeatPacket(t) \/ NumberHeartbeat(t)
    PROVE  Inv'
<1> USE DEF Assumptions, BoundsAssumption
<1>1. UNCHANGED <<flowVars, workerVars, queueVars, timeoutCwnd, closed>>
  BY DEF SendPacket, SendHeartbeatPacket, NumberHeartbeat
<1>2. \/ /\ lastSendPacketSequence' = lastSendPacketSequence /\ inHand' = inHand
         /\ heartbeats' = heartbeats /\ pc' = [pc EXCEPT ![t] = "checked"]
      \/ /\ lastSendPacketSequence < MaxSent
         /\ lastSendPacketSequence' = lastSendPacketSequence + 1
         /\ inHand' = [inHand EXCEPT ![t] = lastSendPacketSequence + 1]
         /\ pc' = [pc EXCEPT ![t] = "numbered"]
         /\ \/ heartbeats' = heartbeats
            \/ heartbeats' = heartbeats \cup {lastSendPacketSequence + 1}
  BY DEF SendPacket, SendHeartbeatPacket, NumberHeartbeat, IncrementLastSendPacketSequence
<1>3. NumbersOK'
  <2>1. UNCHANGED <<pendingPacketQueue, sendPacketInfoMap, cwnd, lastReplySequence, workerPc,
                    workerCwnd, timeoutCwnd, sendBuffers, sentAsCore, acked>>
    BY <1>1 DEF flowVars, workerVars, queueVars
  <2>2. lastSendPacketSequence \in 0 .. MaxSent
    BY DEF Inv, NumbersOK
  <2>3. lastSendPacketSequence < MaxSent => lastSendPacketSequence + 1 \in 1 .. MaxSent
    BY <2>2
  <2>4. lastSendPacketSequence' \in 0 .. MaxSent /\ heartbeats' \subseteq 1 .. MaxSent
    <3>1. heartbeats \subseteq 1 .. MaxSent
      BY DEF Inv, NumbersOK
    <3>2. CASE UNCHANGED <<lastSendPacketSequence, heartbeats>>
      BY <2>2, <3>1, <3>2
    <3>3. CASE /\ lastSendPacketSequence < MaxSent
               /\ lastSendPacketSequence' = lastSendPacketSequence + 1
      <4>1. lastSendPacketSequence + 1 \in 1 .. MaxSent
        BY <2>3, <3>3
      <4>2. \/ heartbeats' = heartbeats
            \/ heartbeats' = heartbeats \cup {lastSendPacketSequence + 1}
        BY <1>2
      <4>3. lastSendPacketSequence' \in 0 .. MaxSent
        BY <3>3, <4>1
      <4>4. heartbeats' \subseteq 1 .. MaxSent
        BY <3>1, <4>1, <4>2
      <4> QED
        BY <4>3, <4>4
    <3> QED
      BY <1>2, <3>2, <3>3
  <2>5. pc' \in [Threads -> {"idle", "checked", "numbered", "immediate"}]
    BY <1>2 DEF Inv, NumbersOK
  <2>6. inHand' \in [Threads -> 0 .. MaxSent]
    BY <1>2, <2>2, <2>3 DEF Inv, NumbersOK
  <2> QED
    BY <2>1, <2>4, <2>5, <2>6 DEF Inv, NumbersOK
<1>3b. BooleansOK'
  BY <1>1, <1>2 DEF Inv, BooleansOK, flowVars, workerVars, queueVars
<1>4. CwndBounded' /\ BaseInv'
  BY <1>1 DEF Inv, CwndBounded, BaseInv, flowVars, workerVars
<1>5. SentInv'
  BY <1>1, <1>2 DEF Inv, NumbersOK, SentInv, InWindow, flowVars, workerVars, queueVars
<1> QED
  BY <1>3, <1>4, <1>5, <1>3b DEF Inv

LEMMA QueueingKeeps ==
    ASSUME Assumptions, Inv, NEW t \in Threads, SendOrQueue(t)
    PROVE  Inv'
<1> USE DEF Assumptions, BoundsAssumption
<1>1. inHand[t] \in 1 .. MaxSent /\ pc[t] = "numbered"
  BY DEF SendOrQueue, Inv, NumbersOK, SentInv
<1>2. UNCHANGED <<flowVars, workerVars, sendPacketInfoMap, sentAsCore, timeoutCwnd>>
  BY DEF SendOrQueue
<1>3. CwndBounded' /\ BaseInv'
  BY <1>2 DEF Inv, CwndBounded, BaseInv, flowVars, workerVars
<1>4. CASE ~MustWait(inHand[t])
  <2>1. /\ pc' = [pc EXCEPT ![t] = "immediate"]
        /\ UNCHANGED <<lastSendPacketSequence, inHand, heartbeats, pendingPacketQueue, closed>>
        /\ InWindow(inHand[t])
    BY <1>1, <1>4, CanSendIsInWindow DEF SendOrQueue, MustWait
  <2>2. NumbersOK'
    BY <1>2, <2>1 DEF Inv, NumbersOK, flowVars, workerVars
  <2>2b. BooleansOK'
    BY <1>2, <2>1 DEF Inv, BooleansOK, flowVars, workerVars
  <2>3. SentInv'
    BY <1>1, <1>2, <2>1 DEF Inv, NumbersOK, SentInv, InWindow, flowVars, workerVars
  <2> QED
    BY <1>3, <2>2, <2>3, <2>2b DEF Inv
<1>5. CASE MustWait(inHand[t])
  <2>1. /\ Idle(t)
        /\ \/ closed' = TRUE /\ UNCHANGED pendingPacketQueue
           \/ pendingPacketQueue' = Append(pendingPacketQueue, inHand[t]) /\ UNCHANGED closed
    BY <1>5 DEF SendOrQueue
  <2>2. pendingPacketQueue' \in Seq(1 .. MaxSent)
    <3>1. pendingPacketQueue \in Seq(1 .. MaxSent)
      BY DEF Inv, NumbersOK
    <3>2. Append(pendingPacketQueue, inHand[t]) \in Seq(1 .. MaxSent)
      BY <1>1, <3>1, AppendProperties
    <3> QED
      BY <2>1, <3>1, <3>2
  <2>3. NumbersOK'
    BY <1>2, <2>1, <2>2 DEF Inv, NumbersOK, Idle, flowVars, workerVars
  <2>3b. BooleansOK'
    BY <1>2, <2>1, <2>2 DEF Inv, BooleansOK, Idle, flowVars, workerVars
  <2>4. SentInv'
    BY <1>2, <2>1 DEF Inv, NumbersOK, SentInv, InWindow, Idle, flowVars, workerVars
  <2> QED
    BY <1>3, <2>3, <2>4, <2>3b DEF Inv
<1> QED
  BY <1>4, <1>5

LEMMA SendingKeeps ==
    ASSUME Assumptions, Inv, NEW t \in Threads, SendNow(t)
    PROVE  Inv'
<1> USE DEF Assumptions, BoundsAssumption
<1>1. inHand[t] \in 1 .. MaxSent /\ InWindow(inHand[t])
  BY DEF SendNow, Inv, NumbersOK, SentInv
<1>2. /\ UNCHANGED <<pendingPacketQueue, flowVars, workerVars, timeoutCwnd, closed>>
      /\ sendPacketInfoMap' = sendPacketInfoMap \cup {inHand[t]}
      /\ sentAsCore' \in {sentAsCore, sentAsCore \cup {inHand[t]}}
      /\ Idle(t)
  BY DEF SendNow, SendPacketImmediate
<1>3. NumbersOK'
  <2>1. pc' \in [Threads -> {"idle", "checked", "numbered", "immediate"}]
        /\ inHand' \in [Threads -> 0 .. MaxSent]
    BY <1>2 DEF Inv, NumbersOK, Idle
  <2>2. sendPacketInfoMap' \subseteq 1 .. MaxSent /\ sentAsCore' \subseteq 1 .. MaxSent
    BY <1>1, <1>2 DEF Inv, NumbersOK
  <2>3. UNCHANGED <<lastSendPacketSequence, heartbeats, pendingPacketQueue, cwnd,
                    lastReplySequence, workerPc, workerCwnd, timeoutCwnd, sendBuffers, acked>>
    BY <1>2 DEF Idle, flowVars, workerVars
  <2> QED
    BY <2>1, <2>2, <2>3 DEF Inv, NumbersOK
<1>3b. BooleansOK'
  BY <1>1, <1>2 DEF Inv, BooleansOK, Idle, flowVars, workerVars
<1>4. CwndBounded' /\ BaseInv'
  BY <1>2 DEF Inv, CwndBounded, BaseInv, flowVars, workerVars
<1>5. SentInv'
  BY <1>1, <1>2 DEF Inv, NumbersOK, SentInv, InWindow, Idle, flowVars, workerVars
<1> QED
  BY <1>3, <1>4, <1>5, <1>3b DEF Inv

-----------------------------------------------------------------------------
(* The logic worker.                                                       *)

LEMMA ReplyKeeps ==
    ASSUME Assumptions, Inv, NEW n \in 1 .. MaxSent, OnSendReply(n)
    PROVE  Inv'
<1> USE DEF Assumptions, WindowAssumption, BoundsAssumption
<1>1. /\ n \in sendPacketInfoMap /\ workerPc = "idle"
      /\ sendPacketInfoMap' = sendPacketInfoMap \ {n} /\ acked' = acked \cup {n}
      /\ UNCHANGED <<senderVars, pendingPacketQueue, sentAsCore, workerCwnd, sendBuffers,
                     timeoutCwnd, closed>>
  BY DEF OnSendReply
<1>2. CASE n - lastReplySequence <= 0
  <2>1. workerPc' = "flush" /\ UNCHANGED flowVars
    BY <1>2 DEF OnSendReply, AcceptReply
  <2>2. NumbersOK'
    BY <1>1, <2>1 DEF Inv, NumbersOK, senderVars, flowVars
  <2>2b. BooleansOK'
    BY <1>1, <2>1 DEF Inv, BooleansOK, senderVars, flowVars
  <2>3. CwndBounded'
    BY <1>1, <2>1 DEF Inv, CwndBounded, flowVars
  <2>4. BaseInv'
    BY <1>1, <1>2, <2>1 DEF Inv, NumbersOK, BaseInv, flowVars
  <2>5. SentInv'
    BY <1>1, <2>1 DEF Inv, SentInv, InWindow, senderVars, flowVars
  <2> QED
    BY <2>2, <2>3, <2>4, <2>5, <2>2b DEF Inv
<1>3. CASE ~(n - lastReplySequence <= 0)
  <2>1. /\ workerPc' = "window" /\ lastReplySequence' = n
        /\ cwnd' \in {cwnd, Halved(cwnd)} /\ inRecovery' \in {inRecovery, TRUE}
    BY <1>3 DEF OnSendReply, AcceptReply
  <2>2. cwnd' \in 1 .. MaxCwnd
    BY <2>1, HalvedIs DEF Inv, CwndBounded
  <2>3. NumbersOK'
    BY <1>1, <2>1, <2>2 DEF Inv, NumbersOK, senderVars
  <2>3b. BooleansOK'
    BY <1>1, <2>1, <2>2 DEF Inv, BooleansOK, senderVars
  <2>4. CwndBounded'
    BY <1>1, <2>1, <2>2 DEF Inv, CwndBounded
  <2>5. BaseInv'
    BY <1>1, <1>3, <2>1 DEF Inv, NumbersOK, BaseInv
  <2>6. \A k \in 1 .. MaxSent : InWindow(k) => InWindow(k)'
    BY <1>3, <2>1 DEF Inv, NumbersOK, InWindow
  <2>7. \A i \in DOMAIN sendBuffers : sendBuffers[i] \in 1 .. MaxSent
    BY ElementOfSeq, LenProperties DEF Inv, NumbersOK
  <2>8. SentInv'
    <3>1. \A k \in sendPacketInfoMap' : InWindow(k)'
      BY <1>1, <2>6 DEF Inv, NumbersOK, SentInv
    <3>2. \A i \in DOMAIN sendBuffers : InWindow(sendBuffers[i])'
      BY <1>1, <2>6, <2>7 DEF Inv, SentInv, InWindow
    <3>3. \A t \in Threads : pc[t] = "immediate" => InWindow(inHand[t])'
      <4> SUFFICES ASSUME NEW t \in Threads, pc[t] = "immediate" PROVE InWindow(inHand[t])'
        OBVIOUS
      <4>1. inHand[t] \in 1 .. MaxSent /\ InWindow(inHand[t])
        BY DEF Inv, NumbersOK, SentInv
      <4> QED
        BY <1>1, <2>6, <4>1 DEF InWindow, senderVars
    <3> QED
      BY <1>1, <2>1, <3>1, <3>2, <3>3 DEF Inv, SentInv, InWindow, senderVars
  <2> QED
    BY <2>3, <2>4, <2>5, <2>8, <2>3b DEF Inv
<1> QED
  BY <1>2, <1>3

LEMMA CwndKeeps ==
    ASSUME Assumptions, Inv, ReadCwnd \/ WriteCwnd \/ TimeoutReads \/ OnTimeout
    PROVE  Inv'
<1> USE DEF Assumptions, WindowAssumption, BoundsAssumption
<1>1. /\ UNCHANGED <<senderVars, lastReplySequence, sendBuffers, acked, queueVars, closed>>
      /\ workerPc' \in {workerPc, "flush", "grow"}
  BY DEF ReadCwnd, WriteCwnd, TimeoutReads, OnTimeout, flowVars, workerVars
<1>2. CwndBounded' /\ cwnd' \in Nat /\ workerCwnd' \in Nat /\ timeoutCwnd' \in Nat
  <2>1. CASE ReadCwnd
    BY <2>1 DEF Inv, NumbersOK, CwndBounded, ReadCwnd
  <2>2. CASE WriteCwnd
    BY <2>2, GrownIs DEF Inv, NumbersOK, CwndBounded, WriteCwnd
  <2>3. CASE TimeoutReads
    BY <2>3 DEF Inv, NumbersOK, CwndBounded, TimeoutReads, flowVars, workerVars
  <2>4. CASE OnTimeout
    BY <2>4, HalvedIs DEF Inv, NumbersOK, CwndBounded, OnTimeout, workerVars
  <2> QED
    BY <2>1, <2>2, <2>3, <2>4
<1>3. NumbersOK'
  BY <1>1, <1>2 DEF Inv, NumbersOK, senderVars, queueVars
<1>3b. BooleansOK'
  BY <1>1, <1>2 DEF Inv, BooleansOK, ReadCwnd, WriteCwnd, TimeoutReads, OnTimeout, flowVars
<1>4. BaseInv'
  BY <1>1 DEF Inv, BaseInv
<1>5. SentInv'
  BY <1>1 DEF Inv, SentInv, InWindow, senderVars, queueVars
<1> QED
  BY <1>2, <1>3, <1>4, <1>5, <1>3b DEF Inv

\* The batch is the longest front of the pending queue flow control lets through.
LEMMA FlushTakes ==
    ASSUME Assumptions, Inv, TryFlushPendingQueue
    PROVE  \E k \in 0 .. Len(pendingPacketQueue) :
              /\ sendBuffers' = SubSeq(pendingPacketQueue, 1, k)
              /\ pendingPacketQueue' =
                    SubSeq(pendingPacketQueue, k + 1, Len(pendingPacketQueue))
              /\ workerPc' = IF k = 0 THEN "idle" ELSE "sending"
              /\ \A i \in 1 .. k : CanSend(pendingPacketQueue[i])
<1> DEFINE S == {k \in 0 .. Len(pendingPacketQueue) :
                    \A i \in 1 .. k : CanSend(pendingPacketQueue[i])}
<1>1. Len(pendingPacketQueue) \in Nat
  BY LenProperties DEF Inv, NumbersOK
<1>2. 0 \in S
  BY <1>1
<1>3. Max(S) \in S
  BY <1>1, <1>2, BoundedHasMax
<1> QED
  BY <1>3 DEF TryFlushPendingQueue

LEMMA FlushKeeps ==
    ASSUME Assumptions, Inv, TryFlushPendingQueue
    PROVE  Inv'
<1> USE DEF Assumptions, BoundsAssumption
<1>1. UNCHANGED <<senderVars, flowVars, sendPacketInfoMap, sentAsCore, workerCwnd,
                  acked, timeoutCwnd, closed>>
  BY DEF TryFlushPendingQueue
<1> DEFINE q == pendingPacketQueue
<1>2. PICK k \in 0 .. Len(q) :
              /\ sendBuffers' = SubSeq(q, 1, k)
              /\ q' = SubSeq(q, k + 1, Len(q))
              /\ workerPc' = IF k = 0 THEN "idle" ELSE "sending"
              /\ \A i \in 1 .. k : CanSend(q[i])
  BY FlushTakes
<1>3. q \in Seq(1 .. MaxSent) /\ Len(q) \in Nat /\ \A i \in 1 .. Len(q) : q[i] \in 1 .. MaxSent
  BY LenProperties, ElementOfSeq DEF Inv, NumbersOK
<1>4. /\ sendBuffers' \in Seq(1 .. MaxSent) /\ Len(sendBuffers') = k
      /\ \A i \in 1 .. k : sendBuffers'[i] = q[i]
      /\ q' \in Seq(1 .. MaxSent)
  BY <1>2, <1>3, SubSeqProperties
<1>5. DOMAIN sendBuffers' = 1 .. k
  BY <1>4, LenProperties
<1>6. \A i \in 1 .. k : InWindow(sendBuffers'[i])
  BY <1>2, <1>3, <1>4, CanSendIsInWindow
<1>7. NumbersOK'
  BY <1>1, <1>2, <1>4 DEF Inv, NumbersOK, senderVars, flowVars
<1>7b. BooleansOK'
  BY <1>1, <1>2, <1>4 DEF Inv, BooleansOK, senderVars, flowVars
<1>8. CwndBounded' /\ BaseInv'
  BY <1>1, <1>2 DEF Inv, CwndBounded, BaseInv, flowVars
<1>9. SentInv'
  <2>1. \A i \in DOMAIN sendBuffers' : InWindow(sendBuffers[i])'
    BY <1>1, <1>5, <1>6 DEF InWindow, flowVars
  <2>2. workerPc' = "sending" => sendBuffers' # <<>>
    BY <1>2, <1>4, <1>5
  <2> QED
    BY <1>1, <2>1, <2>2 DEF Inv, SentInv, InWindow, senderVars, flowVars
<1> QED
  BY <1>7, <1>8, <1>9, <1>7b DEF Inv

LEMMA FlushedKeeps ==
    ASSUME Assumptions, Inv, SendFlushed
    PROVE  Inv'
<1> USE DEF Assumptions, BoundsAssumption
<1> DEFINE b == sendBuffers
<1>1. b \in Seq(1 .. MaxSent) /\ b # <<>>
  BY DEF SendFlushed, Inv, NumbersOK, SentInv
<1>2. /\ sendPacketInfoMap' = sendPacketInfoMap \cup {Head(b)} /\ sentAsCore' = sentAsCore
      /\ b' = Tail(b)
      /\ workerPc' = IF Len(b) = 1 THEN "idle" ELSE "sending"
      /\ UNCHANGED <<senderVars, flowVars, pendingPacketQueue, workerCwnd, acked,
                     timeoutCwnd, closed>>
  BY DEF SendFlushed, SendPacketImmediate
<1>3. /\ Len(b) \in Nat \ {0} /\ DOMAIN b = 1 .. Len(b) /\ Head(b) = b[1]
      /\ Head(b) \in 1 .. MaxSent
  BY <1>1, LenProperties, HeadTailProperties, EmptySeq
<1>4. /\ b' \in Seq(1 .. MaxSent) /\ Len(b') = Len(b) - 1
      /\ \A i \in 1 .. Len(b') : b'[i] = b[i + 1]
  BY <1>1, <1>2, <1>3, HeadTailProperties
<1>5. InWindow(Head(b)) /\ \A i \in 1 .. Len(b') : InWindow(b'[i])
  <2>1. \A i \in 1 .. Len(b) : InWindow(b[i])
    BY <1>3 DEF Inv, SentInv
  <2>2. 1 \in 1 .. Len(b) /\ \A i \in 1 .. Len(b') : i + 1 \in 1 .. Len(b)
    BY <1>3, <1>4
  <2> QED
    BY <1>3, <1>4, <2>1, <2>2
<1>6. NumbersOK'
  BY <1>2, <1>3, <1>4 DEF Inv, NumbersOK, senderVars, flowVars
<1>6b. BooleansOK'
  BY <1>2, <1>3, <1>4 DEF Inv, BooleansOK, senderVars, flowVars
<1>7. CwndBounded' /\ BaseInv'
  BY <1>2 DEF Inv, CwndBounded, BaseInv, flowVars
<1>8. SentInv'
  <2>1. DOMAIN b' = 1 .. Len(b')
    BY <1>4, LenProperties
  <2>2. \A i \in DOMAIN b' : InWindow(b[i])'
    BY <1>2, <1>5, <2>1 DEF InWindow, flowVars
  <2>3. workerPc' = "sending" => b' # <<>>
    <3>1. b' = <<>> => Len(b') = 0
      BY EmptySeq
    <3> QED
      BY <1>2, <1>3, <1>4, <3>1
  <2>4. \A n \in sendPacketInfoMap' : InWindow(n)'
    BY <1>2, <1>5 DEF Inv, SentInv, InWindow, flowVars
  <2> QED
    BY <1>2, <2>2, <2>3, <2>4 DEF Inv, SentInv, InWindow, senderVars, flowVars
<1> QED
  BY <1>6, <1>7, <1>8, <1>6b DEF Inv

-----------------------------------------------------------------------------
LEMMA StepKeeps ==
    ASSUME Assumptions, Inv, [Next]_vars
    PROVE  Inv'
<1>1. ASSUME NEW t \in Threads, Sender(t) PROVE Inv'
  BY <1>1, NumberingKeeps, QueueingKeeps, SendingKeeps DEF Sender
<1>2. ASSUME NEW n \in 1 .. MaxSent, OnSendReply(n) PROVE Inv'
  BY <1>2, ReplyKeeps
<1>3. CASE Worker \/ Retransmission
  BY <1>3, CwndKeeps, FlushKeeps, FlushedKeeps DEF Worker, Retransmission
<1>4. CASE DoDisconnect \/ UNCHANGED vars
  <2>1. /\ UNCHANGED <<senderVars, flowVars, workerVars, queueVars, timeoutCwnd>>
        /\ closed' \in {closed, TRUE}
    BY <1>4 DEF DoDisconnect, vars
  <2> QED
    <3>1. NumbersOK'
      BY <2>1 DEF Inv, NumbersOK, senderVars, flowVars, workerVars, queueVars
    <3>2. BooleansOK'
      BY <2>1 DEF Inv, BooleansOK, flowVars
    <3>3. CwndBounded' /\ BaseInv'
      BY <2>1 DEF Inv, CwndBounded, BaseInv, flowVars, workerVars
    <3>4. SentInv'
      BY <2>1 DEF Inv, SentInv, InWindow, senderVars, flowVars, workerVars, queueVars
    <3> QED
      BY <3>1, <3>2, <3>3, <3>4 DEF Inv
<1> QED
  BY <1>1, <1>2, <1>3, <1>4 DEF Next

LEMMA Invariance ==
    ASSUME Assumptions
    PROVE  Spec => []Inv
<1>1. Init => Inv
  BY InitInv
<1>2. Inv /\ [Next]_vars => Inv'
  BY StepKeeps
<1> QED
  BY <1>1, <1>2, PTL DEF Spec

\* The state of the send side keeps its types whatever threads send, reply and time out.
THEOREM TypeCorrect ==
    ASSUME Assumptions
    PROVE  Spec => []TypeOK
<1>1. Inv => TypeOK
  BY TypesAre DEF Inv
<1> QED
  BY <1>1, Invariance, PTL

\* However OnReplyReceived and OnTimeout overtake each other on the plain field cwnd, it
\* stays between 1 and MAX_CWND.
THEOREM WindowBounded ==
    ASSUME Assumptions
    PROVE  Spec => []CwndBounded
<1>1. Inv => CwndBounded
  BY DEF Inv
<1> QED
  BY <1>1, Invariance, PTL

LEMMA BaseIsMax ==
    ASSUME Inv, BoundsAssumption
    PROVE  Max(acked \cup {0}) = lastReplySequence
<1>1. acked \cup {0} \in SUBSET Int /\ lastReplySequence \in acked \cup {0}
  BY DEF Inv, NumbersOK, BaseInv, BoundsAssumption
<1>2. \A n \in acked \cup {0} : n <= lastReplySequence
  BY DEF Inv, NumbersOK, BaseInv
<1> QED
  BY <1>1, <1>2, MaxIs

\* A late reply never moves the base of the window back.
THEOREM BaseNeverBack ==
    ASSUME Assumptions
    PROVE  Spec => []BaseIsHighestReply
<1>1. Inv => BaseIsHighestReply
  BY BaseIsMax DEF BaseIsHighestReply, Assumptions
<1> QED
  BY <1>1, Invariance, PTL

\* What CanSend let through, at once or by a flush, lies within MAX_CWND of the highest
\* reply, although the window may have shrunk since.
THEOREM SentNearBase ==
    ASSUME Assumptions
    PROVE  Spec => []SentWithinWindow
<1>1. ASSUME Inv PROVE SentWithinWindow
  <2>1. \A n \in sendPacketInfoMap : InWindow(n)
    BY <1>1 DEF Inv, SentInv
  <2>2. \A n \in acked : InWindow(n)
    BY <1>1 DEF Inv, NumbersOK, BaseInv, InWindow, Assumptions, WindowAssumption, BoundsAssumption
  <2>3. \A n \in ToSet(sendBuffers) : InWindow(n)
    BY <1>1 DEF Inv, SentInv, ToSet
  <2>4. \A t \in Threads : pc[t] = "immediate" => InWindow(inHand[t])
    BY <1>1 DEF Inv, SentInv
  <2>5. Max(acked \cup {0}) = lastReplySequence
    BY <1>1, BaseIsMax DEF Assumptions
  <2> QED
    BY <2>1, <2>2, <2>3, <2>4, <2>5 DEF SentWithinWindow, InWindow
<1> QED
  BY <1>1, Invariance, PTL

-----------------------------------------------------------------------------
(* Where each packet is.                                                   *)

LEMMA Appended ==
    ASSUME NEW S, NEW s \in Seq(S), NEW x \in S, IsInjective(s), x \notin ToSet(s)
    PROVE  IsInjective(Append(s, x)) /\ ToSet(Append(s, x)) = ToSet(s) \cup {x}
<1> DEFINE u == Append(s, x)
<1>1. /\ DOMAIN u = 1 .. Len(s) + 1 /\ DOMAIN s = 1 .. Len(s) /\ Len(s) \in Nat
      /\ \A i \in 1 .. Len(s) : u[i] = s[i]
      /\ u[Len(s) + 1] = x
  OBVIOUS
<1> HIDE DEF u
<1>2. \A i \in DOMAIN u : i \in DOMAIN s \/ i = Len(s) + 1
  BY <1>1
<1>3. IsInjective(u)
  BY <1>1, <1>2 DEF IsInjective, ToSet
<1>4. ToSet(u) = ToSet(s) \cup {x}
  <2>1. ASSUME NEW y \in ToSet(u) PROVE y \in ToSet(s) \cup {x}
    BY <1>1, <1>2 DEF ToSet
  <2>2. ASSUME NEW y \in ToSet(s) \cup {x} PROVE y \in ToSet(u)
    <3>1. CASE y = x
      BY <1>1, <3>1 DEF ToSet
    <3>2. CASE y \in ToSet(s)
      BY <1>1, <3>2 DEF ToSet
    <3> QED
      BY <3>1, <3>2
  <2> QED
    BY <2>1, <2>2
<1> QED
  BY <1>3, <1>4 DEF u

LEMMA Beheaded ==
    ASSUME NEW S, NEW s \in Seq(S), s # <<>>, IsInjective(s)
    PROVE  /\ IsInjective(Tail(s)) /\ ToSet(Tail(s)) = ToSet(s) \ {Head(s)}
           /\ Head(s) \in ToSet(s) /\ Head(s) \in S
<1> DEFINE u == Tail(s)
<1>1. /\ DOMAIN u = 1 .. Len(s) - 1 /\ DOMAIN s = 1 .. Len(s) /\ Len(s) \in Nat \ {0}
      /\ \A i \in 1 .. Len(s) - 1 : u[i] = s[i + 1]
      /\ Head(s) = s[1] /\ s[1] \in S
  OBVIOUS
<1> HIDE DEF u
<1>2. \A i \in DOMAIN u : i + 1 \in DOMAIN s /\ i + 1 # 1 /\ u[i] = s[i + 1]
  BY <1>1
<1>3. IsInjective(u)
  <2> SUFFICES ASSUME NEW i \in DOMAIN u, NEW j \in DOMAIN u, u[i] = u[j] PROVE i = j
    BY DEF IsInjective
  <2>1. i + 1 = j + 1
    BY <1>2 DEF IsInjective
  <2> QED
    BY <1>1, <2>1
<1>4. \A y \in ToSet(u) : y \in ToSet(s) \ {s[1]}
  BY <1>1, <1>2 DEF ToSet, IsInjective
<1>5. ASSUME NEW y \in ToSet(s), y # s[1] PROVE y \in ToSet(u)
  <2>1. PICK i \in DOMAIN s : y = s[i]
    BY DEF ToSet
  <2>2. i - 1 \in DOMAIN u /\ u[i - 1] = s[i]
    BY <1>1, <1>5, <2>1
  <2> QED
    BY <2>1, <2>2 DEF ToSet
<1>6. s[1] \in ToSet(s)
  BY <1>1 DEF ToSet
<1> QED
  BY <1>1, <1>3, <1>4, <1>5, <1>6 DEF u

LEMMA Halves ==
    ASSUME NEW S, NEW s \in Seq(S), NEW k \in 0 .. Len(s), IsInjective(s)
    PROVE  /\ IsInjective(SubSeq(s, 1, k)) /\ IsInjective(SubSeq(s, k + 1, Len(s)))
           /\ ToSet(SubSeq(s, 1, k)) \cap ToSet(SubSeq(s, k + 1, Len(s))) = {}
           /\ ToSet(SubSeq(s, 1, k)) \cup ToSet(SubSeq(s, k + 1, Len(s))) = ToSet(s)
<1> DEFINE u == SubSeq(s, 1, k)
           v == SubSeq(s, k + 1, Len(s))
<1>1. /\ DOMAIN s = 1 .. Len(s) /\ Len(s) \in Nat
      /\ DOMAIN u = 1 .. k /\ \A i \in 1 .. k : u[i] = s[i]
      /\ DOMAIN v = 1 .. Len(s) - k /\ \A i \in 1 .. Len(s) - k : v[i] = s[i + k]
  OBVIOUS
<1> HIDE DEF u, v
<1>2. \A i \in DOMAIN u : i \in DOMAIN s /\ i <= k /\ u[i] = s[i]
  BY <1>1
<1>3. \A i \in DOMAIN v : i + k \in DOMAIN s /\ i + k > k /\ v[i] = s[i + k]
  BY <1>1
<1>4. IsInjective(u)
  BY <1>2 DEF IsInjective
<1>5. IsInjective(v)
  <2> SUFFICES ASSUME NEW i \in DOMAIN v, NEW j \in DOMAIN v, v[i] = v[j] PROVE i = j
    BY DEF IsInjective
  <2>1. i + k = j + k
    BY <1>3 DEF IsInjective
  <2> QED
    BY <1>1, <2>1
<1>6. ToSet(u) \cap ToSet(v) = {}
  <2> SUFFICES ASSUME NEW i \in DOMAIN u, NEW j \in DOMAIN v, u[i] = v[j] PROVE FALSE
    BY DEF ToSet
  <2>1. i = j + k
    BY <1>2, <1>3 DEF IsInjective
  <2> QED
    BY <1>1, <1>2, <1>3, <2>1
<1>7. ASSUME NEW y \in ToSet(s) PROVE y \in ToSet(u) \cup ToSet(v)
  <2>1. PICK i \in DOMAIN s : y = s[i]
    BY DEF ToSet
  <2>2. CASE i <= k
    <3>1. i \in DOMAIN u /\ u[i] = y
      BY <1>1, <2>1, <2>2
    <3> QED
      BY <3>1 DEF ToSet
  <2>3. CASE i > k
    <3>1. i - k \in DOMAIN v /\ v[i - k] = y
      BY <1>1, <2>1, <2>3
    <3> QED
      BY <3>1 DEF ToSet
  <2> QED
    BY <1>1, <2>2, <2>3
<1>8. ToSet(u) \cup ToSet(v) \subseteq ToSet(s)
  BY <1>2, <1>3 DEF ToSet
<1> QED
  BY <1>4, <1>5, <1>6, <1>7, <1>8 DEF u, v

Carried == {inHand[t] : t \in Threads} \ {0}

\* A packet that was numbered is in one of five places, and there once, and the worker's
\* batch is empty unless it sends.
PlaceInv ==
    /\ \A t \in Threads : pc[t] \in {"idle", "checked"} => inHand[t] = 0
    /\ \A t, u \in Threads : inHand[t] = inHand[u] /\ inHand[t] # 0 => t = u
    /\ IsInjective(pendingPacketQueue) /\ IsInjective(sendBuffers)
    /\ workerPc # "sending" => sendBuffers = <<>>
    /\ \A n \in 1 .. lastSendPacketSequence :
          \/ n \in Carried \/ n \in ToSet(pendingPacketQueue) \/ n \in ToSet(sendBuffers)
          \/ n \in sendPacketInfoMap \/ n \in acked
    /\ Carried \cap (ToSet(pendingPacketQueue) \cup ToSet(sendBuffers)
                        \cup sendPacketInfoMap \cup acked) = {}
    /\ ToSet(pendingPacketQueue) \cap (ToSet(sendBuffers) \cup sendPacketInfoMap \cup acked) = {}
    /\ ToSet(sendBuffers) \cap (sendPacketInfoMap \cup acked) = {}
    /\ sendPacketInfoMap \cap acked = {}
    /\ Carried \cup ToSet(pendingPacketQueue) \cup ToSet(sendBuffers)
          \cup sendPacketInfoMap \cup acked \subseteq 1 .. lastSendPacketSequence

OpenPlaceInv == ~closed => PlaceInv

LEMMA PlaceStep ==
    ASSUME Assumptions, Inv, OpenPlaceInv, [Next]_vars
    PROVE  OpenPlaceInv'
<1> USE DEF OpenPlaceInv
<1>1. /\ pendingPacketQueue \in Seq(1 .. MaxSent) /\ sendBuffers \in Seq(1 .. MaxSent)
      /\ lastSendPacketSequence \in Nat /\ MaxSent \in Nat
      /\ inHand \in [Threads -> 0 .. MaxSent]
      /\ pc \in [Threads -> {"idle", "checked", "numbered", "immediate"}]
  BY DEF Inv, NumbersOK, Assumptions, BoundsAssumption
<1>2. ASSUME NEW t \in Threads, SendPacket(t) \/ NumberHeartbeat(t) PROVE OpenPlaceInv'
  <2> DEFINE n == lastSendPacketSequence + 1
  <2>1. /\ ~closed /\ pc[t] \in {"idle", "checked"} /\ IncrementLastSendPacketSequence(t)
        /\ UNCHANGED <<workerPc, sendBuffers, acked, pendingPacketQueue, sendPacketInfoMap>>
    BY <1>2 DEF SendPacket, NumberHeartbeat, workerVars, queueVars
  <2>2. /\ inHand'[t] = n /\ pc'[t] = "numbered" /\ inHand[t] = 0
        /\ \A u \in Threads : u # t => pc'[u] = pc[u] /\ inHand'[u] = inHand[u]
    BY <1>1, <2>1 DEF IncrementLastSendPacketSequence, PlaceInv
  <2>3. n \notin 1 .. lastSendPacketSequence /\ n # 0
        /\ 1 .. lastSendPacketSequence' = (1 .. lastSendPacketSequence) \cup {n}
    BY <1>1, <2>1 DEF IncrementLastSendPacketSequence
  <2> HIDE DEF n
  <2>4. Carried' = Carried \cup {n}
    BY <2>2, <2>3 DEF Carried
  <2>5. \A u \in Threads : inHand[u] # n
    BY <2>1, <2>3 DEF PlaceInv, Carried
  <2>6. \A u \in Threads : pc'[u] \in {"idle", "checked"} => inHand'[u] = 0
    BY <2>1, <2>2 DEF PlaceInv
  <2>7. \A u, v \in Threads : inHand'[u] = inHand'[v] /\ inHand'[u] # 0 => u = v
    BY <2>1, <2>2, <2>5 DEF PlaceInv
  <2> QED
    BY <2>1, <2>3, <2>4, <2>6, <2>7 DEF PlaceInv
<1>3. ASSUME NEW t \in Threads, SendHeartbeatPacket(t) PROVE OpenPlaceInv'
  <2>1. /\ ~closed /\ pc[t] = "idle" /\ \A u \in Threads : u # t => pc'[u] = pc[u]
        /\ UNCHANGED <<lastSendPacketSequence, inHand, workerPc, sendBuffers, acked,
                       pendingPacketQueue, sendPacketInfoMap>>
    BY <1>1, <1>3 DEF SendHeartbeatPacket, workerVars, queueVars
  <2>2. \A u \in Threads : pc'[u] \in {"idle", "checked"} => inHand'[u] = 0
    BY <2>1 DEF PlaceInv
  <2> QED
    BY <2>1, <2>2 DEF PlaceInv, Carried
<1>4. ASSUME NEW t \in Threads, pc[t] \in {"numbered", "immediate"}, Idle(t), ~closed
      PROVE  /\ inHand[t] \in Carried /\ inHand[t] \in 1 .. MaxSent
             /\ \A u \in Threads : pc'[u] \in {"idle", "checked"} => inHand'[u] = 0
             /\ \A u, v \in Threads : inHand'[u] = inHand'[v] /\ inHand'[u] # 0 => u = v
             /\ Carried' = Carried \ {inHand[t]}
             /\ lastSendPacketSequence' = lastSendPacketSequence
  <2>1. inHand[t] # 0 /\ inHand[t] \in 1 .. MaxSent /\ inHand[t] \in Carried
    BY <1>1, <1>4 DEF Inv, SentInv, Carried
  <2>2. /\ inHand'[t] = 0 /\ pc'[t] = "idle" /\ lastSendPacketSequence' = lastSendPacketSequence
        /\ \A u \in Threads : u # t => pc'[u] = pc[u] /\ inHand'[u] = inHand[u]
    BY <1>1, <1>4 DEF Idle
  <2>3. \A u \in Threads : u # t => inHand[u] # inHand[t]
    BY <1>4, <2>1 DEF PlaceInv
  <2>4. Carried' = Carried \ {inHand[t]}
    BY <2>2, <2>3 DEF Carried
  <2> QED
    BY <1>4, <2>1, <2>2, <2>4 DEF PlaceInv
<1>5. ASSUME NEW t \in Threads, SendOrQueue(t) PROVE OpenPlaceInv'
  <2>1. /\ pc[t] = "numbered" /\ ~closed
        /\ UNCHANGED <<workerPc, sendBuffers, acked, sendPacketInfoMap>>
    BY <1>5 DEF SendOrQueue, workerVars
  <2>2. CASE ~MustWait(inHand[t])
    <3>1. /\ pc' = [pc EXCEPT ![t] = "immediate"]
          /\ UNCHANGED <<lastSendPacketSequence, inHand, pendingPacketQueue>>
      BY <1>5, <2>2 DEF SendOrQueue
    <3>2. \A u \in Threads : pc'[u] \in {"idle", "checked"} => inHand'[u] = 0
      BY <1>1, <2>1, <3>1 DEF PlaceInv
    <3> QED
      BY <2>1, <3>1, <3>2 DEF PlaceInv, Carried
  <2>3. CASE MustWait(inHand[t]) /\ ~closed'
    <3>1. Idle(t) /\ pendingPacketQueue' = Append(pendingPacketQueue, inHand[t])
      BY <1>5, <2>3 DEF SendOrQueue
    <3>2. inHand[t] \in Carried /\ inHand[t] \in 1 .. MaxSent
      BY <1>4, <2>1, <3>1
    <3>3. inHand[t] \notin ToSet(pendingPacketQueue)
      BY <2>1, <3>2 DEF PlaceInv
    <3>4. /\ IsInjective(pendingPacketQueue')
          /\ ToSet(pendingPacketQueue') = ToSet(pendingPacketQueue) \cup {inHand[t]}
      <4>1. pendingPacketQueue \in Seq(1 .. MaxSent) /\ IsInjective(pendingPacketQueue)
        BY <1>1, <2>1 DEF PlaceInv
      <4> DEFINE q == pendingPacketQueue
                 x == inHand[t]
                 S == 1 .. MaxSent
      <4>2. q \in Seq(S) /\ IsInjective(q) /\ x \in S /\ x \notin ToSet(q)
        BY <3>2, <3>3, <4>1
      <4>3. q' = Append(q, x)
        BY <3>1
      <4> HIDE DEF q, x, S
      <4>4. IsInjective(Append(q, x)) /\ ToSet(Append(q, x)) = ToSet(q) \cup {x}
        BY <4>2, Appended
      <4> QED
        BY <4>3, <4>4 DEF q, x
    <3>5. /\ \A u \in Threads : pc'[u] \in {"idle", "checked"} => inHand'[u] = 0
          /\ \A u, v \in Threads : inHand'[u] = inHand'[v] /\ inHand'[u] # 0 => u = v
          /\ Carried' = Carried \ {inHand[t]}
          /\ lastSendPacketSequence' = lastSendPacketSequence
      BY <1>4, <2>1, <3>1
    <3> QED
      BY <2>1, <3>2, <3>4, <3>5 DEF PlaceInv
  <2> QED
    BY <2>2, <2>3
<1>6. ASSUME NEW t \in Threads, SendNow(t) PROVE OpenPlaceInv'
  <2>1. /\ pc[t] = "immediate" /\ ~closed /\ Idle(t)
        /\ sendPacketInfoMap' = sendPacketInfoMap \cup {inHand[t]}
        /\ UNCHANGED <<workerPc, sendBuffers, acked, pendingPacketQueue>>
    BY <1>6 DEF SendNow, SendPacketImmediate, workerVars
  <2> QED
    BY <1>4, <2>1 DEF PlaceInv
<1>7. ASSUME NEW n \in 1 .. MaxSent, OnSendReply(n) PROVE OpenPlaceInv'
  <2>1. /\ ~closed /\ n \in sendPacketInfoMap /\ workerPc = "idle" /\ workerPc' # "sending"
        /\ sendPacketInfoMap' = sendPacketInfoMap \ {n} /\ acked' = acked \cup {n}
        /\ UNCHANGED <<lastSendPacketSequence, pc, inHand, sendBuffers, pendingPacketQueue>>
    BY <1>7 DEF OnSendReply, AcceptReply, senderVars
  <2> QED
    BY <2>1 DEF PlaceInv, Carried
<1>8. ASSUME ReadCwnd \/ WriteCwnd \/ TimeoutReads \/ OnTimeout PROVE OpenPlaceInv'
  <2>1. /\ ~closed
        /\ UNCHANGED <<lastSendPacketSequence, pc, inHand, sendBuffers, pendingPacketQueue,
                       sendPacketInfoMap, acked>>
        /\ workerPc # "sending" \/ workerPc' = workerPc
    BY <1>8 DEF ReadCwnd, WriteCwnd, TimeoutReads, OnTimeout, senderVars, workerVars, queueVars
  <2> QED
    BY <2>1 DEF PlaceInv, Carried
<1>9. ASSUME TryFlushPendingQueue PROVE OpenPlaceInv'
  <2>1. /\ ~closed /\ workerPc = "flush"
        /\ UNCHANGED <<lastSendPacketSequence, pc, inHand, sendPacketInfoMap, acked>>
    BY <1>9 DEF TryFlushPendingQueue, senderVars
  <2>2. PICK k \in 0 .. Len(pendingPacketQueue) :
              /\ sendBuffers' = SubSeq(pendingPacketQueue, 1, k)
              /\ pendingPacketQueue' =
                    SubSeq(pendingPacketQueue, k + 1, Len(pendingPacketQueue))
              /\ workerPc' = IF k = 0 THEN "idle" ELSE "sending"
    BY <1>9, FlushTakes
  <2>3. /\ IsInjective(sendBuffers') /\ IsInjective(pendingPacketQueue')
        /\ ToSet(sendBuffers') \cap ToSet(pendingPacketQueue') = {}
        /\ ToSet(sendBuffers') \cup ToSet(pendingPacketQueue') = ToSet(pendingPacketQueue)
    BY <1>1, <2>1, <2>2, Halves DEF PlaceInv
  <2>4. ToSet(sendBuffers) = {}
    BY <2>1 DEF PlaceInv, ToSet
  <2>5. workerPc' # "sending" => sendBuffers' = <<>>
    BY <1>1, <2>2
  <2> QED
    BY <2>1, <2>3, <2>4, <2>5 DEF PlaceInv, Carried
<1>10. ASSUME SendFlushed PROVE OpenPlaceInv'
  <2> DEFINE x == Head(sendBuffers)
  <2>1. /\ ~closed /\ sendBuffers # <<>> /\ sendPacketInfoMap' = sendPacketInfoMap \cup {x}
        /\ sendBuffers' = Tail(sendBuffers)
        /\ workerPc' = IF Len(sendBuffers) = 1 THEN "idle" ELSE "sending"
        /\ UNCHANGED <<lastSendPacketSequence, pc, inHand, pendingPacketQueue, acked>>
    BY <1>10 DEF SendFlushed, SendPacketImmediate, senderVars, Inv, SentInv
  <2>2. /\ IsInjective(sendBuffers') /\ ToSet(sendBuffers') = ToSet(sendBuffers) \ {x}
        /\ x \in ToSet(sendBuffers)
    <3> DEFINE S == 1 .. MaxSent
    <3>1. sendBuffers \in Seq(S) /\ sendBuffers # <<>> /\ IsInjective(sendBuffers)
      BY <1>1, <2>1 DEF PlaceInv
    <3> HIDE DEF S
    <3>2. /\ IsInjective(Tail(sendBuffers)) /\ x \in ToSet(sendBuffers)
          /\ ToSet(Tail(sendBuffers)) = ToSet(sendBuffers) \ {x}
      BY <3>1, Beheaded
    <3> QED
      BY <2>1, <3>2
  <2>3. workerPc' # "sending" => sendBuffers' = <<>>
    <3>1. ASSUME NEW S, NEW s \in Seq(S), Len(s) = 1 PROVE Tail(s) = <<>>
      <4>1. s # <<>>
        <5>1. Len(<<>>) = 0 /\ 0 # 1
          BY EmptySeq
        <5> QED
          BY <3>1, <5>1, Zenon
      <4>2. Tail(s) \in Seq(S) /\ Len(Tail(s)) = 0
        BY <3>1, <4>1, HeadTailProperties
      <4> QED
        BY <4>2, EmptySeq
    <3> QED
      BY <1>1, <2>1, <3>1
  <2> HIDE DEF x
  <2> QED
    BY <2>1, <2>2, <2>3 DEF PlaceInv, Carried
<1>11. ASSUME DoDisconnect \/ UNCHANGED vars PROVE OpenPlaceInv'
  <2>1. closed' \/ closed' = closed
    BY <1>11 DEF DoDisconnect, vars
  <2>2. /\ UNCHANGED <<lastSendPacketSequence, pc, inHand, sendBuffers, pendingPacketQueue,
                       sendPacketInfoMap, acked, workerPc>>
    BY <1>11 DEF DoDisconnect, vars, senderVars, workerVars, queueVars
  <2> QED
    BY <2>1, <2>2 DEF PlaceInv, Carried
<1> QED
  BY <1>2, <1>3, <1>5, <1>6, <1>7, <1>8, <1>9, <1>10, <1>11
  DEF Next, Sender, Worker, Retransmission

LEMMA IndicesOf ==
    ASSUME NEW s, NEW n, IsInjective(s)
    PROVE  Cardinality({i \in DOMAIN s : s[i] = n}) = IF n \in ToSet(s) THEN 1 ELSE 0
<1> DEFINE T == {i \in DOMAIN s : s[i] = n}
<1>1. CASE n \in ToSet(s)
  <2>1. PICK i \in DOMAIN s : s[i] = n
    BY <1>1 DEF ToSet
  <2>2. T = {i}
    BY <2>1 DEF IsInjective
  <2> QED
    BY <1>1, <2>2, FS_Singleton
<1>2. CASE n \notin ToSet(s)
  <2>1. T = {}
    BY <1>2 DEF ToSet
  <2> QED
    BY <1>2, <2>1, FS_EmptySet
<1> QED
  BY <1>1, <1>2

\* EachPacketInOnePlace: heartbeats, content threads and the logic worker that number, queue
\* and flush without one lock over it all neither lose a packet nor send one twice, and a
\* number is never used before it is given out.
THEOREM OnePlaceOnly ==
    ASSUME Assumptions PROVE Spec => []EachPacketInOnePlace
<1>1. ASSUME Inv, OpenPlaceInv PROVE EachPacketInOnePlace
  <2> SUFFICES ASSUME ~closed, NEW n \in 1 .. MaxSent
               PROVE  Places(n) = IF n <= lastSendPacketSequence THEN 1 ELSE 0
    BY DEF EachPacketInOnePlace
  <2>1. PlaceInv /\ n # 0
    BY <1>1 DEF OpenPlaceInv, BoundsAssumption, Assumptions
  <2>2. Cardinality({t \in Threads : inHand[t] = n}) = IF n \in Carried THEN 1 ELSE 0
    <3>1. CASE n \in Carried
      <4>1. PICK t \in Threads : inHand[t] = n
        BY <3>1 DEF Carried
      <4>2. {u \in Threads : inHand[u] = n} = {t}
        BY <2>1, <4>1 DEF PlaceInv
      <4> QED
        BY <3>1, <4>2, FS_Singleton
    <3>2. CASE n \notin Carried
      <4>1. {u \in Threads : inHand[u] = n} = {}
        BY <2>1, <3>2 DEF Carried
      <4> QED
        BY <3>2, <4>1, FS_EmptySet
    <3> QED
      BY <3>1, <3>2
  <2>3. Cardinality({i \in DOMAIN pendingPacketQueue : pendingPacketQueue[i] = n})
            = IF n \in ToSet(pendingPacketQueue) THEN 1 ELSE 0
    BY <2>1, IndicesOf DEF PlaceInv
  <2>4. Cardinality({i \in DOMAIN sendBuffers : sendBuffers[i] = n})
            = IF n \in ToSet(sendBuffers) THEN 1 ELSE 0
    BY <2>1, IndicesOf DEF PlaceInv
  <2>5. n <= lastSendPacketSequence <=> n \in 1 .. lastSendPacketSequence
    BY <1>1 DEF Inv, NumbersOK
  <2> DEFINE a == n \in Carried
             b == n \in ToSet(pendingPacketQueue)
             c == n \in ToSet(sendBuffers)
             d == n \in sendPacketInfoMap
             e == n \in acked
  <2>6. CASE n \in 1 .. lastSendPacketSequence
    <3>1. \/ a /\ ~b /\ ~c /\ ~d /\ ~e
          \/ ~a /\ b /\ ~c /\ ~d /\ ~e
          \/ ~a /\ ~b /\ c /\ ~d /\ ~e
          \/ ~a /\ ~b /\ ~c /\ d /\ ~e
          \/ ~a /\ ~b /\ ~c /\ ~d /\ e
      BY <2>1, <2>6 DEF PlaceInv
    <3> QED
      BY <2>2, <2>3, <2>4, <2>5, <2>6, <3>1 DEF Places
  <2>7. CASE n \notin 1 .. lastSendPacketSequence
    <3>1. ~a /\ ~b /\ ~c /\ ~d /\ ~e
      BY <2>1, <2>7 DEF PlaceInv
    <3> QED
      BY <2>2, <2>3, <2>4, <2>5, <2>7, <3>1 DEF Places
  <2> QED
    BY <2>6, <2>7
<1>2. Init => OpenPlaceInv
  BY DEF Init, OpenPlaceInv, PlaceInv, Carried, ToSet, IsInjective
<1>3. Inv /\ OpenPlaceInv /\ [Next]_vars => OpenPlaceInv'
  BY PlaceStep
<1> QED
  BY <1>1, <1>2, <1>3, Invariance, PTL DEF Spec

=============================================================================
