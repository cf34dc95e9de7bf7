----------------------- MODULE SessionLifecycle_proofs -----------------------
(***************************************************************************)
(* Theorems of SessionLifecycle, for every set of brokers and senders and  *)
(* every number of receive slots and of generations: first what holds of   *)
(* the state machine alone, then the drain of a session, what the five     *)
(* reads of the release thread buy.  That its hooks exclude the packet     *)
(* handlers (QuietInv) is proved without more ado; the rest of the drain   *)
(* given that nothing fails while the session is RESERVED and that no call *)
(* outlives the session (without either, TLC refutes the properties).      *)
(*                                                                         *)
(* The invariant DrainInv has one part per hazard.  Its core is StageInv:  *)
(* which of the session's activities each read of CanFinalizeIO has seen   *)
(* over, and that none of those can start again once nowInReleaseThread is *)
(* set; the reads of round 1 only make those of round 2 conclusive.        *)
(***************************************************************************)
EXTENDS SessionLifecycle, FiniteSetTheorems, SequenceTheorems, TLAPS

\* Generation 0 exists and the next generation of one is another.
LEMMA GenerationFacts ==
    /\ 0 \in Generations
    /\ \A g \in Generations : NextGeneration(g) \in Generations /\ NextGeneration(g) /= g
BY GenModulusAssumption, SMT DEF Generations, NextGeneration

\* The threads that send include the two workers.
LEMMA SendThreadFacts ==
    "io" \in SendThreads /\ "logic" \in SendThreads /\ Senders \subseteq SendThreads
BY DEF SendThreads

\* The empty history is a sequence of hooks, and calling a hook keeps it one.
LEMMA AppendHook ==
    /\ <<>> \in Seq(Hooks)
    /\ \A h \in Seq(Hooks) :
        /\ Append(h, "OnConnected") \in Seq(Hooks)
        /\ Append(h, "OnDisconnected") \in Seq(Hooks)
        /\ Append(h, "OnReleased") \in Seq(Hooks)
BY DEF Hooks

\* Every step is one of these.
LEMMA NextCases ==
    ASSUME Next
    PROVE  \/ MarkRelease \/ PushToDisconnectTargetSession
           \/ ContentDisconnect \/ AbortTimedOut
           \/ BeginRecvCompletion \/ BeginSendCompletion \/ IoContinue
           \/ LogicWorker
           \/ \E t \in Senders : SenderStart(t)
           \/ \E t \in SendThreads : DoSend(t)
           \/ ReleaseThread
           \/ \E b \in Brokers : AcquireSession(b) \/ BrokerContinue(b)
BY DEF Next

-----------------------------------------------------------------------------
\* TypeOK by the groups of variables that the actions keep together.
TypeLife == state \in States /\ claim \in Reasons \cup {"none", "marked"}
TypeFlags ==
    /\ generation \in Generations /\ nowInReleaseThread \in BOOLEAN
    /\ disconnectedReason \in Reasons \cup {"NOT_DISCONNECTED"}
    /\ hooks \in Seq(Hooks) /\ announced \in BOOLEAN
TypeRio == socket \in BOOLEAN /\ rio \in BOOLEAN /\ ioShutdownStarted \in BOOLEAN
TypeRecv ==
    freeRecv \in Nat /\ posted \in [Generations -> Nat] /\ outstandingRecvIo \in Int
TypeIo == activeIOCompletions \in Int /\ ioPc \in IoPcs /\ ioGen \in Generations
TypeLogic ==
    /\ logicQueue \in [Generations -> Nat] /\ pendingRecvLogic \in Int
    /\ nowInProcessingRecvPacket \in BOOLEAN
    /\ logicPc \in LogicPcs /\ logicGen \in Generations
TypeSend ==
    /\ ioMode \in {"NONE", "SENDING"} /\ sendIo \in [Generations -> Nat]
    /\ snd \in [SendThreads -> SendPcs]
TypePool == unused \in Nat /\ connectedUserCount \in Nat
TypeRel ==
    /\ releaseList \in Nat /\ workList \in Nat /\ remainList \in Nat
    /\ relPc \in RelPcs /\ round \in {1, 2}
    /\ releasedReason \in Reasons \cup {"NOT_DISCONNECTED"}
TypeBroker == broker \in [Brokers -> BrokerPcs]

LEMMA TypeParts ==
    TypeOK <=> /\ TypeLife /\ TypeFlags /\ TypeRio /\ TypeRecv /\ TypeIo
               /\ TypeLogic /\ TypeSend /\ TypePool /\ TypeRel /\ TypeBroker
<1>1. TypeOK => /\ TypeLife /\ TypeFlags /\ TypeRio /\ TypeRecv /\ TypeIo
                /\ TypeLogic /\ TypeSend /\ TypePool /\ TypeRel /\ TypeBroker
  <2> SUFFICES ASSUME TypeOK
               PROVE  /\ TypeLife /\ TypeFlags /\ TypeRio /\ TypeRecv /\ TypeIo
                      /\ TypeLogic /\ TypeSend /\ TypePool /\ TypeRel /\ TypeBroker
    OBVIOUS
  <2> USE DEF TypeOK
  <2>1. TypeLife /\ TypeRecv /\ TypeIo /\ TypePool /\ TypeRel /\ TypeBroker
    BY DEF TypeLife, TypeRecv, TypeIo, TypePool, TypeRel, TypeBroker
  <2>2. TypeFlags
    BY DEF TypeFlags
  <2>3. TypeRio /\ TypeSend
    BY DEF TypeRio, TypeSend
  <2>4. TypeLogic
    BY DEF TypeLogic
  <2> QED
    BY <2>1, <2>2, <2>3, <2>4
<1>2. ASSUME TypeLife, TypeFlags, TypeRio, TypeRecv, TypeIo,
             TypeLogic, TypeSend, TypePool, TypeRel, TypeBroker
      PROVE  TypeOK
  BY <1>2, Zenon
     DEF TypeOK, TypeLife, TypeFlags, TypeRio, TypeRecv, TypeIo, TypeLogic, TypeSend,
         TypePool, TypeRel, TypeBroker
<1> QED
  BY <1>1, <1>2

\* A step keeps the types if it keeps those of the groups it changes.
LEMMA TypeByParts ==
    ASSUME TypeOK,
           UNCHANGED lifeVars \/ TypeLife', UNCHANGED flagVars \/ TypeFlags',
           UNCHANGED rioVars \/ TypeRio', UNCHANGED recvVars \/ TypeRecv',
           UNCHANGED ioVars \/ TypeIo', UNCHANGED logicVars \/ TypeLogic',
           UNCHANGED sendVars \/ TypeSend', UNCHANGED poolVars \/ TypePool',
           UNCHANGED relVars \/ TypeRel', UNCHANGED broker \/ TypeBroker'
    PROVE  TypeOK'
<1>0. /\ TypeLife /\ TypeFlags /\ TypeRio /\ TypeRecv /\ TypeIo
      /\ TypeLogic /\ TypeSend /\ TypePool /\ TypeRel /\ TypeBroker
  BY TypeParts
<1>1. TypeLife' /\ TypeRecv' /\ TypeIo'
  BY <1>0 DEF TypeLife, TypeRecv, TypeIo, lifeVars, recvVars, ioVars
<1>2. TypeFlags'
  BY <1>0, Zenon DEF TypeFlags, flagVars
<1>3. TypeRio'
  BY <1>0, Zenon DEF TypeRio, rioVars
<1>4. TypeLogic'
  BY <1>0, Zenon DEF TypeLogic, logicVars
<1>5. TypeSend' /\ TypePool' /\ TypeBroker'
  BY <1>0 DEF TypeSend, TypePool, TypeBroker, sendVars, poolVars
<1>6. TypeRel'
  BY <1>0 DEF TypeRel, relVars
<1> QED
  BY <1>1, <1>2, <1>3, <1>4, <1>5, <1>6, Zenon
     DEF TypeOK, TypeLife, TypeFlags, TypeRio, TypeRecv, TypeIo, TypeLogic, TypeSend,
         TypePool, TypeRel, TypeBroker

-----------------------------------------------------------------------------
\* Type correctness (TypeOK): every variable keeps its type, under every
\* interleaving, with or without failures and late calls.
LEMMA TypeStep ==
    ASSUME TypeOK, [Next]_vars
    PROVE  TypeOK'
<1>0. /\ TypeLife /\ TypeFlags /\ TypeRio /\ TypeRecv /\ TypeIo
      /\ TypeLogic /\ TypeSend /\ TypePool /\ TypeRel /\ TypeBroker
  BY TypeParts
<1>1. CASE MarkRelease
  <2>1. TypeLife'
    BY <1>0, <1>1 DEF MarkRelease, Reasons, TypeLife
  <2>2. TypeFlags'
    BY <1>0, <1>1, Zenon DEF MarkRelease, TypeFlags
  <2> QED
    BY <1>1, <2>1, <2>2, TypeByParts DEF MarkRelease
<1>2. CASE PushToDisconnectTargetSession
  <2>1. TypeLife'
    BY <1>0, <1>2 DEF PushToDisconnectTargetSession, TypeLife
  <2>2. TypeFlags'
    BY <1>0, <1>2, Zenon DEF PushToDisconnectTargetSession, TypeFlags
  <2>3. TypeRel'
    BY <1>0, <1>2 DEF PushToDisconnectTargetSession, TypeRel, RelPcs
  <2> QED
    BY <1>2, <2>1, <2>2, <2>3, TypeByParts DEF PushToDisconnectTargetSession
<1>3. CASE ContentDisconnect
  <2>1. TypeLife'
    BY <1>0, <1>3
       DEF ContentDisconnect, DoDisconnect, Claim, States, Reasons, lifeVars, TypeLife
  <2> QED
    BY <1>3, <2>1, TypeByParts DEF ContentDisconnect
<1>4. CASE AbortTimedOut
  <2>1. TypeLife'
    BY <1>0, <1>4
       DEF AbortTimedOut, AbortReservedSession, Claim, States, Reasons, lifeVars, TypeLife
  <2> QED
    BY <1>4, <2>1, TypeByParts DEF AbortTimedOut
<1>5. CASE BeginRecvCompletion
  <2>1. TypeRecv'
    BY <1>0, <1>5 DEF BeginRecvCompletion, Remove, TypeRecv
  <2>2. TypeIo'
    BY <1>0, <1>5 DEF BeginRecvCompletion, TypeIo, IoPcs
  <2> QED
    BY <1>5, <2>1, <2>2, TypeByParts DEF BeginRecvCompletion
<1>6. CASE BeginSendCompletion
  <2>1. TypeSend'
    BY <1>0, <1>6 DEF BeginSendCompletion, Remove, TypeSend
  <2>2. TypeIo'
    BY <1>0, <1>6 DEF BeginSendCompletion, TypeIo, IoPcs
  <2> QED
    BY <1>6, <2>1, <2>2, TypeByParts DEF BeginSendCompletion
<1>7. CASE IoContinue
  <2>1. CASE HandleStaleCompletion
    <3>1. TypeRecv'
      BY <1>0, <2>1 DEF HandleStaleCompletion, ReleaseRecvContext, recvVars, TypeRecv
    <3>2. TypeIo'
      BY <1>0, <2>1 DEF HandleStaleCompletion, TypeIo, IoPcs
    <3> QED
      BY <2>1, <3>1, <3>2, TypeByParts DEF HandleStaleCompletion
  <2>2. CASE HandleFailedCompletion
    <3>1. TypeRecv'
      BY <1>0, <2>2 DEF HandleFailedCompletion, ReleaseRecvContext, recvVars, TypeRecv
    <3>2. TypeIo'
      BY <1>0, <2>2 DEF HandleFailedCompletion, TypeIo, IoPcs
    <3>3. TypeSend'
      BY <1>0, <2>2 DEF HandleFailedCompletion, TypeSend
    <3> QED
      BY <2>2, <3>1, <3>2, <3>3, TypeByParts DEF HandleFailedCompletion
  <2>3. CASE DisconnectUnlessCancelled
    <3>1. TypeLife'
      BY <1>0, <2>3
         DEF DisconnectUnlessCancelled, DoDisconnect, Claim, States, Reasons, lifeVars,
             TypeLife
    <3>2. TypeIo'
      BY <1>0, <2>3 DEF DisconnectUnlessCancelled, TypeIo, IoPcs
    <3> QED
      BY <2>3, <3>1, <3>2, TypeByParts DEF DisconnectUnlessCancelled
  <2>4. CASE EnqueueContextResult
    <3>1. TypeIo'
      BY <1>0, <2>4 DEF EnqueueContextResult, TypeIo, IoPcs
    <3>2. TypeLogic'
      BY <1>0, <2>4 DEF EnqueueContextResult, Add, TypeLogic, LogicPcs, TypeIo
    <3> QED
      BY <2>4, <3>1, <3>2, TypeByParts DEF EnqueueContextResult
  <2>5. CASE FreeCompletedContext
    <3>1. TypeRecv'
      BY <1>0, <2>5 DEF FreeCompletedContext, ReleaseRecvContext, TypeRecv
    <3>2. TypeIo'
      BY <1>0, <2>5 DEF FreeCompletedContext, TypeIo, IoPcs
    <3> QED
      BY <2>5, <3>1, <3>2, TypeByParts DEF FreeCompletedContext
  <2>6. CASE DoRecv
    <3>1. TypeIo'
      BY <1>0, <2>6 DEF DoRecv, TypeIo, IoPcs
    <3> QED
      BY <2>6, <3>1, TypeByParts DEF DoRecv
  <2>7. CASE DoRecvPost
    <3>1. TypeRecv'
      BY <1>0, <2>7 DEF DoRecvPost, PostReceive, Add, TypeRecv, TypeFlags
    <3> QED
      BY <2>7, <3>1, TypeByParts DEF DoRecvPost
  <2>8. CASE DoRecvReturn
    <3>1. TypeIo'
      BY <1>0, <2>8 DEF DoRecvReturn, TypeIo, IoPcs
    <3> QED
      BY <2>8, <3>1, TypeByParts DEF DoRecvReturn
  <2>9. CASE SendIOCompleted
    <3>1. TypeIo'
      BY <1>0, <2>9 DEF SendIOCompleted, TypeIo, IoPcs
    <3>2. TypeSend'
      BY <1>0, <2>9, SendThreadFacts DEF SendIOCompleted, SendPcs, TypeSend
    <3> QED
      BY <2>9, <3>1, <3>2, TypeByParts DEF SendIOCompleted
  <2>10. CASE CompleteIOCompletion
    <3>1. TypeIo'
      BY <1>0, <2>10, GenerationFacts DEF CompleteIOCompletion, TypeIo, IoPcs
    <3> QED
      BY <2>10, <3>1, TypeByParts DEF CompleteIOCompletion
  <2> QED
    BY <1>7, <2>1, <2>2, <2>3, <2>4, <2>5, <2>6, <2>7, <2>8, <2>9, <2>10 DEF IoContinue
<1>8. CASE LogicWorker
  <2>1. CASE DequeueRecvContext
    <3>1. TypeLogic'
      BY <1>0, <2>1 DEF DequeueRecvContext, Remove, TypeLogic, LogicPcs
    <3> QED
      BY <2>1, <3>1, TypeByParts DEF DequeueRecvContext
  <2>2. CASE TryDispatchRecvPacket
    <3>1. TypeLogic'
      BY <1>0, <2>2 DEF TryDispatchRecvPacket, TypeLogic, LogicPcs
    <3> QED
      BY <2>2, <3>1, TypeByParts DEF TryDispatchRecvPacket
  <2>3. CASE BeginProcessing
    <3>1. TypeLogic'
      BY <1>0, <2>3 DEF BeginProcessing, TypeLogic, LogicPcs
    <3> QED
      BY <2>3, <3>1, TypeByParts DEF BeginProcessing
  <2>4. CASE IgnorePacket
    <3>1. TypeLogic'
      BY <1>0, <2>4 DEF IgnorePacket, TypeLogic, LogicPcs
    <3> QED
      BY <2>4, <3>1, TypeByParts DEF IgnorePacket
  <2>5. CASE TryConnect
    <3>1. TypeLife'
      BY <1>0, <2>5 DEF TryConnect, States, TypeLife
    <3>2. TypeLogic'
      BY <1>0, <2>5 DEF TryConnect, TypeLogic, LogicPcs
    <3> QED
      BY <2>5, <3>1, <3>2, TypeByParts DEF TryConnect
  <2>6. CASE OnConnected
    <3>1. TypeFlags'
      BY <1>0, <2>6, AppendHook, Zenon DEF OnConnected, TypeFlags
    <3>2. TypeLogic'
      BY <1>0, <2>6 DEF OnConnected, TypeLogic, LogicPcs
    <3> QED
      BY <2>6, <3>1, <3>2, TypeByParts DEF OnConnected
  <2>7. CASE SendConnectReply
    <3>1. TypeLogic'
      BY <1>0, <2>7 DEF SendConnectReply, TypeLogic, LogicPcs
    <3>2. TypeSend'
      BY <1>0, <2>7, SendThreadFacts DEF SendConnectReply, SendPcs, TypeSend
    <3> QED
      BY <2>7, <3>1, <3>2, TypeByParts DEF SendConnectReply
  <2>8. CASE IncrementConnectedCount
    <3>1. TypeLogic'
      BY <1>0, <2>8 DEF IncrementConnectedCount, TypeLogic, LogicPcs
    <3>2. TypePool'
      BY <1>0, <2>8 DEF IncrementConnectedCount, TypePool
    <3> QED
      BY <2>8, <3>1, <3>2, TypeByParts DEF IncrementConnectedCount
  <2>9. CASE OnRecvPacket
    <3>1. TypeLogic'
      BY <1>0, <2>9 DEF OnRecvPacket, TypeLogic, LogicPcs
    <3>2. TypeSend'
      BY <1>0, <2>9, SendThreadFacts DEF OnRecvPacket, SendPcs, TypeSend
    <3> QED
      BY <2>9, <3>1, <3>2, TypeByParts DEF OnRecvPacket
  <2>10. CASE OnDisconnectPacket
    <3>1. TypeLife'
      BY <1>0, <2>10
         DEF OnDisconnectPacket, DoDisconnect, Claim, States, Reasons, lifeVars, TypeLife
    <3>2. TypeLogic'
      BY <1>0, <2>10 DEF OnDisconnectPacket, TypeLogic, LogicPcs
    <3> QED
      BY <2>10, <3>1, <3>2, TypeByParts DEF OnDisconnectPacket
  <2>11. CASE EndProcessing
    <3>1. TypeLogic'
      BY <1>0, <2>11 DEF EndProcessing, TypeLogic, LogicPcs
    <3> QED
      BY <2>11, <3>1, TypeByParts DEF EndProcessing
  <2>12. CASE CompleteRecvLogic
    <3>1. TypeLogic'
      BY <1>0, <2>12, GenerationFacts DEF CompleteRecvLogic, TypeLogic, LogicPcs
    <3> QED
      BY <2>12, <3>1, TypeByParts DEF CompleteRecvLogic
  <2> QED
    BY <1>8, <2>1, <2>2, <2>3, <2>4, <2>5, <2>6, <2>7, <2>8, <2>9, <2>10, <2>11, <2>12
       DEF LogicWorker
<1>9. ASSUME NEW t \in Senders, SenderStart(t)
      PROVE  TypeOK'
  <2>1. TypeSend'
    BY <1>0, <1>9, SendThreadFacts DEF SenderStart, SendPcs, TypeSend
  <2> QED
    BY <1>9, <2>1, TypeByParts DEF SenderStart, sendFrame
<1>10. ASSUME NEW t \in SendThreads, DoSend(t)
       PROVE  TypeOK'
  <2>1. CASE DoSendEnter(t)
    <3>1. TypeSend'
      BY <1>0, <2>1 DEF DoSendEnter, SendPcs, TypeSend
    <3> QED
      BY <2>1, <3>1, TypeByParts DEF DoSendEnter, sendFrame
  <2>2. CASE DoSendAcquire(t)
    <3>1. TypeSend'
      BY <1>0, <2>2 DEF DoSendAcquire, SendPcs, TypeSend
    <3> QED
      BY <2>2, <3>1, TypeByParts DEF DoSendAcquire, sendFrame
  <2>3. CASE DoSendRecheck(t)
    <3>1. TypeSend'
      BY <1>0, <2>3 DEF DoSendRecheck, SendPcs, TypeSend
    <3> QED
      BY <2>3, <3>1, TypeByParts DEF DoSendRecheck, sendFrame
  <2>4. CASE DoSendGiveBack(t)
    <3>1. TypeSend'
      BY <1>0, <2>4 DEF DoSendGiveBack, SendPcs, TypeSend
    <3> QED
      BY <2>4, <3>1, TypeByParts DEF DoSendGiveBack, sendFrame
  <2>5. CASE TryRIOSend(t)
    <3>1. TypeSend'
      <4>1. ioMode' \in {"NONE", "SENDING"} /\ sendIo' \in [Generations -> Nat]
        BY <1>0, <2>5 DEF TryRIOSend, Add, TypeSend, TypeFlags
      <4>2. snd' \in [SendThreads -> SendPcs]
        BY <1>0, <2>5 DEF TryRIOSend, SendPcs, TypeSend
      <4> QED
        BY <4>1, <4>2 DEF TypeSend
    <3> QED
      BY <2>5, <3>1, TypeByParts DEF TryRIOSend, sendFrame
  <2>6. CASE SendFailed(t)
    <3>1. TypeLife'
      BY <1>0, <2>6 DEF SendFailed, DoDisconnect, Claim, States, Reasons, lifeVars, TypeLife
    <3>2. TypeSend'
      BY <1>0, <2>6 DEF SendFailed, SendPcs, TypeSend
    <3> QED
      BY <2>6, <3>1, <3>2, TypeByParts DEF SendFailed, sendFrame
  <2> QED
    BY <1>10, <2>1, <2>2, <2>3, <2>4, <2>5, <2>6 DEF DoSend
<1>11. CASE ReleaseThread
  <2>1. CASE TakeReleaseSessionIds
    <3>1. TypeRel'
      BY <1>0, <2>1 DEF TakeReleaseSessionIds, TypeRel, RelPcs
    <3> QED
      BY <2>1, <3>1, TypeByParts DEF TakeReleaseSessionIds, relFrame
  <2>2. CASE GetReleasingSession
    <3>1. TypeRel'
      BY <1>0, <2>2 DEF GetReleasingSession, TypeRel, RelPcs
    <3> QED
      BY <2>2, <3>1, TypeByParts DEF GetReleasingSession, relFrame
  <2>3. CASE RequeueReleaseSessionIds
    <3>1. TypeRel'
      BY <1>0, <2>3 DEF RequeueReleaseSessionIds, TypeRel, RelPcs
    <3> QED
      BY <2>3, <3>1, TypeByParts DEF RequeueReleaseSessionIds, relFrame
  <2>4. CASE BeginIOShutdown
    <3>1. TypeRel'
      BY <1>0, <2>4 DEF BeginIOShutdown, TypeRel, RelPcs
    <3> QED
      BY <2>4, <3>1, TypeByParts DEF BeginIOShutdown, relFrame
  <2>5. CASE StartIOShutdown
    <3>1. TypeFlags'
      BY <1>0, <2>5, AppendHook, Zenon DEF StartIOShutdown, TypeFlags
    <3>2. TypeRio'
      BY <1>0, <2>5, Zenon DEF StartIOShutdown, TypeRio
    <3>3. TypeRel'
      BY <1>0, <2>5 DEF StartIOShutdown, TypeRel, RelPcs
    <3> QED
      BY <2>5, <3>1, <3>2, <3>3, TypeByParts DEF StartIOShutdown, relFrame
  <2>6. CASE CloseSocket
    <3>1. TypeRio'
      BY <1>0, <2>6, Zenon DEF CloseSocket, TypeRio
    <3>2. TypeRel'
      BY <1>0, <2>6 DEF CloseSocket, TypeRel, RelPcs
    <3> QED
      BY <2>6, <3>1, <3>2, TypeByParts DEF CloseSocket, relFrame
  <2>7. CASE ReadOutstandingRecvIo
    <3>1. TypeRel'
      BY <1>0, <2>7 DEF ReadOutstandingRecvIo, CanFinalizeIO, KeepOrDrop, TypeRel, RelPcs
    <3> QED
      BY <2>7, <3>1, TypeByParts DEF ReadOutstandingRecvIo, relFrame, CanFinalizeIO
  <2>8. CASE ReadPendingRecvLogic
    <3>1. TypeRel'
      BY <1>0, <2>8 DEF ReadPendingRecvLogic, CanFinalizeIO, KeepOrDrop, TypeRel, RelPcs
    <3> QED
      BY <2>8, <3>1, TypeByParts DEF ReadPendingRecvLogic, relFrame, CanFinalizeIO
  <2>9. CASE ReadIOMode
    <3>1. TypeRel'
      BY <1>0, <2>9 DEF ReadIOMode, CanFinalizeIO, KeepOrDrop, TypeRel, RelPcs
    <3> QED
      BY <2>9, <3>1, TypeByParts DEF ReadIOMode, relFrame, CanFinalizeIO
  <2>10. CASE ReadActiveIOCompletions
    <3>1. TypeRel'
      BY <1>0, <2>10 DEF ReadActiveIOCompletions, CanFinalizeIO, KeepOrDrop, TypeRel, RelPcs
    <3> QED
      BY <2>10, <3>1, TypeByParts DEF ReadActiveIOCompletions, relFrame, CanFinalizeIO
  <2>11. CASE ReadProcessing
    <3>1. TypeRel'
      BY <1>0, <2>11 DEF ReadProcessing, KeepOrDrop, TypeRel, RelPcs
    <3> QED
      BY <2>11, <3>1, TypeByParts DEF ReadProcessing, relFrame
  <2>12. CASE FinalizeRIOCleanup
    <3>1. TypeFlags'
      BY <1>0, <2>12, AppendHook, Zenon DEF FinalizeRIOCleanup, TypeFlags
    <3>2. TypeRio'
      BY <1>0, <2>12, Zenon DEF FinalizeRIOCleanup, TypeRio
    <3>3. TypeRel'
      BY <1>0, <2>12 DEF FinalizeRIOCleanup, TypeRel, RelPcs
    <3> QED
      BY <2>12, <3>1, <3>2, <3>3, TypeByParts DEF FinalizeRIOCleanup, relFrame
  <2>13. CASE InitializeSession
    <3>1. CASE state /= "RELEASING" \/ unused > 0
      <4>1. TypeRel'
        BY <1>0, <2>13, <3>1 DEF InitializeSession, TypeFlags, TypeRel,
               RelPcs
      <4> QED
        BY <2>13, <3>1, <4>1, TypeByParts DEF InitializeSession
    <3>2. CASE ~(state /= "RELEASING" \/ unused > 0)
      <4>1. TypeFlags'
        BY <1>0, <2>13, <3>2, GenerationFacts, Zenon DEF InitializeSession, TypeFlags
      <4>2. TypeRio'
        BY <1>0, <2>13, <3>2, Zenon DEF InitializeSession, TypeRio
      <4>3. TypeIo'
        BY <1>0, <2>13, <3>2 DEF InitializeSession, TypeIo
      <4>4. TypeLogic'
        BY <1>0, <2>13, <3>2, Zenon DEF InitializeSession, TypeLogic
      <4>5. TypeRel'
        BY <1>0, <2>13, <3>2 DEF InitializeSession, TypeFlags, TypeRel,
               RelPcs
      <4> QED
        BY <2>13, <3>2, <4>1, <4>2, <4>3, <4>4, <4>5, TypeByParts DEF InitializeSession
    <3> QED
      BY <3>1, <3>2
  <2>14. CASE ReleaseSession
    <3>1. TypeLife'
      BY <1>0, <2>14 DEF ReleaseSession, States, TypeLife
    <3>2. TypeFlags'
      BY <1>0, <2>14, AppendHook, Zenon DEF ReleaseSession, TypeFlags
    <3>3. TypeSend'
      BY <1>0, <2>14 DEF ReleaseSession, TypeSend
    <3>4. TypePool'
      BY <1>0, <2>14 DEF ReleaseSession, TypePool
    <3>5. TypeRel'
      BY <1>0, <2>14 DEF ReleaseSession, TypeRel, RelPcs
    <3> QED
      BY <2>14, <3>1, <3>2, <3>3, <3>4, <3>5, TypeByParts DEF ReleaseSession, relFrame
  <2>15. CASE DecrementConnectedCount
    <3>1. TypePool'
      BY <1>0, <2>15 DEF DecrementConnectedCount, TypePool
    <3>2. TypeRel'
      BY <1>0, <2>15 DEF DecrementConnectedCount, TypeRel, RelPcs
    <3> QED
      BY <2>15, <3>1, <3>2, TypeByParts DEF DecrementConnectedCount, relFrame
  <2> QED
    BY <1>11, <2>1, <2>2, <2>3, <2>4, <2>5, <2>6, <2>7, <2>8, <2>9, <2>10, <2>11, <2>12,
       <2>13, <2>14, <2>15
       DEF ReleaseThread
<1>12. ASSUME NEW b \in Brokers, AcquireSession(b)
       PROVE  TypeOK'
  <2>1. TypePool'
    BY <1>0, <1>12 DEF AcquireSession, brokerFrame, TypePool
  <2>2. TypeBroker'
    BY <1>0, <1>12 DEF AcquireSession, TypeBroker, BrokerPcs, Step
  <2> QED
    BY <1>12, <2>1, <2>2, TypeByParts DEF AcquireSession, brokerFrame, poolVars
<1>13. ASSUME NEW b \in Brokers, BrokerContinue(b)
       PROVE  TypeOK'
  <2>1. CASE SetReserved(b)
    <3>1. TypeLife'
      BY <1>0, <2>1 DEF SetReserved, States, TypeLife
    <3>2. TypeBroker'
      BY <1>0, <2>1 DEF SetReserved, TypeBroker, BrokerPcs, Step
    <3> QED
      BY <2>1, <3>1, <3>2, TypeByParts DEF SetReserved, brokerFrame, poolVars
  <2>2. CASE CreateRUDPSocket(b)
    <3>1. TypeRio'
      BY <1>0, <2>2, Zenon DEF CreateRUDPSocket, TypeRio
    <3>2. TypeBroker'
      BY <1>0, <2>2 DEF CreateRUDPSocket, TypeBroker, BrokerPcs, Step
    <3> QED
      BY <2>2, <3>1, <3>2, TypeByParts DEF CreateRUDPSocket, brokerFrame, poolVars
  <2>3. CASE InitializeSessionRIO(b)
    <3>1. TypeRio'
      BY <1>0, <2>3, Zenon DEF InitializeSessionRIO, TypeRio
    <3>2. TypeRecv'
      BY <1>0, <2>3, RecvSlotsAssumption DEF InitializeSessionRIO, TypeRecv
    <3>3. TypeBroker'
      BY <1>0, <2>3 DEF InitializeSessionRIO, TypeBroker, BrokerPcs, Step
    <3> QED
      BY <2>3, <3>1, <3>2, <3>3, TypeByParts DEF InitializeSessionRIO, brokerFrame, poolVars
  <2>4. CASE BrokerDoRecv(b)
    <3>1. TypeBroker'
      BY <1>0, <2>4 DEF BrokerDoRecv, TypeBroker, BrokerPcs, Step
    <3> QED
      BY <2>4, <3>1, TypeByParts DEF BrokerDoRecv, brokerFrame, poolVars
  <2>5. CASE BrokerPost(b)
    <3>1. TypeRecv'
      BY <1>0, <2>5 DEF BrokerPost, PostReceive, Add, TypeRecv, TypeFlags
    <3> QED
      BY <2>5, <3>1, TypeByParts DEF BrokerPost, brokerFrame, poolVars
  <2>6. CASE BrokerDoRecvReturn(b)
    <3>1. TypeBroker'
      BY <1>0, <2>6 DEF BrokerDoRecvReturn, TypeBroker, BrokerPcs, Step
    <3> QED
      BY <2>6, <3>1, TypeByParts DEF BrokerDoRecvReturn, brokerFrame, poolVars
  <2>7. CASE InitReserveFails(b)
    <3>1. TypeLife'
      BY <1>0, <2>7
         DEF InitReserveFails, AbortReservedSession, Claim, States, Reasons, lifeVars,
             TypeLife
    <3>2. TypeBroker'
      BY <1>0, <2>7 DEF InitReserveFails, TypeBroker, BrokerPcs, Step
    <3> QED
      BY <2>7, <3>1, <3>2, TypeByParts DEF InitReserveFails, brokerFrame, poolVars
  <2>8. CASE InitSessionCrypto(b)
    <3>1. TypeFlags'
      BY <1>0, <2>8, Zenon DEF InitSessionCrypto, TypeFlags
    <3>2. TypeBroker'
      BY <1>0, <2>8 DEF InitSessionCrypto, TypeBroker, BrokerPcs, Step
    <3> QED
      BY <2>8, <3>1, <3>2, TypeByParts DEF InitSessionCrypto, brokerFrame, poolVars
  <2>9. CASE ReserveFailed(b)
    <3>1. TypeBroker'
      BY <1>0, <2>9 DEF ReserveFailed, TypeBroker, BrokerPcs, Step
    <3> QED
      BY <2>9, <3>1, TypeByParts DEF ReserveFailed, brokerFrame, poolVars
  <2>10. CASE ReserveCleanUp(b)
    <3>1. TypeLife'
      BY <1>0, <2>10
         DEF ReserveCleanUp, AbortReservedSession, DoDisconnect, Claim, States, Reasons,
             lifeVars, TypeLife
    <3>2. TypeBroker'
      BY <1>0, <2>10 DEF ReserveCleanUp, TypeBroker, BrokerPcs, Step
    <3> QED
      BY <2>10, <3>1, <3>2, TypeByParts DEF ReserveCleanUp, brokerFrame, poolVars
  <2>11. CASE SendSessionInfoToClient(b)
    <3>1. TypeLife'
      BY <1>0, <2>11
         DEF SendSessionInfoToClient, AbortReservedSession, Claim, States, Reasons,
             lifeVars, TypeLife
    <3>2. TypeBroker'
      BY <1>0, <2>11 DEF SendSessionInfoToClient, TypeBroker, BrokerPcs, Step
    <3> QED
      BY <2>11, <3>1, <3>2, TypeByParts DEF SendSessionInfoToClient, brokerFrame, poolVars
  <2> QED
    BY <1>13, <2>1, <2>2, <2>3, <2>4, <2>5, <2>6, <2>7, <2>8, <2>9, <2>10, <2>11
       DEF BrokerContinue
<1>14. CASE UNCHANGED vars
  BY <1>14, TypeByParts DEF vars
<1> QED
  BY NextCases, <1>1, <1>2, <1>3, <1>4, <1>5, <1>6, <1>7, <1>8, <1>9, <1>10, <1>11,
     <1>12, <1>13, <1>14

\* The type invariant holds of every behaviour.
THEOREM TypeCorrect == Spec => []TypeOK
<1>1. Init => TypeOK
  <2> SUFFICES ASSUME Init PROVE TypeOK
    OBVIOUS
  <2>1. /\ state \in States /\ disconnectedReason \in Reasons \cup {"NOT_DISCONNECTED"}
        /\ claim \in Reasons \cup {"none", "marked"} /\ hooks \in Seq(Hooks)
        /\ releasedReason \in Reasons \cup {"NOT_DISCONNECTED"}
        /\ generation \in Generations /\ ioGen \in Generations /\ logicGen \in Generations
    BY GenerationFacts DEF Init, States, Hooks
  <2>2. /\ nowInReleaseThread \in BOOLEAN /\ announced \in BOOLEAN
        /\ socket \in BOOLEAN /\ rio \in BOOLEAN /\ ioShutdownStarted \in BOOLEAN
        /\ nowInProcessingRecvPacket \in BOOLEAN
    BY DEF Init
  <2>3. /\ posted \in [Generations -> Nat] /\ sendIo \in [Generations -> Nat]
        /\ logicQueue \in [Generations -> Nat]
    BY DEF Init, NoTags
  <2>4. /\ ioPc \in IoPcs /\ logicPc \in LogicPcs /\ relPc \in RelPcs
        /\ snd \in [SendThreads -> SendPcs] /\ broker \in [Brokers -> BrokerPcs]
        /\ round \in {1, 2} /\ ioMode \in {"NONE", "SENDING"}
    BY DEF Init, IoPcs, LogicPcs, RelPcs, SendPcs, BrokerPcs
  <2>5. /\ freeRecv \in Nat /\ outstandingRecvIo \in Int /\ activeIOCompletions \in Int
        /\ pendingRecvLogic \in Int /\ unused \in Nat /\ connectedUserCount \in Nat
        /\ releaseList \in Nat /\ workList \in Nat /\ remainList \in Nat
    BY DEF Init
  <2> QED
    BY <2>1, <2>2, <2>3, <2>4, <2>5, Zenon DEF TypeOK
<1>2. TypeOK /\ [Next]_vars => TypeOK'
  BY TypeStep
<1> QED
  BY <1>1, <1>2, PTL DEF Spec

-----------------------------------------------------------------------------
(* The session is in one place.  SessionInOnePlace counts the places; its  *)
(* inductive form excludes them pairwise, adds that a session on its way   *)
(* out is RELEASING, and says what a broker may rely on between taking the *)
(* session from the pool and its plain store of RESERVED: that the state   *)
(* is still DISCONNECTED and that no other broker is at the same point.    *)

\* The release thread holds the id between taking it and giving it back.
InHand == relPc \notin {"wait", "next", "count"}
Listed == releaseList + workList + remainList

PlaceInv ==
    /\ unused <= 1 /\ Listed <= 1
    /\ unused = 1 => state = "DISCONNECTED"
    /\ claim /= "none" => state = "RELEASING" /\ Listed = 0 /\ ~InHand
    /\ Listed = 1 => state = "RELEASING" /\ ~InHand
    /\ InHand => state = "RELEASING"
    /\ \A b \in Brokers : broker[b] = "acquired" => state = "DISCONNECTED" /\ unused = 0
    /\ \A b, c \in Brokers : broker[b] = "acquired" /\ broker[c] = "acquired" => b = c

\* What PlaceInv speaks of, and its types.
placeVars == <<state, claim, unused, releaseList, workList, remainList, relPc, broker>>

PlaceTypes ==
    /\ unused \in Nat /\ releaseList \in Nat /\ workList \in Nat /\ remainList \in Nat
    /\ relPc \in RelPcs
    /\ broker \in [Brokers -> BrokerPcs]

LEMMA PlaceTypesHold == TypeOK => PlaceTypes
BY Zenon DEF TypeOK, PlaceTypes

LEMMA PlaceStutter ==
    ASSUME PlaceInv, UNCHANGED placeVars
    PROVE  PlaceInv'
BY DEF PlaceInv, placeVars, InHand, Listed

\* Winning RELEASING puts a session that was in use into the winner's hand.
LEMMA PlaceClaim ==
    ASSUME PlaceInv, PlaceTypes, NEW reason \in Reasons,
           \/ DoDisconnect(reason) \/ AbortReservedSession,
           UNCHANGED <<unused, releaseList, workList, remainList, relPc>>,
           \/ UNCHANGED broker
           \/ \E b \in Brokers, pc \in BrokerPcs \ {"acquired"} : Step(b, pc)
    PROVE  PlaceInv'
<1>1. \A b \in Brokers : broker'[b] = "acquired" => broker[b] = "acquired"
  BY Zenon DEF PlaceTypes, Step
<1>2. \/ UNCHANGED <<state, claim>>
      \/ state \in {"RESERVED", "CONNECTED"} /\ state' = "RELEASING"
  BY DEF DoDisconnect, AbortReservedSession, Claim, lifeVars
<1>3. CASE UNCHANGED <<state, claim>>
  BY <1>1, <1>3 DEF PlaceInv, InHand, Listed
<1>4. CASE state \in {"RESERVED", "CONNECTED"} /\ state' = "RELEASING"
  BY <1>1, <1>4 DEF PlaceInv, PlaceTypes, InHand, Listed
<1> QED
  BY <1>2, <1>3, <1>4

LEMMA PlaceStep ==
    ASSUME TypeOK, PlaceInv, [Next]_vars
    PROVE  PlaceInv'
<1> USE PlaceTypesHold
<1>1. CASE MarkRelease
  BY <1>1 DEF MarkRelease, PlaceInv, InHand, Listed, poolVars, relVars, Reasons
<1>2. CASE PushToDisconnectTargetSession
  BY <1>2 DEF PushToDisconnectTargetSession, PlaceInv, PlaceTypes, InHand, Listed, poolVars
<1>3. CASE ContentDisconnect
  <2>1. /\ DoDisconnect("NORMAL") /\ UNCHANGED broker
        /\ UNCHANGED <<unused, releaseList, workList, remainList, relPc>>
    BY <1>3 DEF ContentDisconnect, poolVars, relVars
  <2> QED
    BY <2>1, PlaceClaim DEF Reasons
<1>4. CASE AbortTimedOut
  <2>1. /\ AbortReservedSession /\ UNCHANGED broker
        /\ UNCHANGED <<unused, releaseList, workList, remainList, relPc>>
    BY <1>4 DEF AbortTimedOut, poolVars, relVars
  <2> QED
    BY <2>1, PlaceClaim DEF Reasons
<1>5. CASE BeginRecvCompletion \/ BeginSendCompletion
  <2>1. UNCHANGED placeVars
    BY <1>5 DEF BeginRecvCompletion, BeginSendCompletion, placeVars, lifeVars, poolVars, relVars
  <2> QED
    BY <2>1, PlaceStutter
<1>6. CASE IoContinue
  <2>1. CASE DisconnectUnlessCancelled
    <3>1. /\ UNCHANGED broker
          /\ UNCHANGED <<unused, releaseList, workList, remainList, relPc>>
          /\ UNCHANGED lifeVars \/ DoDisconnect("NORMAL")
      BY <2>1 DEF DisconnectUnlessCancelled, poolVars, relVars
    <3>2. CASE UNCHANGED lifeVars
      BY <3>1, <3>2, PlaceStutter DEF placeVars, lifeVars
    <3> QED
      BY <3>1, <3>2, PlaceClaim DEF Reasons
  <2>2. CASE ~DisconnectUnlessCancelled
    <3>1. UNCHANGED <<lifeVars, poolVars, relVars, broker>>
      BY <1>6, <2>2, Zenon
         DEF IoContinue, HandleStaleCompletion, HandleFailedCompletion, EnqueueContextResult,
             FreeCompletedContext, DoRecv, DoRecvPost, DoRecvReturn, SendIOCompleted,
             CompleteIOCompletion
    <3> QED
      BY <3>1, PlaceStutter DEF placeVars, lifeVars, poolVars, relVars
  <2> QED
    BY <2>1, <2>2
<1>7. CASE LogicWorker
  <2>1. CASE TryConnect
    BY <2>1 DEF TryConnect, PlaceInv, PlaceTypes, InHand, Listed, poolVars, relVars
  <2>2. CASE OnDisconnectPacket
    <3>1. /\ DoDisconnect("NORMAL") /\ UNCHANGED broker
          /\ UNCHANGED <<unused, releaseList, workList, remainList, relPc>>
      BY <2>2 DEF OnDisconnectPacket, poolVars, relVars
    <3> QED
      BY <3>1, PlaceClaim DEF Reasons
  <2>3. CASE ~TryConnect /\ ~OnDisconnectPacket
    <3>1. UNCHANGED <<lifeVars, unused, relVars, broker>>
      BY <1>7, <2>3
         DEF LogicWorker, DequeueRecvContext, TryDispatchRecvPacket, BeginProcessing,
             IgnorePacket, OnConnected, SendConnectReply, IncrementConnectedCount,
             OnRecvPacket, EndProcessing, CompleteRecvLogic, poolVars
    <3> QED
      BY <3>1, PlaceStutter DEF placeVars, lifeVars, relVars
  <2> QED
    BY <2>1, <2>2, <2>3
<1>8. ASSUME NEW t \in Senders, SenderStart(t)
      PROVE  PlaceInv'
  BY <1>8, PlaceStutter DEF SenderStart, sendFrame, placeVars, lifeVars, poolVars, relVars
<1>9. ASSUME NEW t \in SendThreads, DoSend(t)
      PROVE  PlaceInv'
  <2>1. CASE SendFailed(t)
    <3>1. /\ DoDisconnect("NORMAL") /\ UNCHANGED broker
          /\ UNCHANGED <<unused, releaseList, workList, remainList, relPc>>
      BY <2>1 DEF SendFailed, sendFrame, poolVars, relVars
    <3> QED
      BY <3>1, PlaceClaim DEF Reasons
  <2>2. CASE ~SendFailed(t)
    <3>1. UNCHANGED <<lifeVars, sendFrame>>
      BY <1>9, <2>2
         DEF DoSend, DoSendEnter, DoSendAcquire, DoSendRecheck, DoSendGiveBack, TryRIOSend
    <3> QED
      BY <3>1, PlaceStutter DEF sendFrame, placeVars, lifeVars, poolVars, relVars
  <2> QED
    BY <2>1, <2>2
<1>10. CASE ReleaseThread
  <2> USE DEF PlaceInv, PlaceTypes, InHand, Listed, RelPcs, lifeVars, poolVars, relFrame
  <2>1. CASE TakeReleaseSessionIds
    BY <2>1 DEF TakeReleaseSessionIds
  <2>2. CASE GetReleasingSession
    BY <2>2 DEF GetReleasingSession
  <2>3. CASE RequeueReleaseSessionIds
    BY <2>3 DEF RequeueReleaseSessionIds
  <2>4. CASE BeginIOShutdown
    BY <2>4 DEF BeginIOShutdown
  <2>5. CASE StartIOShutdown
    BY <2>5 DEF StartIOShutdown
  <2>6. CASE CloseSocket
    BY <2>6 DEF CloseSocket
  <2>7. CASE ReadOutstandingRecvIo
    BY <2>7 DEF ReadOutstandingRecvIo, CanFinalizeIO, KeepOrDrop
  <2>8. CASE ReadPendingRecvLogic
    BY <2>8 DEF ReadPendingRecvLogic, CanFinalizeIO, KeepOrDrop
  <2>9. CASE ReadIOMode
    BY <2>9 DEF ReadIOMode, CanFinalizeIO, KeepOrDrop
  <2>10. CASE ReadActiveIOCompletions
    BY <2>10 DEF ReadActiveIOCompletions, CanFinalizeIO, KeepOrDrop
  <2>11. CASE ReadProcessing
    BY <2>11 DEF ReadProcessing, KeepOrDrop
  <2>12. CASE FinalizeRIOCleanup
    BY <2>12 DEF FinalizeRIOCleanup
  <2>13. CASE InitializeSession
    BY <2>13 DEF InitializeSession
  <2>14. CASE ReleaseSession
    BY <2>14 DEF ReleaseSession
  <2>15. CASE DecrementConnectedCount
    BY <2>15 DEF DecrementConnectedCount
  <2> QED
    BY <1>10, <2>1, <2>2, <2>3, <2>4, <2>5, <2>6, <2>7, <2>8, <2>9, <2>10, <2>11,
       <2>12, <2>13, <2>14, <2>15 DEF ReleaseThread
<1>11. ASSUME NEW b \in Brokers, AcquireSession(b)
       PROVE  PlaceInv'
  BY <1>11 DEF AcquireSession, Step, PlaceInv, PlaceTypes, InHand, Listed, BrokerPcs,
               lifeVars, brokerFrame, relVars
<1>12. ASSUME NEW b \in Brokers, BrokerContinue(b)
       PROVE  PlaceInv'
  <2>1. CASE SetReserved(b)
    BY <2>1 DEF SetReserved, Step, PlaceInv, PlaceTypes, InHand, Listed, BrokerPcs,
                brokerFrame, relVars
  <2>2. CASE InitReserveFails(b) \/ ReserveCleanUp(b) \/ SendSessionInfoToClient(b)
    <3>1. /\ UNCHANGED <<unused, releaseList, workList, remainList, relPc>>
          /\ \E pc \in BrokerPcs \ {"acquired"} : Step(b, pc)
      BY <2>2 DEF InitReserveFails, ReserveCleanUp, SendSessionInfoToClient, BrokerPcs,
                  brokerFrame, relVars
    <3>2. UNCHANGED lifeVars \/ DoDisconnect("NORMAL") \/ AbortReservedSession
      BY <2>2, Zenon DEF InitReserveFails, ReserveCleanUp, SendSessionInfoToClient
    <3>3. CASE UNCHANGED lifeVars
      BY <3>1, <3>3 DEF PlaceInv, PlaceTypes, InHand, Listed, lifeVars, Step
    <3>4. CASE DoDisconnect("NORMAL") \/ AbortReservedSession
      BY <3>1, <3>4, PlaceClaim DEF Reasons
    <3> QED
      BY <3>2, <3>3, <3>4
  <2>3. CASE \/ CreateRUDPSocket(b) \/ InitializeSessionRIO(b) \/ BrokerDoRecv(b)
             \/ BrokerPost(b) \/ BrokerDoRecvReturn(b) \/ InitSessionCrypto(b)
             \/ ReserveFailed(b)
    <3>1. /\ UNCHANGED <<state, claim, unused, releaseList, workList, remainList, relPc>>
          /\ \/ UNCHANGED broker
             \/ \E pc \in BrokerPcs \ {"acquired"} : Step(b, pc)
      BY <2>3 DEF CreateRUDPSocket, InitializeSessionRIO, BrokerDoRecv, BrokerPost,
                  BrokerDoRecvReturn, InitSessionCrypto, ReserveFailed, BrokerPcs,
                  brokerFrame, relVars, lifeVars
    <3> QED
      BY <3>1 DEF PlaceInv, PlaceTypes, InHand, Listed, Step
  <2> QED
    BY <1>12, <2>1, <2>2, <2>3 DEF BrokerContinue
<1>13. CASE UNCHANGED vars
  BY <1>13, PlaceStutter DEF vars, placeVars, lifeVars, poolVars, relVars
<1> QED
  BY NextCases, <1>1, <1>2, <1>3, <1>4, <1>5, <1>6, <1>7, <1>8, <1>9, <1>10, <1>11,
     <1>12, <1>13

\* PlaceInv holds of every behaviour; OnePlace and the theorems of two other modules use it.
LEMMA PlaceHolds == Spec => []PlaceInv
<1>1. Init => PlaceInv
  BY DEF Init, PlaceInv, InHand, Listed
<1>2. TypeOK /\ PlaceInv /\ [Next]_vars => PlaceInv'
  BY PlaceStep
<1> QED
  BY <1>1, <1>2, TypeCorrect, PTL DEF Spec

\* SessionInOnePlace: whatever races, fails or arrives late, a session is never
\* released twice, handed out twice, or on its way out while in use.
THEOREM OnePlace == Spec => []SessionInOnePlace
<1>1. TypeOK /\ PlaceInv => SessionInOnePlace
  BY PlaceTypesHold
     DEF PlaceInv, PlaceTypes, InHand, Listed, SessionInOnePlace, RelBusy
<1> QED
  BY <1>1, TypeCorrect, PlaceHolds, PTL

-----------------------------------------------------------------------------
(* How a releasing session can be lost: only by the second drain check.    *)

\* An id in a list, or in the release thread's hand up to the reset, belongs to a
\* marked session; and the thread that is still counting one release has not taken
\* the next one of the same session.
TrackInv ==
    /\ Listed > 0 => nowInReleaseThread
    /\ InHand /\ relPc /= "reset" => nowInReleaseThread
    /\ relPc = "count" /\ state = "RELEASING" => claim /= "none" \/ Listed > 0

\* What TrackInv and Dropped speak of.
trackVars == <<state, claim, nowInReleaseThread, releaseList, workList, remainList, relPc>>

\* What a step must show.
Tracked == TrackInv' /\ (~Dropped /\ Dropped' => RelBusy /\ round = 2)

LEMMA TrackStutter ==
    ASSUME TrackInv, UNCHANGED trackVars
    PROVE  Tracked
BY DEF TrackInv, Tracked, Dropped, RelBusy, InHand, Listed, trackVars

\* The winner of RELEASING holds the session until it is in the release list.
LEMMA TrackClaim ==
    ASSUME TypeOK, PlaceInv, TrackInv, NEW reason \in Reasons,
           UNCHANGED <<nowInReleaseThread, releaseList, workList, remainList, relPc>>,
           DoDisconnect(reason) \/ (reason = "BY_ABORT_RESERVED" /\ AbortReservedSession)
    PROVE  Tracked
<1>1. CASE UNCHANGED lifeVars
  BY <1>1, TrackStutter DEF lifeVars, trackVars
<1>2. CASE ~UNCHANGED lifeVars
  <2>1. claim' = reason /\ state' = "RELEASING"
    BY <1>2 DEF DoDisconnect, AbortReservedSession, Claim
  <2>2. reason /= "none" /\ reason /= "marked"
    BY DEF Reasons
  <2> QED
    BY <2>1, <2>2 DEF TrackInv, Tracked, Dropped, InHand, Listed
<1> QED
  BY <1>1, <1>2

LEMMA ReleaseThreadTracks ==
    ASSUME TypeOK, PlaceInv, TrackInv, ReleaseThread
    PROVE  Tracked
<1>1. PlaceTypes
  BY PlaceTypesHold
<1> USE <1>1 DEF PlaceInv, PlaceTypes, InHand, Listed, TrackInv, Tracked, Dropped, RelBusy,
                 lifeVars, flagVars, relFrame
<1>2. CASE TakeReleaseSessionIds
  BY <1>2 DEF TakeReleaseSessionIds
<1>3. CASE GetReleasingSession
  BY <1>3 DEF GetReleasingSession
<1>4. CASE RequeueReleaseSessionIds
  BY <1>4 DEF RequeueReleaseSessionIds
<1>5. CASE BeginIOShutdown \/ StartIOShutdown \/ CloseSocket \/ FinalizeRIOCleanup
  <2>1. /\ UNCHANGED <<state, claim, nowInReleaseThread, releaseList, workList, remainList>>
        /\ relPc \notin {"wait", "next", "count", "reset"}
        /\ relPc' \notin {"wait", "next", "count", "reset"}
    BY <1>5 DEF BeginIOShutdown, StartIOShutdown, CloseSocket, FinalizeRIOCleanup
  <2> QED
    BY <2>1
<1>6. ASSUME NEW pc \in {"recvIo", "recvLogic", "ioMode", "active"}, NEW drained,
             NEW next \in {"recvLogic", "ioMode", "active", "processing"},
             CanFinalizeIO(pc, drained, next)
      PROVE  Tracked
  <2>1. /\ UNCHANGED <<state, claim, nowInReleaseThread, releaseList, workList>>
        /\ RelBusy /\ InHand
        /\ \/ relPc' = next /\ UNCHANGED remainList
           \/ relPc' = "next" /\ remainList' = IF round = 1 THEN remainList + 1 ELSE remainList
    BY <1>6 DEF CanFinalizeIO, KeepOrDrop
  <2>2. round = 1 \/ round = 2
    BY DEF TypeOK
  <2>3. relPc \notin {"reset", "count"} /\ next \notin {"wait", "next", "count", "reset"}
    BY <1>6 DEF CanFinalizeIO
  <2>4. CASE relPc' = next /\ UNCHANGED remainList
    BY <2>1, <2>3, <2>4
  <2>5. CASE relPc' = "next" /\ remainList' = IF round = 1 THEN remainList + 1 ELSE remainList
    <3>1. CASE round = 1
      BY <2>1, <2>3, <2>5, <3>1
    <3>2. CASE round = 2
      BY <2>1, <2>3, <2>5, <3>2
    <3> QED
      BY <2>2, <3>1, <3>2
  <2> QED
    BY <2>1, <2>4, <2>5
<1>7. CASE ReadOutstandingRecvIo
  BY <1>6, <1>7 DEF ReadOutstandingRecvIo
<1>8. CASE ReadPendingRecvLogic
  BY <1>6, <1>8 DEF ReadPendingRecvLogic
<1>9. CASE ReadIOMode
  BY <1>6, <1>9 DEF ReadIOMode
<1>10. CASE ReadActiveIOCompletions
  BY <1>6, <1>10 DEF ReadActiveIOCompletions
<1>11. CASE ReadProcessing
  <2>1. round = 1 \/ round = 2
    BY DEF TypeOK
  <2>2. CASE nowInProcessingRecvPacket
    BY <1>11, <2>1, <2>2 DEF ReadProcessing, KeepOrDrop
  <2>3. CASE ~nowInProcessingRecvPacket
    BY <1>11, <2>1, <2>3 DEF ReadProcessing
  <2> QED
    BY <2>2, <2>3
<1>12. CASE InitializeSession
  BY <1>12 DEF InitializeSession
<1>13. CASE ReleaseSession
  BY <1>13 DEF ReleaseSession
<1>14. CASE DecrementConnectedCount
  BY <1>14 DEF DecrementConnectedCount
<1> QED
  BY <1>2, <1>3, <1>4, <1>5, <1>7, <1>8, <1>9, <1>10, <1>11, <1>12, <1>13, <1>14
     DEF ReleaseThread

LEMMA TrackStep ==
    ASSUME TypeOK, PlaceInv, TrackInv, [Next]_vars
    PROVE  Tracked
<1>1. CASE MarkRelease
  BY <1>1 DEF MarkRelease, TrackInv, Tracked, Dropped, InHand, Listed, relVars
<1>2. CASE PushToDisconnectTargetSession
  <2>1. releaseList' > 0 /\ workList' \in Nat /\ remainList' \in Nat
    BY <1>2 DEF PushToDisconnectTargetSession, TypeOK
  <2> QED
    BY <1>2, <2>1
       DEF PushToDisconnectTargetSession, TypeOK, TrackInv, Tracked, Dropped, InHand, Listed
<1>3. CASE ContentDisconnect \/ AbortTimedOut
  <2>1. /\ UNCHANGED <<nowInReleaseThread, releaseList, workList, remainList, relPc>>
        /\ DoDisconnect("NORMAL") \/ AbortReservedSession
    BY <1>3 DEF ContentDisconnect, AbortTimedOut, flagVars, relVars
  <2> QED
    BY <2>1, TrackClaim DEF Reasons
<1>4. CASE BeginRecvCompletion \/ BeginSendCompletion
  BY <1>4, TrackStutter DEF BeginRecvCompletion, BeginSendCompletion, trackVars, lifeVars,
                            flagVars, relVars
<1>5. CASE IoContinue
  <2>1. CASE DisconnectUnlessCancelled
    <3>1. /\ UNCHANGED <<nowInReleaseThread, releaseList, workList, remainList, relPc>>
          /\ UNCHANGED lifeVars \/ DoDisconnect("NORMAL")
      BY <2>1 DEF DisconnectUnlessCancelled, flagVars, relVars
    <3> QED
      BY <3>1, TrackClaim, TrackStutter DEF Reasons, lifeVars, trackVars
  <2>2. CASE ~DisconnectUnlessCancelled
    <3>1. UNCHANGED <<lifeVars, flagVars, relVars>>
      BY <1>5, <2>2, Zenon
         DEF IoContinue, HandleStaleCompletion, HandleFailedCompletion, EnqueueContextResult,
             FreeCompletedContext, DoRecv, DoRecvPost, DoRecvReturn, SendIOCompleted,
             CompleteIOCompletion
    <3> QED
      BY <3>1, TrackStutter DEF trackVars, lifeVars, flagVars, relVars
  <2> QED
    BY <2>1, <2>2
<1>6. CASE LogicWorker
  <2>1. CASE TryConnect
    BY <2>1 DEF TryConnect, TrackInv, Tracked, Dropped, InHand, Listed, flagVars, relVars
  <2>2. CASE OnDisconnectPacket
    <3>1. /\ UNCHANGED <<nowInReleaseThread, releaseList, workList, remainList, relPc>>
          /\ DoDisconnect("NORMAL")
      BY <2>2 DEF OnDisconnectPacket, flagVars, relVars
    <3> QED
      BY <3>1, TrackClaim DEF Reasons
  <2>3. CASE ~TryConnect /\ ~OnDisconnectPacket
    <3>1. UNCHANGED <<lifeVars, nowInReleaseThread, relVars>>
      BY <1>6, <2>3
         DEF LogicWorker, DequeueRecvContext, TryDispatchRecvPacket, BeginProcessing,
             IgnorePacket, OnConnected, SendConnectReply, IncrementConnectedCount,
             OnRecvPacket, EndProcessing, CompleteRecvLogic, flagVars
    <3> QED
      BY <3>1, TrackStutter DEF trackVars, lifeVars, relVars
  <2> QED
    BY <2>1, <2>2, <2>3
<1>7. ASSUME NEW t \in Senders, SenderStart(t) PROVE Tracked
  BY <1>7, TrackStutter DEF SenderStart, sendFrame, trackVars, lifeVars, flagVars, relVars
<1>8. ASSUME NEW t \in SendThreads, DoSend(t) PROVE Tracked
  <2>1. CASE SendFailed(t)
    <3>1. /\ UNCHANGED <<nowInReleaseThread, releaseList, workList, remainList, relPc>>
          /\ DoDisconnect("NORMAL")
      BY <2>1 DEF SendFailed, sendFrame, flagVars, relVars
    <3> QED
      BY <3>1, TrackClaim DEF Reasons
  <2>2. CASE ~SendFailed(t)
    <3>1. UNCHANGED <<lifeVars, sendFrame>>
      BY <1>8, <2>2
         DEF DoSend, DoSendEnter, DoSendAcquire, DoSendRecheck, DoSendGiveBack, TryRIOSend
    <3> QED
      BY <3>1, TrackStutter DEF sendFrame, trackVars, lifeVars, flagVars, relVars
  <2> QED
    BY <2>1, <2>2
<1>9. CASE ReleaseThread
  BY <1>9, ReleaseThreadTracks
<1>10. ASSUME NEW b \in Brokers, AcquireSession(b) PROVE Tracked
  BY <1>10, TrackStutter DEF AcquireSession, brokerFrame, trackVars, lifeVars, flagVars, relVars
<1>11. ASSUME NEW b \in Brokers, BrokerContinue(b) PROVE Tracked
  <2>1. CASE SetReserved(b)
    BY <2>1 DEF SetReserved, brokerFrame, TrackInv, Tracked, Dropped, InHand, Listed,
                flagVars, relVars
  <2>2. CASE InitReserveFails(b) \/ ReserveCleanUp(b) \/ SendSessionInfoToClient(b)
    <3>1. /\ UNCHANGED <<nowInReleaseThread, releaseList, workList, remainList, relPc>>
          /\ UNCHANGED lifeVars \/ DoDisconnect("NORMAL") \/ AbortReservedSession
      BY <2>2 DEF InitReserveFails, ReserveCleanUp, SendSessionInfoToClient, brokerFrame,
                  flagVars, relVars
    <3> QED
      BY <3>1, TrackClaim, TrackStutter DEF Reasons, lifeVars, trackVars
  <2>3. CASE \/ CreateRUDPSocket(b) \/ InitializeSessionRIO(b) \/ BrokerDoRecv(b)
             \/ BrokerPost(b) \/ BrokerDoRecvReturn(b) \/ InitSessionCrypto(b)
             \/ ReserveFailed(b)
    <3>1. UNCHANGED <<lifeVars, nowInReleaseThread, relVars>>
      BY <2>3 DEF CreateRUDPSocket, InitializeSessionRIO, BrokerDoRecv, BrokerPost,
                  BrokerDoRecvReturn, InitSessionCrypto, ReserveFailed, brokerFrame, flagVars
    <3> QED
      BY <3>1, TrackStutter DEF trackVars, lifeVars, relVars
  <2> QED
    BY <1>11, <2>1, <2>2, <2>3 DEF BrokerContinue
<1>12. CASE UNCHANGED vars
  BY <1>12, TrackStutter DEF vars, trackVars, lifeVars, flagVars, relVars
<1> QED
  BY NextCases, <1>1, <1>2, <1>3, <1>4, <1>5, <1>6, <1>7, <1>8, <1>9, <1>10, <1>11, <1>12

\* An id on its way keeps its session marked, in every state.
LEMMA TrackHolds == Spec => []TrackInv
<1>1. Init => TrackInv
  BY DEF Init, TrackInv, InHand, Listed
<1>2. TypeOK /\ PlaceInv /\ TrackInv /\ [Next]_vars => TrackInv'
  BY TrackStep DEF Tracked
<1> QED
  BY <1>1, <1>2, TypeCorrect, PlaceHolds, PTL DEF Spec

\* Whatever fails, arrives late or races, there is one way only to lose a releasing
\* session: the drain test that Disconnect repeats after TryFinalizeSessionRelease has
\* seen the session drained (Workers.cpp:355).  Every other path keeps its id in a list.
THEOREM LostOnlyBySecondCheck == Spec => DroppedOnlyBySecondCheck
<1>1. TypeOK /\ PlaceInv /\ TrackInv /\ [Next]_vars
        => [~Dropped /\ Dropped' => RelBusy /\ round = 2]_vars
  BY TrackStep DEF Tracked
<1> QED
  BY <1>1, TypeCorrect, PlaceHolds, TrackHolds, PTL DEF Spec, DroppedOnlyBySecondCheck

-----------------------------------------------------------------------------
(***************************************************************************)
(* SessionLifecycle implements SessionSlot, for any number of brokers,     *)
(* senders, receive slots and generations: every step of a thread is one   *)
(* of the slot's four steps or leaves the slot and its epoch alone.  The   *)
(* invariant PlaceInv is what makes the steps that matter legal: it says   *)
(* in which state a step can find the session.                             *)
(***************************************************************************)

\* What slotOf and epochOf read.
resetting == relPc = "reset"
slotVars == <<state, unused, generation, resetting>>

SlotStep == Slot!SlotNext \/ UNCHANGED <<slotOf, epochOf>>

LEMMA SlotStutter ==
    ASSUME UNCHANGED slotVars
    PROVE  SlotStep
BY DEF slotVars, resetting, SlotStep, slotOf, epochOf

\* Claim is a Leave for its winner, a stutter for the rest.
LEMMA SlotClaim ==
    ASSUME PlaceInv, PlaceTypes, NEW reason \in Reasons,
           DoDisconnect(reason) \/ AbortReservedSession \/ UNCHANGED lifeVars,
           UNCHANGED <<unused, generation, resetting>>
    PROVE  SlotStep
<1>1. epochOf' = epochOf
  BY DEF epochOf, resetting
<1>2. CASE UNCHANGED state
  BY <1>2 DEF SlotStep, slotOf, epochOf, resetting
<1>3. CASE state \in {"RESERVED", "CONNECTED"} /\ state' = "RELEASING"
  <2>1. unused = 0 /\ unused' = 0
    BY <1>3 DEF PlaceInv, PlaceTypes
  <2>2. slotOf \in {"held", "connected"} /\ slotOf' = "leaving"
    BY <1>3, <2>1 DEF slotOf
  <2> QED
    BY <1>1, <2>2 DEF SlotStep, Slot!SlotNext, Slot!Leave
<1> QED
  BY <1>2, <1>3 DEF DoDisconnect, AbortReservedSession, Claim, lifeVars

\* The generation moves under the reset, so the epoch does not.
LEMMA EpochHeld ==
    ASSUME GenModulus \in Nat \ {0, 1}, generation \in Generations, relPc /= "reset",
           generation' = NextGeneration(generation), relPc' = "reset"
    PROVE  epochOf' = epochOf
BY DEF epochOf, NextGeneration, Generations

\* The reset ends, and the epoch becomes the generation's.
LEMMA EpochMoves ==
    ASSUME GenModulus \in Nat \ {0, 1}, generation \in Generations, relPc = "reset",
           generation' = generation, relPc' /= "reset"
    PROVE  epochOf' = IF epochOf + 1 = GenModulus THEN 0 ELSE epochOf + 1
BY DEF epochOf, Generations

LEMMA SlotInitial ==
    Init => Slot!SlotInit
BY DEF Init, Slot!SlotInit, slotOf, epochOf

LEMMA SlotSimulation ==
    ASSUME TypeOK, PlaceInv, [Next]_vars
    PROVE  SlotStep
<1>0. PlaceTypes /\ generation \in Generations
  BY PlaceTypesHold DEF TypeOK
<1>1. CASE \/ MarkRelease \/ PushToDisconnectTargetSession
           \/ BeginRecvCompletion \/ BeginSendCompletion
  BY <1>1, SlotStutter
     DEF MarkRelease, PushToDisconnectTargetSession, BeginRecvCompletion,
         BeginSendCompletion, slotVars, resetting, lifeVars, flagVars, poolVars, relVars
<1>2. CASE ContentDisconnect \/ AbortTimedOut
  <2>1. /\ DoDisconnect("NORMAL") \/ AbortReservedSession
        /\ UNCHANGED <<unused, generation, resetting>>
    BY <1>2 DEF ContentDisconnect, AbortTimedOut, flagVars, poolVars, relVars, resetting
  <2> QED
    BY <1>0, <2>1, SlotClaim DEF Reasons
<1>3. CASE IoContinue
  <2>1. UNCHANGED <<unused, generation, resetting>>
    BY <1>3 DEF IoContinue, HandleStaleCompletion, HandleFailedCompletion,
         EnqueueContextResult, DisconnectUnlessCancelled, FreeCompletedContext, DoRecv,
         DoRecvPost, DoRecvReturn, SendIOCompleted, CompleteIOCompletion,
         flagVars, poolVars, relVars, resetting
  <2>2. UNCHANGED lifeVars \/ DoDisconnect("NORMAL")
    BY <1>3, Zenon
       DEF IoContinue, HandleStaleCompletion, HandleFailedCompletion, EnqueueContextResult,
         DisconnectUnlessCancelled, FreeCompletedContext, DoRecv, DoRecvPost,
         DoRecvReturn, SendIOCompleted, CompleteIOCompletion
  <2> QED
    BY <1>0, <2>1, <2>2, SlotClaim DEF Reasons
<1>4. CASE LogicWorker
  <2>1. CASE TryConnect
    <3>1. /\ state = "RESERVED" /\ state' = "CONNECTED"
          /\ UNCHANGED <<unused, generation, resetting>>
      BY <2>1 DEF TryConnect, flagVars, poolVars, relVars, resetting
    <3>2. unused = 0 /\ unused' = 0 /\ epochOf' = epochOf
      BY <1>0, <3>1 DEF PlaceInv, PlaceTypes, epochOf, resetting
    <3>3. slotOf = "held" /\ slotOf' = "connected"
      BY <3>1, <3>2 DEF slotOf
    <3> QED
      BY <3>2, <3>3 DEF SlotStep, Slot!SlotNext, Slot!Connect
  <2>2. CASE ~TryConnect
    <3>1. UNCHANGED <<unused, generation, resetting>>
      BY <1>4, <2>2 DEF LogicWorker, DequeueRecvContext, TryDispatchRecvPacket,
         BeginProcessing, IgnorePacket, OnConnected, SendConnectReply,
         IncrementConnectedCount, OnRecvPacket, OnDisconnectPacket, EndProcessing,
         CompleteRecvLogic, flagVars, poolVars, relVars, resetting
    <3>2. UNCHANGED lifeVars \/ DoDisconnect("NORMAL")
      BY <1>4, <2>2, Zenon
         DEF LogicWorker, DequeueRecvContext, TryDispatchRecvPacket, BeginProcessing,
         IgnorePacket, OnConnected, SendConnectReply, IncrementConnectedCount,
         OnRecvPacket, OnDisconnectPacket, EndProcessing, CompleteRecvLogic
    <3> QED
      BY <1>0, <3>1, <3>2, SlotClaim DEF Reasons
  <2> QED
    BY <2>1, <2>2
<1>5. ASSUME NEW t \in Senders, SenderStart(t)
      PROVE  SlotStep
  BY <1>5, SlotStutter
     DEF SenderStart, sendFrame, slotVars, resetting, lifeVars, flagVars, poolVars, relVars
<1>6. ASSUME NEW t \in SendThreads, DoSend(t)
      PROVE  SlotStep
  <2>1. UNCHANGED <<unused, generation, resetting>>
    BY <1>6 DEF DoSend, DoSendEnter, DoSendAcquire, DoSendRecheck, DoSendGiveBack,
         TryRIOSend, SendFailed, sendFrame, flagVars, poolVars, relVars, resetting
  <2>2. UNCHANGED lifeVars \/ DoDisconnect("NORMAL")
    BY <1>6, Zenon DEF DoSend, DoSendEnter, DoSendAcquire, DoSendRecheck, DoSendGiveBack,
         TryRIOSend, SendFailed
  <2> QED
    BY <1>0, <2>1, <2>2, SlotClaim DEF Reasons
<1>7. CASE ReleaseThread
  <2>1. CASE InitializeSession
    <3>1. UNCHANGED <<state, unused>> /\ relPc /= "reset"
      BY <2>1 DEF InitializeSession, lifeVars, poolVars
    <3>2. slotOf' = slotOf
      BY <3>1 DEF slotOf
    <3>3. CASE relPc' = "next" /\ UNCHANGED flagVars
      BY <3>1, <3>3, SlotStutter DEF slotVars, resetting, flagVars
    <3>4. CASE relPc' = "reset" /\ generation' = NextGeneration(generation)
      <4>1. epochOf' = epochOf
        BY <1>0, <3>1, <3>4, EpochHeld, GenModulusAssumption
      <4> QED
        BY <3>2, <4>1 DEF SlotStep
    <3> QED
      BY <2>1, <3>3, <3>4, Zenon DEF InitializeSession
  <2>2. CASE ReleaseSession
    <3>1. /\ relPc = "reset" /\ relPc' /= "reset" /\ UNCHANGED generation
          /\ state' = "DISCONNECTED" /\ unused' = unused + 1
      BY <2>2 DEF ReleaseSession
    <3>2. state = "RELEASING" /\ unused = 0
      BY <1>0, <3>1 DEF PlaceInv, PlaceTypes, InHand
    <3>3. slotOf = "leaving" /\ slotOf' = "free"
      BY <3>1, <3>2 DEF slotOf
    <3>4. epochOf' = IF epochOf + 1 = GenModulus THEN 0 ELSE epochOf + 1
      BY <1>0, <3>1, EpochMoves, GenModulusAssumption
    <3> QED
      BY <3>3, <3>4 DEF SlotStep, Slot!SlotNext, Slot!Return
  <2>3. CASE ~InitializeSession /\ ~ReleaseSession
    <3>1. UNCHANGED <<state, unused, generation>> /\ relPc /= "reset" /\ relPc' /= "reset"
      BY <1>7, <2>3
         DEF ReleaseThread, TakeReleaseSessionIds, GetReleasingSession,
         RequeueReleaseSessionIds, BeginIOShutdown, StartIOShutdown, CloseSocket,
         ReadOutstandingRecvIo, ReadPendingRecvLogic, ReadIOMode,
         ReadActiveIOCompletions, ReadProcessing, FinalizeRIOCleanup,
         DecrementConnectedCount, CanFinalizeIO, KeepOrDrop, lifeVars, flagVars, poolVars
    <3> QED
      BY <3>1, SlotStutter DEF slotVars, resetting
  <2> QED
    BY <2>1, <2>2, <2>3
<1>8. ASSUME NEW b \in Brokers, AcquireSession(b)
      PROVE  SlotStep
  <2>1. /\ unused = 1 /\ unused' = 0 /\ state = "DISCONNECTED" /\ state' = "DISCONNECTED"
        /\ UNCHANGED <<generation, resetting>>
    BY <1>0, <1>8 DEF AcquireSession, PlaceInv, PlaceTypes, lifeVars, flagVars,
                      brokerFrame, relVars, resetting
  <2>2. slotOf = "free" /\ slotOf' = "held" /\ epochOf' = epochOf
    BY <2>1 DEF slotOf, epochOf, resetting
  <2> QED
    BY <2>2 DEF SlotStep, Slot!SlotNext, Slot!Acquire
<1>9. ASSUME NEW b \in Brokers, BrokerContinue(b)
      PROVE  SlotStep
  <2>1. CASE SetReserved(b)
    <3>1. /\ state = "DISCONNECTED" /\ state' = "RESERVED" /\ unused = 0 /\ unused' = 0
          /\ UNCHANGED <<generation, resetting>>
      BY <1>0, <2>1 DEF SetReserved, PlaceInv, flagVars, brokerFrame, relVars, resetting
    <3> QED
      BY <3>1 DEF SlotStep, slotOf, epochOf, resetting
  <2>2. CASE ~SetReserved(b)
    <3>1. UNCHANGED <<unused, generation, resetting>>
      BY <1>9, <2>2 DEF BrokerContinue, CreateRUDPSocket, InitializeSessionRIO,
         BrokerDoRecv, BrokerPost, BrokerDoRecvReturn, InitReserveFails,
         InitSessionCrypto, ReserveFailed, ReserveCleanUp, SendSessionInfoToClient,
         brokerFrame, flagVars, relVars, resetting
    <3>2. UNCHANGED lifeVars \/ DoDisconnect("NORMAL") \/ AbortReservedSession
      BY <1>9, <2>2, Zenon DEF BrokerContinue, CreateRUDPSocket, InitializeSessionRIO,
         BrokerDoRecv, BrokerPost, BrokerDoRecvReturn, InitReserveFails,
         InitSessionCrypto, ReserveFailed, ReserveCleanUp, SendSessionInfoToClient
    <3> QED
      BY <1>0, <3>1, <3>2, SlotClaim DEF Reasons
  <2> QED
    BY <2>1, <2>2
<1>10. CASE UNCHANGED vars
  BY <1>10, SlotStutter DEF vars, slotVars, resetting, lifeVars, flagVars, poolVars, relVars
<1> QED
  BY NextCases, <1>1, <1>2, <1>3, <1>4, <1>5, <1>6, <1>7, <1>8, <1>9, <1>10

\* ImplementsSlot: the session is handed out once, connects at most once, leaves
\* use once and returns to the pool once, under the next generation.
THEOREM Refinement == Spec => ImplementsSlot
<1>1. Init => Slot!SlotInit
  BY SlotInitial
<1>2. TypeOK /\ PlaceInv /\ [Next]_vars => [Slot!SlotNext]_<<slotOf, epochOf>>
  BY SlotSimulation DEF SlotStep
<1> QED
  BY <1>1, <1>2, TypeCorrect, PlaceHolds, PTL DEF Spec, ImplementsSlot, Slot!SlotSpec

-------------------------------------------------------------------------------
(* The drain of a session.                                                   *)

\* The assumptions on the code's environment under which the drain is proved.
Orderly == ~FailuresWhileReserved /\ ~CallsOutliveSession

\* Every tag is the current generation's, and the counters are exact.
TagInv ==
    /\ NoStaleTag
    /\ ioPc /= "idle" => ioGen = generation
    /\ logicPc /= "idle" => logicGen = generation
    /\ DrainCountersExact

\* The workers' own sends end before the completion or the packet they belong to.
WorkerInv ==
    /\ snd["io"] /= "idle" => ioPc = "sending"
    /\ snd["logic"] /= "idle" => logicPc \in {"connectReply", "replying"}

\* A session is marked from the claim to its reset.
Marked == nowInReleaseThread => state = "RELEASING"

\* One broker at a time, and what it may rely on at each point.
BrokerAt(b) ==
    /\ broker[b] \in {"reserved", "socket", "rio", "posting", "crypto"}
         => state = "RESERVED"
    /\ broker[b] = "socket" => socket
    /\ broker[b] \in {"rio", "posting"} => rio
    /\ broker[b] /= "initFailed"
    /\ broker[b] = "failed" => state \in {"RESERVED", "RELEASING"}
    /\ broker[b] = "disconnect" => state = "RELEASING"
    /\ broker[b] \notin {"idle", "respond"} => ~announced
BrokerInv ==
    /\ \A b, c \in Brokers : broker[b] /= "idle" /\ broker[c] /= "idle" => b = c
    /\ unused > 0 \/ relPc = "reset" => \A b \in Brokers : broker[b] = "idle"
    /\ \A b \in Brokers : BrokerAt(b)

\* A session that has not connected has called no hook and sent nothing.
Used == state \in {"CONNECTED", "RELEASING"}
UsedInv ==
    /\ hooks /= <<>> => Used
    /\ \A t \in SendThreads : snd[t] /= "idle" => Used
    /\ sendIo /= NoTags \/ ioPc \in {"send", "failed"} \/ logicPc = "connecting" => Used
    /\ state = "DISCONNECTED" => ~announced

\* Buffers are registered while anything may use them.
Idle == ioPc = "idle" /\ logicPc = "idle"
RioInv ==
    /\ posted /= NoTags \/ sendIo /= NoTags \/ logicQueue /= NoTags \/ ~Idle => rio
    /\ \A t \in SendThreads : snd[t] = "build" \/ (snd[t] /= "idle" /\ ~nowInReleaseThread)
                                => rio
    /\ state = "CONNECTED" => rio
    /\ state = "RESERVED" /\ rio => socket
    /\ state = "DISCONNECTED" \/ relPc \in {"onReleased", "release", "reset"} => ~rio

\* The token of the send mode: its holder, the send in RIO, or its completion.
TokenInv ==
    /\ OneSendInFlight
    /\ SendHolders /= {} => ioMode = "SENDING" /\ ioPc /= "send"
    /\ sendIo /= NoTags => ioMode = "SENDING" /\ ioPc /= "send"
    /\ ioPc = "send" => ioMode = "SENDING"

\* What each read of the release thread has seen over.
SendsOver == sendIo = NoTags /\ ioPc /= "send" /\ \A t \in SendThreads : snd[t] /= "build"
StageInv ==
    /\ InHand /\ (round = 2 \/ relPc \in {"active", "processing"}) => SendsOver
    /\ InHand /\ (round = 2 \/ relPc = "processing") => ioPc /= "posting"
    /\ round = 2 /\ (relPc \in {"recvLogic", "ioMode", "active", "processing"} \/ Freeing)
         => posted = NoTags /\ ioPc \notin {"recv", "enqueued"}
    /\ round = 2 /\ (relPc \in {"ioMode", "active", "processing"} \/ Freeing)
         => logicQueue = NoTags /\ logicPc = "idle"
    /\ round = 2 /\ (relPc = "processing" \/ Freeing) => ioPc = "idle"
    /\ Freeing => round = 2
    /\ state = "DISCONNECTED" \/ relPc = "reset" => \A t \in SendThreads : snd[t] = "idle"

\* Which hooks have been called, and what the reason of a release says of them.
Connected == hooks /= <<>> \/ logicPc = "connecting"
HookInv ==
    /\ HooksInOrder
    /\ logicPc = "connecting" => hooks = <<>>
    /\ logicPc \in {"onConnected", "connectReply", "replying"} => hooks /= <<>>
    /\ relPc \notin {"onReleased", "release", "reset"} =>
         hooks \in { <<>>, <<"OnConnected">>, <<"OnConnected", "OnDisconnected">> }
    /\ relPc \notin {"onReleased", "release", "reset"} /\ ~ioShutdownStarted =>
         hooks \in { <<>>, <<"OnConnected">> }
    /\ relPc = "shutProcessing" => ~ioShutdownStarted

ReasonInv ==
    /\ state = "CONNECTED" => Connected
    /\ claim = "NORMAL" => Connected
    /\ claim = "BY_ABORT_RESERVED" => ~Connected
    /\ nowInReleaseThread => disconnectedReason \in Reasons
    /\ nowInReleaseThread => (disconnectedReason = "NORMAL" <=> Connected)
    /\ relPc = "reset" => (releasedReason = "NORMAL" <=> hooks /= <<>>)
    /\ relPc = "reset" => ~nowInReleaseThread
    /\ claim = "marked" => nowInReleaseThread

DrainInv ==
    /\ TagInv /\ WorkerInv /\ Marked /\ BrokerInv /\ UsedInv /\ RioInv /\ TokenInv
    /\ StageInv /\ HookInv /\ ReasonInv /\ CountMatchesSession

-----------------------------------------------------------------------------
(* Who changes what.  Each conjunct of Moves names the actions that change *)
(* a variable; the proof of a part of the invariant treats those of its    *)
(* variables and is done with all other steps at once.                     *)

ThreadClaims ==
    \/ ContentDisconnect \/ AbortTimedOut \/ DisconnectUnlessCancelled \/ OnDisconnectPacket
    \/ \E t \in SendThreads : SendFailed(t)
BrokerClaims(b) == InitReserveFails(b) \/ ReserveCleanUp(b) \/ SendSessionInfoToClient(b)

MovesLife ==
    /\ \/ UNCHANGED state \/ TryConnect \/ ReleaseSession \/ ThreadClaims
       \/ \E b \in Brokers : SetReserved(b) \/ BrokerClaims(b)
    /\ \/ UNCHANGED claim \/ MarkRelease \/ PushToDisconnectTargetSession \/ ThreadClaims
       \/ \E b \in Brokers : BrokerClaims(b)
MovesFlags ==
    /\ \/ UNCHANGED nowInReleaseThread \/ MarkRelease \/ PushToDisconnectTargetSession
       \/ InitializeSession
    /\ UNCHANGED disconnectedReason \/ MarkRelease \/ ReleaseSession
    /\ \/ UNCHANGED hooks \/ OnConnected \/ StartIOShutdown \/ FinalizeRIOCleanup
       \/ ReleaseSession
    /\ UNCHANGED announced \/ ReleaseSession \/ \E b \in Brokers : InitSessionCrypto(b)
    /\ UNCHANGED generation \/ InitializeSession
MovesRio ==
    /\ UNCHANGED socket \/ CloseSocket \/ \E b \in Brokers : CreateRUDPSocket(b)
    /\ UNCHANGED rio \/ FinalizeRIOCleanup \/ \E b \in Brokers : InitializeSessionRIO(b)
    /\ UNCHANGED ioShutdownStarted \/ StartIOShutdown \/ InitializeSession
MovesIo ==
    /\ \/ UNCHANGED posted \/ BeginRecvCompletion \/ DoRecvPost
       \/ \E b \in Brokers : BrokerPost(b)
    /\ \/ UNCHANGED outstandingRecvIo \/ HandleStaleCompletion \/ HandleFailedCompletion
       \/ FreeCompletedContext \/ DoRecvPost \/ \E b \in Brokers : BrokerPost(b)
    /\ UNCHANGED <<ioPc, ioGen>> \/ BeginRecvCompletion \/ BeginSendCompletion \/ IoContinue
    /\ \/ UNCHANGED activeIOCompletions \/ BeginRecvCompletion \/ BeginSendCompletion
       \/ CompleteIOCompletion \/ InitializeSession
MovesLogic ==
    /\ UNCHANGED logicQueue \/ EnqueueContextResult \/ DequeueRecvContext
    /\ UNCHANGED pendingRecvLogic \/ EnqueueContextResult \/ CompleteRecvLogic
    /\ UNCHANGED <<logicPc, logicGen>> \/ LogicWorker
MovesSend ==
    /\ \/ UNCHANGED ioMode \/ HandleFailedCompletion \/ SendIOCompleted \/ ReleaseSession
       \/ \E t \in SendThreads : DoSend(t)
    /\ \/ UNCHANGED sendIo \/ BeginSendCompletion \/ \E t \in SendThreads : TryRIOSend(t)
    /\ \/ UNCHANGED snd \/ SendIOCompleted \/ SendConnectReply \/ OnRecvPacket
       \/ \E t \in Senders : SenderStart(t)
       \/ \E t \in SendThreads : DoSend(t)
MovesRest ==
    /\ UNCHANGED unused \/ ReleaseSession \/ \E b \in Brokers : AcquireSession(b)
    /\ UNCHANGED connectedUserCount \/ IncrementConnectedCount \/ DecrementConnectedCount
    /\ UNCHANGED <<relPc, round>> \/ ReleaseThread
    /\ UNCHANGED releasedReason \/ InitializeSession \/ DecrementConnectedCount
    /\ UNCHANGED broker \/ \E b \in Brokers : AcquireSession(b) \/ BrokerContinue(b)
Moves ==
    MovesLife /\ MovesFlags /\ MovesRio /\ MovesIo /\ MovesLogic /\ MovesSend /\ MovesRest

LEMMA NextMoves ==
    ASSUME [Next]_vars
    PROVE  Moves
<1> USE DEF Moves, MovesLife, MovesFlags, MovesRio, MovesIo, MovesLogic, MovesSend,
            MovesRest, ThreadClaims, BrokerClaims, lifeVars, flagVars, rioVars, recvVars,
            ioVars, logicVars, sendVars, poolVars, relVars
<1>1. CASE MarkRelease \/ PushToDisconnectTargetSession
  BY <1>1 DEF MarkRelease, PushToDisconnectTargetSession
<1>2. CASE ContentDisconnect \/ AbortTimedOut
  BY <1>2 DEF ContentDisconnect, AbortTimedOut
<1>3. CASE BeginRecvCompletion \/ BeginSendCompletion
  BY <1>3 DEF BeginRecvCompletion, BeginSendCompletion
<1>4. CASE IoContinue
  <2> USE DEF ReleaseRecvContext, PostReceive
  <2>1. CASE HandleStaleCompletion
    BY <1>4, <2>1 DEF HandleStaleCompletion
  <2>2. CASE HandleFailedCompletion
    BY <1>4, <2>2 DEF HandleFailedCompletion
  <2>3. CASE DisconnectUnlessCancelled
    BY <1>4, <2>3 DEF DisconnectUnlessCancelled
  <2>4. CASE EnqueueContextResult
    BY <1>4, <2>4 DEF EnqueueContextResult
  <2>5. CASE FreeCompletedContext
    BY <1>4, <2>5 DEF FreeCompletedContext
  <2>6. CASE DoRecv
    BY <1>4, <2>6 DEF DoRecv
  <2>7. CASE DoRecvPost
    BY <1>4, <2>7 DEF DoRecvPost
  <2>8. CASE DoRecvReturn
    BY <1>4, <2>8 DEF DoRecvReturn
  <2>9. CASE SendIOCompleted
    BY <1>4, <2>9 DEF SendIOCompleted
  <2>10. CASE CompleteIOCompletion
    BY <1>4, <2>10 DEF CompleteIOCompletion
  <2> QED
    BY <1>4, <2>1, <2>2, <2>3, <2>4, <2>5, <2>6, <2>7, <2>8, <2>9, <2>10 DEF IoContinue
<1>5. CASE LogicWorker
  <2>1. CASE DequeueRecvContext
    BY <1>5, <2>1 DEF DequeueRecvContext
  <2>2. CASE TryDispatchRecvPacket
    BY <1>5, <2>2 DEF TryDispatchRecvPacket
  <2>3. CASE BeginProcessing
    BY <1>5, <2>3 DEF BeginProcessing
  <2>4. CASE IgnorePacket
    BY <1>5, <2>4 DEF IgnorePacket
  <2>5. CASE TryConnect
    BY <1>5, <2>5 DEF TryConnect
  <2>6. CASE OnConnected
    BY <1>5, <2>6 DEF OnConnected
  <2>7. CASE SendConnectReply
    BY <1>5, <2>7 DEF SendConnectReply
  <2>8. CASE IncrementConnectedCount
    BY <1>5, <2>8 DEF IncrementConnectedCount
  <2>9. CASE OnRecvPacket
    BY <1>5, <2>9 DEF OnRecvPacket
  <2>10. CASE OnDisconnectPacket
    BY <1>5, <2>10 DEF OnDisconnectPacket
  <2>11. CASE EndProcessing
    BY <1>5, <2>11 DEF EndProcessing
  <2>12. CASE CompleteRecvLogic
    BY <1>5, <2>12 DEF CompleteRecvLogic
  <2> QED
    BY <1>5, <2>1, <2>2, <2>3, <2>4, <2>5, <2>6, <2>7, <2>8, <2>9, <2>10, <2>11, <2>12
       DEF LogicWorker
<1>6. ASSUME NEW t \in Senders, SenderStart(t) PROVE Moves
  BY <1>6 DEF SenderStart, sendFrame
<1>7. ASSUME NEW t \in SendThreads, DoSend(t) PROVE Moves
  <2> USE DEF sendFrame
  <2>1. CASE DoSendEnter(t)
    BY <1>7, <2>1 DEF DoSendEnter
  <2>2. CASE DoSendAcquire(t)
    BY <1>7, <2>2 DEF DoSendAcquire
  <2>3. CASE DoSendRecheck(t)
    BY <1>7, <2>3 DEF DoSendRecheck
  <2>4. CASE DoSendGiveBack(t)
    BY <1>7, <2>4 DEF DoSendGiveBack
  <2>5. CASE TryRIOSend(t)
    BY <1>7, <2>5 DEF TryRIOSend
  <2>6. CASE SendFailed(t)
    BY <1>7, <2>6 DEF SendFailed
  <2> QED
    BY <1>7, <2>1, <2>2, <2>3, <2>4, <2>5, <2>6 DEF DoSend
<1>8. CASE ReleaseThread
  <2> USE DEF relFrame, CanFinalizeIO
  <2>1. CASE TakeReleaseSessionIds
    BY <1>8, <2>1 DEF TakeReleaseSessionIds
  <2>2. CASE GetReleasingSession
    BY <1>8, <2>2 DEF GetReleasingSession
  <2>3. CASE RequeueReleaseSessionIds
    BY <1>8, <2>3 DEF RequeueReleaseSessionIds
  <2>4. CASE BeginIOShutdown
    BY <1>8, <2>4 DEF BeginIOShutdown
  <2>5. CASE StartIOShutdown
    BY <1>8, <2>5 DEF StartIOShutdown
  <2>6. CASE CloseSocket
    BY <1>8, <2>6 DEF CloseSocket
  <2>7. CASE ReadOutstandingRecvIo
    BY <1>8, <2>7 DEF ReadOutstandingRecvIo
  <2>8. CASE ReadPendingRecvLogic
    BY <1>8, <2>8 DEF ReadPendingRecvLogic
  <2>9. CASE ReadIOMode
    BY <1>8, <2>9 DEF ReadIOMode
  <2>10. CASE ReadActiveIOCompletions
    BY <1>8, <2>10 DEF ReadActiveIOCompletions
  <2>11. CASE ReadProcessing
    BY <1>8, <2>11 DEF ReadProcessing
  <2>12. CASE FinalizeRIOCleanup
    BY <1>8, <2>12 DEF FinalizeRIOCleanup
  <2>13. CASE InitializeSession
    BY <1>8, <2>13 DEF InitializeSession
  <2>14. CASE ReleaseSession
    BY <1>8, <2>14 DEF ReleaseSession
  <2>15. CASE DecrementConnectedCount
    BY <1>8, <2>15 DEF DecrementConnectedCount
  <2> QED
    BY <1>8, <2>1, <2>2, <2>3, <2>4, <2>5, <2>6, <2>7, <2>8, <2>9, <2>10, <2>11,
       <2>12, <2>13, <2>14, <2>15 DEF ReleaseThread
<1>9. ASSUME NEW b \in Brokers, AcquireSession(b) PROVE Moves
  BY <1>9 DEF AcquireSession, brokerFrame
<1>10. ASSUME NEW b \in Brokers, BrokerContinue(b) PROVE Moves
  <2> USE DEF brokerFrame, PostReceive
  <2>1. CASE SetReserved(b)
    BY <1>10, <2>1 DEF SetReserved
  <2>2. CASE CreateRUDPSocket(b)
    BY <1>10, <2>2 DEF CreateRUDPSocket
  <2>3. CASE InitializeSessionRIO(b)
    BY <1>10, <2>3 DEF InitializeSessionRIO
  <2>4. CASE BrokerDoRecv(b)
    BY <1>10, <2>4 DEF BrokerDoRecv
  <2>5. CASE BrokerPost(b)
    BY <1>10, <2>5 DEF BrokerPost
  <2>6. CASE BrokerDoRecvReturn(b)
    BY <1>10, <2>6 DEF BrokerDoRecvReturn
  <2>7. CASE InitReserveFails(b)
    BY <1>10, <2>7 DEF InitReserveFails
  <2>8. CASE InitSessionCrypto(b)
    BY <1>10, <2>8 DEF InitSessionCrypto
  <2>9. CASE ReserveFailed(b)
    BY <1>10, <2>9 DEF ReserveFailed
  <2>10. CASE ReserveCleanUp(b)
    BY <1>10, <2>10 DEF ReserveCleanUp
  <2>11. CASE SendSessionInfoToClient(b)
    BY <1>10, <2>11 DEF SendSessionInfoToClient
  <2> QED
    BY <1>10, <2>1, <2>2, <2>3, <2>4, <2>5, <2>6, <2>7, <2>8, <2>9, <2>10, <2>11
       DEF BrokerContinue
<1>11. CASE UNCHANGED vars
  BY <1>11 DEF vars
<1> QED
  BY NextCases, <1>1, <1>2, <1>3, <1>4, <1>5, <1>6, <1>7, <1>8, <1>9, <1>10, <1>11

-----------------------------------------------------------------------------
(* The packet handlers and the release thread's hooks.  This part needs no *)
(* assumption on the environment: pendingRecvLogic counts what the logic   *)
(* queue holds whatever generation it is of.                               *)

\* The packets a bag of tags counts.
Items(tags) == {p \in Generations \X Nat : 1 <= p[2] /\ p[2] <= tags[p[1]]}

\* Where the release thread knows that no packet is being handled.
QuietPcs == {"shutProcessing", "onDisconnected", "close", "ioMode", "active", "processing",
             "cleanup", "onReleased", "release"}

QuietInv ==
    /\ IsFiniteSet(Items(logicQueue))
    /\ pendingRecvLogic = Cardinality(Items(logicQueue)) + (IF logicPc /= "idle" THEN 1 ELSE 0)
    /\ relPc \in QuietPcs => logicPc \in {"idle", "check", "complete"}

LEMMA ItemsMove ==
    ASSUME NEW tags \in [Generations -> Nat], NEW g \in Generations, IsFiniteSet(Items(tags))
    PROVE  /\ IsFiniteSet(Items(Add(tags, g)))
           /\ Cardinality(Items(Add(tags, g))) = Cardinality(Items(tags)) + 1
           /\ tags[g] > 0 =>
                /\ IsFiniteSet(Items(Remove(tags, g)))
                /\ Cardinality(Items(Remove(tags, g))) = Cardinality(Items(tags)) - 1
<1> DEFINE last == <<g, tags[g]>>
           next == <<g, tags[g] + 1>>
<1>1. next \notin Items(tags) /\ Items(Add(tags, g)) = Items(tags) \cup {next}
  <2>1. next \notin Items(tags)
    BY DEF Items
  <2>2. ASSUME NEW h \in Generations, NEW i \in Nat
        PROVE  <<h, i>> \in Items(Add(tags, g)) <=> <<h, i>> \in Items(tags) \cup {next}
    <3>1. Add(tags, g)[h] = IF h = g THEN tags[h] + 1 ELSE tags[h]
      BY DEF Add
    <3>2. <<h, i>> = next <=> h = g /\ i = tags[g] + 1
      OBVIOUS
    <3> QED
      BY <3>1, <3>2 DEF Items
  <2>3. Items(Add(tags, g)) \subseteq Generations \X Nat
    BY DEF Items
  <2>4. Items(tags) \cup {next} \subseteq Generations \X Nat
    BY DEF Items
  <2> QED
    BY <2>1, <2>2, <2>3, <2>4
<1>2. ASSUME tags[g] > 0
      PROVE  last \in Items(tags) /\ Items(Remove(tags, g)) = Items(tags) \ {last}
  <2>1. last \in Items(tags)
    BY <1>2 DEF Items
  <2>2. ASSUME NEW h \in Generations, NEW i \in Nat
        PROVE  <<h, i>> \in Items(Remove(tags, g)) <=> <<h, i>> \in Items(tags) \ {last}
    <3>1. Remove(tags, g)[h] = IF h = g THEN tags[h] - 1 ELSE tags[h]
      BY DEF Remove
    <3>2. <<h, i>> = last <=> h = g /\ i = tags[g]
      OBVIOUS
    <3> QED
      BY <1>2, <3>1, <3>2 DEF Items
  <2>3. Items(Remove(tags, g)) \subseteq Generations \X Nat
    BY DEF Items
  <2>4. Items(tags) \ {last} \subseteq Generations \X Nat
    BY DEF Items
  <2> QED
    BY <2>1, <2>2, <2>3, <2>4
<1> HIDE DEF last, next
<1>3. /\ IsFiniteSet(Items(Add(tags, g)))
      /\ Cardinality(Items(Add(tags, g))) = Cardinality(Items(tags)) + 1
  BY <1>1, FS_AddElement
<1>4. ASSUME tags[g] > 0
      PROVE  /\ IsFiniteSet(Items(Remove(tags, g)))
             /\ Cardinality(Items(Remove(tags, g))) = Cardinality(Items(tags)) - 1
  BY <1>2, <1>4, FS_RemoveElement
<1> QED
  BY <1>3, <1>4

\* No packet's handling starts once the session is marked.
LEMMA NoNewPacket ==
    ASSUME [Next]_vars, nowInReleaseThread, logicPc \in {"idle", "check", "complete"}
    PROVE  logicPc' \in {"idle", "check", "complete"}
BY NextMoves
   DEF Moves, MovesLogic, LogicWorker, DequeueRecvContext, TryDispatchRecvPacket,
       BeginProcessing, IgnorePacket, TryConnect, OnConnected, SendConnectReply,
       IncrementConnectedCount, OnRecvPacket, OnDisconnectPacket, EndProcessing,
       CompleteRecvLogic

\* The release thread gets to where no handler may run by reading the counter at zero.
LEMMA QuietReads ==
    ASSUME TypeOK, QuietInv, ReleaseThread
    PROVE  \/ logicPc = "idle" /\ UNCHANGED logicPc
           \/ (relPc' \in QuietPcs => relPc \in QuietPcs) /\ UNCHANGED logicPc
<1>1. UNCHANGED logicPc
  BY DEF ReleaseThread, TakeReleaseSessionIds, GetReleasingSession,
         RequeueReleaseSessionIds, BeginIOShutdown, StartIOShutdown, CloseSocket,
         ReadOutstandingRecvIo, ReadPendingRecvLogic, ReadIOMode, ReadActiveIOCompletions,
         CanFinalizeIO, ReadProcessing, FinalizeRIOCleanup, InitializeSession,
         ReleaseSession, DecrementConnectedCount, relFrame, logicVars
<1>2. pendingRecvLogic = 0 => logicPc = "idle"
  BY FS_CardinalityType DEF QuietInv
<1>3. CASE BeginIOShutdown
  BY <1>1, <1>2, <1>3 DEF BeginIOShutdown, QuietPcs
<1>4. CASE ReadPendingRecvLogic
  BY <1>1, <1>2, <1>4 DEF ReadPendingRecvLogic, CanFinalizeIO, KeepOrDrop, QuietPcs
<1>5. CASE ~BeginIOShutdown /\ ~ReadPendingRecvLogic
  BY <1>1, <1>5 DEF ReleaseThread, TakeReleaseSessionIds, GetReleasingSession, KeepOrDrop,
         RequeueReleaseSessionIds, StartIOShutdown, CloseSocket,
         ReadOutstandingRecvIo, ReadIOMode, ReadActiveIOCompletions,
         CanFinalizeIO, ReadProcessing, FinalizeRIOCleanup, InitializeSession,
         ReleaseSession, DecrementConnectedCount, QuietPcs
<1> QED
  BY <1>3, <1>4, <1>5

LEMMA QuietStep ==
    ASSUME TypeOK, TrackInv, QuietInv, [Next]_vars
    PROVE  QuietInv'
<1>0. /\ Moves /\ QuietInv /\ logicQueue \in [Generations -> Nat] /\ ioGen \in Generations
      /\ pendingRecvLogic \in Int
  BY NextMoves, TypeParts DEF TypeLogic, TypeIo
<1>1. /\ IsFiniteSet(Items(logicQueue))'
      /\ (pendingRecvLogic = Cardinality(Items(logicQueue))
                              + (IF logicPc /= "idle" THEN 1 ELSE 0))'
  <2> USE DEF QuietInv
  <2>0. Cardinality(Items(logicQueue)) \in Nat
    BY <1>0, FS_CardinalityType
  <2>1. CASE EnqueueContextResult
    <3>1. /\ logicQueue' = Add(logicQueue, ioGen) /\ UNCHANGED logicPc
          /\ pendingRecvLogic' = pendingRecvLogic + 1
      BY <2>1 DEF EnqueueContextResult
    <3> QED
      BY <1>0, <2>0, <3>1, ItemsMove
  <2>2. CASE DequeueRecvContext
    <3>1. PICK g \in Generations : logicQueue[g] > 0 /\ logicQueue' = Remove(logicQueue, g)
      BY <2>2 DEF DequeueRecvContext
    <3>2. logicPc = "idle" /\ logicPc' = "check" /\ UNCHANGED pendingRecvLogic
      BY <2>2 DEF DequeueRecvContext
    <3> QED
      BY <1>0, <2>0, <3>1, <3>2, ItemsMove
  <2>3. CASE CompleteRecvLogic
    BY <1>0, <2>0, <2>3 DEF CompleteRecvLogic
  <2>4. CASE LogicWorker /\ ~DequeueRecvContext /\ ~CompleteRecvLogic
    <3>1. /\ logicPc /= "idle" /\ logicPc' /= "idle"
          /\ UNCHANGED <<logicQueue, pendingRecvLogic>>
      BY <2>4 DEF LogicWorker, TryDispatchRecvPacket, BeginProcessing, IgnorePacket,
                  TryConnect, OnConnected, SendConnectReply, IncrementConnectedCount,
                  OnRecvPacket, OnDisconnectPacket, EndProcessing
    <3> QED
      BY <1>0, <3>1
  <2>5. CASE ~EnqueueContextResult /\ ~LogicWorker
    <3>1. UNCHANGED <<logicQueue, pendingRecvLogic, logicPc>>
      BY <1>0, <2>5 DEF Moves, MovesLogic, LogicWorker
    <3> QED
      BY <1>0, <3>1
  <2> QED
    BY <2>1, <2>2, <2>3, <2>4, <2>5 DEF LogicWorker
<1>2. ASSUME relPc' \in QuietPcs
      PROVE  logicPc' \in {"idle", "check", "complete"}
  <2>1. CASE ReleaseThread
    BY <1>0, <1>2, <2>1, QuietReads DEF QuietInv
  <2>2. CASE UNCHANGED relPc
    <3>1. nowInReleaseThread /\ logicPc \in {"idle", "check", "complete"}
      BY <1>0, <1>2, <2>2 DEF TrackInv, InHand, QuietInv, QuietPcs
    <3> QED
      BY <3>1, NoNewPacket
  <2> QED
    BY <1>0, <2>1, <2>2 DEF Moves, MovesRest
<1> QED
  BY <1>1, <1>2 DEF QuietInv

LEMMA QuietHolds == Spec => []QuietInv
<1>1. ASSUME Init PROVE QuietInv
  <2>1. Items(logicQueue) = {}
    BY <1>1 DEF Init, Items, NoTags
  <2> QED
    BY <1>1, <2>1, FS_EmptySet DEF Init, QuietInv, QuietPcs
<1>2. TypeOK /\ TrackInv /\ QuietInv /\ [Next]_vars => QuietInv'
  BY QuietStep
<1> QED
  BY <1>1, <1>2, TypeCorrect, TrackHolds, PTL DEF Spec

\* OnDisconnected and OnReleased exclude the packet handlers (HooksExcludeHandlers),
\* with failures and late calls too: the release thread has read pendingRecvLogicCount
\* at zero after nowInReleaseThread was set, and a worker that takes a packet from then
\* on drops it (BeginIOShutdown and CanFinalizeIO against TryDispatchRecvPacket).
THEOREM HandlersExcluded == Spec => []HooksExcludeHandlers
<1>1. QuietInv => HooksExcludeHandlers
  BY DEF QuietInv, QuietPcs, HooksExcludeHandlers, Handling
<1> QED
  BY <1>1, QuietHolds, PTL

-----------------------------------------------------------------------------
(* One lemma per part of the invariant.                                    *)

\* A step of DoSend moves its own thread, from a call it is in.
LEMMA DoSendFacts ==
    ASSUME NEW t \in SendThreads, DoSend(t)
    PROVE  /\ snd[t] /= "idle" /\ UNCHANGED sendFrame
           /\ \E pc \in SendPcs : snd' = [snd EXCEPT ![t] = pc]
<1>1. CASE SendFailed(t)
  BY <1>1 DEF SendFailed, SendPcs
<1>2. CASE DoSendRecheck(t) \/ TryRIOSend(t)
  BY <1>2 DEF DoSendRecheck, TryRIOSend, SendPcs
<1>3. CASE DoSendEnter(t) \/ DoSendAcquire(t) \/ DoSendGiveBack(t)
  BY <1>3 DEF DoSendEnter, DoSendAcquire, DoSendGiveBack, SendPcs
<1> QED
  BY <1>1, <1>2, <1>3 DEF DoSend

LEMMA WorkerStep ==
    ASSUME TypeOK, DrainInv, [Next]_vars
    PROVE  WorkerInv'
<1>0. Moves /\ WorkerInv /\ snd \in [SendThreads -> SendPcs]
  BY NextMoves, TypeParts DEF DrainInv, TypeSend
<1> USE <1>0, SendThreadFacts DEF WorkerInv
<1>1. CASE BeginRecvCompletion \/ BeginSendCompletion
  BY <1>1 DEF BeginRecvCompletion, BeginSendCompletion, logicVars, sendVars
<1>2. CASE IoContinue
  <2>1. CASE SendIOCompleted
    BY <1>2, <2>1 DEF SendIOCompleted, logicVars
  <2>2. CASE CompleteIOCompletion
    BY <1>2, <2>2 DEF CompleteIOCompletion, logicVars, sendVars
  <2>3. CASE ~SendIOCompleted /\ ~CompleteIOCompletion
    <3>1. UNCHANGED <<snd, logicPc>> /\ ioPc \notin {"idle", "sending"}
      BY <1>2, <2>3
         DEF IoContinue, HandleStaleCompletion, HandleFailedCompletion, EnqueueContextResult,
             DisconnectUnlessCancelled, FreeCompletedContext, DoRecv, DoRecvPost,
             DoRecvReturn, logicVars, sendVars
    <3> QED
      BY <3>1
  <2> QED
    BY <2>1, <2>2, <2>3
<1>3. CASE LogicWorker
  <2>1. CASE SendConnectReply \/ OnRecvPacket
    BY <2>1 DEF SendConnectReply, OnRecvPacket, ioVars
  <2>2. CASE ~SendConnectReply /\ ~OnRecvPacket
    <3>1. UNCHANGED <<snd, ioPc>> /\ snd["logic"] = "idle"
      BY <1>3, <2>2
         DEF LogicWorker, DequeueRecvContext, TryDispatchRecvPacket, BeginProcessing,
             IgnorePacket, TryConnect, OnConnected, IncrementConnectedCount,
             OnDisconnectPacket, EndProcessing, CompleteRecvLogic, ioVars, sendVars
    <3> QED
      BY <3>1
  <2> QED
    BY <2>1, <2>2
<1>4. ASSUME NEW t \in Senders, SenderStart(t) PROVE WorkerInv'
  BY <1>4, SendersAssumption DEF SenderStart, sendFrame, ioVars, logicVars
<1>5. ASSUME NEW t \in SendThreads, DoSend(t) PROVE WorkerInv'
  BY <1>5, DoSendFacts DEF sendFrame, ioVars, logicVars
<1> QED
  BY <1>1, <1>2, <1>3, <1>4, <1>5 DEF Moves, MovesIo, MovesLogic, MovesSend, IoContinue,
     LogicWorker

LEMMA MarkedStep ==
    ASSUME TypeOK, PlaceInv, DrainInv, [Next]_vars
    PROVE  Marked'
<1>0. Moves /\ Marked /\ ReasonInv
  BY NextMoves DEF DrainInv
<1>1. CASE MarkRelease \/ PushToDisconnectTargetSession
  BY <1>1 DEF MarkRelease, PushToDisconnectTargetSession, Marked, PlaceInv, Reasons
<1>2. CASE InitializeSession
  BY <1>0, <1>2 DEF InitializeSession, lifeVars, flagVars, Marked
<1>3. CASE ReleaseSession
  BY <1>0, <1>3 DEF ReleaseSession, Marked, ReasonInv
<1>4. CASE UNCHANGED nowInReleaseThread /\ ~ReleaseSession
  <2>1. state = "RELEASING" => state' = "RELEASING"
    <3>1. ASSUME NEW b \in Brokers, SetReserved(b) PROVE state /= "RELEASING"
      BY <3>1 DEF SetReserved, PlaceInv
    <3>2. CASE ThreadClaims \/ \E b \in Brokers : BrokerClaims(b)
      BY <3>2 DEF ThreadClaims, BrokerClaims, ContentDisconnect, AbortTimedOut,
                  DisconnectUnlessCancelled, OnDisconnectPacket, SendFailed,
                  InitReserveFails, ReserveCleanUp, SendSessionInfoToClient, DoDisconnect,
                  AbortReservedSession, Claim, lifeVars
    <3>3. CASE TryConnect
      BY <3>3 DEF TryConnect
    <3> QED
      BY <1>0, <1>4, <3>1, <3>2, <3>3 DEF Moves, MovesLife
  <2> QED
    BY <1>0, <1>4, <2>1 DEF Marked
<1> QED
  BY <1>0, <1>1, <1>2, <1>3, <1>4 DEF Moves, MovesFlags

\* Who leaves use: the reason is NORMAL exactly for a session that was CONNECTED.
ClaimStep ==
    \/ UNCHANGED lifeVars
    \/ state = "CONNECTED" /\ state' = "RELEASING" /\ claim' = "NORMAL"
    \/ state = "RESERVED" /\ state' = "RELEASING" /\ claim' = "BY_ABORT_RESERVED"

LEMMA ThreadClaimFacts ==
    ASSUME UsedInv, ThreadClaims
    PROVE  /\ ClaimStep
           /\ state = "RESERVED" /\ state' /= "RESERVED"
                => \A b \in Brokers : broker[b] \in {"idle", "respond"}
<1> USE DEF DoDisconnect, AbortReservedSession, Claim, lifeVars, ClaimStep
<1>1. CASE AbortTimedOut
  BY <1>1 DEF AbortTimedOut
<1>2. CASE ContentDisconnect
  BY <1>2 DEF ContentDisconnect
<1>3. CASE DisconnectUnlessCancelled
  BY <1>3 DEF DisconnectUnlessCancelled, UsedInv, Used
<1>4. CASE OnDisconnectPacket
  BY <1>4 DEF OnDisconnectPacket, CanProcessPacket, UsedInv, Used
<1>5. ASSUME NEW t \in SendThreads, SendFailed(t)
      PROVE  ClaimStep /\ (state = "RESERVED" => state' = "RESERVED")
  BY <1>5 DEF SendFailed, UsedInv, Used
<1> QED
  BY <1>1, <1>2, <1>3, <1>4, <1>5 DEF ThreadClaims

LEMMA BrokerClaimFacts ==
    ASSUME NEW b \in Brokers, BrokerAt(b), BrokerClaims(b)
    PROVE  ClaimStep
<1> USE DEF DoDisconnect, AbortReservedSession, Claim, lifeVars, ClaimStep
<1>1. CASE InitReserveFails(b)
  BY <1>1 DEF InitReserveFails
<1>2. CASE ReserveCleanUp(b)
  BY <1>2 DEF ReserveCleanUp, BrokerAt
<1>3. CASE SendSessionInfoToClient(b)
  BY <1>3 DEF SendSessionInfoToClient
<1> QED
  BY <1>1, <1>2, <1>3 DEF BrokerClaims

\* The broker that moves is the only one.
LEMMA BrokerMoves ==
    ASSUME TypeOK, BrokerInv, NEW b \in Brokers, NEW pc \in BrokerPcs, Step(b, pc),
           broker[b] /= "idle", UNCHANGED <<unused, relPc>>, BrokerAt(b)'
    PROVE  BrokerInv'
<1>0. broker \in [Brokers -> BrokerPcs]
  BY TypeParts DEF TypeBroker
<1>1. \A c \in Brokers : c /= b => broker'[c] = "idle" /\ broker[c] = "idle"
  BY <1>0 DEF Step, BrokerInv
<1>2. ~(unused > 0 \/ relPc = "reset")
  BY DEF BrokerInv
<1>3. \A c \in Brokers : BrokerAt(c)'
  BY <1>1 DEF BrokerAt
<1> QED
  BY <1>1, <1>2, <1>3 DEF BrokerInv

LEMMA BrokerContinueStep ==
    ASSUME Orderly, TypeOK, PlaceInv, DrainInv, NEW b \in Brokers, BrokerContinue(b)
    PROVE  BrokerInv'
<1>0. /\ BrokerInv /\ BrokerAt(b) /\ Marked /\ RioInv /\ UsedInv
      /\ broker \in [Brokers -> BrokerPcs]
  BY TypeParts DEF DrainInv, BrokerInv, TypeBroker
<1> USE <1>0 DEF Step, brokerFrame, relVars
<1>1. CASE SetReserved(b)
  <2>1. Step(b, "reserved") /\ UNCHANGED <<unused, relPc>> /\ BrokerAt(b)'
    BY <1>1 DEF SetReserved, BrokerAt, flagVars
  <2> QED
    BY <1>1, <2>1, BrokerMoves DEF SetReserved, BrokerPcs
<1>2. CASE CreateRUDPSocket(b)
  <2>1. Step(b, "socket") /\ UNCHANGED <<unused, relPc>> /\ BrokerAt(b)'
    BY <1>2 DEF CreateRUDPSocket, BrokerAt, flagVars, lifeVars
  <2> QED
    BY <1>2, <2>1, BrokerMoves DEF CreateRUDPSocket, BrokerPcs
<1>3. CASE InitializeSessionRIO(b)
  <2>1. Step(b, "rio") /\ UNCHANGED <<unused, relPc>> /\ BrokerAt(b)'
    BY <1>3 DEF InitializeSessionRIO, BrokerAt, flagVars, lifeVars
  <2> QED
    BY <1>3, <2>1, BrokerMoves DEF InitializeSessionRIO, BrokerPcs
<1>4. CASE BrokerDoRecv(b)
  <2>1. state = "RESERVED" /\ rio /\ socket /\ ~nowInReleaseThread
    BY <1>4 DEF BrokerDoRecv, BrokerAt, RioInv, Marked
  <2>2. Step(b, "posting") /\ UNCHANGED <<unused, relPc>> /\ BrokerAt(b)'
    BY <1>4, <2>1 DEF BrokerDoRecv, BrokerAt, flagVars, lifeVars, rioVars
  <2> QED
    BY <1>4, <2>2, BrokerMoves DEF BrokerDoRecv, BrokerPcs
<1>5. CASE BrokerPost(b)
  BY <1>5 DEF BrokerPost, BrokerInv, BrokerAt, lifeVars, flagVars, rioVars
<1>6. CASE BrokerDoRecvReturn(b)
  <2>1. Step(b, "crypto") /\ UNCHANGED <<unused, relPc>> /\ BrokerAt(b)'
    BY <1>6 DEF BrokerDoRecvReturn, BrokerAt, flagVars, lifeVars
  <2> QED
    BY <1>6, <2>1, BrokerMoves DEF BrokerDoRecvReturn, BrokerPcs
<1>7. CASE InitReserveFails(b)
  <2>1. Step(b, "failed") /\ UNCHANGED <<unused, relPc>> /\ BrokerAt(b)'
    BY <1>7 DEF InitReserveFails, AbortReservedSession, Claim, BrokerAt, flagVars, lifeVars
  <2> QED
    BY <1>7, <2>1, BrokerMoves DEF InitReserveFails, BrokerPcs
<1>8. CASE InitSessionCrypto(b)
  <2>1. PICK pc \in {"respond", "failed"} : Step(b, pc)
    BY <1>8 DEF InitSessionCrypto
  <2>2. UNCHANGED <<unused, relPc>> /\ BrokerAt(b)'
    BY <1>8, <2>1 DEF InitSessionCrypto, BrokerAt, lifeVars
  <2> QED
    BY <1>8, <2>1, <2>2, BrokerMoves DEF InitSessionCrypto, BrokerPcs
<1>9. CASE ReserveFailed(b)
  <2>1. PICK pc \in {"abort", "disconnect"} :
           Step(b, pc) /\ (pc = "disconnect" => state /= "RESERVED")
    BY <1>9 DEF ReserveFailed
  <2>2. UNCHANGED <<unused, relPc>> /\ BrokerAt(b)'
    BY <1>9, <2>1 DEF ReserveFailed, BrokerAt, lifeVars, flagVars
  <2> QED
    BY <1>9, <2>1, <2>2, BrokerMoves DEF ReserveFailed, BrokerPcs
<1>10. CASE ReserveCleanUp(b)
  <2>1. Step(b, "respond") /\ UNCHANGED <<unused, relPc>> /\ BrokerAt(b)'
    BY <1>10 DEF ReserveCleanUp, BrokerAt
  <2> QED
    BY <1>10, <2>1, BrokerMoves DEF ReserveCleanUp, BrokerPcs
<1>11. CASE SendSessionInfoToClient(b)
  <2>1. Step(b, "idle") /\ UNCHANGED <<unused, relPc>> /\ BrokerAt(b)'
    BY <1>11 DEF SendSessionInfoToClient, BrokerAt
  <2> QED
    BY <1>11, <2>1, BrokerMoves DEF SendSessionInfoToClient, BrokerPcs
<1> QED
  BY <1>1, <1>2, <1>3, <1>4, <1>5, <1>6, <1>7, <1>8, <1>9, <1>10, <1>11 DEF BrokerContinue

LEMMA BrokerStep ==
    ASSUME Orderly, TypeOK, PlaceInv, DrainInv, [Next]_vars
    PROVE  BrokerInv'
<1>0. /\ Moves /\ BrokerInv /\ UsedInv /\ broker \in [Brokers -> BrokerPcs]
      /\ unused \in Nat
  BY NextMoves, TypeParts DEF DrainInv, TypeBroker, TypePool
<1>1. ASSUME NEW b \in Brokers, BrokerContinue(b) PROVE BrokerInv'
  BY <1>1, BrokerContinueStep
<1>2. ASSUME NEW b \in Brokers, AcquireSession(b) PROVE BrokerInv'
  BY <1>0, <1>2 DEF AcquireSession, Step, BrokerInv, BrokerAt, PlaceInv, UsedInv, lifeVars,
                    flagVars, rioVars, brokerFrame, relVars, InHand
<1>3. CASE TryConnect
  BY <1>0, <1>3 DEF TryConnect, BrokerInv, BrokerAt, flagVars, rioVars, poolVars, relVars
<1>4. CASE ReleaseSession
  BY <1>0, <1>4 DEF ReleaseSession, BrokerInv, BrokerAt, relFrame
<1>5. CASE ThreadClaims
  <2>1. UNCHANGED <<broker, unused, relPc, socket, rio, announced>>
    BY <1>5 DEF ThreadClaims, ContentDisconnect, AbortTimedOut, DisconnectUnlessCancelled,
                OnDisconnectPacket, SendFailed, sendFrame, flagVars, rioVars, poolVars,
                relVars
  <2>2. ClaimStep /\ (state = "RESERVED" /\ state' /= "RESERVED"
                        => \A b \in Brokers : broker[b] \in {"idle", "respond"})
    BY <1>0, <1>5, ThreadClaimFacts
  <2> QED
    BY <1>0, <2>1, <2>2 DEF BrokerInv, BrokerAt, ClaimStep, lifeVars
<1>6. CASE ReleaseThread /\ ~ReleaseSession
  <2>1. UNCHANGED <<broker, unused, state, announced>>
    BY <1>0, <1>6
       DEF ReleaseThread, TakeReleaseSessionIds, GetReleasingSession,
           RequeueReleaseSessionIds, BeginIOShutdown, StartIOShutdown, CloseSocket,
           ReadOutstandingRecvIo, ReadPendingRecvLogic, ReadIOMode, ReadActiveIOCompletions,
           CanFinalizeIO, ReadProcessing, FinalizeRIOCleanup, InitializeSession,
           DecrementConnectedCount, relFrame, lifeVars, flagVars, poolVars
  <2>2. CASE CloseSocket \/ FinalizeRIOCleanup
    BY <1>0, <2>1, <2>2 DEF CloseSocket, FinalizeRIOCleanup, BrokerInv, BrokerAt, PlaceInv,
                            InHand
  <2>3. CASE InitializeSession
    BY <1>0, <2>1, <2>3 DEF InitializeSession, BrokerInv, BrokerAt, Orderly, NoCallUnderWay,
                            rioVars
  <2>4. CASE ~CloseSocket /\ ~FinalizeRIOCleanup /\ ~InitializeSession
    <3>1. UNCHANGED <<socket, rio>>
      BY <1>0, <1>6, <2>4 DEF Moves, MovesRio, ReleaseThread, TakeReleaseSessionIds,
           GetReleasingSession, RequeueReleaseSessionIds, BeginIOShutdown, StartIOShutdown,
           ReadOutstandingRecvIo, ReadPendingRecvLogic, ReadIOMode, ReadActiveIOCompletions,
           CanFinalizeIO, ReadProcessing, DecrementConnectedCount, rioVars
    <3>2. relPc' /= "reset"
      BY <1>6, <2>4 DEF ReleaseThread, TakeReleaseSessionIds,
           GetReleasingSession, RequeueReleaseSessionIds, BeginIOShutdown, StartIOShutdown,
           ReadOutstandingRecvIo, ReadPendingRecvLogic, ReadIOMode, ReadActiveIOCompletions,
           CanFinalizeIO, KeepOrDrop, ReadProcessing, DecrementConnectedCount
    <3> QED
      BY <1>0, <2>1, <3>1, <3>2 DEF BrokerInv, BrokerAt
  <2> QED
    BY <2>2, <2>3, <2>4
<1>7. CASE /\ ~TryConnect /\ ~ThreadClaims /\ ~ReleaseThread
           /\ \A b \in Brokers : ~AcquireSession(b) /\ ~BrokerContinue(b)
  <2>1. UNCHANGED <<state, announced, socket, rio, unused, relPc, broker>>
    BY <1>0, <1>7 DEF Moves, MovesLife, MovesFlags, MovesRio, MovesRest, ReleaseThread,
                      BrokerContinue, BrokerClaims
  <2> QED
    BY <1>0, <2>1 DEF BrokerInv, BrokerAt
<1> QED
  BY <1>1, <1>2, <1>3, <1>4, <1>5, <1>6, <1>7

\* How the state moves.
LEMMA StateFacts ==
    ASSUME PlaceInv, DrainInv, [Next]_vars
    PROVE  /\ Used /\ ~ReleaseSession => Used'
           /\ state = "RELEASING" /\ ~ReleaseSession => state' = "RELEASING"
           /\ state' = "DISCONNECTED" /\ ~ReleaseSession => state = "DISCONNECTED"
           /\ state' = "CONNECTED" => state = "CONNECTED" \/ TryConnect
           /\ state' = "RESERVED" => state = "RESERVED" \/ \E b \in Brokers : SetReserved(b)
<1>0. Moves /\ UsedInv /\ BrokerInv
  BY NextMoves DEF DrainInv
<1> USE DEF Used
<1>1. CASE ThreadClaims \/ \E b \in Brokers : BrokerClaims(b)
  <2>1. ClaimStep
    BY <1>0, <1>1, ThreadClaimFacts, BrokerClaimFacts DEF BrokerInv
  <2> QED
    BY <2>1 DEF ClaimStep, lifeVars
<1>2. CASE TryConnect
  BY <1>2 DEF TryConnect
<1>3. CASE ReleaseSession
  BY <1>3 DEF ReleaseSession
<1>4. ASSUME NEW b \in Brokers, SetReserved(b)
      PROVE  state = "DISCONNECTED" /\ state' = "RESERVED"
  BY <1>4 DEF SetReserved, PlaceInv
<1>5. CASE UNCHANGED state
  BY <1>5
<1> QED
  BY <1>0, <1>1, <1>2, <1>3, <1>4, <1>5 DEF Moves, MovesLife

\* A tag that is counted is not in the empty bag.
LEMMA TagFacts ==
    ASSUME NEW g \in Generations
    PROVE  /\ NoTags[g] = 0
           /\ posted[g] > 0 => posted /= NoTags
           /\ sendIo[g] > 0 => sendIo /= NoTags
           /\ logicQueue[g] > 0 => logicQueue /= NoTags
BY DEF NoTags

\* Nothing of the session is under way when it returns to the pool.
LEMMA ResetIsQuiet ==
    ASSUME DrainInv, state = "DISCONNECTED" \/ relPc = "reset"
    PROVE  /\ posted = NoTags /\ sendIo = NoTags /\ logicQueue = NoTags /\ Idle
           /\ \A t \in SendThreads : snd[t] = "idle"
           /\ ~rio
BY DEF DrainInv, RioInv, StageInv

LEMMA UsedStep ==
    ASSUME Orderly, TypeOK, PlaceInv, DrainInv, [Next]_vars
    PROVE  UsedInv'
<1>0. /\ Moves /\ UsedInv /\ HookInv /\ RioInv /\ BrokerInv
      /\ snd \in [SendThreads -> SendPcs]
  BY NextMoves, TypeParts DEF DrainInv, TypeSend
<1>1. CASE ReleaseSession
  <2>1. /\ hooks' = <<>> /\ ~announced' /\ UNCHANGED <<sendIo, ioPc, logicPc, snd>>
        /\ sendIo = NoTags /\ Idle /\ \A t \in SendThreads : snd[t] = "idle"
    BY <1>1, ResetIsQuiet DEF ReleaseSession, relFrame, ioVars, logicVars
  <2> QED
    BY <2>1 DEF UsedInv, Idle
<1>2. CASE ~ReleaseSession
  <2>0. Used => Used'
    BY <1>2, StateFacts
  <2>1. hooks' /= <<>> => Used
    <3>1. CASE OnConnected
      BY <1>0, <3>1 DEF OnConnected, UsedInv
    <3>2. CASE StartIOShutdown \/ FinalizeRIOCleanup
      BY <3>2 DEF StartIOShutdown, FinalizeRIOCleanup, PlaceInv, InHand, Used
    <3>3. CASE UNCHANGED hooks
      BY <1>0, <3>3 DEF UsedInv
    <3> QED
      BY <1>0, <1>2, <3>1, <3>2, <3>3 DEF Moves, MovesFlags
  <2>2. \A t \in SendThreads : snd'[t] /= "idle" => Used
    <3>1. CASE SendIOCompleted
      BY <1>0, <3>1 DEF SendIOCompleted, UsedInv
    <3>2. CASE SendConnectReply \/ OnRecvPacket
      BY <1>0, <3>2 DEF SendConnectReply, OnRecvPacket, CanProcessPacket, UsedInv, HookInv
    <3>3. ASSUME NEW t \in Senders, SenderStart(t) PROVE Used
      BY <3>3 DEF SenderStart, Used
    <3>4. ASSUME NEW t \in SendThreads, DoSend(t) PROVE Used
      BY <1>0, <3>4, DoSendFacts DEF UsedInv
    <3>5. CASE UNCHANGED snd
      BY <1>0, <3>5 DEF UsedInv
    <3> QED
      BY <1>0, <3>1, <3>2, <3>3, <3>4, <3>5 DEF Moves, MovesSend
  <2>3. sendIo' /= NoTags => Used
    <3>1. CASE BeginSendCompletion
      BY <1>0, <3>1, TagFacts DEF BeginSendCompletion, UsedInv
    <3>2. ASSUME NEW t \in SendThreads, TryRIOSend(t) PROVE Used
      BY <1>0, <3>2 DEF TryRIOSend, UsedInv
    <3> QED
      BY <1>0, <3>1, <3>2 DEF Moves, MovesSend, UsedInv
  <2>4. ioPc' \in {"send", "failed"} => Used
    <3>1. CASE BeginRecvCompletion \/ BeginSendCompletion
      BY <1>0, <3>1, TagFacts DEF BeginRecvCompletion, BeginSendCompletion, UsedInv
    <3>2. CASE IoContinue
      <4>1. ioPc /= "idle" /\ ~(ioPc \in {"send", "failed"}) /\ ioPc' \in {"send", "failed"}
              => MayFail \/ ~socket
        BY <3>2 DEF IoContinue, HandleStaleCompletion, HandleFailedCompletion,
             DisconnectUnlessCancelled, EnqueueContextResult, FreeCompletedContext, DoRecv,
             DoRecvPost, DoRecvReturn, SendIOCompleted, CompleteIOCompletion, ioVars
      <4>2. ioPc /= "idle"
        BY <3>2 DEF IoContinue, HandleStaleCompletion, HandleFailedCompletion,
             DisconnectUnlessCancelled, EnqueueContextResult, FreeCompletedContext, DoRecv,
             DoRecvPost, DoRecvReturn, SendIOCompleted, CompleteIOCompletion
      <4>3. MayFail \/ ~socket => Used
        BY <1>0, <4>2, TypeParts
           DEF RioInv, Idle, MayFail, Orderly, Used, TypeLife, States
      <4> QED
        BY <1>0, <4>1, <4>2, <4>3 DEF UsedInv
    <3>3. CASE UNCHANGED ioPc
      BY <1>0, <3>3 DEF UsedInv
    <3> QED
      BY <1>0, <3>1, <3>2, <3>3 DEF Moves, MovesIo
  <2>5. logicPc' = "connecting" => Used \/ TryConnect
    <3>1. CASE LogicWorker
      BY <3>1 DEF LogicWorker, DequeueRecvContext, TryDispatchRecvPacket, BeginProcessing,
           IgnorePacket, OnConnected, SendConnectReply, IncrementConnectedCount,
           OnRecvPacket, OnDisconnectPacket, EndProcessing, CompleteRecvLogic
    <3>2. CASE UNCHANGED logicPc
      BY <1>0, <3>2 DEF UsedInv
    <3> QED
      BY <1>0, <3>1, <3>2 DEF Moves, MovesLogic
  <2>6. TryConnect => Used'
    BY DEF TryConnect, Used
  <2>7. state' = "DISCONNECTED" => ~announced'
    <3>1. ASSUME NEW b \in Brokers, InitSessionCrypto(b) PROVE state' = "RESERVED"
      BY <1>0, <3>1 DEF InitSessionCrypto, BrokerInv, BrokerAt, lifeVars
    <3> QED
      BY <1>0, <1>2, <3>1, StateFacts DEF Moves, MovesFlags, UsedInv
  <2> QED
    BY <2>0, <2>1, <2>2, <2>3, <2>4, <2>5, <2>6, <2>7 DEF UsedInv
<1> QED
  BY <1>1, <1>2

\* What the release thread has seen when it frees the session.
LEMMA FreeingIsDrained ==
    ASSUME DrainInv, Freeing
    PROVE  /\ posted = NoTags /\ sendIo = NoTags /\ logicQueue = NoTags /\ Idle
           /\ \A t \in SendThreads : snd[t] /= "build"
BY DEF DrainInv, StageInv, SendsOver, Freeing, InHand, Idle

\* Recycling the session finds no send under way.
LEMMA NoSendAtReset ==
    ASSUME Orderly, DrainInv, InitializeSession
    PROVE  \A t \in SendThreads : snd[t] = "idle"
<1>1. Idle
  BY FreeingIsDrained DEF InitializeSession, Freeing
<1>2. snd["io"] = "idle" /\ snd["logic"] = "idle"
  BY <1>1 DEF DrainInv, WorkerInv, Idle
<1>3. \A t \in Senders : snd[t] = "idle"
  BY DEF InitializeSession, Orderly, NoCallUnderWay
<1> QED
  BY <1>2, <1>3 DEF SendThreads

\* Activity begins where there are registered buffers.
LEMMA ActivityStarts ==
    ASSUME TypeOK, DrainInv, [Next]_vars,
           posted' /= NoTags \/ sendIo' /= NoTags \/ logicQueue' /= NoTags \/ ~Idle'
    PROVE  rio
<1>0. Moves /\ RioInv /\ BrokerInv
  BY NextMoves DEF DrainInv
<1> SUFFICES ASSUME posted = NoTags /\ sendIo = NoTags /\ logicQueue = NoTags /\ Idle
             PROVE  rio
  BY <1>0 DEF RioInv
<1>1. \A g \in Generations : posted[g] = 0 /\ sendIo[g] = 0 /\ logicQueue[g] = 0
  BY DEF NoTags
<1>2. ~BeginRecvCompletion /\ ~BeginSendCompletion /\ ~DequeueRecvContext
  BY <1>1 DEF BeginRecvCompletion, BeginSendCompletion, DequeueRecvContext
<1>3. ~IoContinue
  BY DEF Idle, IoContinue, HandleStaleCompletion, HandleFailedCompletion,
         DisconnectUnlessCancelled, EnqueueContextResult, FreeCompletedContext, DoRecv,
         DoRecvPost, DoRecvReturn, SendIOCompleted, CompleteIOCompletion
<1>4. ~LogicWorker
  BY <1>2 DEF Idle, LogicWorker, TryDispatchRecvPacket, BeginProcessing, IgnorePacket,
              TryConnect, OnConnected, SendConnectReply, IncrementConnectedCount,
              OnRecvPacket, OnDisconnectPacket, EndProcessing, CompleteRecvLogic
<1>5. ~DoRecvPost /\ ~EnqueueContextResult
  BY <1>3 DEF IoContinue
<1>6. ASSUME NEW t \in SendThreads, TryRIOSend(t) PROVE rio
  BY <1>0, <1>6 DEF TryRIOSend, RioInv
<1>7. ASSUME NEW b \in Brokers, BrokerPost(b) PROVE rio
  BY <1>0, <1>7 DEF BrokerPost, BrokerInv, BrokerAt
<1> QED
  BY <1>0, <1>2, <1>3, <1>4, <1>5, <1>6, <1>7
     DEF Moves, MovesIo, MovesLogic, MovesSend, Idle

LEMMA SendersHaveBuffers ==
    ASSUME Orderly, TypeOK, PlaceInv, DrainInv, [Next]_vars, ~FinalizeRIOCleanup,
           NEW t \in SendThreads,
           snd'[t] = "build" \/ (snd'[t] /= "idle" /\ ~nowInReleaseThread')
    PROVE  rio
<1>0. Moves /\ RioInv /\ snd \in [SendThreads -> SendPcs]
  BY NextMoves, TypeParts DEF DrainInv, TypeSend
<1>1. CASE SendIOCompleted \/ SendConnectReply \/ OnRecvPacket
  BY <1>0, <1>1 DEF SendIOCompleted, SendConnectReply, OnRecvPacket, RioInv, Idle
<1>2. ASSUME NEW u \in Senders, SenderStart(u), t = u PROVE rio
  BY <1>0, <1>2 DEF SenderStart, RioInv
<1>3. CASE DoSend(t)
  <2>1. snd[t] /= "idle" /\ UNCHANGED nowInReleaseThread
    BY <1>3, DoSendFacts DEF sendFrame, flagVars
  <2>2. snd'[t] = "build" => ~nowInReleaseThread
    BY <1>0, <1>3 DEF DoSend, DoSendEnter, DoSendAcquire, DoSendRecheck, DoSendGiveBack,
                      TryRIOSend, SendFailed
  <2> QED
    BY <1>0, <2>1, <2>2 DEF RioInv
<1>4. CASE snd'[t] = snd[t]
  <2>1. CASE InitializeSession
    BY <1>4, <2>1, NoSendAtReset
  <2>2. CASE ~InitializeSession
    BY <1>0, <1>4, <2>2 DEF Moves, MovesFlags, RioInv, MarkRelease,
                            PushToDisconnectTargetSession
  <2> QED
    BY <2>1, <2>2
<1>5. ASSUME NEW u \in SendThreads, DoSend(u), u /= t PROVE snd'[t] = snd[t]
  BY <1>0, <1>5, DoSendFacts
<1>6. ASSUME NEW u \in Senders, SenderStart(u), u /= t PROVE snd'[t] = snd[t]
  BY <1>0, <1>6 DEF SenderStart
<1> QED
  BY <1>0, <1>1, <1>2, <1>3, <1>4, <1>5, <1>6 DEF Moves, MovesSend

LEMMA RioStep ==
    ASSUME Orderly, TypeOK, PlaceInv, TrackInv, DrainInv, [Next]_vars
    PROVE  RioInv'
<1>0. Moves /\ RioInv /\ BrokerInv /\ rio \in BOOLEAN
  BY NextMoves, TypeParts DEF DrainInv, TypeRio
<1>1. CASE FinalizeRIOCleanup
  <2>1. Freeing /\ InHand
    BY <1>1 DEF FinalizeRIOCleanup, Freeing, InHand
  <2>2. state = "RELEASING" /\ nowInReleaseThread
    BY <1>1, <2>1 DEF PlaceInv, TrackInv, FinalizeRIOCleanup
  <2>3. /\ UNCHANGED <<state, nowInReleaseThread, posted, sendIo, logicQueue, ioPc, logicPc,
                       snd>>
        /\ rio' = FALSE
    BY <1>1 DEF FinalizeRIOCleanup, lifeVars, recvVars, sendVars, relFrame, ioVars, logicVars
  <2> QED
    BY <2>1, <2>2, <2>3, FreeingIsDrained DEF RioInv, Idle
<1>2. CASE ~FinalizeRIOCleanup
  <2>1. rio => rio'
    BY <1>0, <1>2 DEF Moves, MovesRio, InitializeSessionRIO
  <2>2. posted' /= NoTags \/ sendIo' /= NoTags \/ logicQueue' /= NoTags \/ ~Idle' => rio'
    BY <2>1, ActivityStarts
  <2>3. \A t \in SendThreads :
          snd'[t] = "build" \/ (snd'[t] /= "idle" /\ ~nowInReleaseThread') => rio'
    BY <1>2, <2>1, SendersHaveBuffers
  <2>4. state' = "CONNECTED" => rio'
    <3>1. CASE TryConnect
      BY <1>0, <2>1, <3>1 DEF TryConnect, RioInv, Idle
    <3> QED
      BY <1>0, <2>1, <3>1, StateFacts DEF RioInv
  <2>5. state' = "RESERVED" /\ rio' => socket'
    <3> SUFFICES ASSUME state' = "RESERVED", rio' PROVE socket'
      OBVIOUS
    <3>1. ASSUME NEW b \in Brokers, SetReserved(b) PROVE ~rio'
      BY <1>0, <3>1 DEF SetReserved, PlaceInv, RioInv, rioVars
    <3>2. state = "RESERVED"
      BY <3>1, StateFacts
    <3>3. ASSUME NEW b \in Brokers, InitializeSessionRIO(b) PROVE socket'
      BY <1>0, <3>3 DEF InitializeSessionRIO, BrokerInv, BrokerAt
    <3>4. ASSUME NEW b \in Brokers, CreateRUDPSocket(b) PROVE socket'
      BY <3>4 DEF CreateRUDPSocket
    <3>5. ~CloseSocket
      BY <3>2 DEF CloseSocket, PlaceInv, InHand
    <3>6. CASE UNCHANGED <<socket, rio>>
      BY <1>0, <3>2, <3>6 DEF RioInv
    <3>7. UNCHANGED rio \/ \E b \in Brokers : InitializeSessionRIO(b)
      BY <1>0, <1>2 DEF Moves, MovesRio
    <3>8. UNCHANGED socket \/ \E b \in Brokers : CreateRUDPSocket(b)
      BY <1>0, <3>5 DEF Moves, MovesRio
    <3> QED
      BY <3>3, <3>4, <3>6, <3>7, <3>8
  <2>6. state' = "DISCONNECTED" \/ relPc' \in {"onReleased", "release", "reset"} => ~rio'
    <3>1. ASSUME NEW b \in Brokers, InitializeSessionRIO(b)
          PROVE  state' = "RESERVED" /\ relPc' \notin {"onReleased", "release", "reset"}
      BY <1>0, <3>1 DEF InitializeSessionRIO, BrokerInv, BrokerAt, PlaceInv, InHand,
                        lifeVars, brokerFrame, relVars
    <3>2. CASE ReleaseSession
      BY <1>0, <3>2 DEF ReleaseSession, RioInv, rioVars
    <3>3. CASE UNCHANGED rio /\ ~ReleaseSession
      <4>1. state' = "DISCONNECTED" => ~rio
        BY <1>0, <3>3, StateFacts DEF RioInv
      <4>2. CASE ReleaseThread
        <5>1. relPc' \in {"onReleased", "release", "reset"}
                => relPc \in {"onReleased", "release", "reset"}
          BY <1>2, <3>3, <4>2
             DEF ReleaseThread, TakeReleaseSessionIds, GetReleasingSession,
                 RequeueReleaseSessionIds, BeginIOShutdown, StartIOShutdown, CloseSocket,
                 ReadOutstandingRecvIo, ReadPendingRecvLogic, ReadIOMode, KeepOrDrop,
                 ReadActiveIOCompletions, CanFinalizeIO, ReadProcessing, InitializeSession,
                 DecrementConnectedCount
        <5> QED
          BY <1>0, <3>3, <4>1, <5>1 DEF RioInv
      <4>3. CASE UNCHANGED relPc
        BY <1>0, <3>3, <4>1, <4>3 DEF RioInv
      <4> QED
        BY <1>0, <4>2, <4>3 DEF Moves, MovesRest
    <3> QED
      BY <1>0, <1>2, <3>1, <3>2, <3>3 DEF Moves, MovesRio
  <2> QED
    BY <2>2, <2>3, <2>4, <2>5, <2>6 DEF RioInv
<1> QED
  BY <1>1, <1>2

\* The three places of the token, and the mode that is SENDING while it is in one.
LEMMA TokenStep ==
    ASSUME Orderly, TypeOK, PlaceInv, DrainInv, [Next]_vars
    PROVE  TokenInv'
<1>0. /\ Moves /\ TokenInv /\ WorkerInv /\ TagInv /\ snd \in [SendThreads -> SendPcs]
      /\ sendIo \in [Generations -> Nat] /\ generation \in Generations
  BY NextMoves, TypeParts DEF DrainInv, TypeSend, TypeFlags
<1> USE <1>0 DEF TokenInv, OneSendInFlight, SendHolders
<1>1. CASE BeginSendCompletion
  <2>1. PICK g \in Generations : sendIo[g] > 0 /\ sendIo' = Remove(sendIo, g)
    BY <1>1 DEF BeginSendCompletion
  <2>2. \A h \in Generations : h /= g => sendIo[h] = 0
    BY <2>1 DEF TagInv, NoStaleTag
  <2>3. sendIo' = NoTags /\ sendIo /= NoTags
    <3>1. sendIo[g] = 1 /\ sendIo[g] - 1 = 0
      BY <2>1
    <3>2. sendIo' = [h \in Generations |-> IF h = g THEN sendIo[g] - 1 ELSE sendIo[h]]
      BY <2>1 DEF Remove
    <3>3. sendIo' = [h \in Generations |-> 0]
      BY <2>2, <3>1, <3>2, Zenon
    <3> QED
      BY <2>1, <3>3, TagFacts DEF NoTags
  <2> QED
    BY <1>1, <2>3, TagFacts DEF BeginSendCompletion
<1>2. CASE BeginRecvCompletion
  BY <1>2 DEF BeginRecvCompletion, sendVars
<1>3. CASE HandleFailedCompletion
  BY <1>3 DEF HandleFailedCompletion
<1>4. CASE SendIOCompleted
  BY <1>4, SendThreadFacts DEF SendIOCompleted
<1>5. CASE IoContinue /\ ~HandleFailedCompletion /\ ~SendIOCompleted
  <2>1. ~HandleStaleCompletion
    BY DEF HandleStaleCompletion, TagInv
  <2>2. ioPc' /= "send" /\ ioPc /= "send" /\ UNCHANGED <<ioMode, sendIo, snd>>
    BY <1>5, <2>1
       DEF IoContinue, DisconnectUnlessCancelled, EnqueueContextResult, DoRecvReturn,
           FreeCompletedContext, DoRecv, DoRecvPost, CompleteIOCompletion, sendVars, ioVars
  <2> QED
    BY <2>2
<1>6. CASE SendConnectReply \/ OnRecvPacket
  BY <1>6, SendThreadFacts DEF SendConnectReply, OnRecvPacket, WorkerInv, ioVars
<1>7. ASSUME NEW t \in Senders, SenderStart(t) PROVE TokenInv'
  BY <1>7 DEF SenderStart, sendFrame, ioVars
<1>8. ASSUME NEW t \in SendThreads, DoSend(t) PROVE TokenInv'
  <2>1. UNCHANGED ioPc
    BY <1>8, DoSendFacts DEF sendFrame, ioVars
  <2>2. CASE DoSendEnter(t) \/ SendFailed(t)
    BY <2>1, <2>2 DEF DoSendEnter, SendFailed
  <2>3. CASE DoSendAcquire(t)
    BY <2>1, <2>3 DEF DoSendAcquire
  <2>4. CASE DoSendRecheck(t)
    BY <2>1, <2>4 DEF DoSendRecheck
  <2>5. CASE DoSendGiveBack(t)
    BY <2>1, <2>5 DEF DoSendGiveBack
  <2>6. CASE TryRIOSend(t)
    <3>1. CASE socket
      <4>1. /\ sendIo' = Add(sendIo, generation) /\ sendIo = NoTags
            /\ snd' = [snd EXCEPT ![t] = "idle"] /\ UNCHANGED ioMode
        BY <2>6, <3>1 DEF TryRIOSend
      <4>2. \A g \in Generations : sendIo'[g] <= 1
        BY <4>1 DEF Add, NoTags
      <4>3. snd[t] = "build" /\ \A u \in SendThreads : snd'[u] \notin {"held", "build"}
        BY <2>6, <4>1 DEF TryRIOSend
      <4> QED
        BY <2>1, <4>1, <4>2, <4>3
    <3>2. CASE ~socket
      BY <2>1, <2>6, <3>2 DEF TryRIOSend
    <3> QED
      BY <3>1, <3>2
  <2> QED
    BY <1>8, <2>2, <2>3, <2>4, <2>5, <2>6 DEF DoSend
<1>9. CASE ReleaseSession
  BY <1>9, ResetIsQuiet DEF ReleaseSession, relFrame, ioVars, Idle
<1>10. CASE UNCHANGED <<ioMode, sendIo, snd, ioPc>>
  BY <1>10
<1> QED
  BY <1>1, <1>2, <1>3, <1>4, <1>5, <1>6, <1>7, <1>8, <1>9, <1>10
     DEF Moves, MovesIo, MovesSend, DoSend

\* Counting a tag in or out touches that tag only.
LEMMA TagArithmetic ==
    ASSUME NEW tags \in [Generations -> Nat], NEW g \in Generations, NEW h \in Generations
    PROVE  /\ Add(tags, g)[h] = IF h = g THEN tags[h] + 1 ELSE tags[h]
           /\ Remove(tags, g)[h] = IF h = g THEN tags[h] - 1 ELSE tags[h]
BY DEF Add, Remove

\* What TagInv speaks of.
tagVars == <<generation, posted, outstandingRecvIo, ioVars, logicQueue, pendingRecvLogic,
             logicPc, logicGen, sendIo>>

LEMMA TagIoStep ==
    ASSUME TypeOK, TagInv, BeginRecvCompletion \/ BeginSendCompletion \/ IoContinue
    PROVE  TagInv'
<1>0. /\ generation \in Generations /\ ioGen \in Generations
      /\ posted \in [Generations -> Nat] /\ sendIo \in [Generations -> Nat]
      /\ logicQueue \in [Generations -> Nat]
      /\ outstandingRecvIo \in Int /\ activeIOCompletions \in Int /\ pendingRecvLogic \in Int
  BY TypeParts DEF TypeFlags, TypeIo, TypeRecv, TypeSend, TypeLogic
<1> USE <1>0 DEF TagInv, NoStaleTag, DrainCountersExact
<1>1. CASE BeginRecvCompletion
  <2>1. PICK g \in Generations : posted[g] > 0 /\ posted' = Remove(posted, g) /\ ioGen' = g
    BY <1>1 DEF BeginRecvCompletion
  <2>2. g = generation
    BY <2>1
  <2>3. \A h \in Generations : posted'[h] = IF h = g THEN posted[h] - 1 ELSE posted[h]
    BY <2>1, TagArithmetic
  <2> QED
    BY <1>1, <2>1, <2>2, <2>3 DEF BeginRecvCompletion, flagVars, logicVars, sendVars
<1>2. CASE BeginSendCompletion
  <2>1. PICK g \in Generations : sendIo[g] > 0 /\ sendIo' = Remove(sendIo, g) /\ ioGen' = g
    BY <1>2 DEF BeginSendCompletion
  <2>2. g = generation
    BY <2>1
  <2>3. \A h \in Generations : sendIo'[h] = IF h = g THEN sendIo[h] - 1 ELSE sendIo[h]
    BY <2>1, TagArithmetic
  <2> QED
    BY <1>2, <2>1, <2>2, <2>3 DEF BeginSendCompletion, flagVars, logicVars, recvVars
<1>3. CASE HandleStaleCompletion
  BY <1>3 DEF HandleStaleCompletion
<1>4. CASE HandleFailedCompletion
  BY <1>4 DEF HandleFailedCompletion, ReleaseRecvContext, flagVars, logicVars, recvVars
<1>5. CASE EnqueueContextResult
  <2>1. \A h \in Generations :
          logicQueue'[h] = IF h = generation THEN logicQueue[h] + 1 ELSE logicQueue[h]
    BY <1>5, TagArithmetic DEF EnqueueContextResult
  <2> QED
    BY <1>5, <2>1 DEF EnqueueContextResult, flagVars, recvVars, sendVars
<1>6. CASE FreeCompletedContext
  BY <1>6 DEF FreeCompletedContext, ReleaseRecvContext, flagVars, logicVars, sendVars
<1>7. CASE DoRecvPost
  <2>1. \A h \in Generations :
          posted'[h] = IF h = generation THEN posted[h] + 1 ELSE posted[h]
    BY <1>7, TagArithmetic DEF DoRecvPost, PostReceive
  <2> QED
    BY <1>7, <2>1 DEF DoRecvPost, PostReceive, flagVars, ioVars, logicVars, sendVars
<1>8. CASE CompleteIOCompletion
  BY <1>8 DEF CompleteIOCompletion, flagVars, recvVars, logicVars, sendVars
<1>9. CASE DisconnectUnlessCancelled \/ DoRecv \/ DoRecvReturn \/ SendIOCompleted
  <2>1. /\ ioPc \notin {"idle", "recv", "enqueued"} /\ ioPc' \notin {"idle", "recv", "enqueued"}
        /\ UNCHANGED <<generation, posted, outstandingRecvIo, activeIOCompletions, ioGen,
                       logicQueue, pendingRecvLogic, logicPc, logicGen, sendIo>>
    BY <1>9 DEF DisconnectUnlessCancelled, DoRecv, DoRecvReturn, SendIOCompleted, flagVars,
                recvVars, logicVars, sendVars
  <2> QED
    BY <2>1
<1> QED
  BY <1>1, <1>2, <1>3, <1>4, <1>5, <1>6, <1>7, <1>8, <1>9 DEF IoContinue

LEMMA TagLogicStep ==
    ASSUME TypeOK, TagInv, LogicWorker
    PROVE  TagInv'
<1>0. /\ generation \in Generations /\ logicQueue \in [Generations -> Nat]
      /\ pendingRecvLogic \in Int
  BY TypeParts DEF TypeFlags, TypeLogic
<1> USE <1>0 DEF TagInv, NoStaleTag, DrainCountersExact
<1>1. CASE DequeueRecvContext
  <2>1. PICK g \in Generations :
           logicQueue[g] > 0 /\ logicQueue' = Remove(logicQueue, g) /\ logicGen' = g
    BY <1>1 DEF DequeueRecvContext
  <2>2. g = generation
    BY <2>1
  <2>3. \A h \in Generations :
          logicQueue'[h] = IF h = g THEN logicQueue[h] - 1 ELSE logicQueue[h]
    BY <2>1, TagArithmetic
  <2> QED
    BY <1>1, <2>1, <2>2, <2>3 DEF DequeueRecvContext, flagVars, recvVars, ioVars, sendVars
<1>2. CASE CompleteRecvLogic
  BY <1>2 DEF CompleteRecvLogic, flagVars, recvVars, ioVars, sendVars
<1>3. CASE ~DequeueRecvContext /\ ~CompleteRecvLogic
  <2>1. /\ logicPc /= "idle" /\ logicPc' /= "idle"
        /\ UNCHANGED <<generation, recvVars, ioVars, logicQueue, pendingRecvLogic, logicGen,
                       sendIo>>
    BY <1>3 DEF LogicWorker, TryDispatchRecvPacket, BeginProcessing, IgnorePacket, TryConnect,
                OnConnected, SendConnectReply, IncrementConnectedCount, OnRecvPacket,
                OnDisconnectPacket, EndProcessing, flagVars, sendVars
  <2> QED
    BY <2>1 DEF recvVars, ioVars
<1> QED
  BY <1>1, <1>2, <1>3

LEMMA TagStep ==
    ASSUME Orderly, TypeOK, PlaceInv, DrainInv, [Next]_vars
    PROVE  TagInv'
<1>0. /\ Moves /\ TagInv /\ generation \in Generations /\ posted \in [Generations -> Nat]
      /\ sendIo \in [Generations -> Nat] /\ outstandingRecvIo \in Int
  BY NextMoves, TypeParts DEF DrainInv, TypeFlags, TypeRecv, TypeSend
<1>1. CASE BeginRecvCompletion \/ BeginSendCompletion \/ IoContinue
  BY <1>0, <1>1, TagIoStep
<1>2. CASE LogicWorker
  BY <1>0, <1>2, TagLogicStep
<1>3. ASSUME NEW t \in SendThreads, TryRIOSend(t) PROVE TagInv'
  <2>1. sendIo' = sendIo \/ sendIo' = Add(sendIo, generation)
    BY <1>3 DEF TryRIOSend
  <2>2. \A h \in Generations : sendIo'[h] > 0 => sendIo[h] > 0 \/ h = generation
    BY <1>0, <2>1, TagArithmetic
  <2> QED
    BY <1>0, <1>3, <2>2 DEF TryRIOSend, sendFrame, flagVars, recvVars, ioVars, logicVars,
                            TagInv, NoStaleTag, DrainCountersExact
<1>4. ASSUME NEW b \in Brokers, BrokerPost(b) PROVE TagInv'
  <2>1. \A h \in Generations :
          posted'[h] = IF h = generation THEN posted[h] + 1 ELSE posted[h]
    BY <1>0, <1>4, TagArithmetic DEF BrokerPost, PostReceive
  <2> QED
    BY <1>0, <1>4, <2>1 DEF BrokerPost, PostReceive, flagVars, brokerFrame, ioVars, logicVars,
                            sendVars, TagInv, NoStaleTag, DrainCountersExact
<1>5. CASE InitializeSession
  <2>1. /\ posted = NoTags /\ sendIo = NoTags /\ logicQueue = NoTags /\ Idle
    BY <1>5, FreeingIsDrained DEF InitializeSession, Freeing
  <2>2. /\ UNCHANGED <<posted, sendIo, logicQueue, outstandingRecvIo, pendingRecvLogic, ioPc,
                       logicPc>>
        /\ UNCHANGED activeIOCompletions \/ activeIOCompletions' = 0
    BY <1>5 DEF InitializeSession, recvVars, sendVars, ioVars, logicVars
  <2>3. generation' \in Generations
    BY <1>0, <1>5, GenerationFacts DEF InitializeSession, flagVars
  <2>4. NoStaleTag'
    BY <2>1, <2>2, TagFacts DEF NoStaleTag
  <2>5. DrainCountersExact'
    BY <1>0, <2>1, <2>2, <2>3, TagFacts DEF TagInv, DrainCountersExact, Idle
  <2> QED
    BY <2>1, <2>2, <2>4, <2>5 DEF TagInv, Idle
<1>6. CASE UNCHANGED tagVars
  BY <1>0, <1>6 DEF tagVars, ioVars, TagInv, NoStaleTag, DrainCountersExact
<1> QED
  BY <1>0, <1>1, <1>2, <1>3, <1>4, <1>5, <1>6
     DEF Moves, MovesFlags, MovesIo, MovesLogic, MovesSend, IoContinue, LogicWorker, tagVars,
         ioVars

\* A bag with none of the only tag it may hold is empty.
LEMMA NoOtherTag ==
    ASSUME NEW tags \in [Generations -> Nat], tags[generation] = 0,
           \A g \in Generations : tags[g] > 0 => g = generation
    PROVE  tags = NoTags
<1>1. \A g \in Generations : tags[g] = 0
  OBVIOUS
<1>2. tags = [g \in Generations |-> tags[g]]
  OBVIOUS
<1> QED
  BY <1>1, <1>2, Zenon DEF NoTags

\* The read of each condition says more than its counter: it is the guarantee of
\* the workers behind it.
LEMMA DrainReads ==
    ASSUME TypeOK, DrainInv
    PROVE  /\ outstandingRecvIo = 0 => posted = NoTags /\ ioPc \notin {"recv", "enqueued"}
           /\ pendingRecvLogic = 0 => logicQueue = NoTags /\ logicPc = "idle"
           /\ ioMode /= "SENDING" => SendsOver
           /\ activeIOCompletions = 0 => ioPc = "idle"
<1>0. /\ TagInv /\ TokenInv /\ generation \in Generations
      /\ posted \in [Generations -> Nat] /\ logicQueue \in [Generations -> Nat]
  BY TypeParts DEF DrainInv, TypeFlags, TypeRecv, TypeLogic
<1> USE <1>0 DEF TagInv, DrainCountersExact
<1>1. ASSUME outstandingRecvIo = 0
      PROVE  posted = NoTags /\ ioPc \notin {"recv", "enqueued"}
  <2>1. posted[generation] = 0 /\ ioPc \notin {"recv", "enqueued"}
    BY <1>1
  <2> QED
    BY <2>1, NoOtherTag DEF NoStaleTag
<1>2. ASSUME pendingRecvLogic = 0 PROVE logicQueue = NoTags /\ logicPc = "idle"
  <2>1. logicQueue[generation] = 0 /\ logicPc = "idle"
    BY <1>2
  <2> QED
    BY <2>1, NoOtherTag DEF NoStaleTag
<1>3. ioMode /= "SENDING" => SendsOver
  BY DEF TokenInv, SendsOver, SendHolders
<1>4. activeIOCompletions = 0 => ioPc = "idle"
  OBVIOUS
<1> QED
  BY <1>1, <1>2, <1>3, <1>4

\* What nowInReleaseThread keeps from starting again.
LEMMA NoNewSend ==
    ASSUME TypeOK, DrainInv, [Next]_vars, nowInReleaseThread, SendsOver
    PROVE  SendsOver'
<1>0. Moves /\ snd \in [SendThreads -> SendPcs] /\ WorkerInv
  BY NextMoves, TypeParts DEF DrainInv, TypeSend
<1>1. ~BeginSendCompletion
  BY TagFacts DEF BeginSendCompletion, SendsOver, NoTags
<1>2. ASSUME NEW t \in SendThreads, DoSend(t)
      PROVE  sendIo' = sendIo /\ \A u \in SendThreads : snd'[u] /= "build"
  <2>1. snd[t] /= "build" /\ sendIo' = sendIo
    BY <1>2 DEF SendsOver, DoSend, DoSendEnter, DoSendAcquire, DoSendRecheck, DoSendGiveBack,
                TryRIOSend, SendFailed
  <2>2. snd'[t] /= "build"
    BY <1>0, <1>2, <2>1 DEF DoSend, DoSendEnter, DoSendAcquire, DoSendRecheck,
                            DoSendGiveBack, TryRIOSend, SendFailed
  <2> QED
    BY <1>0, <1>2, <2>1, <2>2, DoSendFacts DEF SendsOver
<1>3. sendIo' = NoTags
  BY <1>0, <1>1, <1>2 DEF Moves, MovesSend, SendsOver, DoSend
<1>4. ioPc' /= "send"
  <2>1. IoContinue => ioPc' /= "send"
    BY DEF IoContinue, HandleStaleCompletion, HandleFailedCompletion, SendsOver,
           DisconnectUnlessCancelled, EnqueueContextResult, FreeCompletedContext, DoRecv,
           DoRecvPost, DoRecvReturn, SendIOCompleted, CompleteIOCompletion, ioVars
  <2>2. BeginRecvCompletion => ioPc' /= "send"
    BY DEF BeginRecvCompletion
  <2> QED
    BY <1>0, <1>1, <2>1, <2>2 DEF Moves, MovesIo, SendsOver
<1>5. ASSUME NEW u \in SendThreads PROVE snd'[u] /= "build"
  <2>1. CASE SendIOCompleted
    BY <1>0, <2>1 DEF SendIOCompleted, SendsOver
  <2>2. CASE SendConnectReply \/ OnRecvPacket
    BY <1>0, <2>2 DEF SendConnectReply, OnRecvPacket, SendsOver
  <2>3. ASSUME NEW t \in Senders, SenderStart(t) PROVE snd'[u] /= "build"
    BY <1>0, <2>3 DEF SenderStart, SendsOver
  <2> QED
    BY <1>0, <1>2, <2>1, <2>2, <2>3 DEF Moves, MovesSend, SendsOver
<1> QED
  BY <1>3, <1>4, <1>5 DEF SendsOver

LEMMA NoNewPosting ==
    ASSUME [Next]_vars, nowInReleaseThread, ioPc /= "posting"
    PROVE  ioPc' /= "posting"
BY NextMoves
   DEF Moves, MovesIo, BeginRecvCompletion, BeginSendCompletion, IoContinue,
       HandleStaleCompletion, HandleFailedCompletion, DisconnectUnlessCancelled,
       EnqueueContextResult, FreeCompletedContext, DoRecv, DoRecvPost, DoRecvReturn,
       SendIOCompleted, CompleteIOCompletion, ioVars

\* What has ended does not begin again, while the session is releasing.
LEMMA NoNewReceive ==
    ASSUME DrainInv, [Next]_vars, state = "RELEASING",
           posted = NoTags, ioPc \notin {"recv", "enqueued", "posting"}
    PROVE  posted' = NoTags /\ ioPc' \notin {"recv", "enqueued"}
<1>0. Moves /\ BrokerInv
  BY NextMoves DEF DrainInv
<1>1. ~BeginRecvCompletion
  BY TagFacts DEF BeginRecvCompletion, NoTags
<1>2. \A b \in Brokers : ~BrokerPost(b)
  BY <1>0 DEF BrokerPost, BrokerInv, BrokerAt
<1>3. ~DoRecvPost
  BY DEF DoRecvPost
<1>4. BeginSendCompletion \/ IoContinue => ioPc' \notin {"recv", "enqueued"}
  BY <1>3 DEF BeginSendCompletion, IoContinue, HandleStaleCompletion, HandleFailedCompletion,
       DisconnectUnlessCancelled, EnqueueContextResult, FreeCompletedContext, DoRecv,
       DoRecvReturn, SendIOCompleted, CompleteIOCompletion
<1> QED
  BY <1>0, <1>1, <1>2, <1>3, <1>4 DEF Moves, MovesIo

LEMMA NoNewLogic ==
    ASSUME [Next]_vars, logicQueue = NoTags, logicPc = "idle", ioPc /= "recv"
    PROVE  logicQueue' = NoTags /\ logicPc' = "idle"
<1>1. ~EnqueueContextResult
  BY DEF EnqueueContextResult
<1>2. ~DequeueRecvContext
  BY TagFacts DEF DequeueRecvContext, NoTags
<1>3. ~LogicWorker
  BY <1>2 DEF LogicWorker, TryDispatchRecvPacket, BeginProcessing, IgnorePacket, TryConnect,
              OnConnected, SendConnectReply, IncrementConnectedCount, OnRecvPacket,
              OnDisconnectPacket, EndProcessing, CompleteRecvLogic
<1> QED
  BY <1>1, <1>2, <1>3, NextMoves DEF Moves, MovesLogic

LEMMA NoNewCompletion ==
    ASSUME [Next]_vars, posted = NoTags, sendIo = NoTags, ioPc = "idle"
    PROVE  ioPc' = "idle"
<1>1. ~BeginRecvCompletion /\ ~BeginSendCompletion
  BY TagFacts DEF BeginRecvCompletion, BeginSendCompletion, NoTags
<1>2. ~IoContinue
  BY DEF IoContinue, HandleStaleCompletion, HandleFailedCompletion,
         DisconnectUnlessCancelled, EnqueueContextResult, FreeCompletedContext, DoRecv,
         DoRecvPost, DoRecvReturn, SendIOCompleted, CompleteIOCompletion
<1> QED
  BY <1>1, <1>2, NextMoves DEF Moves, MovesIo

\* A session that is not in use sends nothing.
LEMMA NoSendUnlessUsed ==
    ASSUME Orderly, TypeOK, PlaceInv, DrainInv, [Next]_vars,
           state' = "DISCONNECTED" \/ relPc' = "reset"
    PROVE  \A t \in SendThreads : snd'[t] = "idle"
<1>0. Moves
  BY NextMoves
<1>1. CASE InitializeSession
  BY <1>1, NoSendAtReset DEF InitializeSession, sendVars
<1>2. CASE ReleaseSession
  BY <1>2, ResetIsQuiet DEF ReleaseSession
<1>3. CASE ~InitializeSession /\ ~ReleaseSession
  <2>1. state = "DISCONNECTED" \/ relPc = "reset"
    <3>1. CASE ReleaseThread
      BY <1>3, <3>1, StateFacts
         DEF ReleaseThread, TakeReleaseSessionIds, GetReleasingSession,
             RequeueReleaseSessionIds, BeginIOShutdown, StartIOShutdown, CloseSocket,
             ReadOutstandingRecvIo, ReadPendingRecvLogic, ReadIOMode, KeepOrDrop,
             ReadActiveIOCompletions, CanFinalizeIO, ReadProcessing, FinalizeRIOCleanup,
             DecrementConnectedCount
    <3>2. CASE UNCHANGED relPc
      BY <1>3, <3>2, StateFacts
    <3> QED
      BY <1>0, <3>1, <3>2 DEF Moves, MovesRest
  <2>2. Idle /\ (\A t \in SendThreads : snd[t] = "idle") /\ state /= "CONNECTED"
    BY <2>1, ResetIsQuiet DEF PlaceInv, InHand
  <2>3. ~SendIOCompleted /\ ~SendConnectReply /\ ~OnRecvPacket
    BY <2>2 DEF Idle, SendIOCompleted, SendConnectReply, OnRecvPacket
  <2>4. \A t \in Senders : ~SenderStart(t)
    BY <2>2 DEF SenderStart
  <2>5. \A t \in SendThreads : ~DoSend(t)
    BY <2>2, DoSendFacts
  <2> QED
    BY <1>0, <2>2, <2>3, <2>4, <2>5 DEF Moves, MovesSend
<1> QED
  BY <1>1, <1>2, <1>3

\* Steps of the other threads: what the release thread has seen over stays over.
LEMMA StageKept ==
    ASSUME Orderly, TypeOK, PlaceInv, TrackInv, DrainInv, [Next]_vars, UNCHANGED <<relPc, round>>
    PROVE  StageInv'
<1>0. StageInv
  BY DEF DrainInv
<1>1. state' = "DISCONNECTED" \/ relPc' = "reset" => \A t \in SendThreads : snd'[t] = "idle"
  BY NoSendUnlessUsed
<1>2. CASE ~InHand
  BY <1>1, <1>2 DEF StageInv, InHand, Freeing
<1>3. CASE relPc = "reset"
  <2>1. /\ posted = NoTags /\ sendIo = NoTags /\ logicQueue = NoTags /\ Idle
    BY <1>3, ResetIsQuiet
  <2>2. /\ posted' = NoTags /\ ioPc' = "idle" /\ logicQueue' = NoTags /\ logicPc' = "idle"
    BY <1>3, <2>1, NoNewReceive, NoNewCompletion, NoNewLogic DEF PlaceInv, InHand, Idle
  <2>3. sendIo' = NoTags
    <3>1. \A t \in SendThreads : ~DoSend(t)
      BY <1>3, ResetIsQuiet, DoSendFacts
    <3>2. ~BeginSendCompletion
      BY <2>1, TagFacts DEF BeginSendCompletion, NoTags
    <3> QED
      BY <2>1, <3>1, <3>2, NextMoves DEF Moves, MovesSend, DoSend
  <2> QED
    BY <1>0, <1>1, <1>3, <2>2, <2>3 DEF StageInv, SendsOver, Freeing, InHand
<1>4. CASE InHand /\ relPc /= "reset"
  <2>0. nowInReleaseThread /\ state = "RELEASING"
    BY <1>4 DEF TrackInv, PlaceInv
  <2>1. round = 2 \/ relPc \in {"active", "processing"} => SendsOver'
    BY <1>0, <1>4, <2>0, NoNewSend DEF StageInv
  <2>2. round = 2 \/ relPc = "processing" => ioPc' /= "posting"
    BY <1>0, <1>4, <2>0, NoNewPosting DEF StageInv
  <2>3. round = 2 /\ (relPc \in {"recvLogic", "ioMode", "active", "processing"} \/ Freeing)
          => posted' = NoTags /\ ioPc' \notin {"recv", "enqueued"}
    BY <1>0, <1>4, <2>0, NoNewReceive DEF StageInv
  <2>4. round = 2 /\ (relPc \in {"ioMode", "active", "processing"} \/ Freeing)
          => logicQueue' = NoTags /\ logicPc' = "idle"
    BY <1>0, <1>4, NoNewLogic DEF StageInv
  <2>5. round = 2 /\ (relPc = "processing" \/ Freeing) => ioPc' = "idle"
    BY <1>0, <1>4, NoNewCompletion DEF StageInv, SendsOver
  <2> QED
    BY <1>0, <1>1, <2>1, <2>2, <2>3, <2>4, <2>5 DEF StageInv, InHand, Freeing
<1> QED
  BY <1>2, <1>3, <1>4

\* Steps of the release thread: what each read adds.
LEMMA StageRead ==
    ASSUME Orderly, TypeOK, PlaceInv, TrackInv, DrainInv, ReleaseThread
    PROVE  StageInv'
<1>0. StageInv /\ round \in {1, 2}
  BY TypeParts DEF DrainInv, TypeRel
<1>1. state' = "DISCONNECTED" \/ relPc' = "reset" => \A t \in SendThreads : snd'[t] = "idle"
  BY NoSendUnlessUsed DEF Next
<1>2. UNCHANGED <<posted, sendIo, snd, ioPc, logicQueue, logicPc>>
  BY DEF ReleaseThread, TakeReleaseSessionIds, GetReleasingSession,
         RequeueReleaseSessionIds, BeginIOShutdown, StartIOShutdown, CloseSocket,
         ReadOutstandingRecvIo, ReadPendingRecvLogic, ReadIOMode, ReadActiveIOCompletions,
         CanFinalizeIO, ReadProcessing, FinalizeRIOCleanup, InitializeSession,
         ReleaseSession, DecrementConnectedCount, relFrame, recvVars, ioVars, logicVars,
         sendVars
<1>3. SendsOver => SendsOver'
  BY <1>2 DEF SendsOver
<1> USE <1>0, <1>1, <1>2, <1>3 DEF StageInv, InHand, Freeing
<1>4. CASE \/ TakeReleaseSessionIds \/ GetReleasingSession \/ RequeueReleaseSessionIds
           \/ ReleaseSession \/ DecrementConnectedCount
  BY <1>4 DEF TakeReleaseSessionIds, GetReleasingSession, RequeueReleaseSessionIds,
              ReleaseSession, DecrementConnectedCount
<1>5. CASE BeginIOShutdown
  BY <1>5, DrainReads DEF BeginIOShutdown
<1>6. CASE StartIOShutdown \/ CloseSocket
  BY <1>6 DEF StartIOShutdown, CloseSocket
<1>7. CASE ReadOutstandingRecvIo
  BY <1>7, DrainReads DEF ReadOutstandingRecvIo, CanFinalizeIO, KeepOrDrop
<1>8. CASE ReadPendingRecvLogic
  BY <1>8, DrainReads DEF ReadPendingRecvLogic, CanFinalizeIO, KeepOrDrop
<1>9. CASE ReadIOMode
  BY <1>9, DrainReads DEF ReadIOMode, CanFinalizeIO, KeepOrDrop
<1>10. CASE ReadActiveIOCompletions
  BY <1>10, DrainReads DEF ReadActiveIOCompletions, CanFinalizeIO, KeepOrDrop
<1>11. CASE ReadProcessing
  BY <1>11 DEF ReadProcessing, KeepOrDrop
<1>12. CASE FinalizeRIOCleanup
  BY <1>12 DEF FinalizeRIOCleanup
<1>13. CASE InitializeSession
  BY <1>13 DEF InitializeSession
<1> QED
  BY <1>4, <1>5, <1>6, <1>7, <1>8, <1>9, <1>10, <1>11, <1>12, <1>13 DEF ReleaseThread

LEMMA StageStep ==
    ASSUME Orderly, TypeOK, PlaceInv, TrackInv, DrainInv, [Next]_vars
    PROVE  StageInv'
BY StageKept, StageRead, NextMoves DEF Moves, MovesRest

\* A history is what its last call has made of the one before.
LEMMA AppendIs ==
    ASSUME NEW h \in Seq(Hooks), NEW hook \in Hooks, NEW longer \in Seq(Hooks),
           Len(longer) = Len(h) + 1, \A i \in 1 .. Len(h) : longer[i] = h[i],
           longer[Len(h) + 1] = hook
    PROVE  Append(h, hook) = longer
<1>1. /\ Append(h, hook) \in Seq(Hooks) /\ Len(Append(h, hook)) = Len(h) + 1
      /\ \A i \in 1 .. Len(h) : Append(h, hook)[i] = h[i]
      /\ Append(h, hook)[Len(h) + 1] = hook
  BY AppendProperties
<1>2. \A i \in 1 .. Len(h) + 1 : i = Len(h) + 1 \/ i \in 1 .. Len(h)
  BY LenProperties
<1>3. \A i \in 1 .. Len(h) + 1 : Append(h, hook)[i] = longer[i]
  BY <1>1, <1>2
<1> QED
  BY <1>1, <1>3, SeqEqual

\* The histories of hooks, one call after another.
LEMMA HookFacts ==
    /\ Append(<<>>, "OnConnected") = <<"OnConnected">>
    /\ Append(<<"OnConnected">>, "OnDisconnected") = <<"OnConnected", "OnDisconnected">>
    /\ Append(<<"OnConnected">>, "OnReleased") = <<"OnConnected", "OnReleased">>
    /\ Append(<<"OnConnected", "OnDisconnected">>, "OnReleased")
         = <<"OnConnected", "OnDisconnected", "OnReleased">>
    /\ <<"OnConnected">> /= <<>>
    /\ <<"OnConnected", "OnDisconnected">> /= <<>>
    /\ <<"OnConnected", "OnReleased">> /= <<>>
    /\ <<"OnConnected", "OnDisconnected", "OnReleased">> /= <<>>
<1>0. /\ <<>> \in Seq(Hooks) /\ <<"OnConnected">> \in Seq(Hooks)
      /\ <<"OnConnected", "OnDisconnected">> \in Seq(Hooks)
      /\ <<"OnConnected", "OnReleased">> \in Seq(Hooks)
      /\ <<"OnConnected", "OnDisconnected", "OnReleased">> \in Seq(Hooks)
  BY DEF Hooks
<1>1. Append(<<>>, "OnConnected") = <<"OnConnected">>
  OBVIOUS
<1>2. /\ Append(<<"OnConnected">>, "OnDisconnected") = <<"OnConnected", "OnDisconnected">>
      /\ Append(<<"OnConnected">>, "OnReleased") = <<"OnConnected", "OnReleased">>
  <2> DEFINE h == <<"OnConnected">>
  <2>1. Len(h) = 1 /\ h \in Seq(Hooks) /\ \A i \in 1 .. Len(h) : h[i] = "OnConnected"
    BY <1>0
  <2>2. ASSUME NEW e \in Hooks PROVE Append(h, e) = <<"OnConnected", e>>
    <3> DEFINE l == <<"OnConnected", e>>
    <3>1. l \in Seq(Hooks) /\ Len(l) = 2 /\ l[1] = "OnConnected" /\ l[2] = e
      BY DEF Hooks
    <3> HIDE DEF h, l
    <3>2. \A i \in 1 .. Len(h) : l[i] = h[i]
      BY <2>1, <3>1
    <3>3. Len(l) = Len(h) + 1 /\ l[Len(h) + 1] = e
      BY <2>1, <3>1
    <3>4. Append(h, e) = l
      BY <2>1, <3>1, <3>2, <3>3, AppendIs, Zenon
    <3> QED
      BY <3>4 DEF h, l
  <2> QED
    BY <2>2 DEF Hooks
<1>3. Append(<<"OnConnected", "OnDisconnected">>, "OnReleased")
        = <<"OnConnected", "OnDisconnected", "OnReleased">>
  <2> DEFINE h == <<"OnConnected", "OnDisconnected">>
             l == <<"OnConnected", "OnDisconnected", "OnReleased">>
  <2>1. h \in Seq(Hooks) /\ Len(h) = 2 /\ h[1] = "OnConnected" /\ h[2] = "OnDisconnected"
    BY <1>0
  <2>2. l \in Seq(Hooks) /\ Len(l) = 3 /\ l[1] = "OnConnected" /\ l[2] = "OnDisconnected"
        /\ l[3] = "OnReleased"
    BY <1>0
  <2> HIDE DEF h, l
  <2>3. \A i \in 1 .. Len(h) : l[i] = h[i]
    BY <2>1, <2>2
  <2>4. Len(l) = Len(h) + 1 /\ l[Len(h) + 1] = "OnReleased" /\ "OnReleased" \in Hooks
    BY <2>1, <2>2 DEF Hooks
  <2>5. Append(h, "OnReleased") = l
    BY <2>1, <2>2, <2>3, <2>4, AppendIs, Zenon
  <2> QED
    BY <2>5 DEF h, l
<1>4. <<"OnConnected">> /= <<>> /\ <<"OnConnected", "OnDisconnected">> /= <<>>
  OBVIOUS
<1>5. <<"OnConnected", "OnReleased">> /= <<>>
  OBVIOUS
<1>6. <<"OnConnected", "OnDisconnected", "OnReleased">> /= <<>>
  OBVIOUS
<1> QED
  BY <1>1, <1>2, <1>3, <1>4, <1>5, <1>6

\* The session that is recycled is RELEASING and not in the pool.
LEMMA RecyclingResets ==
    ASSUME TypeOK, PlaceInv, InitializeSession
    PROVE  /\ relPc' = "reset" /\ ~nowInReleaseThread' /\ releasedReason' = disconnectedReason
           /\ UNCHANGED <<disconnectedReason, hooks, announced, socket, rio, ioPc, logicPc,
                          claim, state, connectedUserCount>>
<1>1. state = "RELEASING" /\ unused <= 1 /\ unused \in Nat /\ unused /= 1
  BY TypeParts DEF InitializeSession, PlaceInv, InHand, TypePool
<1>2. state = "RELEASING" /\ ~(unused > 0)
  BY <1>1
<1> QED
  BY <1>2 DEF InitializeSession, lifeVars, poolVars

\* The hooks the release thread calls are those of a session that had connected.
LEMMA ReleaseHooks ==
    ASSUME PlaceInv, TrackInv, QuietInv, DrainInv
    PROVE  /\ StartIOShutdown =>
                \/ UNCHANGED hooks
                \/ /\ hooks = <<"OnConnected">> /\ ioShutdownStarted' = TRUE
                   /\ hooks' = <<"OnConnected", "OnDisconnected">>
           /\ FinalizeRIOCleanup =>
                \/ UNCHANGED hooks
                \/ /\ hooks \in { <<"OnConnected">>, <<"OnConnected", "OnDisconnected">> }
                   /\ hooks' \in { <<"OnConnected", "OnReleased">>,
                                   <<"OnConnected", "OnDisconnected", "OnReleased">> }
<1>0. HookInv /\ ReasonInv
  BY DEF DrainInv
<1>1. ASSUME InHand, relPc /= "reset", disconnectedReason /= "BY_ABORT_RESERVED",
             logicPc /= "connecting"
      PROVE  hooks /= <<>>
  BY <1>0, <1>1 DEF TrackInv, ReasonInv, Reasons, Connected
<1>2. ASSUME StartIOShutdown, ~UNCHANGED hooks
      PROVE  /\ hooks = <<"OnConnected">> /\ ioShutdownStarted' = TRUE
             /\ hooks' = <<"OnConnected", "OnDisconnected">>
  <2>1. /\ relPc = "shutProcessing" /\ disconnectedReason /= "BY_ABORT_RESERVED"
        /\ hooks' = Append(hooks, "OnDisconnected") /\ ioShutdownStarted' = TRUE
    BY <1>2 DEF StartIOShutdown
  <2>2. hooks = <<"OnConnected">>
    BY <1>0, <1>1, <2>1 DEF HookInv, QuietInv, QuietPcs, InHand
  <2> QED
    BY <2>1, <2>2, HookFacts
<1>3. ASSUME FinalizeRIOCleanup, ~UNCHANGED hooks
      PROVE  /\ hooks \in { <<"OnConnected">>, <<"OnConnected", "OnDisconnected">> }
             /\ hooks' \in { <<"OnConnected", "OnReleased">>,
                             <<"OnConnected", "OnDisconnected", "OnReleased">> }
  <2>1. /\ relPc = "cleanup" /\ disconnectedReason /= "BY_ABORT_RESERVED"
        /\ hooks' = Append(hooks, "OnReleased")
    BY <1>3 DEF FinalizeRIOCleanup
  <2>2. logicPc = "idle"
    BY <2>1, FreeingIsDrained DEF Freeing, Idle
  <2>3. hooks \in { <<"OnConnected">>, <<"OnConnected", "OnDisconnected">> }
    BY <1>0, <1>1, <2>1, <2>2 DEF HookInv, InHand
  <2> QED
    BY <2>1, <2>3, HookFacts
<1> QED
  BY <1>2, <1>3

\* Who calls a hook, and on which history.
LEMMA HookMoves ==
    ASSUME PlaceInv, TrackInv, QuietInv, DrainInv, [Next]_vars
    PROVE  \/ UNCHANGED hooks
           \/ OnConnected /\ hooks = <<>> /\ hooks' = <<"OnConnected">>
           \/ /\ StartIOShutdown /\ ioShutdownStarted'
              /\ hooks = <<"OnConnected">> /\ hooks' = <<"OnConnected", "OnDisconnected">>
           \/ /\ FinalizeRIOCleanup
              /\ hooks \in { <<"OnConnected">>, <<"OnConnected", "OnDisconnected">> }
              /\ hooks' \in { <<"OnConnected", "OnReleased">>,
                              <<"OnConnected", "OnDisconnected", "OnReleased">> }
           \/ ReleaseSession /\ hooks' = <<>>
<1>1. Moves
  BY NextMoves
<1>2. OnConnected => hooks = <<>> /\ hooks' = <<"OnConnected">>
  BY HookFacts DEF OnConnected, DrainInv, HookInv
<1>3. ReleaseSession => hooks' = <<>>
  BY DEF ReleaseSession
<1> QED
  BY <1>1, <1>2, <1>3, ReleaseHooks DEF Moves, MovesFlags

LEMMA HookStep ==
    ASSUME TypeOK, PlaceInv, TrackInv, QuietInv, DrainInv, [Next]_vars
    PROVE  HookInv'
<1>0. Moves /\ HookInv /\ UsedInv
  BY NextMoves DEF DrainInv
<1>1. CASE OnConnected
  <2>1. /\ hooks' = <<"OnConnected">> /\ logicPc' = "onConnected"
        /\ UNCHANGED <<relPc, ioShutdownStarted>>
    BY <1>1, HookFacts, HookMoves DEF OnConnected, relVars, rioVars, DrainInv, HookInv
  <2> QED
    BY <1>0, <2>1, HookFacts DEF HookInv, HooksInOrder
<1>2. CASE StartIOShutdown
  <2>1. /\ UNCHANGED logicPc /\ relPc' \in {"recvIo", "close", "onDisconnected"}
        /\ relPc = "shutProcessing" /\ ioShutdownStarted' \in {ioShutdownStarted, TRUE}
    BY <1>2 DEF StartIOShutdown, relFrame, logicVars
  <2>2. \/ UNCHANGED hooks
        \/ /\ hooks = <<"OnConnected">> /\ ioShutdownStarted'
           /\ hooks' = <<"OnConnected", "OnDisconnected">>
    BY <1>2, ReleaseHooks
  <2> QED
    BY <1>0, <2>1, <2>2, HookFacts DEF HookInv, HooksInOrder
<1>3. CASE FinalizeRIOCleanup
  <2>1. /\ UNCHANGED logicPc /\ relPc' \in {"onReleased", "release"} /\ relPc = "cleanup"
        /\ UNCHANGED ioShutdownStarted
    BY <1>3 DEF FinalizeRIOCleanup, relFrame, logicVars
  <2>2. \/ UNCHANGED hooks
        \/ /\ hooks \in { <<"OnConnected">>, <<"OnConnected", "OnDisconnected">> }
           /\ hooks' \in { <<"OnConnected", "OnReleased">>,
                           <<"OnConnected", "OnDisconnected", "OnReleased">> }
    BY <1>3, ReleaseHooks
  <2> QED
    BY <1>0, <2>1, <2>2, HookFacts DEF HookInv, HooksInOrder
<1>4. CASE ReleaseSession
  <2>1. logicPc' = "idle" /\ hooks' = <<>> /\ relPc' = "count"
    BY <1>4, ResetIsQuiet DEF ReleaseSession, relFrame, logicVars, Idle
  <2> QED
    BY <2>1 DEF HookInv, HooksInOrder
<1>5. CASE InitializeSession
  <2>1. relPc' = "reset" /\ UNCHANGED <<hooks, logicPc>>
    BY <1>5, RecyclingResets
  <2> QED
    BY <1>0, <2>1 DEF HookInv, HooksInOrder
<1>6. CASE LogicWorker /\ ~OnConnected
  <2>1. UNCHANGED <<hooks, relPc, ioShutdownStarted>>
    BY <1>6 DEF LogicWorker, DequeueRecvContext, TryDispatchRecvPacket, BeginProcessing,
           IgnorePacket, TryConnect, SendConnectReply, IncrementConnectedCount,
           OnRecvPacket, OnDisconnectPacket, EndProcessing, CompleteRecvLogic, flagVars,
           relVars, rioVars
  <2>2. logicPc' = "connecting" => hooks = <<>>
    BY <1>0, <1>6 DEF LogicWorker, DequeueRecvContext, TryDispatchRecvPacket,
           BeginProcessing, IgnorePacket, TryConnect, SendConnectReply,
           IncrementConnectedCount, OnRecvPacket, OnDisconnectPacket, EndProcessing,
           CompleteRecvLogic, UsedInv, Used
  <2>3. logicPc' \in {"onConnected", "connectReply", "replying"} => hooks /= <<>>
    BY <1>0, <1>6 DEF LogicWorker, DequeueRecvContext, TryDispatchRecvPacket,
           BeginProcessing, IgnorePacket, TryConnect, SendConnectReply,
           IncrementConnectedCount, OnRecvPacket, OnDisconnectPacket, EndProcessing,
           CompleteRecvLogic, CanProcessPacket, HookInv
  <2> QED
    BY <1>0, <2>1, <2>2, <2>3 DEF HookInv, HooksInOrder
<1>7. CASE /\ ReleaseThread /\ ~StartIOShutdown /\ ~FinalizeRIOCleanup
           /\ ~InitializeSession /\ ~ReleaseSession
  <2>1. UNCHANGED <<hooks, ioShutdownStarted, logicPc>>
    BY <1>7
       DEF ReleaseThread, TakeReleaseSessionIds, GetReleasingSession,
           RequeueReleaseSessionIds, BeginIOShutdown, CloseSocket,
           ReadOutstandingRecvIo, ReadPendingRecvLogic, ReadIOMode, ReadActiveIOCompletions,
           CanFinalizeIO, ReadProcessing, DecrementConnectedCount, relFrame, flagVars,
           rioVars, logicVars
  <2>2. /\ relPc \notin {"onReleased", "release", "reset"}
        /\ relPc' = "shutProcessing" => ~ioShutdownStarted
    BY <1>7
       DEF ReleaseThread, TakeReleaseSessionIds, GetReleasingSession,
           RequeueReleaseSessionIds, BeginIOShutdown, CloseSocket, KeepOrDrop,
           ReadOutstandingRecvIo, ReadPendingRecvLogic, ReadIOMode, ReadActiveIOCompletions,
           CanFinalizeIO, ReadProcessing, DecrementConnectedCount
  <2> QED
    BY <1>0, <2>1, <2>2 DEF HookInv, HooksInOrder
<1>8. CASE UNCHANGED <<hooks, logicPc, relPc, ioShutdownStarted>>
  BY <1>0, <1>8 DEF HookInv, HooksInOrder
<1> QED
  <2>1. CASE ReleaseThread
    BY <1>2, <1>3, <1>4, <1>5, <1>7, <2>1
  <2>2. CASE LogicWorker
    BY <1>1, <1>6, <2>2
  <2>3. CASE ~ReleaseThread /\ ~LogicWorker
    BY <1>0, <1>8, <2>3 DEF Moves, MovesFlags, MovesRio, MovesLogic, MovesRest,
                            ReleaseThread, LogicWorker
  <2> QED
    BY <2>1, <2>2, <2>3

\* A session connects once, from RESERVED, and is connected until its reset.
LEMMA ConnectedMoves ==
    ASSUME PlaceInv, TrackInv, QuietInv, DrainInv, [Next]_vars
    PROVE  \/ Connected' <=> Connected
           \/ TryConnect /\ Connected'
           \/ ReleaseSession /\ ~Connected'
<1>0. Moves /\ HookInv
  BY NextMoves DEF DrainInv
<1>1. CASE OnConnected
  <2>1. Connected /\ hooks' = <<"OnConnected">>
    BY <1>0, <1>1, HookFacts DEF OnConnected, Connected, HookInv
  <2> QED
    BY <2>1, HookFacts DEF Connected
<1>2. CASE StartIOShutdown \/ FinalizeRIOCleanup
  <2>1. UNCHANGED logicPc
    BY <1>2 DEF StartIOShutdown, FinalizeRIOCleanup, relFrame, logicVars
  <2>2. hooks' /= <<>> <=> hooks /= <<>>
    BY <1>2, ReleaseHooks, HookFacts
  <2> QED
    BY <2>1, <2>2 DEF Connected
<1>3. CASE ReleaseSession
  BY <1>3, ResetIsQuiet DEF ReleaseSession, relFrame, logicVars, Connected, Idle
<1>4. CASE TryConnect
  BY <1>4 DEF TryConnect, Connected
<1>5. CASE LogicWorker /\ ~OnConnected /\ ~TryConnect
  <2>1. UNCHANGED hooks /\ logicPc /= "connecting" /\ logicPc' /= "connecting"
    BY <1>5 DEF LogicWorker, DequeueRecvContext, TryDispatchRecvPacket,
           BeginProcessing, IgnorePacket, SendConnectReply, IncrementConnectedCount,
           OnRecvPacket, OnDisconnectPacket, EndProcessing, CompleteRecvLogic, flagVars
  <2> QED
    BY <2>1 DEF Connected
<1>6. CASE UNCHANGED <<hooks, logicPc>>
  BY <1>6 DEF Connected
<1>7. LogicWorker \/ UNCHANGED logicPc
  BY <1>0 DEF Moves, MovesLogic
<1>8. \/ UNCHANGED hooks \/ OnConnected \/ StartIOShutdown \/ FinalizeRIOCleanup
      \/ ReleaseSession
  BY <1>0 DEF Moves, MovesFlags
<1> QED
  BY <1>1, <1>2, <1>3, <1>4, <1>5, <1>6, <1>7, <1>8

LEMMA ReasonStep ==
    ASSUME Orderly, TypeOK, PlaceInv, TrackInv, QuietInv, DrainInv, [Next]_vars
    PROVE  ReasonInv'
<1>0. /\ Moves /\ ReasonInv /\ UsedInv /\ BrokerInv /\ Marked
  BY NextMoves DEF DrainInv
<1>1. CASE ReleaseSession
  <2>1. /\ state' = "DISCONNECTED" /\ claim' = "none" /\ ~nowInReleaseThread' /\ relPc' = "count"
    BY <1>0, <1>1 DEF ReleaseSession, ReasonInv, PlaceInv, InHand
  <2> QED
    BY <2>1 DEF ReasonInv
<1>2. CASE InitializeSession
  <2>1. /\ logicPc = "idle" /\ state = "RELEASING" /\ claim = "none" /\ nowInReleaseThread
    BY <1>2, FreeingIsDrained DEF InitializeSession, PlaceInv, TrackInv, InHand, Freeing, Idle
  <2>2. releasedReason' = "NORMAL" <=> hooks /= <<>>
    BY <1>0, <1>2, <2>1, RecyclingResets DEF ReasonInv, Connected
  <2> QED
    BY <1>2, <2>1, <2>2, RecyclingResets DEF ReasonInv
<1>3. CASE TryConnect
  <2>1. /\ state = "RESERVED" /\ claim = "none" /\ ~nowInReleaseThread /\ ~InHand
        /\ UNCHANGED <<claim, nowInReleaseThread, relPc>> /\ Connected'
    BY <1>0, <1>3 DEF TryConnect, PlaceInv, Marked, Connected, flagVars, relVars
  <2> QED
    BY <1>0, <2>1 DEF ReasonInv, InHand
<1>4. CASE ~ReleaseSession /\ ~InitializeSession /\ ~TryConnect
  <2>1. Connected' <=> Connected
    BY <1>4, ConnectedMoves
  <2>2. CASE MarkRelease
    <3>1. /\ claim \in Reasons /\ claim' = "marked" /\ nowInReleaseThread'
          /\ disconnectedReason' = claim /\ state' = "RELEASING" /\ relPc' /= "reset"
      BY <2>2 DEF MarkRelease, PlaceInv, InHand, Reasons, relVars
    <3> QED
      BY <1>0, <2>1, <3>1 DEF ReasonInv, Reasons
  <2>3. CASE PushToDisconnectTargetSession
    <3>1. /\ nowInReleaseThread /\ nowInReleaseThread' /\ claim' = "none"
          /\ state' = "RELEASING" /\ relPc' /= "reset" /\ UNCHANGED disconnectedReason
      BY <1>0, <2>3 DEF PushToDisconnectTargetSession, PlaceInv, InHand, ReasonInv
    <3> QED
      BY <1>0, <2>1, <3>1 DEF ReasonInv
  <2>4. CASE ThreadClaims \/ \E b \in Brokers : BrokerClaims(b)
    <3>1. ClaimStep
      BY <1>0, <2>4, ThreadClaimFacts, BrokerClaimFacts DEF BrokerInv
    <3>2. UNCHANGED <<nowInReleaseThread, disconnectedReason, relPc, releasedReason, hooks>>
      BY <2>4
         DEF ThreadClaims, ContentDisconnect, AbortTimedOut, DisconnectUnlessCancelled,
             OnDisconnectPacket, SendFailed, BrokerClaims, InitReserveFails, ReserveCleanUp,
             SendSessionInfoToClient, sendFrame, brokerFrame, flagVars, relVars
    <3>3. state = "RESERVED" => ~Connected
      BY <1>0 DEF UsedInv, Used, Connected
    <3> QED
      BY <1>0, <2>1, <3>1, <3>2, <3>3 DEF ReasonInv, ClaimStep, lifeVars
  <2>5. CASE /\ ~MarkRelease /\ ~PushToDisconnectTargetSession /\ ~ThreadClaims
             /\ \A b \in Brokers : ~BrokerClaims(b)
    <3>1. UNCHANGED <<claim, nowInReleaseThread, disconnectedReason>>
      BY <1>0, <1>4, <2>5 DEF Moves, MovesLife, MovesFlags
    <3>2. state' = "CONNECTED" => state = "CONNECTED"
      BY <1>4, StateFacts
    <3>3. relPc' = "reset" => relPc = "reset" /\ UNCHANGED <<releasedReason, hooks>>
      <4>1. CASE ReleaseThread
        <5>1. relPc' /= "reset"
          BY <1>4, <4>1
             DEF ReleaseThread, TakeReleaseSessionIds, GetReleasingSession,
                 RequeueReleaseSessionIds, BeginIOShutdown, StartIOShutdown, CloseSocket,
                 ReadOutstandingRecvIo, ReadPendingRecvLogic, ReadIOMode, KeepOrDrop,
                 ReadActiveIOCompletions, CanFinalizeIO, ReadProcessing, FinalizeRIOCleanup,
                 DecrementConnectedCount
        <5> QED
          BY <5>1
      <4>2. CASE ~ReleaseThread
        <5>1. UNCHANGED <<relPc, releasedReason>>
          BY <1>0, <4>2 DEF Moves, MovesRest, ReleaseThread
        <5>2. relPc = "reset" => ~OnConnected
          BY ResetIsQuiet DEF OnConnected, Idle
        <5> QED
          BY <1>0, <4>2, <5>1, <5>2 DEF Moves, MovesFlags, ReleaseThread
      <4> QED
        BY <4>1, <4>2
    <3> QED
      BY <1>0, <2>1, <3>1, <3>2, <3>3 DEF ReasonInv
  <2> QED
    BY <2>2, <2>3, <2>4, <2>5
<1> QED
  BY <1>1, <1>2, <1>3, <1>4

LEMMA CountStep ==
    ASSUME TypeOK, PlaceInv, TrackInv, QuietInv, DrainInv, [Next]_vars
    PROVE  CountMatchesSession'
<1>0. /\ Moves /\ CountMatchesSession /\ HookInv /\ ReasonInv /\ connectedUserCount \in Nat
  BY NextMoves, TypeParts DEF DrainInv, TypePool
<1>1. CASE OnConnected
  <2>1. /\ hooks = <<>> /\ hooks' = <<"OnConnected">> /\ logicPc' = "onConnected"
        /\ UNCHANGED <<connectedUserCount, relPc, releasedReason>>
    BY <1>0, <1>1, HookFacts DEF OnConnected, HookInv, poolVars, relVars
  <2> QED
    BY <1>0, <2>1 DEF CountMatchesSession
<1>2. CASE IncrementConnectedCount
  <2>1. /\ hooks /= <<>> /\ logicPc = "connectReply" /\ logicPc' = "finish"
        /\ connectedUserCount' = connectedUserCount + 1
        /\ UNCHANGED <<hooks, relPc, releasedReason>>
    BY <1>0, <1>2 DEF IncrementConnectedCount, HookInv, flagVars, relVars
  <2> QED
    BY <1>0, <2>1 DEF CountMatchesSession
<1>3. CASE LogicWorker /\ ~OnConnected /\ ~IncrementConnectedCount
  <2>1. /\ UNCHANGED <<hooks, connectedUserCount, relPc, releasedReason>>
        /\ logicPc' \in {"onConnected", "connectReply"}
             <=> logicPc \in {"onConnected", "connectReply"}
    BY <1>3 DEF LogicWorker, DequeueRecvContext, TryDispatchRecvPacket, BeginProcessing,
           IgnorePacket, TryConnect, SendConnectReply, OnRecvPacket, OnDisconnectPacket,
           EndProcessing, CompleteRecvLogic, flagVars, poolVars, relVars
  <2> QED
    BY <1>0, <2>1 DEF CountMatchesSession
<1>4. CASE StartIOShutdown \/ FinalizeRIOCleanup
  <2>1. /\ UNCHANGED <<logicPc, connectedUserCount>> /\ relPc /= "count" /\ relPc' /= "count"
    BY <1>4 DEF StartIOShutdown, FinalizeRIOCleanup, relFrame, logicVars, poolVars
  <2>2. hooks' /= <<>> <=> hooks /= <<>>
    BY <1>4, ReleaseHooks, HookFacts
  <2> QED
    BY <1>0, <2>1, <2>2 DEF CountMatchesSession
<1>5. CASE ReleaseSession
  <2>1. /\ relPc = "reset" /\ relPc' = "count" /\ hooks' = <<>> /\ logicPc = "idle"
        /\ UNCHANGED <<connectedUserCount, releasedReason>>
    BY <1>5, ResetIsQuiet DEF ReleaseSession, Idle
  <2>2. releasedReason = "NORMAL" <=> hooks /= <<>>
    BY <1>0, <2>1 DEF ReasonInv
  <2> QED
    BY <1>0, <2>1, <2>2 DEF CountMatchesSession
<1>6. CASE DecrementConnectedCount
  <2>1. /\ relPc = "count" /\ relPc' = "next" /\ UNCHANGED <<hooks, logicPc>>
        /\ connectedUserCount' = IF releasedReason = "NORMAL" /\ connectedUserCount > 0
                                 THEN connectedUserCount - 1 ELSE connectedUserCount
    BY <1>6 DEF DecrementConnectedCount, flagVars, relFrame, logicVars
  <2> QED
    BY <1>0, <2>1 DEF CountMatchesSession
<1>7. CASE InitializeSession
  <2>1. relPc /= "count" /\ relPc' = "reset" /\ UNCHANGED <<hooks, logicPc, connectedUserCount>>
    BY <1>7, RecyclingResets DEF InitializeSession
  <2> QED
    BY <1>0, <2>1 DEF CountMatchesSession
<1>8. CASE /\ ReleaseThread /\ ~StartIOShutdown /\ ~FinalizeRIOCleanup
           /\ ~ReleaseSession /\ ~DecrementConnectedCount /\ ~InitializeSession
  <2>1. /\ UNCHANGED <<hooks, logicPc, connectedUserCount>>
        /\ relPc /= "count" /\ relPc' /= "count"
    BY <1>8 DEF ReleaseThread, TakeReleaseSessionIds, GetReleasingSession,
             RequeueReleaseSessionIds, BeginIOShutdown, CloseSocket, KeepOrDrop,
             ReadOutstandingRecvIo, ReadPendingRecvLogic, ReadIOMode,
             ReadActiveIOCompletions, CanFinalizeIO, ReadProcessing, flagVars, poolVars,
             relFrame, logicVars
  <2> QED
    BY <1>0, <2>1 DEF CountMatchesSession
<1>9. CASE ~LogicWorker /\ ~ReleaseThread
  <2>1. UNCHANGED <<hooks, logicPc, connectedUserCount, relPc, releasedReason>>
    BY <1>0, <1>9 DEF Moves, MovesFlags, MovesLogic, MovesRest, LogicWorker, ReleaseThread
  <2> QED
    BY <1>0, <2>1 DEF CountMatchesSession
<1> QED
  BY <1>1, <1>2, <1>3, <1>4, <1>5, <1>6, <1>7, <1>8, <1>9

LEMMA DrainStep ==
    ASSUME Orderly, TypeOK, PlaceInv, TrackInv, QuietInv, DrainInv, [Next]_vars
    PROVE  DrainInv'
BY TagStep, WorkerStep, MarkedStep, BrokerStep, UsedStep, RioStep, TokenStep, StageStep,
   HookStep, ReasonStep, CountStep DEF DrainInv

LEMMA DrainInit ==
    ASSUME Init
    PROVE  DrainInv
<1>1. \A g \in Generations : NoTags[g] = 0
  BY DEF NoTags
<1>2. TagInv /\ WorkerInv
  BY <1>1, GenerationFacts, SendThreadFacts
     DEF Init, TagInv, NoStaleTag, DrainCountersExact, WorkerInv
<1>3. Marked /\ BrokerInv /\ UsedInv
  BY DEF Init, Marked, BrokerInv, BrokerAt, UsedInv
<1>4. RioInv
  BY DEF Init, RioInv, Idle
<1>5. TokenInv
  BY <1>1 DEF Init, TokenInv, OneSendInFlight, SendHolders
<1>6. StageInv
  BY DEF Init, StageInv, InHand, Freeing
<1>7. HookInv /\ ReasonInv /\ CountMatchesSession
  BY DEF Init, HookInv, HooksInOrder, ReasonInv, CountMatchesSession
<1> QED
  BY <1>2, <1>3, <1>4, <1>5, <1>6, <1>7 DEF DrainInv

\* The orderly session keeps the whole invariant.
LEMMA DrainHolds ==
    ASSUME Orderly
    PROVE  Spec => []DrainInv
<1>1. Init => DrainInv
  BY DrainInit
<1>2. TypeOK /\ PlaceInv /\ TrackInv /\ QuietInv /\ DrainInv /\ [Next]_vars => DrainInv'
  BY DrainStep
<1> QED
  BY <1>1, <1>2, TypeCorrect, PlaceHolds, TrackHolds, QuietHolds, PTL DEF Spec

-----------------------------------------------------------------------------
(* What follows from it.                                                   *)

\* The drain counters are exact (DrainCountersExact): each counts what RIO, the logic
\* queue and the two workers hold of the session, so that none sticks above zero or
\* wraps below it, whatever the order of completions, packets and re-posted receives
\* (outstandingRecvIo, pendingRecvLogicCount, activeIOCompletions of RUDPSession).
THEOREM CountersExact ==
    ASSUME Orderly
    PROVE  Spec => []DrainCountersExact
<1>1. DrainInv => DrainCountersExact
  BY DEF DrainInv, TagInv
<1> QED
  BY <1>1, DrainHolds, PTL

\* The session is drained when it is freed (DrainedWhenFreed): although CanFinalizeIO
\* reads its five conditions one after the other, and threads go on between the reads,
\* nothing is under way when the buffers are freed and the session is recycled.  The
\* reads of round 1 see no send in RIO and no receive being posted, and neither starts
\* again; so the reads of round 2 stay true once made.
THEOREM FreedDrained ==
    ASSUME Orderly
    PROVE  Spec => []DrainedWhenFreed
<1>1. DrainInv => DrainedWhenFreed
  BY FreeingIsDrained DEF DrainedWhenFreed, Idle
<1> QED
  BY <1>1, DrainHolds, PTL

\* RIO holds no request on unregistered buffers (RequestsHaveBuffers): a receive or a
\* send is posted after the registration and the registration ends after the last.
THEOREM BuffersRegistered ==
    ASSUME Orderly
    PROVE  Spec => []RequestsHaveBuffers
<1>1. DrainInv => RequestsHaveBuffers
  BY DEF DrainInv, RioInv, RequestsHaveBuffers
<1> QED
  BY <1>1, DrainHolds, PTL

\* No request of an older generation is left (NoStaleTag): the generation is bumped
\* when RIO, the logic queue and the workers hold nothing of the session.
THEOREM TagsCurrent ==
    ASSUME Orderly
    PROVE  Spec => []NoStaleTag
<1>1. DrainInv => NoStaleTag
  BY DEF DrainInv, TagInv
<1> QED
  BY <1>1, DrainHolds, PTL

\* The hooks come in order, each at most once (HooksInOrder), although OnConnected is
\* called by the logic worker and the other two by the release thread, whose second
\* shutdown must not repeat the first.
THEOREM HooksOrdered ==
    ASSUME Orderly
    PROVE  Spec => []HooksInOrder
<1>1. DrainInv => HooksInOrder
  BY DEF DrainInv, HookInv
<1> QED
  BY <1>1, DrainHolds, PTL

\* The connected-user count is exact (CountMatchesSession): the reason kept from the
\* claim to the end of the release is NORMAL exactly for a session that was counted.
THEOREM CountExact ==
    ASSUME Orderly
    PROVE  Spec => []CountMatchesSession
<1>1. DrainInv => CountMatchesSession
  BY DEF DrainInv
<1> QED
  BY <1>1, DrainHolds, PTL

\* One send at a time (OneSendInFlight): the mode, the send in RIO and its completion
\* pass one token, whichever threads call DoSend and however they leave it.
THEOREM OneSend ==
    ASSUME Orderly
    PROVE  Spec => []OneSendInFlight
<1>1. DrainInv => OneSendInFlight
  BY DEF DrainInv, TokenInv
<1> QED
  BY <1>1, DrainHolds, PTL
=============================================================================
