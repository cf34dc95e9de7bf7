--------------------------- MODULE Components_proofs ----------------------------
(***************************************************************************)
(* The safety properties of the composed specification, for every value of *)
(* the constants.  Each one speaks of several components that guard        *)
(* against the same hazard.  A behaviour of the whole is, for each         *)
(* component, a behaviour of that one: the step of another component is a  *)
(* stutter of it (the *Behaviour lemmas).  What was proved of a component  *)
(* alone therefore holds of the whole, and the theorems put these results  *)
(* together.  The theorems of the window, the pipeline and retransmission  *)
(* come through the instances of MCComponents, those of the others from    *)
(* ServerParts_proofs and ClientParts_proofs.  A theorem with a hypothesis *)
(* on a constant says what the hypothesis excludes.                        *)
(***************************************************************************)
EXTENDS MCComponents, ServerParts_proofs, ClientParts_proofs

-------------------------------------------------------------------------------
(* A behaviour of the whole is a behaviour of each component.                *)

LEMMA SWBehaviour == Spec => SW!Spec
<1>1. ASSUME NEW c, c # "SendWindow", Runs(c) PROVE UNCHANGED SW!vars
  BY <1>1 DEF Runs, swVars, SW!vars, SW!queueVars, SW!workerVars, SW!flowVars, SW!senderVars
<1>2. UNCHANGED vars => UNCHANGED SW!vars
  BY DEF vars, swVars, SW!vars, SW!queueVars, SW!workerVars, SW!flowVars, SW!senderVars
<1>3. [Next]_vars => [SW!Next]_(SW!vars)
  BY <1>1, <1>2 DEF Next
<1>4. Init => SW!Init
  BY DEF Init
<1> QED
  BY <1>3, <1>4, PTL DEF Spec, SW!Spec

LEMMA PQBehaviour == Spec => PQ!Spec
<1>1. ASSUME NEW c, c # "PendingQueue", Runs(c) PROVE UNCHANGED PQ!vars
  BY <1>1 DEF Runs, pqVars, PQ!vars, PQ!senderVars, PQ!slotVars, PQ!ring
<1>2. UNCHANGED vars => UNCHANGED PQ!vars
  BY DEF vars, pqVars, PQ!vars, PQ!senderVars, PQ!slotVars, PQ!ring
<1>3. [Next]_vars => [PQ!Next]_(PQ!vars)
  BY <1>1, <1>2 DEF Next
<1>4. Init => PQ!Init
  BY DEF Init
<1> QED
  BY <1>3, <1>4, PTL DEF Spec, PQ!Spec

LEMMA SPBehaviour == Spec => SP!Spec
<1>1. ASSUME NEW c, c # "SendPipeline", Runs(c) PROVE UNCHANGED SP!vars
  BY <1>1 DEF Runs, spVars, SP!vars, SP!historyVars, SP!streamVars, SP!queueVars
<1>2. UNCHANGED vars => UNCHANGED SP!vars
  BY DEF vars, spVars, SP!vars, SP!historyVars, SP!streamVars, SP!queueVars
<1>3. [Next]_vars => [SP!Next]_(SP!vars)
  BY <1>1, <1>2 DEF Next
<1>4. Init => SP!Init
  BY DEF Init
<1> QED
  BY <1>3, <1>4, PTL DEF Spec, SP!Spec

LEMMA RTBehaviour == Spec => RT!Spec
<1>1. ASSUME NEW c, c # "Retransmission", Runs(c) PROVE UNCHANGED RT!vars
  BY <1>1 DEF Runs, rtVars, RT!vars, RT!rtVars, RT!schedulerVars, RT!sessionVars,
              RT!infoVars
<1>2. UNCHANGED vars => UNCHANGED RT!vars
  BY DEF vars, rtVars, RT!vars, RT!rtVars, RT!schedulerVars, RT!sessionVars, RT!infoVars
<1>3. [Next]_vars => [RT!Next]_(RT!vars)
  BY <1>1, <1>2 DEF Next
<1>4. Init => RT!Init
  BY DEF Init
<1> QED
  BY <1>3, <1>4, PTL DEF Spec, RT!Spec

LEMMA CSBehaviour == Spec => CS!Spec
<1>1. ASSUME NEW c, c # "ClientSend", Runs(c) PROVE UNCHANGED CS!vars
  BY <1>1 DEF Runs, csVars, CS!vars, CS!serverVars, CS!flagVars, CS!queueVars
<1>2. UNCHANGED vars => UNCHANGED CS!vars
  BY DEF vars, csVars, CS!vars, CS!serverVars, CS!flagVars, CS!queueVars
<1>3. [Next]_vars => [CS!Next]_(CS!vars)
  BY <1>1, <1>2 DEF Next
<1>4. Init => CS!Init
  BY DEF Init
<1> QED
  BY <1>3, <1>4, PTL DEF Spec, CS!Spec

LEMMA CNBehaviour == Spec => CN!Spec
<1>1. ASSUME NEW c, c # "Connection", Runs(c) PROVE UNCHANGED CN!vars
  BY <1>1 DEF Runs, cnVars, CN!vars, CN!networkVars, CN!clientVars, CN!heartbeatVars,
              CN!sessionVars
<1>2. UNCHANGED vars => UNCHANGED CN!vars
  BY DEF vars, cnVars, CN!vars, CN!networkVars, CN!clientVars, CN!heartbeatVars,
         CN!sessionVars
<1>3. [Next]_vars => [CN!Next]_(CN!vars)
  BY <1>1, <1>2 DEF Next
<1>4. Init => CN!Init
  BY DEF Init
<1> QED
  BY <1>3, <1>4, PTL DEF Spec, CN!Spec

LEMMA BQBehaviour == Spec => BQ!Init /\ [][BQ!Next]_(BQ!vars)
<1>1. ASSUME NEW c, c # "BrokerQueue", Runs(c) PROVE UNCHANGED BQ!vars
  BY <1>1 DEF Runs, bqVars, BQ!vars, BQ!controlVars, BQ!queueVars
<1>2. UNCHANGED vars => UNCHANGED BQ!vars
  BY DEF vars, bqVars, BQ!vars, BQ!controlVars, BQ!queueVars
<1>3. [Next]_vars => [BQ!Next]_(BQ!vars)
  BY <1>1, <1>2 DEF Next
<1>4. Init => BQ!Init
  BY DEF Init
<1> QED
  BY <1>3, <1>4, PTL DEF Spec

LEMMA SHBehaviour == Spec => SH!Init /\ [][SH!Next]_(SH!vars)
<1>1. ASSUME NEW c, c # "SessionHandover", Runs(c) PROVE UNCHANGED SH!vars
  BY <1>1 DEF Runs, shVars, SH!vars, SH!workerVars, SH!poolVars
<1>2. UNCHANGED vars => UNCHANGED SH!vars
  BY DEF vars, shVars, SH!vars, SH!workerVars, SH!poolVars
<1>3. [Next]_vars => [SH!Next]_(SH!vars)
  BY <1>1, <1>2 DEF Next
<1>4. Init => SH!Init
  BY DEF Init
<1> QED
  BY <1>3, <1>4, PTL DEF Spec

LEMMA RIOBehaviour == Spec => RIO!Spec
<1>1. ASSUME NEW c, c # "SessionRIO", Runs(c) PROVE UNCHANGED RIO!vars
  BY <1>1 DEF Runs, rioVars, RIO!vars, RIO!addressVars, RIO!managerVars
<1>2. UNCHANGED vars => UNCHANGED RIO!vars
  BY DEF vars, rioVars, RIO!vars, RIO!addressVars, RIO!managerVars
<1>3. [Next]_vars => [RIO!Next]_(RIO!vars)
  BY <1>1, <1>2 DEF Next
<1>4. Init => RIO!Init
  BY DEF Init
<1> QED
  BY <1>3, <1>4, PTL DEF Spec, RIO!Spec

LEMMA FEBehaviour == Spec => FE!Spec
<1>1. ASSUME NEW c, c # "FatalError", Runs(c) PROVE UNCHANGED FE!vars
  BY <1>1 DEF Runs, feVars, FE!vars
<1>2. UNCHANGED vars => UNCHANGED FE!vars
  BY DEF vars, feVars, FE!vars
<1>3. [Next]_vars => [FE!Next]_(FE!vars)
  BY <1>1, <1>2 DEF Next
<1>4. Init => FE!Init
  BY DEF Init
<1> QED
  BY <1>3, <1>4, PTL DEF Spec, FE!Spec

LEMMA REBehaviour == Spec => RE!Spec
<1>1. ASSUME NEW c, c # "RtoEstimator", Runs(c) PROVE UNCHANGED RE!vars
  BY <1>1 DEF Runs, reVars, RE!vars, RE!estimatorVars
<1>2. UNCHANGED vars => UNCHANGED RE!vars
  BY DEF vars, reVars, RE!vars, RE!estimatorVars
<1>3. [Next]_vars => [RE!Next]_(RE!vars)
  BY <1>1, <1>2 DEF Next
<1>4. Init => RE!Init
  BY DEF Init
<1> QED
  BY <1>3, <1>4, PTL DEF Spec, RE!Spec

LEMMA CLBehaviour == Spec => CL!Spec
<1>1. ASSUME NEW c, c # "ClientLifecycle", Runs(c) PROVE UNCHANGED CL!vars
  BY <1>1 DEF Runs, clVars, CL!vars, CL!sequenceVars, CL!checkerVars, CL!threadVars,
              CL!referenceVars, CL!resourceVars, CL!flagVars
<1>2. UNCHANGED vars => UNCHANGED CL!vars
  BY DEF vars, clVars, CL!vars, CL!sequenceVars, CL!checkerVars, CL!threadVars,
         CL!referenceVars, CL!resourceVars, CL!flagVars
<1>3. [Next]_vars => [CL!Next]_(CL!vars)
  BY <1>1, <1>2 DEF Next
<1>4. Init => CL!Init
  BY DEF Init
<1> QED
  BY <1>3, <1>4, PTL DEF Spec, CL!Spec

LEMMA SIBehaviour == Spec => SI!Init /\ [][SI!Next]_(SI!vars)
<1>1. ASSUME NEW c, c # "SessionIssue", Runs(c) PROVE UNCHANGED SI!vars
  BY <1>1 DEF Runs, siVars, SI!vars, SI!clientVars, SI!serverVars, SI!tcpVars
<1>2. UNCHANGED vars => UNCHANGED SI!vars
  BY DEF vars, siVars, SI!vars, SI!clientVars, SI!serverVars, SI!tcpVars
<1>3. [Next]_vars => [SI!Next]_(SI!vars)
  BY <1>1, <1>2 DEF Next
<1>4. Init => SI!Init
  BY DEF Init
<1> QED
  BY <1>3, <1>4, PTL DEF Spec

LEMMA SVBehaviour == Spec => SV!Init /\ [][SV!Next]_(SV!vars)
<1>1. ASSUME NEW c, c # "ServerLifecycle", Runs(c) PROVE UNCHANGED SV!vars
  BY <1>1 DEF Runs, svVars, SV!vars, SV!logic, SV!release, SV!drain, SV!parts, SV!control
<1>2. UNCHANGED vars => UNCHANGED SV!vars
  BY DEF vars, svVars, SV!vars, SV!logic, SV!release, SV!drain, SV!parts, SV!control
<1>3. [Next]_vars => [SV!Next]_(SV!vars)
  BY <1>1, <1>2 DEF Next
<1>4. Init => SV!Init
  BY DEF Init
<1> QED
  BY <1>3, <1>4, PTL DEF Spec

LEMMA TKBehaviour == Spec => TK!Init /\ [][TK!Next]_(TK!vars)
<1>1. ASSUME NEW c, c # "Ticker", Runs(c) PROVE UNCHANGED TK!vars
  BY <1>1 DEF Runs, tkVars, TK!vars, TK!ghosts, TK!threadVars, TK!listVars, TK!tickVars
<1>2. UNCHANGED vars => UNCHANGED TK!vars
  BY DEF vars, tkVars, TK!vars, TK!ghosts, TK!threadVars, TK!listVars, TK!tickVars
<1>3. [Next]_vars => [TK!Next]_(TK!vars)
  BY <1>1, <1>2 DEF Next
<1>4. Init => TK!Init
  BY DEF Init
<1> QED
  BY <1>3, <1>4, PTL DEF Spec

LEMMA LGBehaviour == Spec => LG!Init /\ [][LG!Next]_(LG!vars)
<1>1. ASSUME NEW c, c # "Logger", Runs(c) PROVE UNCHANGED LG!vars
  BY <1>1 DEF Runs, lgVars, LG!vars, LG!queueVars, LG!threadVars, LG!userVars, LG!eventVars
<1>2. UNCHANGED vars => UNCHANGED LG!vars
  BY DEF vars, lgVars, LG!vars, LG!queueVars, LG!threadVars, LG!userVars, LG!eventVars
<1>3. [Next]_vars => [LG!Next]_(LG!vars)
  BY <1>1, <1>2 DEF Next
<1>4. Init => LG!Init
  BY DEF Init
<1> QED
  BY <1>3, <1>4, PTL DEF Spec

LEMMA HBBehaviour == Spec => HB!Spec
<1>1. ASSUME NEW c, c # "Heartbeat", Runs(c) PROVE UNCHANGED HB!vars
  BY <1>1 DEF Runs, hbVars, HB!vars, HB!clientVars, HB!networkVars, HB!serverVars
<1>2. UNCHANGED vars => UNCHANGED HB!vars
  BY DEF vars, hbVars, HB!vars, HB!clientVars, HB!networkVars, HB!serverVars
<1>3. [Next]_vars => [HB!Next]_(HB!vars)
  BY <1>1, <1>2 DEF Next
<1>4. Init => HB!Init
  BY DEF Init
<1> QED
  BY <1>3, <1>4, PTL DEF Spec, HB!Spec

LEMMA CRBehaviour == Spec => CR!Spec
<1>1. ASSUME NEW c, c # "ClientReceive", Runs(c) PROVE UNCHANGED CR!vars
  BY <1>1 DEF Runs, crVars, CR!vars, CR!checkVars, CR!queueVars, CR!recvVars, CR!serverVars
<1>2. UNCHANGED vars => UNCHANGED CR!vars
  BY DEF vars, crVars, CR!vars, CR!checkVars, CR!queueVars, CR!recvVars, CR!serverVars
<1>3. [Next]_vars => [CR!Next]_(CR!vars)
  BY <1>1, <1>2 DEF Next, CR!PollingNext, CR!Next
<1>4. Init => CR!Init
  BY DEF Init
<1> QED
  BY <1>3, <1>4, PTL DEF Spec, CR!Spec

-------------------------------------------------------------------------------
(* The properties of the whole.                                              *)

\* What is under way is bounded: SendPacket and the flush of the pending queue check both
\* windows under locks that a reply and a timeout do not take, and the client's own check of
\* the advertised window is done by threads that have not yet registered what they will send;
\* the client's bound is of windows to which one packet of every thread can be added without
\* exceeding the BYTE that the number outstanding is cast to (WindowFits).
THEOREM WindowsAlwaysHold == Spec => []WindowsHold
<1>1. SW!Assumptions
  BY ComponentAssumptions DEF SW!Assumptions
<1>2. /\ SW!CwndBounded /\ SW!SentWithinWindow /\ SW!BaseIsHighestReply
      /\ CS!OutstandingBounded
      => WindowsHold
  BY DEF WindowsHold, In
<1>3. Spec => [](SW!CwndBounded /\ SW!SentWithinWindow /\ SW!BaseIsHighestReply)
  BY <1>1, SWBehaviour, SW!WindowBounded, SW!SentNearBase, SW!BaseNeverBack, PTL
<1>4. Spec => []CS!OutstandingBounded
  BY CSBehaviour, WindowAndThreads, ComponentAssumptions, PTL
<1> QED
  BY <1>2, <1>3, <1>4, PTL

\* A numbered packet is in one place.  ~pqLate: every push into the pending queue belongs to
\* the life of the session it was made in, as when no thread sends to a session across its
\* release; a late push may be overwritten by the resizing for the next one.
THEOREM PacketsInOnePlace == ASSUME ~pqLate PROVE Spec => []EachPacketInOnePlace
<1>1. SW!Assumptions
  BY ComponentAssumptions DEF SW!Assumptions
<1>2. SW!EachPacketInOnePlace /\ CS!EachPacketInOnePlace /\ PQ!EachPacketSomewhere
      => EachPacketInOnePlace
  BY DEF EachPacketInOnePlace, In
<1>3. Spec => []SW!EachPacketInOnePlace
  BY <1>1, SWBehaviour, SW!OnePlaceOnly, PTL
<1>4. Spec => []CS!EachPacketInOnePlace
  BY CSBehaviour, InOnePlaceOnly, ComponentAssumptions, PTL
<1>5. Spec => []PQ!EachPacketSomewhere
  BY PQBehaviour, NoPacketLost, ComponentAssumptions, PTL
<1> QED
  BY <1>2, <1>3, <1>4, <1>5, PTL

\* A buffer has one user and stays registered while the kernel may use it: the exchanges of
\* ioMode, the failure paths of InitSessionRIO and ReleaseSession, and the room that
\* RIO_CREATE_RQ takes in a completion queue.
THEOREM BuffersStaySafe == Spec => []BuffersAreSafe
<1>1. SP!OneUserOfBuffer /\ RIO!RegisteredIffHeld /\ RIO!NothingHeldInPool
        /\ (managers <= 1 => RIO!InFlightRegistered) /\ RIO!QueueHasRoom
      => BuffersAreSafe
  BY DEF BuffersAreSafe, In
<1>2. Spec => []SP!OneUserOfBuffer
  BY SPBehaviour, SP!OneUser, ComponentAssumptions, PTL
<1>3. Spec => [](RIO!RegisteredIffHeld /\ RIO!NothingHeldInPool)
  BY RIOBehaviour, NoneLeaked, PoolHoldsNothing, ComponentAssumptions, PTL
<1>4. Spec => [](managers <= 1 => RIO!InFlightRegistered)
  BY RIOBehaviour, InFlightIsRegistered, ComponentAssumptions, PTL DEF FirstManager
<1>5. Spec => []RIO!QueueHasRoom
  BY RIOBehaviour, RoomInQueue, ComponentAssumptions, PTL
<1> QED
  BY <1>1, <1>2, <1>3, <1>4, <1>5, PTL

\* The two queues of a session implement their abstract specifications, BoundedFifo and
\* SendQueue, step by step; without late pushes (~pqLate) a session takes only packets that
\* were put into the ring for its own connection.
THEOREM QueuesStayFifo == ASSUME ~pqLate PROVE Spec => QueuesAreFifo
<1>1. Spec => SP!ImplementsQueue
  BY SPBehaviour, SP!PipelineIsQueue, ComponentAssumptions, PTL
<1>2. Spec => PQ!ImplementsFifo
  BY PQBehaviour, PendingIsFifo, ComponentAssumptions, PTL
<1>3. Spec => PQ!OwnPackets
  BY PQBehaviour, TakenForOwnConnection, ComponentAssumptions, PTL
<1> QED
  BY <1>1, <1>2, <1>3, PTL DEF QueuesAreFifo

\* When DoSend has returned everywhere a packet that is taken waits in the send queue only if
\* an acknowledgement erased what a stream held, and a datagram is made of whole packets, each
\* once, unless MakeSendStream has skipped one that was erased between its two passes over
\* the queue.
THEOREM NothingStaysBehind == Spec => []NothingLeftBehind
<1>1. SP!LeftOnlyByAcks /\ SP!DatagramWholeUnlessSkipped => NothingLeftBehind
  BY DEF NothingLeftBehind, In
<1>2. Spec => []SP!LeftOnlyByAcks
  BY SPBehaviour, SP!NoneStranded, ComponentAssumptions, PTL
<1>3. Spec => []SP!DatagramWholeUnlessSkipped
  BY SPBehaviour, SP!DatagramIsWhole, ComponentAssumptions, PTL
<1> QED
  BY <1>1, <1>2, <1>3, PTL

\* NotifyFatalError and SetFatalErrorHandler may cross: the first error is the one told, once
\* to each handler installed, and no installed handler misses it.
THEOREM ToldAndOnce == Spec => []FatalErrorTold
<1>1. FE!OnlyFirstTold /\ FE!OncePerInstallation /\ FE!InstalledHandlerTold => FatalErrorTold
  BY DEF FatalErrorTold, In
<1> QED
  BY <1>1, FEBehaviour, FirstErrorOnly, NoCallLost, CalledOnce, ComponentAssumptions, PTL

\* A SendPacketInfo is counted once for each map, queue, heap or thread that holds it, and the
\* client process once for each core between Start and Stop.
THEOREM ReferencesStayExact == Spec => []ReferencesExact
<1>1. RT!RefCountExact /\ CL!ReferencesBalanced /\ CL!ThreadsOutlivedByHandles
      => ReferencesExact
  BY DEF ReferencesExact, In
<1>2. Spec => []RT!RefCountExact
  BY RTBehaviour, RT!CountsExact, ComponentAssumptions, PTL
<1>3. Spec => [](CL!ReferencesBalanced /\ CL!ThreadsOutlivedByHandles)
  BY CLBehaviour, GivenBackOnce, ThreadsEndFirst, ComponentAssumptions, PTL
<1> QED
  BY <1>1, <1>2, <1>3, PTL

\* Client and server agree on the session between them, whichever of the connect packet, the
\* timeout of the reservation and a failure of the broker's reply comes first.
THEOREM SidesStayAgreed == Spec => []SidesAgree
<1>1. /\ CN!AbortExcludesConnect /\ CN!ClientConnectedImpliesSession /\ SI!AcceptedIsReserved
      => SidesAgree
  BY DEF SidesAgree, In
<1>2. Spec => [](CN!AbortExcludesConnect /\ CN!ClientConnectedImpliesSession)
  BY CNBehaviour, AbortedIsUnconnected, ConnectedHasSession, ComponentAssumptions, PTL
<1>3. IssueInv => SI!AcceptedIsReserved
  BY AcceptedFromInv
<1>4. Spec => []IssueInv
  BY SIBehaviour, IssueAlways, ComponentAssumptions, PTL
<1> QED
  BY <1>1, <1>2, <1>3, <1>4, PTL

\* The application of the client is given each packet once and in order, and the server
\* handles what comes after the connect packet, and only after it has called OnConnected.
THEOREM DeliveredAlways == Spec => []DeliveredInOrder
<1>1. CR!InOrderOnce /\ CR!AckedIsKept /\ CN!HandledInOrder /\ CN!FirstPacketNotHeld
      => DeliveredInOrder
  BY DEF DeliveredInOrder, In
<1>2. Spec => [](CR!InOrderOnce /\ CR!AckedIsKept)
  BY CRBehaviour, ReceiveAlways, ComponentAssumptions, PTL DEF CR!Spec
<1>3. Spec => [](CN!HandledInOrder /\ CN!FirstPacketNotHeld)
  BY CNBehaviour, DataAfterConnect, FirstIsNotHeld, ComponentAssumptions, PTL
<1> QED
  BY <1>1, <1>2, <1>3, PTL

\* A socket the broker accepted is served by one worker, a session id is in the free list or
\* with one keeper, and what the client allocated for its request it gives back, on every
\* path on which a step fails.
THEOREM EverythingKeptOnce == Spec => []KeptOnce
<1>1. BQ!ServedByOne /\ SI!ClientReturnsAll /\ SH!NoSlotLeaks => KeptOnce
  BY DEF KeptOnce, In
<1>2. Spec => []BQ!ServedByOne
  BY BQBehaviour, BrokerAlways, ServedFromInv, ComponentAssumptions, PTL
<1>3. Spec => []SI!ClientReturnsAll
  BY SIBehaviour, ReturnsAlways, PTL
<1>4. Spec => []SH!NoSlotLeaks
  BY SHBehaviour, HandoverAlways, KeptFromInv, ComponentAssumptions, PTL
<1> QED
  BY <1>1, <1>2, <1>3, <1>4, PTL

\* The retransmission thread sends one copy at a time and only to the owner of a packet,
\* measures no packet sent twice, misses no wakeup, and suppresses further backoffs for no
\* longer than the timeout.
THEOREM ResentRight == Spec => []RetransmittedRight
<1>1. /\ RT!OneCopyAtATime /\ RT!SentOnlyToOwner /\ RT!SampleUnambiguous /\ RT!NoLostWakeup
      /\ RE!WindowOnlyAfterBackoff
      => RetransmittedRight
  BY DEF RetransmittedRight, In
<1>2. Spec => [](RT!OneCopyAtATime /\ RT!SentOnlyToOwner)
  BY RTBehaviour, RT!OneCopy, RT!OnlyToOwner, ComponentAssumptions, PTL
<1>3. Spec => [](RT!SampleUnambiguous /\ RT!NoLostWakeup)
  BY RTBehaviour, RT!SamplesUnambiguous, RT!NoWakeupLost, ComponentAssumptions, PTL
<1>4. Spec => []RE!WindowOnlyAfterBackoff
  BY REBehaviour, WindowsEnd, ComponentAssumptions, PTL
<1> QED
  BY <1>1, <1>2, <1>3, <1>4, PTL

\* After a stop nothing runs that would use what is gone, of the broker, the ticker, the logger
\* and the server.  ~lgOverlap, ~lgStopTwice: the users of the logger call its functions as the
\* cores do, one StopLoggerThread for one RunLoggerThread and not in the middle of another's.
THEOREM QuietStays ==
    ASSUME ~lgOverlap, ~lgStopTwice
    PROVE  Spec => []QuietAfterStop
<1>1. /\ BQ!StoppedIsQuiet /\ TK!NoHandlerAfterStop /\ LG!StopsForLast
      /\ SV!ThreadsHaveParts /\ SV!DeletedWhenDrained /\ SV!OffLeavesNothing
      => QuietAfterStop
  BY DEF QuietAfterStop, In
<1>2. BrokerInv => BQ!StoppedIsQuiet
  BY DEF BrokerInv, ThreadsFollowStop
<1>3. Spec => []BQ!StoppedIsQuiet
  BY <1>2, BQBehaviour, BrokerAlways, ComponentAssumptions, PTL
<1>4. Spec => []TK!NoHandlerAfterStop
  BY TKBehaviour, TickerAlways, PTL
<1>5. Spec => []LG!StopsForLast
  BY LGBehaviour, LoggerAlways, ComponentAssumptions, PTL
<1>6. Spec => [](SV!ThreadsHaveParts /\ SV!DeletedWhenDrained /\ SV!OffLeavesNothing)
  BY SVBehaviour, ServerAlways, ServerFromInv, PTL
<1> QED
  BY <1>1, <1>3, <1>4, <1>5, <1>6, PTL

\* One burst of losses backs off once, and a reservation that was made before the heartbeat
\* thread read the clock for its pass waits its whole timeout, however long the pass takes and
\* whatever becomes of the slot meanwhile.
THEOREM CountedOnce == Spec => TimeoutsCountOnce
<1>1. Spec => RE!BurstBacksOffOnce
  BY REBehaviour, OneBackoffPerBurst, ComponentAssumptions, PTL
<1>2. Spec => SH!OldReservationsWait
  BY SHBehaviour, WaitsAlways, ComponentAssumptions, PTL
<1> QED
  BY <1>1, <1>2, PTL DEF TimeoutsCountOnce

\* Timers fire in time and the server hears from the client.  SleepFits: two passes
\* of the heartbeat thread fit the width of the clock.  ~tkReregister, ~tkEarlyRegister: an event is
\* registered once, with a ticker that runs, as the server does with its own.
THEOREM PeriodsStayKept ==
    ASSUME SleepFits, ~tkReregister, ~tkEarlyRegister
    PROVE  Spec => []PeriodsAreKept
<1>1. TK!FiresInTime /\ TK!OnceMoreAtMost /\ HB!HeardEveryOtherPass => PeriodsAreKept
  BY DEF PeriodsAreKept, In
<1>2. TK!TickerAssumption /\ RegisteredOnce
  BY ComponentAssumptions DEF RegisteredOnce
<1>3. Spec => [](TK!FiresInTime /\ TK!OnceMoreAtMost)
  BY <1>2, TKBehaviour, FiresAlways, OnceAlways, PTL
<1>4. Spec => []HB!HeardEveryOtherPass
  BY HBBehaviour, HeardInTime, PTL
<1> QED
  BY <1>1, <1>3, <1>4, PTL

\* The client's server checker does not give up a server that only sends heartbeats.
\* ChecksSeldom: the client sends no data, and checks less often than the server's heartbeat
\* thread passes twice and a packet goes both ways.
THEOREM AliveWhileIdle == ASSUME ChecksSeldom PROVE Spec => []ServerStaysAlive
<1>1. HB!ServerStaysAlive => ServerStaysAlive
  BY DEF ServerStaysAlive, In
<1>2. Spec => []HB!ServerStaysAlive
  BY HBBehaviour, IdleStaysAlive, PTL
<1> QED
  BY <1>1, <1>2, PTL

================================================================================
