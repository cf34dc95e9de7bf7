SPECIFICATION Spec
CONSTANTS
    Progress = FALSE
    Components = {"SendWindow", "PendingQueue", "SendPipeline", "Retransmission",
                  "RtoEstimator", "ClientSend", "ClientReceive", "ClientLifecycle",
                  "Connection", "Heartbeat", "BrokerQueue", "SessionIssue",
                  "SessionHandover", "SessionRIO", "ServerLifecycle", "FatalError",
                  "Ticker", "Logger", "MemoryTracer", "OptionFiles"}
    swContent = {"a"}  swHeartbeats = TRUE  swInitialCwnd = 2  swMaxCwnd = 3
    swGapThreshold = 1  swPendingCapacity = 2  swMaxSent = 4
    pqSenders = {"a", "b"}  pqCapacity = 2  pqMaxPackets = 5  pqMaxLives = 2  pqLate = FALSE
    spSenders = {"a"}  spCapacity = 3  spBig = {2}  spAcks = TRUE  spLosses = TRUE
    spMaxPackets = 3  spMaxPushes = 3
    rtMaxInfos = 2  rtReplies = {2}  rtMaxRetransmissions = 2  rtMaxGeneration = 1
    rtMaxClock = 2
    rePackets = {1, 2}  reInitialRto = 4  reInMinRto = 2  reInMaxRto = 6  reMaxSteady = 1
    clMaxStarts = 2  clMaxReceived = 2
    csSenders = {"a", "b"}  csMaxSequence = 3  csWindow = 1  csByteRange = 4  csMaxRetransmissions = 1
    cnMaxRetransmissions = 2  cnCountedLosses = 0
    bqClients = {11, 12, 13}  bqThreads = 2  bqNone = 0
    shSlots = 2  shWorkers = {1, 2}  shClients = {1, 2}  shTimeout = 1  shMaxTime = 2
    shWidth = 16  shFaults = {"reserve", "send", "close"}
    rioSockets = 2  rioWorkers = 2  rioReceives = 2  rioContexts = {"a"}  rioManagers = 2
    feWorkers = {1, 2}  feControllers = {3, 4}  feHandlers = {5, 6}  feNone = 0
    feInstalls = 2
    siFragments = 2  siConnectAttempts = 5  siReadsPastFinished = TRUE
    svWorkers = {1, 2}  svSessions = {1}  svOwner <- FirstWorker  svMaxPending = 1
    svMaxStarts = 1  svFaults <- AllFaults  svMaxFatal = 1  svStopAgain = TRUE
    tkTimers = {1, 2}  tkOneShot = {2}  tkInterval = 1  tkMaxLag = 1  tkMaxStarts = 1
    tkMaxRegistrations = 1  tkReregister = FALSE  tkEarlyRegister = FALSE
    lgUsers = {1, 2}  lgMaxRounds = 2  lgMaxLogs = 2  lgOverlap = FALSE
    lgStopTwice = FALSE  lgLateLogs = TRUE
    hbSleepMs = 2  hbCheckMs = 6  hbMaxDelay = 1  hbClientSends = TRUE  hbMaxTime = 13
    crMaxSequence = 3  crHeartbeats = {2}  crMaxHeld = 2
INVARIANTS
    TypeOK EachPacketInOnePlace WindowsHold BuffersAreSafe ReferencesExact RetransmittedRight
    DeliveredInOrder SidesAgree KeptOnce QuietAfterStop PeriodsAreKept FatalErrorTold
    RecordsAreTrue
PROPERTIES QueuesAreFifo 
CHECK_DEADLOCK FALSE
