SPECIFICATION LiveSpec
CONSTANTS
    Progress = TRUE
    Components = {"SendWindow", "SendPipeline", "ClientSend", "ClientReceive",
                  "ClientLifecycle", "Connection", "Heartbeat", "BrokerQueue", "SessionIssue",
                  "SessionHandover", "ServerLifecycle", "Ticker", "Logger"}
    swContent = {"a", "b"}  swHeartbeats = FALSE  swInitialCwnd = 2  swMaxCwnd = 3
    swGapThreshold = 1  swPendingCapacity = 3  swMaxSent = 5
    pqSenders = {"a", "b"}  pqCapacity = 2  pqMaxPackets = 5  pqMaxLives = 2  pqLate = FALSE
    spSenders = {"a", "b"}  spCapacity = 3  spBig = {2}  spAcks = TRUE  spLosses = TRUE
    spMaxPackets = 3  spMaxPushes = 3
    rtMaxInfos = 2  rtReplies = {2}  rtMaxRetransmissions = 2  rtMaxGeneration = 1
    rtMaxClock = 2
    rePackets = {1, 2}  reInitialRto = 4  reInMinRto = 2  reInMaxRto = 6  reMaxSteady = 1
    clMaxStarts = 2  clMaxReceived = 1
    csSenders = {"a"}  csMaxSequence = 2  csWindow = 2  csByteRange = 4  csMaxRetransmissions = 2
    cnMaxRetransmissions = 2  cnCountedLosses = 0
    bqClients = {11, 12}  bqThreads = 2  bqNone = 0
    shSlots = 2  shWorkers = {1}  shClients = {1, 2}  shTimeout = 1  shMaxTime = 2
    shWidth = 16  shFaults = {"close"}
    rioSockets = 2  rioWorkers = 2  rioReceives = 2  rioContexts = {"a"}  rioManagers = 2
    feWorkers = {1, 2}  feControllers = {3, 4}  feHandlers = {5, 6}  feNone = 0
    feInstalls = 2
    siFragments = 2  siConnectAttempts = 5  siReadsPastFinished = FALSE
    svWorkers = {1}  svSessions = {1}  svOwner <- FirstWorker  svMaxPending = 1
    svMaxStarts = 2  svFaults <- AllFaults  svMaxFatal = 1  svStopAgain = TRUE
    tkTimers = {1}  tkOneShot = {}  tkInterval = 2  tkMaxLag = 1  tkMaxStarts = 2
    tkMaxRegistrations = 2  tkReregister = FALSE  tkEarlyRegister = FALSE
    lgUsers = {1, 2}  lgMaxRounds = 2  lgMaxLogs = 2  lgOverlap = FALSE
    lgStopTwice = FALSE  lgLateLogs = FALSE
    hbSleepMs = 3  hbCheckMs = 9  hbMaxDelay = 1  hbClientSends = FALSE  hbMaxTime = 40
    crMaxSequence = 3  crHeartbeats = {2}  crMaxHeld = 1
INVARIANTS NothingLeftBehind ServerStaysAlive
PROPERTIES PacketsArrive ConnectionsEnd StopsReturn
CHECK_DEADLOCK FALSE
