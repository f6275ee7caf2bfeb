SPECIFICATION SvSpec
CONSTANTS
  LockClients = {l1, l2, l3}
  Patient = {l1}
  TimeLimited = {l2}
  DoubleUnlock = {l3}
  MaxTries = 2
  LockTtl = 2
  LockFaults = 2
  CqTasks = {t1, t2, t3}
  CqWorkerCount = 2
  CqQueueSize = 1
  CqStoppers = {s1, s2}
  RqCalls = {"c1", "c2", "c3"}
  RqIds = {"i", "j"}
  RqCorrID <- MCCorrID
  RqReplies = 2
  RqNone = RqNone
  LcClosers = {k1, k2}
  LcExiters = {x1, x2}
  SseWriters = {w1, w2}
  SseMaxMsgs = 3
  SseMaxRetry = 2
  RtStoppers = {s1, s2}
  RtMaxStarts = 2
INVARIANTS
  ServicesTypeOK
  QueueServes
  RepliesMatch
  ShutdownSound
  ReaderMissesNothing
PROPERTIES
  LockImplementsSection
  LockNotStuck
  StopsReturn
  RequestReturns
  ExitHappens
  StopStopsWriters
CHECK_DEADLOCK FALSE
