SPECIFICATION CqSpec
CONSTANTS
  CqTasks = {t1, t2}
  CqWorkerCount = 1
  CqQueueSize = 1
  CqStoppers = {s1}
INVARIANT PoolSizeKept
