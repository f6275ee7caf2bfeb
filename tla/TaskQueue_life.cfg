SPECIFICATION FairSpec
CONSTANTS
  t1 = t1  t2 = t2  g1 = g1  g2 = g2  w1 = w1  w2 = w2  ty1 = ty1  ty2 = ty2
  Task = {t1}
  TaskType = {ty1}
  Attr <- OneAttr
  Worker = {w1, w2}
  NoWorker = NoWorker
  Routine = {g1, g2}
  Of <- TwoWorkers
  Manager = {m1}
  Client = {}
  NoOne = NoOne
  NoTask = NoTask
  Faults = {"crash", "panic", "rollback", "lostpush", "timeout", "dead", "restart", "delete"}
  MaxMsgs = 1
  MaxFaults = 1
PROPERTIES ClaimableIsTaken OrphanRecovered
