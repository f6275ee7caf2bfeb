SPECIFICATION Spec
CONSTANTS
  t1 = t1  t2 = t2  g1 = g1  g2 = g2  w1 = w1  w2 = w2  ty1 = ty1  ty2 = ty2
  Task = {t1, t2}
  TaskType = {ty1, ty2}
  Attr <- TwoTypeAttr
  Worker = {w1}
  NoWorker = NoWorker
  Routine = {g1, g2}
  Of <- TwoTypes
  Manager = {m1}
  Client = {}
  NoOne = NoOne
  NoTask = NoTask
  Faults = {}
  MaxMsgs = 1
  MaxFaults = 1
PROPERTY SuccessTriggersNextStep
