SPECIFICATION FairSpec
CONSTANTS
  Type = {t1}
  Worker = {w1}
  Punctual = {w1}
  Checker = {c1}
  None = None
  HeartbeatTimeout = 1
  GracePeriodTimeout = 2
  BeatLag = 1
  MaxCheck = 1
  MaxAge = 4
  MaxErrors = 0
  MaxRestarts = 1
PROPERTY EveryCrashDetected
