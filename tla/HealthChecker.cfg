SPECIFICATION FairSpec
CONSTANTS
  Type = {t1}
  Worker = {w1}
  Punctual = {w1}
  Checker = {c1, c2}
  None = None
  HeartbeatTimeout = 1
  GracePeriodTimeout = 3
  BeatLag = 1
  MaxCheck = 1
  MaxAge = 5
  MaxErrors = 1
  MaxRestarts = 1
INVARIANTS TypeOK NoFalseDeath DeadWasSilent
PROPERTIES EntryCleared CrashDetected
