SPECIFICATION SupFairSpec
CONSTANTS
  r1 = r1
  r2 = r2
  other = other
  Nobody = Nobody
  Proc = {r1, r2, other}
  Runner = {r1, r2}
  StaleAfter = 1
  PromptBeats = TRUE
  MaxCrashes = 1
  MaxFaults = 1
  MaxOps = 1
INVARIANT ExclusiveUntilRace
INVARIANT NoneRunsUnwatched
INVARIANT RunningIsWritten
PROPERTY PendingServed
PROPERTY RunReturns
CHECK_DEADLOCK FALSE
