SPECIFICATION Spec
CONSTANTS
  j1 = j1
  j2 = j2
  d1 = d1
  None = None
  Job = {j1, j2}
  Dest = {d1}
  DestOf <- OneDest
  Request = {r1}
  Split = {j2}
  MaxAttempts = 1
  MaxOps = 1
  MaxFaults = 1
  MaxRestarts = 1
INVARIANT OneRunningPerDest
INVARIANT RunningRowOwned
INVARIANT DoneIsVerified
INVARIANT NoOrphanTemp
PROPERTY ImplementsLifecycle
PROPERTY ErrorHaltsQueue
PROPERTY OnlyCancelRemovesRunning
CHECK_DEADLOCK FALSE
