SPECIFICATION Spec
CONSTANTS
  j1 = j1
  j2 = j2
  d1 = d1
  None = None
  Job = {j1, j2}
  Dest = {d1}
  DestOf <- OneDest
  Request = {r1}
  Split = {}
  MaxAttempts = 2
  MaxOps = 0
  MaxFaults = 0
  MaxRestarts = 0
CHECK_DEADLOCK FALSE
INVARIANT CancelOkMeansStopped
