SPECIFICATION Spec
CONSTANTS
  Proc = {p1, p2}
  Job = {j1, j2}
  Registered = {j1}
  Nobody = Nobody
  MaxMisreads = 1
  MaxStops = 1
INVARIANT BackfilledFirst
CHECK_DEADLOCK FALSE
