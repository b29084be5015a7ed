SPECIFICATION Spec
CONSTANTS
  job = job
  e1 = e1
  e2 = e2
  prepare = prepare
  b1 = b1
  b2 = b2
  Free = Free
  Writer = {job, e1, e2, prepare}
  Enrich = {e1, e2}
  Runner = job
  Release = {b1}
  MaxSweeps = 2
  MaxCrashes = 1
  MaxByHand = 1
INVARIANT GatedExclusive
INVARIANT NoTempLeak
PROPERTY SmallFilesStand
SYMMETRY Symmetric
CHECK_DEADLOCK FALSE
