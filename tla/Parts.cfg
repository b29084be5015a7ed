SPECIFICATION PartsSpec
CONSTANTS
  Serial = {s1, s2}
  Name = {n1, n2}
  MaxChunks = 2
  MaxWrites = 3
  NoGame = NoGame
  None = None
  File = {f, g}
  MaxFrame = 3
  MaxLines = 7
  Keep = 2
  MaxBytes = 2
  Days = 2
  MaxLine = 3
  MaxLogLines = 4
  MaxFaults = 1
  MaxCrashes = 1
  Missing = Missing
  Job = {j1, j2}
  MaxChanges = 5
  MaxConnects = 2
  Gone = Gone
  Removed = Removed
  Proc = {p1, p2}
  Registered = {j1}
  Nobody = Nobody
  MaxMisreads = 1
  MaxStops = 2
  Files = 2
  Size = 2
  MaxTries = 2
  MaxOps = 2
INVARIANT SuccessIsIntact
INVARIANT OldSetRemoved
INVARIANT IndexedIsIntact
INVARIANT DoneIsImage
INVARIANT RefusesExactlyInvalid
PROPERTY KeepsItsOrder
PROPERTY KeepsTheLast
INVARIANT HeardIsListed
INVARIANT NothingLost
INVARIANT RefusedOnlyIfDisturbed
INVARIANT SeeingMoreUnblocksNothing
INVARIANT AllPassMeansMountable
INVARIANT RestsWithItsBytes
CHECK_DEADLOCK FALSE
