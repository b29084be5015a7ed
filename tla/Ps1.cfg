CONSTANTS
  a = a
  b = b
  none = none
  s1 = s1
  one = one
  two = two
  again = again
  copy = copy
  Items = {1, 2, 3}
  Stems = {a, b}
  LongStems = {b}
  Clean <- MCClean
  Groups = {1}
  NoGroup = none
  Boot <- MCBoot
  Serials = {s1}
  NoSerial = none
  EmberFiles <- MCEmberFiles
  MaxDiscs = 2
  Jobs = {one, two, again, copy}
  NoJob = none
  Item <- MCItem
  Kind <- MCKind
  EditTitles <- MCEditTitles
  Libraries <- MCLibraries
  MaxJobs = 3
  MaxEdits = 1
  MaxTroubles = 1
SPECIFICATION Spec
SYMMETRY SameJobs
INVARIANTS DoneStands SetPlays NoUnverifiedVcd
CHECK_DEADLOCK FALSE
