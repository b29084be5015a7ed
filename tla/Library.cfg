SPECIFICATION Spec
CONSTANTS
  a = a
  b = b
  c = c
  d = d
  r1 = r1
  r2 = r2
  None = None
  Item = {a, b, c, d}
  Import = {i1, i2}
  Root = {r1, r2}
  Files <- TwoRoots
  Evidence <- Images
  PS2 = {a, b, c}
  UserGroup = {1}
  MaxEdits = 1
INVARIANT OverrideSticks
INVARIANT TempsReplaced
INVARIANT GroupedAsScanned
INVARIANT SetsStayApart
CHECK_DEADLOCK FALSE
