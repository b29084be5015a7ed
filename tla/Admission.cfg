SPECIFICATION Spec
CONSTANTS
  b1 = b1
  b2 = b2
  None = None
  Batch = {b1, b2}
  Sizes <- Requests
  Capacity = 2
  Mover = {m1}
  MaxEvents = 2
 
INVARIANT MoveLands
PROPERTY ClaimsInOrder
CHECK_DEADLOCK FALSE
