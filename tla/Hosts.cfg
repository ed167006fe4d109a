SPECIFICATION Spec
CONSTANTS
  p = p
  q = q
  r = r
  a = a
  b = b
  done = done
  Caller = {p, q}
  Kind <- Kinds
  Does <- Calls
  Policy = "fail"
  Region = {a, b}
  Root = r
  Event = {done}
  Ending = {done}
  NoId = NoId
  MaxCalls = 3
  MaxFaults = 1
INVARIANT TakenOnce
PROPERTY ReturnsSettled
 
SYMMETRY Alike
CHECK_DEADLOCK FALSE
