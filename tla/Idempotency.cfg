SPECIFICATION Spec
CONSTANTS
  Caller = {c1, c2, c3}
  Request = {r1, r2, p1}
  Permission = {p1}
  Limit = 2
  Drop = 1
  MaxCalls = 4
  NoRequest = none
  c1 = c1
  c2 = c2
  c3 = c3
  r1 = r1
  r2 = r2
  p1 = p1
  none = none
INVARIANTS TypeOK SerializedUnlessEvicted TakesEffectOnce
PROPERTY CallsReturn
CHECK_DEADLOCK FALSE
