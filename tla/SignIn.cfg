SPECIFICATION Spec
CONSTANTS
  MaxOps = 2
  Handler = {h1}
  Nobody = nobody
  MaxBreaks = 1
  MaxStarts = 2
  MaxRevision = 3
INVARIANT SignInSafe
PROPERTY HandlersReturn
CHECK_DEADLOCK FALSE
