SPECIFICATION Spec
CONSTANTS
  MaxOps = 3
  Handler = {h1, h2}
  Nobody = nobody
  MaxBreaks = 0
  MaxStarts = 1
  MaxRevision = 3
SYMMETRY Symmetry
INVARIANT SessionHasCredential
CHECK_DEADLOCK FALSE
