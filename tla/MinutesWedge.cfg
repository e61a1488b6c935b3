SPECIFICATION Spec
CONSTANTS
  Identity = {i1}
  Provenance = {r1, r2}
  Prompt = {q1, q2}
  MaxEpoch = 1
  MaxRequests = 2
  MaxReceipts = 4
  NoPath = nopath
  NoPrompt = noprompt
  i1 = i1
  r1 = r1
  r2 = r2
  q1 = q1
  q2 = q2
  nopath = nopath
  noprompt = noprompt
SYMMETRY Symmetry
INVARIANTS NewEpochOpens
CHECK_DEADLOCK FALSE
