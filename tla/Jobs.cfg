SPECIFICATION Spec
CONSTANTS
  Meeting = {m1}
  Caller = {a, b}
  Config = {plain, chosen}
  Selected = {chosen}
  Deleted = gone
  Free = free
  MaxJobs = 2
  MaxCrashes = 1
  MaxFaults = 1
  m1 = m1
  a = a
  b = b
  plain = plain
  chosen = chosen
  gone = gone
  free = free
INVARIANTS TypeOK AcceptedJobStands ShownWorkIsReal
PROPERTIES FinishedIsFinal WorkEnds
