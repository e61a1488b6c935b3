SPECIFICATION FairSpec
CONSTANTS
  Meeting = {m1, m2}
  Starter = {s1}
  Stopper = {t1, t2}
  Closer = c1
  NoMeeting = none
  NoThread = nobody
  m1 = m1
  m2 = m2
  s1 = s1
  t1 = t1
  t2 = t2
  c1 = c1
  none = none
  nobody = nobody
INVARIANTS TypeOK NoStrayRecorder BundlesAreOfCaptures
PROPERTY CallsEnd
CHECK_DEADLOCK FALSE
