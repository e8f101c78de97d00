SPECIFICATION FairSpec
CONSTANTS
  Team = {t1}
  Change = {c1, c2}
  Scheduler = {s1}
  Reader = {r1}
  Process = {m1, m2}
  s1 = s1
  r1 = r1
  m1 = m1
  m2 = m2
  Home <- MCHome
  Gone = Gone
  None = None
  MaxFaults = 1
INVARIANTS BoardCurrent
PROPERTIES NeverOlder Converges
CHECK_DEADLOCK FALSE
