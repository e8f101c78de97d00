SPECIFICATION MCSpec
CONSTANTS
  p1 = p1  p2 = p2  a = a  ed = ed  i = i  s2 = s2
  Phase = {p1, p2}
  Immediate = {i}
  Scheduler = {s1, s2}
  Admin = {a}
  Editor = {ed}
  Feature = {1, 2}
  Leaderboard = 1
  Plan <- MCPlan
  None = None
  MaxTime = 2
  MaxFaults = 1
INVARIANTS InOrder ManualStands EventsSound
PROPERTIES Completes
CHECK_DEADLOCK FALSE
