SPECIFICATION HubsUnfair
CONSTANTS
  Hub = {h1, h2}
  User = {u1}
  Conn = {c1, c2, c3}
  h1 = h1
  h2 = h2
  u1 = u1
  c1 = c1
  c2 = c2
  c3 = c3
  Home <- MCHome
  UserOf <- MCUserOf
  Slow = {c1}
  NoHub = NoHub
  Limits = {1, 2}
  MaxEvents = 1
INVARIANTS OutageCloses
CHECK_DEADLOCK FALSE
