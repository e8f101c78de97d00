SPECIFICATION MCSpec
CONSTANTS
  User = {u1, u2, u3, u4}
  Team = {t1, t2, t3}
  Call = {c1, c2, c3}
  Name = {n1, n2}
  Pass = {p1, p2}
  None = None
  c1 = c1
  c2 = c2
  c3 = c3
  u1 = u1
  u2 = u2
  u3 = u3
  u4 = u4
  FirstTeam = t1
  FirstName = n1
  FirstPass = p1
  Members0 <- MCMembers
  Menus <- MCMenus
  MaxMembers = 3
  AllowDuplicates = FALSE
  Pool = 2
INVARIANTS RowsSound
PROPERTIES WritesSound CallsEnd
CHECK_DEADLOCK FALSE
