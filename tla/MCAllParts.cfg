SPECIFICATION AllSpec
CONSTANTS
  Nothing = Nothing
  Text = Text
  Execution = {"j1", "j2", "a1"}
  Judge = {"j1", "j2"}
  Key = {"k", "m"}
  Menu <- MCMenu
  Pool = 3
  Small = 2
  Ttl = 1
  MaxNow = 2
  MaxCalls = 3
  Person = {root, u1, u2}
  Root = root
  Browser = {b1, b2}
  b2 = b2
  u1 = u1
  u2 = u2
  SessionLimits = {1, 2}
  MaxSession = 1
  Item = {f, g}
  Folder = {a, b}
  Name = {x, y}
  Editor = {d1, d2}
  Thread = {t1, t2}
SYMMETRY Interchangeable
INVARIANTS BackendSound SomeoneMoves FilesSound ExpressionsSound
PROPERTIES CasCurrent AccountsSound
CHECK_DEADLOCK FALSE
