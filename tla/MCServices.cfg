SPECIFICATION ServicesSpec
CONSTANTS
  Request = {r1}
  Worker = {w1, w2}
  File = {f1}
  Content = {x, y}
  Nil = Nil
  Life = 2
  MaxDay = 2
  MaxMultipart = 2
  MaxFaults = 2
  Process = {p1, p2}
  MaxUpdates = 2
  Email = {e}
  Visitor = {c1, c2}
  Token = {t1, t2}
  TTL = 2
INVARIANTS ServicesSound LinksReserved
PROPERTIES Settled SettingsConverge
CHECK_DEADLOCK FALSE
