SPECIFICATION MCSpec
CONSTANTS
  Request = {r1, r2}
  Puzzle = {p1, p2}
  Answer = {a1, a2}
  Trigger = {t1}
  Hint = {h1}
  Block = {b1}
  p1 = p1
  p2 = p2
  a1 = a1
  a2 = a2
  t1 = t1
  h1 = h1
  b1 = b1
  r1 = r1
  r2 = r2
  None = None
  Owner <- MCOwner
  Unconditional = {p1}
  UnlockCond <- MCUnlockCond
  HintCond <- MCHintCond
  BlockCond <- MCBlockCond
  Rules <- MCRules
  Added <- MCAdded
  MaxSubmit = 1
  Minimum <- MCMinimum
  Penalty <- MCPenalty
  Cooldown = {p2}
  Cost <- MCCost
  HintTriggers <- MCHintTriggers
  InitAmount = 1
  MaxAmount = 2
INVARIANTS UnlockComplete ContentComplete
PROPERTIES UnlockSound SubmitLimit NoOverdraft RequestsEnd
CHECK_DEADLOCK FALSE
