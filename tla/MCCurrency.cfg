SPECIFICATION Spec
CONSTANTS
  Tx = {x1, x2, x3}
  None = None
  Minute = 2
  Growths = {0, 1}
  InitAmount = 1
  Max = 2
  MinInt <- MCMinInt
  MaxInt = 3
  Price = {2}
  Gift = {1}
  MaxTime = 4
INVARIANTS GrowthSound
PROPERTIES ShownWallet
CHECK_DEADLOCK FALSE
SYMMETRY Symmetry
