SPECIFICATION Spec
CONSTANTS
  Call = {c1, c2}
  Mod = {m1, m2}
  Puzzle = {p1}
  None = None
  Player = Player
  PuzzleLimit = 1
  DmLimit = 1
  MaxTickets = 2
  MaxMessages = 2
  Answering = {m1}
  Asked <- MCAsked
  Menus <- MCMenus
SYMMETRY Symmetry
INVARIANTS LimitsHold PaidToRead 
PROPERTIES OneVoice
CHECK_DEADLOCK FALSE
