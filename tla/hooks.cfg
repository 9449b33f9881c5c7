SPECIFICATION HookFairSpec
CONSTANTS
  Drains = {d1, d2}
  MaxPieces = 4
  MaxRestarts = 1
INVARIANTS NothingSkipped NoLineOvertakes
PROPERTY EveryHeardLineArrives
CHECK_DEADLOCK FALSE
