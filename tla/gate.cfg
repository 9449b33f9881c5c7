SPECIFICATION FairSpec
CONSTANTS
  Calls = {c1, c2, c3, c4, c5}
  MaxConcurrentSpawns = 2
  Attempts = 2
INVARIANT NoSleepingPermit
PROPERTIES EveryCallSettles KeepsThePromise
CHECK_DEADLOCK FALSE
