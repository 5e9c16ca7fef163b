CONSTANTS
  c1 = c1  c2 = c2  a = a  b = b  x = x
  Launcher = Launcher
  Target <- WithLegacy
  Call <- OneCall
  State <- KnownStates
  Opaque = {}
  Unknown <- UnknownBetweenKnown
  MaxLength = 4
  MaxReorgs = 1
  Lag = 1
  IndexLag = 1
  MaxGenerations = 3
SPECIFICATION FairSpec
INVARIANTS Inv CurrentDuringCall GenesisIsKept
PROPERTIES ImplementsResolution DerivesFromItsOwnSpend EveryCallReturns
CHECK_DEADLOCK FALSE
