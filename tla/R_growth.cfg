CONSTANTS
  c1 = c1  c2 = c2  a = a  b = b  x = x
  Launcher = Launcher
  Target <- CurrentOrNone
  Call <- TwoCalls
  State <- WithOpaque
  Opaque <- OpaqueState
  Unknown <- UnknownFromOpaque
  MaxLength = 4
  MaxReorgs = 0
  Lag = 0
  IndexLag = 1
  MaxGenerations = 2
SPECIFICATION Spec
SYMMETRY CallsAlike
INVARIANTS UndisturbedCallsAreServed UnverifiableIsTrue NotFoundIsTrue WalkIsBounded
PROPERTIES OnlyUnimplementedDisables DisabledStaysOff
CHECK_DEADLOCK FALSE
