CONSTANTS
  a = a  b = b  x = x
  Launcher = Launcher
  Target <- AnyKind
  State <- ThreeStates
  Opaque <- OpaqueState
  MaxLength = 4
  MaxReorgs = 1
  Lag = 1
SPECIFICATION PySpec
INVARIANT UndisturbedIsVerified
PROPERTY PyImplementsResolution
CHECK_DEADLOCK FALSE
