CONSTANTS
  k1 = k1  k2 = k2  d1 = d1  p1 = p1
  Zero = Zero  Nil = Nil  Malformed = Malformed  Predecessor = Predecessor
  Key <- Keys
  Did <- Dids
  Pointer <- OnePointer
  Config <- Configs
  Setup <- Setups
  Install <- Installs
  Extra <- Nothing
  MaxSpends = 4
SPECIFICATION Spec
INVARIANTS PendingWhileArmed
CHECK_DEADLOCK FALSE
