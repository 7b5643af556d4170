SPECIFICATION StartupFairSpec
CONSTANTS
  Request = {r1, r2, r3}
  Word = 64
  UnitOf <- Units
  File <- Files
CHECK_DEADLOCK FALSE
INVARIANTS StartupTypeOK LimitsAreValid CleanExit PanicNeedsTimeout FailsOnlyWhileClosing BootInv
PROPERTIES Ends LivesAsPlanned
