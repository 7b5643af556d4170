SPECIFICATION Spec
CONSTANTS
  Request = {r1}
CHECK_DEADLOCK FALSE
INVARIANT TimeoutReturns
