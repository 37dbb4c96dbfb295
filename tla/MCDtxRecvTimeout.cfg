CONSTANTS
  Recv = {r1, r2}
  MaxMsg = 2
SPECIFICATION Spec
INVARIANT NoMessageLost
CHECK_DEADLOCK FALSE
