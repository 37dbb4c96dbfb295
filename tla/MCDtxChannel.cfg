\* Bounds: four recv calls, four messages.
CONSTANTS
  Recv = {r1, r2, r3, r4}
  MaxMsg = 4
SPECIFICATION Spec
INVARIANTS QueueOrWaiters InOrder OneLossPerTimeout CloseTellsWaiters
PROPERTY EveryRecvSettles
CHECK_DEADLOCK FALSE
