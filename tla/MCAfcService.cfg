\* Bounds: three requests.
CONSTANTS
  Req = {r1, r2, r3}
  None = None
SPECIFICATION Spec
INVARIANTS TypeOK PendingIsWaiting OwnReply OnlyDoomedAfterClose
PROPERTIES ImplementsRpc EveryRequestSettles
CHECK_DEADLOCK FALSE
