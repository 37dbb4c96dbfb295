\* Bounds: two calls of any operations of the service, one unasked frame; calls beside
\* each other have six steps at most together, one after the other any number.
CONSTANTS
  c1 = c1
  c2 = c2
  Services <- AllServices
  Call = {c1, c2}
  None = None
  MaxPushes = 1
  MaxOverlap = 6
SPECIFICATION Spec
INVARIANTS TypeOK OwnReply FilesClosed InStep
PROPERTIES EveryCallEnds
CHECK_DEADLOCK FALSE
