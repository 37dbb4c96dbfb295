\* Bounds: two requests, three messages of the device, two of them cut in
\* two; replies to the check-in in chunks of halves.
CONSTANTS
  c1 = c1
  c2 = c2
  Call = {c1, c2}
  Connector = Connector
  None = None
  MaxSends = 3
  MaxCuts = 2
SPECIFICATION Spec
INVARIANTS TypeOK NothingLost OwnResponse
PROPERTIES CallsSettle
CHECK_DEADLOCK FALSE
