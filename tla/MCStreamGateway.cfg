\* Bounds: four subscriptions of one client to one device.
CONSTANTS
  Sub = {s1, s2, s3, s4}
  None = None
SPECIFICATION Spec
INVARIANTS EntryIsLive OneOrphanPerAbort
PROPERTY AbortEndsStream
CHECK_DEADLOCK FALSE
