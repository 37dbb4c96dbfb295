\* Bounds: two subscriptions of one client to one device.
CONSTANTS
  Sub = {s1, s2}
  None = None
SPECIFICATION Spec
INVARIANT EveryStreamCanBeStopped
CHECK_DEADLOCK FALSE
