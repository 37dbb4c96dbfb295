\* Bounds: the same as MCDevicePool: three device ids, two serials.
CONSTANTS
  d1 = d1
  d2 = d2
  d3 = d3
  s1 = s1
  s2 = s2
  Bonjour = Bonjour
  None = None
  Dev = {d1, d2, d3}
  Serial = {s1, s2}
  Wifi = {s1}
  SerialOf <- MCSerialOf
SPECIFICATION Spec
INVARIANT ListensUntilClosed
CHECK_DEADLOCK FALSE
