\* Bounds: the calls and the event are those named; OutFrags and InFrags give
\* each message its fragments.
CONSTANTS
  o1 = o1
  o2 = o2
  i1 = i1
  e1 = e1
  None = None
  Open = {o1, o2}
  Invoke = {i1}
  Event = {e1}
  EvId <- MCEvId
  EvCode <- MCEvCode
  OutFrags <- MCOutFrags
  InFrags <- MCInFrags
SPECIFICATION Spec
INVARIANTS TypeOK PendingIsWaiting OwnReply Reassembly DistinctChannels
PROPERTIES QuietAfterClose ImplementsRpc EverySendSettles
CHECK_DEADLOCK FALSE
