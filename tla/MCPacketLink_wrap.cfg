SPECIFICATION FairSpec
CONSTANTS
  s1 = s1
  s2 = s2
  urgent = urgent
  Urgent = urgent
  Streams <- MCOneStream
  StreamsOf <- MCDataOnly
  Closers <- MCNobody
  Window = 1
  HalfRange = 2
  WideInt = TRUE
  MaxMsgs <- MCHostSends3
  MaxFrags = 1
  MaxFaults = 0
  LineBound = 0
PROPERTIES
  EveryMessageDelivered
CHECK_DEADLOCK FALSE
