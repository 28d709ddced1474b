SPECIFICATION FairSpec
CONSTANTS
  s1 = s1
  s2 = s2
  urgent = urgent
  Urgent = urgent
  Streams <- MCOneStream
  StreamsOf <- MCStreamsOf
  Closers <- MCHost
  Window = 1
  HalfRange = 16
  WideInt = TRUE
  MaxMsgs <- MCHostSends3
  MaxFrags = 2
  MaxFaults = 2
  LineBound = 1
PROPERTIES
  EveryMessageDelivered
CHECK_DEADLOCK FALSE
