SPECIFICATION Spec
CONSTANTS
  s1 = s1
  s2 = s2
  urgent = urgent
  Urgent = urgent
  Streams <- MCOneStream
  StreamsOf <- MCDataOnly
  Closers <- MCNobody
  Window = 2
  HalfRange = 16
  WideInt = TRUE
  MaxMsgs <- MCBothSend
  MaxFrags = 1
  MaxFaults = 2
  LineBound = 3
INVARIANTS
  BothWays
CHECK_DEADLOCK FALSE
