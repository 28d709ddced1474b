SPECIFICATION Spec
CONSTANTS
  s1 = s1
  s2 = s2
  urgent = urgent
  Urgent = urgent
  Streams <- MCOneStream
  StreamsOf <- MCDataOnly
  Closers <- MCNobody
  Window = 3
  HalfRange = 16
  WideInt = TRUE
  MaxMsgs <- MCHostSends5
  MaxFrags = 1
  MaxFaults = 3
  LineBound = 4
INVARIANTS
  TypeOK
  WindowRespected
  InOrderExactlyOnce
  NothingForgotten
  GapBeforeReceived
PROPERTIES
  PipeSpec
CHECK_DEADLOCK FALSE
