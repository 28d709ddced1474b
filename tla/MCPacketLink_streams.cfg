SPECIFICATION Spec
CONSTANTS
  s1 = s1
  s2 = s2
  urgent = urgent
  Urgent = urgent
  Streams <- MCTwoStreams
  StreamsOf <- MCStreamsOf
  Closers <- MCHost
  Window = 2
  HalfRange = 16
  WideInt = TRUE
  MaxMsgs <- MCHostSends4
  MaxFrags = 2
  MaxFaults = 0
  LineBound = 0
INVARIANTS
  MessagesContiguous
  StreamsInOrder
  StreamsServed
  CloseReplyIsLast
CHECK_DEADLOCK FALSE
