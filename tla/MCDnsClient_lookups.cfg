SPECIFICATION FairSpec
CONSTANTS
  Sockets <- MCSockets
  Ports <- MCPorts
  Tries = 2
  Bounds <- MCBounds
INVARIANTS
  TypeOK
  AnswersAreOwn
  OneMessagePerRequest
  TimerHasQuery
PROPERTIES
  LookupEnds
CHECK_DEADLOCK FALSE
