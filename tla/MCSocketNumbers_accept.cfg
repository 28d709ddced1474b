SPECIFICATION FairSpec
CONSTANTS
  a1 = a1
  a2 = a2
  Apps <- MCOneApp
  MAX_SOCKETS = 3
  MaxSockets = 3
  MaxData = 2
  AppTypes <- MCStream
  MayFail = FALSE
  MaxMade = 1
INVARIANTS
  NumbersUnique
  DataReachesOwner
  ArrivalFindsEntry
PROPERTIES
  CloseCompletes
CHECK_DEADLOCK FALSE
