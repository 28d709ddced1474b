SPECIFICATION Spec
CONSTANTS
  a1 = a1
  a2 = a2
  Apps <- MCOneApp
  MAX_SOCKETS = 3
  MaxSockets = 4
  MaxData = 0
  AppTypes <- MCStream
  MayFail = FALSE
  MaxMade = 2
INVARIANTS
  NumbersUnique
CHECK_DEADLOCK FALSE
