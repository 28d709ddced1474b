SPECIFICATION FairSpec
CONSTANTS
  a1 = a1
  a2 = a2
  Apps <- MCOneApp
  MAX_SOCKETS = 2
  MaxSockets = 2
  MaxData = 0
  AppTypes <- MCDgram
  MayFail = TRUE
  MaxMade = 1
PROPERTIES
  CloseCompletes
CHECK_DEADLOCK FALSE
