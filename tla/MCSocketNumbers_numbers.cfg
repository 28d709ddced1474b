SPECIFICATION Spec
CONSTANTS
  a1 = a1
  a2 = a2
  Apps <- MCTwoApps
  MAX_SOCKETS = 3
  MaxSockets = 3
  MaxData = 0
  AppTypes <- MCBoth
  MayFail = FALSE
  MaxMade = 2
SYMMETRY MCSymmetry
INVARIANTS
  TypeOK
  RequestFindsSocket
  NumbersAccounted
CHECK_DEADLOCK FALSE
