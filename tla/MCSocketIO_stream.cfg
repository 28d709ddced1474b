SPECIFICATION FairSpec
CONSTANTS
  s1 = s1
  s2 = s2
  Sockets <- MCBoth
  Datagram <- MCDgram
  MAX_OUTSTANDING = 2
  Lengths <- MCLengths
  EventSets <- MCEvents
  IntIs32 = TRUE
  Bounds <- MCBounds
INVARIANTS
  TypeOK
  SentInOrder
  ReceivedInOrder
  OutstandingAccounts
  ConnectedIsConnected
  PendingIsWatched
  NoLostWakeup
  RefusedSenderHears
  BlockingFlag
PROPERTIES
  BlockedCallEnds
CHECK_DEADLOCK FALSE
