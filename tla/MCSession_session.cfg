SPECIFICATION FairSpec
CONSTANTS
  s1 = s1
  urgent = urgent
  Urgent = urgent
  Streams <- MCStreams
  Stream0 = s1
  Window = 1
  HalfRange = 16
  WideInt = TRUE
  MaxFaults = 1
  LineBound = 1
  Escaped <- MCEscaped
  Ignored <- MCIgnored
  Offset = 64
  Blocks <- MCBlocks
  FieldSize <- MCFieldSize
  MaxServers = 2
  CtlXs = 2
  ScriptText <- MCScriptText
  Settings <- MCSettings
  Instances <- MCInstances
INVARIANTS
  TypeOK
  HostAnnounced
  LineUnderstood
  OwnSession
  ScriptInStep
PROPERTIES
  LoginCompletes
CHECK_DEADLOCK FALSE
