SPECIFICATION Spec
CONSTANTS
  SidCount = 2
  ListenerC2S = 1
  ListenerS2C = 1
  TalkerS2C = 1
  TalkerC2S = 1
  Tx2 = 1
  Protocol <- MCProtocol
  Readers = {0, 1}
  PingInterval = 10
  MaxAccepts = 2
  Budget = 2
PROPERTIES
  ShutdownCompletes
CHECK_DEADLOCK FALSE
