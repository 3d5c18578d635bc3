CONSTANTS
  Configs <- MCConfigs
  Startable <- MCStartable
  Messages <- MCMessages
  Callers <- MCCallers
  Initial = "initial"
  Nop = "nop"
  Empty = "empty"
  NoConfig = "none"
  Nothing = "nothing"
  MaxFaults = 1
  MaxMessages = 2
SPECIFICATION Spec
INVARIANTS
  AppliedInForce
  FailedIsRolledBack
PROPERTIES
  QuietStopReturns
  HandlerReplies
  ClosedIsNoticed
  ImplementsRegister
CHECK_DEADLOCK FALSE
