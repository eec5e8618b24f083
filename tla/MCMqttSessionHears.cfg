SPECIFICATION Spec
CONSTANTS
  Parts <- MCParts
  RESUBSCRIBE = 2
  RESTART = 11
  MAX_FAULTS = 1
  MAX_SENT = 0
INVARIANT HearsTheServer
CHECK_DEADLOCK FALSE
