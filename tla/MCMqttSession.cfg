SPECIFICATION FairSpec
CONSTANTS
  Parts <- MCParts
  RESUBSCRIBE = 2
  RESTART = 11
  MAX_FAULTS = 3
  MAX_SENT = 1
INVARIANTS TypeOK ErrorMeansOffline Announced
PROPERTIES Provisioned Reconnects
CHECK_DEADLOCK FALSE
