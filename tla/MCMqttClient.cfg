SPECIFICATION MCSpec
CONSTANTS
  Payload <- MCPayload
  SUBSCRIPTIONS = 1
  MAX_PUBLISH = 5
  MAX_DROPS = 2
  BASE = 4
  MAX_TOPIC = 1
  STREAMS <- MCStreams
  MAX_FALLS = 2
INVARIANTS TypeOK Synchronised HandledAsSent
PROPERTIES ImplementsLink Completes
CHECK_DEADLOCK FALSE
