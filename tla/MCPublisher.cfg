SPECIFICATION FairSpec
CONSTANTS
  RECORDS = 3
  MISDATED <- MCMisdated
  ACK_TICKS = 2
  MAX_SEND_PAYLOAD = 1
  SUBSCRIPTIONS = 1
  MAX_UNDER_WAY = 4
  MAX_OTHER = 1
  MAX_DROPS = 2
INVARIANTS TypeOK OutstandingIsNewest Accounted
PROPERTIES ServerOrder Drains
CHECK_DEADLOCK FALSE
