SPECIFICATION MCSpec
CONSTANTS
  LEN_Q_BUFF = 3
  BASE = 2
  MAX_RECORD = 5
  MAX_BATCH = 2
  MAX_CALLBACKS = 2
  MAX_LOSSES = 1
  WORD = 16
  STARTS <- MCStarts
  STOP = 2
  SCAN = 1
  DELAY = 1
  HANDLING = 2
  MAX_TIME = 10
INVARIANTS TypeOK BufferedUnlessRaced TimesWithinUptime
PROPERTY StopsWhenStill
CHECK_DEADLOCK FALSE
