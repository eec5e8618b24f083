SPECIFICATION MCSpec
CONSTANTS
  LEN_Q_BUFF = 3
  MAX_PLAN = 1
  MAX_COUNT = 0
  MAX_RECORD = 5
  STEPS <- MCSteps
  Blank = Blank
  MAX_CALLS = 4
INVARIANT TypeOK
PROPERTY ImplementsFifo
VIEW MCRing
