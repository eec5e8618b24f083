SPECIFICATION MCSpec
CONSTANTS
  LEN_Q_BUFF = 3
  MAX_PLAN = 2
  MAX_COUNT = 1
  MAX_RECORD = 2
  STEPS <- MCSteps
  Blank = Blank
  MAX_CALLS = 3
INVARIANTS DisplayMatchesMemory RingMatchesCounters
VIEW MCPlans
