SPECIFICATION MCSpec
VIEW MCView
CONSTANTS
  LEN_Q_BUFF = 3
  MAX_PLAN = 2
  TYPES <- MCOutput
  VALUES <- MCValues
  MAX_RECORD = 2
  DAYS = 2
  START = 1
  PLANS <- MCPlans
  CONFIGS <- MCConfigs
  Blank = Blank
  HOURS = 3
  MINUTES = 3
  SECONDS = 3
  BYTE = 16
  WORD = 256
  REPEAT = 2
  MAX_UPTIME = 32
INVARIANTS TypeOK StampIsPlausible DayThenData RingMatchesCounters KeepsItsDistance
PROPERTY KeptAreToday
