SPECIFICATION FairSpec
CONSTANTS
  MAX_STEP = 2
  MAX_PLAN = 1
  MAX_CNT = 3
  MAX_WORK = 3
  WORK <- MCAllSignals
  SERVER <- MCServer
  BYTE = 2
  TEACHING = FALSE
  PAUSES = TRUE
  POWER = FALSE
PROPERTY KeepsCounting
