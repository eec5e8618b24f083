SPECIFICATION Spec
CONSTANTS
  MAX_STEP = 2
  MAX_PLAN = 2
  MAX_CNT = 1
  MAX_WORK = 3
  WORK <- MCStitch
  SERVER <- MCServerStitches
  BYTE = 2
  TEACHING = FALSE
  PAUSES = FALSE
  POWER = TRUE
INVARIANTS WholeRounds InSync
