SPECIFICATION Spec
CONSTANTS
  MAX_STEP = 2
  MAX_PLAN = 1
  MAX_CNT = 3
  MAX_WORK = 3
  WORK <- MCStitchDelay
  SERVER <- MCNoServer
  BYTE = 2
  TEACHING = TRUE
  PAUSES = FALSE
  POWER = FALSE
INVARIANT TypeOK
PROPERTY TaughtIsWorked
VIEW MCTaught
