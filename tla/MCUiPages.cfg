SPECIFICATION MCSpec
CONSTANTS
  LEN_BREAK_REASON = 2
  WAIT <- MCWait
  INOUT_Q_LEN_BUFF = 10
  MAX_CARDS = 13
INVARIANTS RowInList ModesShown AndonStored CardsReported
PROPERTIES TeachByHold ComesBack
