SPECIFICATION Spec
CONSTANTS
  Thieves = {t1}
  NE = 2
  B = 2
  MaxPush = 5
INVARIANTS NoSpinAlone
CHECK_DEADLOCK FALSE
