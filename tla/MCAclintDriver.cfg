SPECIFICATION DSpec
CONSTANTS
  LO_MOD = 2
  HI_MOD = 3
  MAX_TIME = 4
  HIGH_MIN = 3
  LOW_MIN = 3
  ARST_EN = TRUE
  HONOURS = TRUE
  Traffic = {}
  Deadlines = {1, 2, 4}
INVARIANTS RequestsHoldClock NoSpuriousTimer ReadIsCurrent
PROPERTIES NoOversleep DeadlineServed
