SPECIFICATION MSpec
CONSTANTS
  LO_MOD = 2
  HI_MOD = 3
  MAX_TIME = 3
  HIGH_MIN = 3
  LOW_MIN = 3
  ARST_EN = FALSE
  HONOURS = FALSE
  Traffic <- MCTraffic
INVARIANTS CounterSettled WritesLand
PROPERTY TimeNeverGoesBack
