SPECIFICATION Spec
CONSTANTS
  LO_MOD = 8
  HI_MOD = 2
  BITS = 4
  MAX_TIME = 15
  MAX_GAP = 2
  Ticks <- MCTicks
  Waits <- MCWaits
INVARIANTS AnswerOfOneInstant NoEarlyAlarm DelayNeverShort DelayEndsOnTime
CHECK_DEADLOCK FALSE
