SPECIFICATION Spec
CONSTANTS
  NUM_SOURCES = 2
  NUM_HARTS = 1
  SU_MODE_EN = TRUE
  PRIV_CHECK_EN = TRUE
  PRIO_MAX = 2
  WORD = 2
  Traffic <- MCTraffic
INVARIANTS GateLossless
PROPERTIES GatewayContract DeniedInert
