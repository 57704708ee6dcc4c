SPECIFICATION DFairSpec
CONSTANTS
  NUM_SOURCES = 5
  NUM_HARTS = 1
  SU_MODE_EN = TRUE
  PRIV_CHECK_EN = TRUE
  PRIO_MAX = 2
  LEAF_W = 3
  WORD = 4
  Traffic = {}
  Devices = {3, 4, 5}
  Setups <- MCSetups
  Reconfigured <- MCReconfigured
INVARIANTS ExclusiveService InServiceMeansHandled TreeFindsBest
PROPERTIES ServedOrOutranked
