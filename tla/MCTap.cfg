SPECIFICATION FairSpec
CONSTANTS
  RATIO = 1
  CLK_ARST_EN = FALSE
  Slaves = {"dm", "waiting"}
  Skips = {0, 2}
INVARIANTS CrossingStable ResultIsOfLastRequest FailureIffReal ScanTellsLaunch
PROPERTIES OneTransferPerLaunch BusyEnds
