SPECIFICATION FairSpec
CONSTANTS
  XM = "fetch"
  NXM = {"d0"}
  XSubs = {"rom"}
  NXSubs = {"periph"}
  Xfers <- MCXfers
  None = None
  MAX_WAIT = 1
INVARIANTS ClockGateSafe
PROPERTIES ImplementsCrossbar FetchCompletes
