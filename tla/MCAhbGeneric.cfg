SPECIFICATION Spec
CONSTANTS
  Managers = {"m0", "m1"}
  Subs = {"s1", "s2"}
  Xfers <- MCXfers
  None = None
  MAX_WAIT = 1
PROPERTIES TwoCycleError ImplementsCrossbar
