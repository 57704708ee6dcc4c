SPECIFICATION Spec
CONSTANTS
  Addrs = {a1, a2}
  lane = lane
  r0 = r0
  r1 = r1
  Lanes = {lane}
  Vals = {0, 1}
  Strobes = {{lane}}
  RomAddrs = {r0, r1}
  RomContent <- MCRomContent
  Nowhere = Nowhere
  FIXED_B_PRIO = FALSE
INVARIANTS FetchSeesEarlierStores TwoWaitStates OnlyDenialsFail
PROPERTY ImplementsMemory
