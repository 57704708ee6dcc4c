SPECIFICATION SingleSpec
CONSTANTS
  Addrs = {a1, a2}
  Lanes = {lo, hi}
  Vals = {0, 1}
  Strobes = {{}, {lo}, {hi}, {lo, hi}}
PROPERTY SingleImplementsMemory
