\* The refinement and the liveness of waiting, under the simulator's fairness.
CONSTANTS
  Hooks = {h1, h2}
  Signals = {clk, irq}
  Values = {0, 1}
  Any = Any
  Waiters = {w}
  MaxDisables = 0
  MaxDeposits = 1
  MaxRestarts = 0
SPECIFICATION FairSpec
PROPERTIES
  ImplementsPromise
  StableValueSeen
