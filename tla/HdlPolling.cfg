\* Two signals, two records (so two probes on one signal as well), one
\* waiting process, one reset of the simulation at any moment: every order of
\* creations, changes, callbacks and services.
CONSTANTS
  Hooks = {h1, h2}
  Signals = {clk, irq}
  Values = {0, 1}
  Any = Any
  Waiters = {w}
  MaxDisables = 1
  MaxDeposits = 1
  MaxRestarts = 1
SPECIFICATION Spec
INVARIANTS
  TypeOK
  ListIsOneChain
  ChangesAreAnnounced
  NothingFreedIsServiced
  NotifyReachesItsProbe
  NoLostWakeup
