\* A reset with a change on the list.
CONSTANTS
  Hooks = {h1}
  Signals = {irq}
  Values = {0, 1}
  Any = Any
  Waiters = {}
  MaxDisables = 0
  MaxDeposits = 0
  MaxRestarts = 1
SPECIFICATION FairSpec
PROPERTY NotificationNeverMissed
