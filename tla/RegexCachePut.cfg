\* Three keys and a limit of one.
CONSTANTS
  Characters <- MCCharacters
  Handles = {h1, h2, h3}
  MaxLength = 14
  Null = Null
  None = None
  Nodes = {n1, n2, n3}
  Simulations <- MCShared
  Sizes = {0, 1}
SPECIFICATION Spec
CHECK_DEADLOCK FALSE
PROPERTY ImplementsLru
