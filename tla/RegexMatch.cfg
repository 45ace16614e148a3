\* All globs of at most three characters against strings of at most two, and
\* uses of at most three keys that share the cache, in every order.
CONSTANTS
  Characters <- MCCharacters
  Handles = {h1, h2, h3}
  MaxLength = 14
  Null = Null
  None = None
  Nodes = {n1, n2, n3}
  Simulations <- MCSimulations
  Sizes = {0, 1}
SPECIFICATION Spec
SYMMETRY HandleSymmetry
CHECK_DEADLOCK FALSE
INVARIANTS
  TypeOK
  CacheOwnsHandles
  CacheIsTransparent
  AnswersRight
PROPERTY OrderIsKept
