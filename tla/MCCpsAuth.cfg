SPECIFICATION MCSpec
CONSTANTS
  s1 = s1
  s2 = s2
  s3 = s3
  root = root
  a = a
  b = b
  None = None
  Sensors = {s1, s2, s3}
  Nodes = {root, a, b}
  Root = root
  CacheMaxSize = 2
  NegativeTtl = 1
  MaxSteps = 2
  MaxTime = 2
  MaxChanges = 1
SYMMETRY Symmetry
INVARIANTS
  TypeOK
  CacheFollowsTree
PROPERTIES
  AuthorizedByLinks
  EvictsLeastRecent
