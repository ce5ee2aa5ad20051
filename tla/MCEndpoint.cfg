SPECIFICATION Spec
CONSTANTS
  i1 = i1
  i2 = i2
  r1 = r1
  r2 = r2
  r3 = r3
  e1 = e1
  Instances = {i1, i2}
  Requests = {r1, r2}
  Envelopes = {e1}
  Skew = 1
  Ttl = 6
  Margin = 4
  MaxDrift = 1
  MaxDelay = 1
  Stamps = {2}
  MaxTime = 6
  MaxFaults = 1
SYMMETRY Symmetry
INVARIANTS
  TypeOK
  AuthorizedOnce
  ClaimCoversWindow
  ConflictIsHonest
  ServedBeforeClose
