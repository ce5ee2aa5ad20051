SPECIFICATION Spec
CONSTANTS
  s1 = s1
  s2 = s2
  k1 = k1
  k2 = k2
  Sensors = {s1}
  Scrapes = {k1, k2}
  OnlineWindow = 1
  RetentionWindow = 2
  MaxTime = 4
  MaxFaults = 1
SYMMETRY Symmetry
INVARIANTS
  TypeOK
  HashIsSummary
  FreshIsTrackedUnlessRaced
PROPERTY TakenIsRecorded
