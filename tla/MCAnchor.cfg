SPECIFICATION MCSpec
CONSTANTS
  p1 = p1
  p2 = p2
  A = A
  B = B
  Partitions = {p1, p2}
  Contents = {A, B}
  Kinds = {"oversized", "invalid", "ignored"}
  RepeatedContent = TRUE
  MaxPerPartition = 3
  MaxRecords = 3
  MaxFaults = 2
  MaxReorgs = 1
INVARIANTS
  TypeOK
  DuplicatesWithinFaults
  AnchoredInOrder
PROPERTIES
  ImplementsAtLeastOnce
  SoleAnchoredIsSkipped
  StopCompletes
  EventuallyCommitted
