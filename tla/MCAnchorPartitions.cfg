SPECIFICATION Spec
CONSTANTS
  p1 = p1
  p2 = p2
  A = A
  B = B
  Partitions = {p1, p2}
  Contents = {A, B}
  Kinds = {}
  RepeatedContent = FALSE
  MaxPerPartition = 2
  MaxRecords = 2
  MaxFaults = 1
  MaxReorgs = 0
PROPERTY AnchoredIsSkipped
