SPECIFICATION Spec
CONSTANTS
  p1 = p1
  p2 = p2
  Partitions = {p1, p2}
  Kinds = {"good", "oversized", "poison", "unaddressable"}
  BatchSize = 2
  LagCountsUncommitted = TRUE
  MaxPerPartition = 3
  MaxRecords = 3
  MaxFaults = 2
SYMMETRY Symmetry
INVARIANTS
  TypeOK
  NoLoss
  Accounted
  BufferOrdered
  NoDuplicateWithoutFault
  ClosedIsQuiet
  HalvingKeepsEvents
PROPERTIES
  ImplementsAtLeastOnce
