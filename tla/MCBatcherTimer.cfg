SPECIFICATION LiveSpec
CONSTANTS
  p1 = p1
  p2 = p2
  Partitions = {p1}
  Kinds = {"good"}
  BatchSize = 2
  LagCountsUncommitted = FALSE
  MaxPerPartition = 3
  MaxRecords = 3
  MaxFaults = 0
PROPERTY PartialBatchFlushed
