SPECIFICATION LiveSpec
CONSTANTS
  p1 = p1
  p2 = p2
  Partitions = {p1}
  Kinds = {"good", "poison", "ignored"}
  BatchSize = 2
  LagCountsUncommitted = TRUE
  MaxPerPartition = 3
  MaxRecords = 3
  MaxFaults = 2
PROPERTIES
  FlightLands
  StopCompletes
