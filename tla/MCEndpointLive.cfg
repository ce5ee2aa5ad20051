SPECIFICATION LiveSpec
CONSTANTS
  i1 = i1
  i2 = i2
  r1 = r1
  r2 = r2
  r3 = r3
  e1 = e1
  Instances = {i1}
  Requests = {r1, r2}
  Envelopes = {e1}
  Skew = 1
  Ttl = 4
  Margin = 2
  MaxDrift = 0
  MaxDelay = 1
  Stamps = {1}
  MaxTime = 3
  MaxFaults = 2
PROPERTIES
  RequestsAnswered
  StopCompletes
