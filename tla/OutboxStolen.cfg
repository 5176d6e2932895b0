SPECIFICATION FairSpec
CONSTANTS
  r1 = r1
  r2 = r2
  d1 = d1
  Workers = {w1, w2}
  Rows = {r1, r2}
  Destinations = {d1}
  DestOf <- OneDestination
  Malformed = {r2}
  Refused = {}
  BatchSize = 2
  MaxAttempts = 1
  StaleCutoff = 2
  Delays = {1}
  Stalls = FALSE
  MaxFaults = 0
  MaxReopens = 0
INVARIANTS
  LiveRequestNotStolen
