SPECIFICATION FairSpec
CONSTANTS
  r1 = r1
  r2 = r2
  Requests = {r1, r2}
  Callers = {c1, c2}
  Nobody = Nobody
  NoPolicy = NoPolicy
  NoRequest = NoRequest
  Pool = 2
  Lossy = TRUE
  MaxChanges = 1
  MaxAlarms = 1
CONSTRAINT OneStory
INVARIANT CarriedOutOnce EmergencyStops StaleOnlyByOverlap
PROPERTY PolicyCatchesUp EveryCallEnds
CHECK_DEADLOCK FALSE
