SPECIFICATION FairSpec
CONSTANTS
  k1 = k1
  k2 = k2
  b1 = b1
  b2 = b2
  p1 = p1
  p2 = p2
  Claims = {k1, k2}
  Businesses = {b1, b2}
  Hosts = {h1}
  Callers = {c1, c2}
  Processes = {p1, p2}
  Manual = Manual
  Batch = 1
  Prompt = TRUE
  MaxOutages = 1
CONSTRAINT OneStory
PROPERTY NewerResultStays SelectionNotRestored VerifiedNotReleased ProvenIsRenewed
CHECK_DEADLOCK FALSE
