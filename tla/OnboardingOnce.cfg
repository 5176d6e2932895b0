SPECIFICATION Spec
CONSTANTS
  login = login
  join1 = join1
  join2 = join2
  u1 = u1
  u2 = u2
  Tickets = {login, join1, join2}
  Codes = {login, join1}
  Joining = {join1, join2}
  People = {u1, u2}
  Person <- PersonOf
  Invites = {i1, i2}
  Names = {n1, n2}
  Shop = Shop
  Callers = {c1, c2}
  None = None
  Attempts = 2
  Lossy = TRUE
CONSTRAINT OneStory
INVARIANT UsedOnce GoneForACause NamesExclusive TakenOnlyByOverlap ApprovedHasBusiness
CHECK_DEADLOCK FALSE
