SPECIFICATION FairSpec
CONSTANTS
  p1 = p1
  p2 = p2
  u1 = u1
  u2 = u2
  s1 = s1
  Pages = {p1, p2}
  Addresses = {u1, u2, s1}
  Slugs = {u2, s1}
  Uid <- UidOfPage
  visitor = visitor
  editor = editor
  Callers = {visitor, editor}
  None = None
  Limit = 1
  Lossy = TRUE
  MaxEdits = 1
  MaxImports = 1
CONSTRAINT OneStory
INVARIANT PagesWithinLimit ClearedStaysCleared
PROPERTY ServedIsPublic PageCatchesUp
CHECK_DEADLOCK FALSE
