SPECIFICATION Spec
CONSTANTS
  o1 = o1
  o2 = o2
  b1 = b1
  a1 = a1
  Tokens = {o1, o2, a1, b1}
  Kind <- KindOfToken
  Callers = {c1, c2}
  NoUser = NoUser
  NoToken = NoToken
  Cap = 1
  Lossy = TRUE
  MaxChanges = 1
  MaxCrashes = 1
SYMMETRY OwnerSymmetry
CONSTRAINT OneStory
INVARIANT ServedWhileValid BorrowedStaysBorrowed RefusedForCause CapRespected
CHECK_DEADLOCK FALSE
