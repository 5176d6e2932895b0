SPECIFICATION Spec
CONSTANTS
  o1 = o1
  o2 = o2
  b1 = b1
  a1 = a1
  Tokens = {o1, o2}
  Kind <- KindOfToken
  Callers = {c1}
  NoUser = NoUser
  NoToken = NoToken
  Cap = 2
  Lossy = FALSE
  MaxChanges = 1
  MaxCrashes = 0
INVARIANT ClearedNameNotServed
CHECK_DEADLOCK FALSE
