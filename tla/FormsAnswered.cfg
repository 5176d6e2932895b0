SPECIFICATION FormsFairSpec
CONSTANTS
  e1 = e1
  e2 = e2
  a1 = a1
  other = other
  FormIds = {f1, f2}
  Addresses = {a1, a2}
  Definitions = {whole, other, partial}
  Complete = {whole, other}
  Editors = {e1, e2}
  Pages = {p1}
  Nobody = Nobody
  Nothing = Nothing
  Pool = 2
  MaxRevision = 2
CONSTRAINT OneStory
INVARIANT ActiveIsComplete AnswersFit
PROPERTY RetryKeepsReceipt EditsEnd
CHECK_DEADLOCK FALSE
