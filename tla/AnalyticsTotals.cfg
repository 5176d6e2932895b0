SPECIFICATION FairSpec
CONSTANTS
  view = view
  answer = answer
  click = click
  form = form
  tree = tree
  ann = ann
  bob = bob
  Events = {view, answer, click}
  Submissions = {answer}
  Pages = {form, tree}
  Forms = {form}
  Visitors = {ann, bob}
  PageOf <- PageOfEvent
  VisitorOf <- VisitorOfEvent
  Requests = {q1, q2}
  Owners = {o1}
  Clearable <- LinktreeOrAll
  None = None
  MaxClears = 1
INVARIANT FormTotalsMatch ResponsesCounted
PROPERTY EveryRequestEnds
CHECK_DEADLOCK FALSE
