SPECIFICATION QueueFairSpec
CONSTANTS
  ClientEvents = {e1, e2}
  Hopeless = {e1}
  Tabs = {t1, t2}
  MaxQueue = 1
  BatchSize = 2
  FlushAt = 2
  MaxFaults = 1
  MaxHidings = 1
INVARIANT QueueTypeOK KeptUntilAnswered
PROPERTY EveryEventSettles
CHECK_DEADLOCK FALSE
