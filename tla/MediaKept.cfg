SPECIFICATION FairSpec
CONSTANTS
  Assets = {a1}
  Records = {page, form}
  Inspected = {page, form}
  Forms = {form}
  Callers = {c1}
  Processes = {p1, p2}
  Batch = 1
  NoAsset = NoAsset
  MaxFaults = 2
PROPERTY NewUploadSurvives UnusedIsCollected
CHECK_DEADLOCK FALSE
