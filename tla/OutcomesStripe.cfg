SPECIFICATION Spec
CONSTANTS
  NoId = NoId
  NoOne = NoOne
  Ids = {i1, i2}
  Customers = {c1}
  Cancellations = {x1}
  Requests = {}
  Window = 2
  Week = 1
  MaxNow = 4
  MaxFaults = 0
  MaxRescores = 1
CHECK_DEADLOCK FALSE
INVARIANT CancellationsChurn
