SPECIFICATION FairSpec
CONSTANTS
  NoId = NoId
  NoOne = NoOne
  Ids = {i1}
  Customers = {c1}
  Cancellations = {x1}
  Requests = {q1}
  Window = 2
  Week = 1
  MaxNow = 6
  MaxFaults = 1
  MaxRescores = 1
CHECK_DEADLOCK FALSE
INVARIANT CountedInOneWeek
PROPERTY OutcomesRecorded
INVARIANT TypeOK
INVARIANT OverridesAudited
INVARIANT RetainedInGoodFaith
PROPERTY VerdictsStand
