SPECIFICATION FairSpec
CONSTANTS
  t1 = t1
  c1 = c1
  s1 = s1
  Tenants = {t1, t2}
  Customers = {c1}
  Owner <- MCOwner
  Probs = {1, 2, 3}
  Tier <- MCTier
  NoProb = NoProb
  NoTenant = NoTenant
  NoCustomer = NoCustomer
  Requests = {q1}
  Batch = Batch
  Subscribers = {s1}
  Follows <- MCFollows
  Day = 2
  MaxNow = 2
  MaxFaults = 1
CHECK_DEADLOCK FALSE
INVARIANT TypeOK
INVARIANT ScoresWhole
INVARIANT HealthNotNewer
INVARIANT FeedAgrees
PROPERTY ScoresAdvance
PROPERTY EveryoneScored
