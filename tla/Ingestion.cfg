SPECIFICATION FairSpec
CONSTANTS
  x = x
  y = y
  e1 = e1
  e2 = e2
  e3 = e3
  j1 = j1
  j2 = j2
  j3 = j3
  r1 = r1
  r2 = r2
  r3 = r3
  r4 = r4
  NoRow = NoRow
  NoJob = NoJob
  Events = {e1, e2, e3}
  Who <- TwoCustomers
  When <- Times
  Mrr <- Invoices
  Cancels = {e1}
  Payloads <- Batches
  Jobs = {j1, j2}
  Workers = {w1, w2}
  Rows = {r1, r2, r3, r4}
  MaxTries = 2
  MaxFaults = 2
CHECK_DEADLOCK FALSE
PROPERTY WebhooksSettle
PROPERTY ImplementsLedger
INVARIANT TypeOK
INVARIANT OneRowPerCustomer
INVARIANT LastSeenKept
INVARIANT DoneIsFiled
INVARIANT CancellationsSurveyed
