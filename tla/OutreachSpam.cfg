SPECIFICATION Spec
CONSTANTS
  nightly = nightly
  hooked = hooked
  Campaigns = {nightly, hooked}
  Customers = {c1}
  Channel <- MailAndInApp
  OnAnomaly = {hooked}
  HighOnly = {hooked}
  Crons = {w1}
  Scans = {a1}
  AnomalyIds = {i1}
  NoCampaign = NoCampaign
  NoCustomer = NoCustomer
  Cooldown = 1
  Debounce = 1
  MaxDay = 1
  MaxCrashes = 0
  MaxEdits = 0
INVARIANT CustomerCooldown
