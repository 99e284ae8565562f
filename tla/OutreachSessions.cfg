SPECIFICATION Spec
CONSTANTS
  nightly = nightly
  hooked = hooked
  Campaigns = {nightly, hooked}
  Customers = {c1}
  Channel <- MailAndInApp
  OnAnomaly = {hooked}
  HighOnly = {hooked}
  Crons = {w1}
  Scans = {a1}
  AnomalyIds = {i1}
  NoCampaign = NoCampaign
  NoCustomer = NoCustomer
  Cooldown = 2
  Debounce = 1
  MaxDay = 3
  MaxCrashes = 1
  MaxEdits = 0
INVARIANT CooldownKept
INVARIANT MessagesAccounted
