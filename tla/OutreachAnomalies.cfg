SPECIFICATION Spec
CONSTANTS
  nightly = nightly
  hooked = hooked
  Campaigns = {hooked}
  Customers = {c1}
  Channel <- HookedMail
  OnAnomaly = {hooked}
  HighOnly = {hooked}
  Crons = {}
  Scans = {a1, a2}
  AnomalyIds = {i1, i2}
  NoCampaign = NoCampaign
  NoCustomer = NoCustomer
  Cooldown = 1
  Debounce = 1
  MaxDay = 2
  MaxCrashes = 1
  MaxEdits = 0
INVARIANT DebounceKept
