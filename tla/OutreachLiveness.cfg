SPECIFICATION FairSpec
CONSTANTS
  nightly = nightly
  hooked = hooked
  Campaigns = {nightly, hooked}
  Customers = {c1}
  Channel <- CustomAndMail
  OnAnomaly = {hooked}
  HighOnly = {hooked}
  Crons = {w1}
  Scans = {a1}
  AnomalyIds = {i1}
  NoCampaign = NoCampaign
  NoCustomer = NoCustomer
  Cooldown = 1
  Debounce = 1
  MaxDay = 0
  MaxCrashes = 1
  MaxEdits = 1
PROPERTY AudienceReached
