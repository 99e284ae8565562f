SPECIFICATION Spec
CONSTANTS
  x = x
  y = y
  r1 = r1
  r2 = r2
  r3 = r3
  p1 = p1
  p2 = p2
  q1 = q1
  q2 = q2
  s1 = s1
  s2 = s2
  Day = 2
  Nights = 3
  Exposures = {1, 2}
  Puts = {p1, p2}
  Settings <- Thresholds
  MaxRescores = 1
  MaxKills = 1
  Accounts = {x, y}
  Linked = {x}
  Syncs = {p1, p2}
  MaxScores = 1
  MaxSyncFaults = 1
  Emails = {s1, s2}
  Checks = {q1, q2}
  Saves = {p1, p2}
  Quiet = 1
  Debounce = 0
  LastDay = 1
  MaxResolved = 1
  MaxCheckKills = 1
  Attempts = {p1, p2, r1}
  HitLimit = 1
  HitWindow = 1
  FailureLimit = 1
  FailureWindow = 2
  LastTick = 3
  MaxOutages = 1
  SignIns = {p1, p2}
  Refreshes = {r1, r2, r3}
  SignOuts = {x}
  Life = 1
  EndOfTime = 2
  KeyNames = {x}
  Issues = {p1, p2}
  Uses = {r1, r2, r3}
  Revokes = {y}
  Servers = {q1, q2}
  KeyLimit = 1
  KeyWindow = 2
  LastMoment = 2
  Asks = {p1, p2}
  Tiers = {x, y}
  CacheLife = 2
  LastHour = 4
  MaxFailures = 1
  Fallback = Fallback
  IntegrationNames = {x}
  Creates = {p1, p2}
  Sends = {r1, r2, r3}
  Trials = {y}
  FailureCap = 2
  MaxIntegrationFaults = 1
  Processes = {q1, q2}
  Configures = {p1, p2}
  MaxSyncs = 1
  MaxSourceFaults = 1
  Clients = {x, y}
  Billed <- BilledBy
  RenewalDays <- RenewalDates
  Amounts = {0, 5}
  NoAmount = NoAmount
  Risks = {20, 40}
  Upserts = {p1, p2}
  Lists = {y}
  RenewalWindow = 2
  MaxRiskChanges = 1
  Whole = 10000
  Tolerance = 1
  DefaultWeights <- UsualWeights
  WeightPayloads <- AskedWeights
  Conditions <- CustomerConditions
  WeightPuts = {p1, p2}
  Views = {y}
  LastNight = 2
  MaxConditions = 1
  Traits <- CustomerTraits
  Unpredicted = Unpredicted
  Predictions = {30}
  SignalAsks = {p1, p2}
  SignalNights = {y}
  MaxStamps = 4
  Leavers = {x, y}
  Elsewhere = {s1}
  Reasons = {"price", "usability", "poor_support"}
  NoReason = NoReason
  Submissions = {p1, p2}
  Validations = {y}
  Portraits <- StoredPortraits
  MaxPortraits = 2
  EventKinds <- ArrivingKinds
  Trainings = {p1, p2}
  Occurrences <- OccurringEvents
  LastPeriod = 2
  MaxEvents = 2
  MaxRepeats = 1
  Touched = {x, y}
  Channels = {p1, p2}
  Gaps <- WeekGaps
  MaxTouches = 3
  LastWeek = 16
  Persons <- People
  HomeOf <- HomeAssigned
  Mrr <- MonthlyPay
  Plans = {"none", "standard", "Standard"}
  Chances = {20, 50, 90}
  NoChance = NoChance
  Members = {"one", "two"}
  TenantsNeeded = 2
  PersonsNeeded = 3
SYMMETRY Symmetry
CHECK_DEADLOCK FALSE
INVARIANT RevenueSound
INVARIANT CrmSound
INVARIANT ContactsSound
INVARIANT AccessSound
INVARIANT RecommendationsSound
INVARIANT IntegrationsSound
INVARIANT CustomerHealthSound
INVARIANT CustomerFilesSound
INVARIANT ReportingSound
