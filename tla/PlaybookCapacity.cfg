\* PlaybookCapacity.cfg
SPECIFICATION Spec
CONSTANTS
  Nodes <- TaskNodes
  Start = "review"
  Kind <- TaskKind
  Edge <- TaskNone
  TrueTarget <- TaskNone
  FalseTarget <- TaskNone
  DelayHours <- TaskZero
  Skilled <- TaskSkilled
  NoNode = NoNode
  NoCsm = NoCsm
  NoRun = NoRun
  c1 = c1
  c2 = c2
  Runs = {r1, r2, r3}
  Csms = {c1, c2}
  Crons = {w1}
  Requests = {a1}
  MaxCap = 2
  MaxCrashes = 0
  MaxEdits = 0
  MaxSaves = 1
  MaxReassigns = 0
INVARIANT CountsTasks
INVARIANT WithinLimitUnlessRaced
