SPECIFICATION FairSpec
CONSTANTS
  Nodes <- MCNodes
  Start = "send"
  Kind <- MCKind
  Edge <- MCEdge
  TrueTarget <- MCTrueTarget
  FalseTarget <- MCFalseTarget
  DelayHours <- MCDelayHours
  Skilled <- MCSkilled
  NoNode = NoNode
  NoCsm = NoCsm
  NoRun = NoRun
  c1 = c1
  c2 = c2
  Runs = {r1}
  Csms = {c2}
  Crons = {w1}
  Requests = {a1}
  MaxCap = 1
  MaxCrashes = 1
  MaxEdits = 1
  MaxSaves = 0
  MaxReassigns = 1
INVARIANT OncePlusRepeats
PROPERTY ImplementsContract
PROPERTY FinishedIsForever
PROPERTY MovesAlongGraph
PROPERTY DelayHonoured
PROPERTY RunsFinish
