\* Three sessions in a chain and one slot, under the daily budget, no depth cap.
SPECIFICATION BudgetSpec
CONSTANTS
  s1 = s1
  s2 = s2
  s3 = s3
  Session = {s1, s2, s3}
  InitLive = {s1, s2}
  InitDeps <- Chain
  DepChoices <- JoinEdits
  Run = {g1}
  CapChoices = {1}
  Modes = {"autopilot"}
  Autonomous = {}
  MaxTurns = 2
  MaxHeals = 0
  DepthCap = 0
  UsageGate = FALSE
INVARIANTS
  BlockedForAReason
  BudgetStopsRun
PROPERTIES
  ImplementsSlotPool
