\* Two autonomous sessions and one slot, the daily budget, a brain that recovers.
SPECIFICATION FairSpec
CONSTANTS
  s1 = s1
  s2 = s2
  Session = {s1, s2}
  InitLive = {s1, s2}
  InitDeps <- NoDeps
  DepChoices <- NoEdits
  Run = {g1}
  CapChoices = {1}
  Modes = {"autopilot"}
  Autonomous = {s1, s2}
  MaxTurns = 2
  MaxHeals = 1
  DepthCap = 0
  UsageGate = FALSE
PROPERTIES
  QueueDrains
  StopEndsRun
  HealBudgetBounds
