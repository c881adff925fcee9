\* A start may find the previous run still in teardown: two runs of one session.
SPECIFICATION Spec
CONSTANTS
  s1 = s1
  s2 = s2
  Session = {s1, s2}
  InitLive = {s1, s2}
  InitDeps <- NoDeps
  DepChoices <- NoEdits
  Run = {g1, g2}
  CapChoices = {2}
  Modes = {"autopilot"}
  Autonomous = {}
  MaxTurns = 2
  MaxHeals = 1
  DepthCap = 0
  UsageGate = TRUE
INVARIANTS
  RunsWithinCap
