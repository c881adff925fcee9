\* Two sessions under the /usage gate, one of them added later, one slot or two.
SPECIFICATION Spec
CONSTANTS
  s1 = s1
  s2 = s2
  Session = {s1, s2}
  InitLive = {s1}
  InitDeps <- Chain
  DepChoices <- ChainEdits
  Run = {g1}
  CapChoices = {1, 2}
  Modes = {"manual", "autopilot"}
  Autonomous = {}
  MaxTurns = 2
  MaxHeals = 1
  DepthCap = 1
  UsageGate = TRUE
INVARIANTS
  TypeOK
  SlotAccounting
  QueueSound
  StatusMatchesRun
  ErrorNeverSilent
PROPERTIES
  LimitPauseKeepsWakeup
  WorkflowOrder
  StopIsPrompt
