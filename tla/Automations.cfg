\* Three sessions whose rules form a loop, one of them behind a dependency.
SPECIFICATION FairSpec
CONSTANTS
  s1 = s1
  s2 = s2
  s3 = s3
  Session = {s1, s2, s3}
  StartMode <- StartModes
  Autonomous = {s2}
  Scheduled = {s3}
  HandDriven = {s3}
  Metered = {s3}
  AutoHeal = TRUE
  Deps <- AfterA
  Rules <- Loop
  Cap = 2
  MaxTurns <- TurnLimits
INVARIANTS
  NobodyWaitsUnheard
PROPERTIES
  StopIsKept
  CascadesEnd
