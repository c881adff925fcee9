\* On opencode: two runs, one autonomous and one driven by hand, on a server that may fail;
\* a third on a provider that may cost money.
\* On headless claude: three prompts, over one run or more.
SPECIFICATION EngineSpec
CONSTANTS
  Run = {r1, r2, r3}
  Perm = {p1}
  Proc = {c1, c2}
  Autonomous = {r1}
  ByHand = {r2}
  Local = {r1, r2}
  MaxTurns = 1
  None = None
  Id = {i1, i2, i3}
  OwnId = i1
  Prompts = 3
  Forks = TRUE
INVARIANTS
  GrantedByOperator
  RefusalsMend
  PromptTakenOnce
PROPERTIES
  OneServer
  StopEndsRun
  StopSpawnsNothing
CHECK_DEADLOCK FALSE
