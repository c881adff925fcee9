\* Two prompts.  claude may crash, freeze, swallow keys, write preambles, or take
\* an interrupted turn up late.
SPECIFICATION FairSpec
CONSTANTS
  Turns = 2
  MaxWork = 1
  UuidId = TRUE
  Habits = {{"preambles"}, {"late"}}
INVARIANTS
  AskedOnce
  OwnAnswer
  ResumeAccepted
PROPERTIES
  NeverLost
  StopIsNotRecovered
  TurnEnds
CHECK_DEADLOCK FALSE
