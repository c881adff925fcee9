\* Two sessions, a few saves and runs, crashes and failing writes.
SPECIFICATION FairSpec
CONSTANTS
  Session = {s1, s2}
  InitLive = {s1}
  DoubleFaults = FALSE
  MaxVersion = 2
  MaxRuns = 2
  MaxRows = 2
  Broken = Broken
INVARIANTS
  FileIsASave
  TurnsBelong
PROPERTIES
  SavesLand
CHECK_DEADLOCK FALSE
