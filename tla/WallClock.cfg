\* Three days of six hours, the clocks changing on the second or not at all.
SPECIFICATION Spec
CONSTANTS
  Day = 6
  Days = 3
  Changeover = 2
  ShiftAt = 2
  Shifts <- AllShifts
  Plans <- SomePlansOrNone
  None = none
  QuietDays <- EveryDayOrSome
  MaxTurns = 2
  RunTurns = 2
  MaxHits = 2
  Window = 3
  AuthWindow = 2
  SweepEvery = 2
INVARIANTS
  DueAtBoundaries
  SilentByTheWallClock
  WindowHolds
CONSTRAINT
  OneAtATime
