\* A run that fails in a day whose budget is two turns.
SPECIFICATION Spec
CONSTANTS
  Day = 4
  Days = 3
  Changeover = 2
  ShiftAt = 2
  Shifts <- NoShift
  Plans <- OnePlan
  None = none
  QuietDays <- EveryDayOrSome
  MaxTurns = 2
  RunTurns = 3
  MaxHits = 2
  Window = 3
  AuthWindow = 2
  SweepEvery = 2
INVARIANTS
  DayIsCapped
