---------------------------- MODULE WallClockMC ----------------------------
\* The instances of WallClock that TLC checks.
EXTENDS WallClock

AllShifts == {-1, 0, 1}

NoShift == {0}

\* An interval alone, a time of day alone before and after the clocks change,
\* both.
SomePlans == {[every |-> 3, daily |-> None], [every |-> 0, daily |-> 1],
              [every |-> 0, daily |-> 3], [every |-> 3, daily |-> 2]}

\* No schedule: the run with it looks at the limiter or at the budget.
NoPlan == [every |-> 0, daily |-> None]

SomePlansOrNone == SomePlans \cup {NoPlan}

\* The policies share nothing but the clock: they are explored one at a time.
OneAtATime ==
  \/ hits = <<>> /\ live = None /\ made = 0 /\ charged = 0
  \/ plan = NoPlan /\ lastFire = Midnight(1) /\ live = None /\ made = 0 /\ charged = 0
  \/ plan = NoPlan /\ lastFire = Midnight(1) /\ hits = <<>>

EveryDayOrSome == {{}, {1, 3}}

OnePlan == {[every |-> 0, daily |-> 1]}
=============================================================================
