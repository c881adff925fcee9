----------------------------- MODULE WallClock -----------------------------
(***************************************************************************)
(* The policies that read the clock: schedules (src/policy/schedule.ts),   *)
(* quiet hours (quiethours.ts), the daily budget (budget.ts) and the       *)
(* window of the request limiter (src/server/rateLimit.ts).                *)
(*                                                                         *)
(* Time is counted in ticks, an hour of the local clock being one tick; on *)
(* one day the clocks may go forward or back.  The policies share nothing  *)
(* but the clock.                                                          *)
(***************************************************************************)
EXTENDS Integers, Sequences

CONSTANTS
  Day,         \* ticks of an ordinary day
  Days,        \* bound: days
  Changeover,  \* the day on which the clocks may change
  ShiftAt,     \* the hour at which they do
  Shifts,      \* 1: clocks go back, a longer day; -1: forward; 0: neither
  Plans,       \* the schedules: every (0: no interval) and daily (or None)
  None,
  QuietDays,   \* the choices of days for quiet hours ({}: every day)
  MaxTurns,    \* budget.maxTurnsPerDay
  RunTurns,    \* bound: turns of a run, and of a day
  MaxHits,     \* limiter: maxRequestsPerWindow
  Window,      \* limiter: windowMs
  AuthWindow,  \* limiter: authWindowMs
  SweepEvery   \* limiter: time between sweeps

ASSUME WallClockAssumption ==
  /\ Day \in Nat \ {0} /\ Days \in Nat /\ Changeover \in 1..Days
  /\ ShiftAt \in 1..(Day - 2)
  /\ Shifts \subseteq {-1, 0, 1}
  /\ None \notin Nat
  /\ Plans \subseteq [every : Nat, daily : 0..(Day - 1) \cup {None}]
  /\ QuietDays \subseteq SUBSET Nat
  /\ MaxTurns \in Nat \ {0} /\ RunTurns \in Nat
  /\ {MaxHits, Window, AuthWindow, SweepEvery} \subseteq Nat \ {0}

VARIABLES
  now,
  shift,     \* how the clocks change
  plan,      \* the schedule of a session
  lastFire,  \* when it last fired
  hits,      \* limiter: the bucket of one address
  swept,     \* limiter: #lastSweep
  served,    \* the requests let through in the last Window ticks
  live,      \* the run in progress: its turns, and whether it began today
  charged,   \* turns of the runs that began today, as recorded at their end
  made       \* turns made today

vars == <<now, shift, plan, lastFire, hits, swept, served, live, charged, made>>
limiter == <<hits, swept, served>>
budget == <<live, charged, made>>

(***************************************************************************)
(* The local calendar.                                                     *)
(***************************************************************************)
Midnight(d) == d * Day + IF d > Changeover THEN shift ELSE 0

\* new Date(y, m, d, h): an hour that comes twice is the first one, an hour
\* that is skipped the one after.
At(d, h) ==
  Midnight(d) + h + IF d # Changeover THEN 0
                    ELSE IF shift = 1 /\ h >= ShiftAt THEN 1
                    ELSE IF shift = -1 /\ h > ShiftAt THEN -1
                    ELSE 0

Calendar == 0..(Days + 1)

DayOf(t) == CHOOSE d \in Calendar : Midnight(d) <= t /\ t < Midnight(d + 1)

(***************************************************************************)
(* Schedules.                                                              *)
(***************************************************************************)
\* As LastDailyBoundary below, yesterday's boundary forgotten.
TodaysBoundary(t, h) == At(DayOf(t), h)

LastDailyBoundary(t, h) ==
  LET today == At(DayOf(t), h)
  IN  IF today <= t THEN today ELSE today - Day

IsDue ==
  \/ plan.every > 0 /\ now - lastFire >= plan.every
  \/ /\ plan.daily # None
     /\ LastDailyBoundary(now, plan.daily) > lastFire
     /\ LastDailyBoundary(now, plan.daily) <= now

\* runDueSchedules for a session that is not active.
Poll ==
  /\ lastFire' = IF IsDue THEN now ELSE lastFire
  /\ UNCHANGED <<now, shift, plan, limiter, budget>>

\* A restart, or an edit of the schedule.
Reseed ==
  /\ lastFire' = now
  /\ UNCHANGED <<now, shift, plan, limiter, budget>>

(***************************************************************************)
(* Quiet hours.                                                            *)
(***************************************************************************)
QuietHours == [start : 0..(Day - 1), end : 0..(Day - 1), days : QuietDays]

\* As InQuietHours below, the weekday taken from the moment itself.
InQuietHoursByToday(q, t) ==
  /\ q.start # q.end
  /\ \E back \in {0, 1} :
       LET start == At(DayOf(t) - back, q.start)
       IN  /\ start <= t
           /\ t < start + ((q.end - q.start) % Day)
           /\ q.days = {} \/ DayOf(t) \in q.days

InQuietHours(q, t) ==
  /\ q.start # q.end
  /\ \E back \in {0, 1} :
       LET start == At(DayOf(t) - back, q.start)
       IN  /\ start <= t
           /\ t < start + ((q.end - q.start) % Day)
           /\ q.days = {} \/ DayOf(start) \in q.days

(***************************************************************************)
(* The limiter: hit().                                                     *)
(***************************************************************************)
\* The first of the times after from; the ones before it are dropped, oldest
\* first.
FirstAfter(times, from) ==
  CHOOSE i \in 1..Len(times) + 1 :
    /\ \A j \in 1..i - 1 : times[j] <= from
    /\ i <= Len(times) => times[i] > from

Fresh(times, from) == SubSeq(times, FirstAfter(times, from), Len(times))

\* As Swept below, the shorter of the two windows kept.
SweptShort ==
  IF now - swept < SweepEvery THEN hits
  ELSE LET horizon == IF Window < AuthWindow THEN Window ELSE AuthWindow
       IN  IF hits # <<>> /\ hits[Len(hits)] <= now - horizon THEN <<>> ELSE hits

\* #maybeSweep, for the bucket of this address.
Swept ==
  IF now - swept < SweepEvery THEN hits
  ELSE LET horizon == IF Window > AuthWindow THEN Window ELSE AuthWindow
       IN  IF hits # <<>> /\ hits[Len(hits)] <= now - horizon THEN <<>> ELSE hits

\* #roll with a hit appended.
Hit ==
  LET kept == Fresh(Swept, now - Window)
      ok == Len(kept) < MaxHits
  IN  /\ hits' = IF ok THEN Append(kept, now) ELSE kept
      /\ served' = IF ok THEN Append(served, now) ELSE served
      /\ swept' = IF now - swept < SweepEvery THEN swept ELSE now
      /\ UNCHANGED <<now, shift, plan, lastFire, budget>>

(***************************************************************************)
(* The daily budget.                                                       *)
(***************************************************************************)
\* BudgetTracker.status with the live usage of the supervisor.
Exceeded == charged + (IF live = None THEN 0 ELSE live.turns) >= MaxTurns

Launch ==
  /\ live = None
  /\ ~Exceeded
  /\ live' = [turns |-> 0, today |-> TRUE]
  /\ UNCHANGED <<now, shift, plan, lastFire, limiter, charged, made>>

\* The loop asks shouldStop before a turn.
Turn ==
  /\ live # None
  /\ ~Exceeded
  /\ live.turns < RunTurns /\ made < RunTurns
  /\ live' = [live EXCEPT !.turns = @ + 1]
  /\ made' = made + 1
  /\ UNCHANGED <<now, shift, plan, lastFire, limiter, charged>>

\* endRun("ended"): usageSince counts a run by the day it began.
RunEnds ==
  /\ live # None
  /\ live' = None
  /\ charged' = IF live.today THEN charged + live.turns ELSE charged
  /\ UNCHANGED <<now, shift, plan, lastFire, limiter, made>>

\* endRun("error") records no turns; a crash leaves the row as it began.
RunFails ==
  /\ live # None
  /\ live' = None
  /\ UNCHANGED <<now, shift, plan, lastFire, limiter, charged, made>>

Tick ==
  /\ now + 1 < Midnight(Days + 1)
  /\ now' = now + 1
  /\ served' = Fresh(served, now + 1 - Window)
  /\ IF DayOf(now + 1) = DayOf(now) THEN UNCHANGED budget
     ELSE /\ charged' = 0
          /\ made' = 0
          /\ live' = IF live = None THEN None ELSE [live EXCEPT !.today = FALSE]
  /\ UNCHANGED <<shift, plan, lastFire, hits, swept>>

Init ==
  /\ shift \in Shifts
  /\ now = Midnight(1)
  /\ plan \in Plans
  /\ lastFire = now
  /\ hits = <<>>
  /\ swept = now
  /\ served = <<>>
  /\ live = None
  /\ charged = 0
  /\ made = 0

Next == Tick \/ Poll \/ Reseed \/ Hit \/ Launch \/ Turn \/ RunEnds \/ RunFails

Spec == Init /\ [][Next]_vars

-----------------------------------------------------------------------------
\* The clocks change between yesterday's boundary and today's, still to come:
\* going back an ordinary day from today's misses yesterday's by an hour.
Skewed(h) ==
  LET d == DayOf(now)
  IN  now < At(d, h) /\ At(d, h) - At(d - 1, h) # Day

\* A schedule is due exactly when its interval has passed or the clock has
\* come by its time of day since it last fired, whenever it is polled and
\* however long the polls or the process were away (isDue, runDueSchedules) -
\* but for some hours after the clocks change.
DueAtBoundaries ==
  \/ plan.daily # None /\ Skewed(plan.daily)
  \/ IsDue <=> \/ plan.every > 0 /\ now - lastFire >= plan.every
               \/ \E d \in Calendar : /\ plan.daily # None
                                      /\ lastFire < At(d, plan.daily)
                                      /\ At(d, plan.daily) <= now

\* Alerts are silent from the start time on the wall clock of a chosen day to
\* the end time next after it, over midnight too (inQuietHours).  A window in
\* which the clocks change ends an hour off.
SilentByTheWallClock ==
  \A q \in QuietHours :
    LET last(d) == At(IF q.end > q.start THEN d ELSE d + 1, q.end)
        open == {d \in DayOf(now) - 1..DayOf(now) : q.days = {} \/ d \in q.days}
    IN  (\A d \in open : last(d) - At(d, q.start) = (q.end - q.start) % Day) =>
          (InQuietHours(q, now) <=> \E d \in open : At(d, q.start) <= now /\ now < last(d))

\* Whatever the moments of the requests and the sweeps, no window of Window
\* ticks lets more than MaxHits requests through, and none is refused while
\* the window has room: what the lazily pruned bucket still counts is what
\* was let through (hit, #roll, #maybeSweep).
WindowHolds ==
  /\ Len(served) <= MaxHits
  /\ Fresh(hits, now - Window) = served

\* "This caps total turns ... PER DAY across all sessions, so an unattended
\* fleet can't burn through the quota" (src/policy/budget.ts:4-6): the turns
\* made in a day never exceed the budget's.
DayIsCapped == made <= MaxTurns
=============================================================================
