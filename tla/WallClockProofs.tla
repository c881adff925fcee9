-------------------------- MODULE WallClockProofs --------------------------
(***************************************************************************)
(* What holds of the policies that read the clock for days of any length,  *)
(* any schedules, any quiet hours and any windows of the limiter, whether  *)
(* the clocks go forward, back or neither.                                 *)
(***************************************************************************)
EXTENDS WallClock, SequenceTheorems, WellFoundedInduction, TLAPS

(***************************************************************************)
(* The calendar: days follow each other, and an hour lies in its day.      *)
(***************************************************************************)
LEMMA ClockFacts ==
  /\ Day \in Nat /\ Day >= 3 /\ Days \in Nat /\ Days >= 1
  /\ Changeover \in 1..Days /\ ShiftAt \in 1..(Day - 2)
BY WallClockAssumption

LEMMA ProductOfNats ==
  ASSUME NEW a \in Nat, NEW b \in Nat
  PROVE  a * b \in Nat
OBVIOUS

LEMMA MidnightNext ==
  ASSUME shift \in {-1, 0, 1}, NEW d \in Int
  PROVE  /\ Midnight(d) \in Int
         /\ Midnight(d + 1) = Midnight(d) + Day + IF d = Changeover THEN shift ELSE 0
<1>1. d * Day \in Int /\ (d + 1) * Day = d * Day + Day
  BY ClockFacts
<1> QED
  BY <1>1, ClockFacts DEF Midnight

LEMMA MidnightGrows ==
  ASSUME shift \in {-1, 0, 1}, NEW d \in Int, NEW e \in Int, d < e
  PROVE  Midnight(d + 1) <= Midnight(e)
<1>1. CASE e = d + 1
  BY <1>1, MidnightNext
<1>2. CASE e # d + 1
  <2> DEFINE k == e - d - 2
  <2>1. k \in Nat /\ e = d + 1 + k + 1
    BY <1>2
  <2>2. k * Day \in Nat
    BY <2>1, ProductOfNats, ClockFacts
  <2>3. (d + 1 + k + 1) * Day = (d + 1) * Day + k * Day + Day
    BY <2>1, ClockFacts
  <2> HIDE DEF k
  <2>4. e * Day = (d + 1) * Day + k * Day + Day
    BY <2>1, <2>3
  <2>5. (d + 1) * Day \in Int /\ e * Day \in Int
    BY ClockFacts
  <2>6. (d + 1) * Day + 3 <= e * Day
    BY <2>2, <2>4, <2>5, ClockFacts
  <2> QED
    BY <2>5, <2>6, ClockFacts DEF Midnight
<1> QED
  BY <1>1, <1>2

LEMMA AtInDay ==
  ASSUME shift \in {-1, 0, 1}, NEW d \in Int, NEW h \in 0..(Day - 1)
  PROVE  /\ At(d, h) \in Int
         /\ Midnight(d) <= At(d, h) /\ At(d, h) < Midnight(d + 1)
<1>1. /\ Midnight(d) \in Int
      /\ Midnight(d + 1) = Midnight(d) + Day + IF d = Changeover THEN shift ELSE 0
  BY MidnightNext
<1>2. Midnight(d + 1) \in Int
  BY <1>1, ClockFacts
<1> HIDE DEF Midnight
<1> QED
  BY <1>1, <1>2, ClockFacts DEF At

LEMMA AtGrows ==
  ASSUME shift \in {-1, 0, 1}, NEW d \in Int, NEW e \in Int, d < e, NEW h \in 0..(Day - 1)
  PROVE  At(d, h) < Midnight(e) /\ At(d, h) <= At(e, h)
<1>1. /\ Midnight(e) \in Int /\ Midnight(d + 1) \in Int
      /\ Midnight(d + 1) <= Midnight(e)
  BY MidnightNext, MidnightGrows
<1>2. /\ At(d, h) \in Int /\ At(d, h) < Midnight(d + 1)
      /\ At(e, h) \in Int /\ Midnight(e) <= At(e, h)
  BY AtInDay
<1> QED
  BY <1>1, <1>2

LEMMA DayOfIs ==
  ASSUME shift \in {-1, 0, 1}, NEW t \in Int, NEW d \in Calendar,
         Midnight(d) <= t, t < Midnight(d + 1)
  PROVE  DayOf(t) = d
<1>1. Calendar \subseteq Int
  BY ClockFacts DEF Calendar
<1>2. ASSUME NEW e \in Calendar, Midnight(e) <= t, t < Midnight(e + 1), e # d
      PROVE  FALSE
  <2>1. /\ Midnight(d) \in Int /\ Midnight(d + 1) \in Int
        /\ Midnight(e) \in Int /\ Midnight(e + 1) \in Int
    BY <1>1, MidnightNext
  <2>2. CASE e < d
    <3>1. Midnight(e + 1) <= Midnight(d)
      BY <1>1, <2>2, MidnightGrows
    <3> QED
      BY <1>2, <2>1, <3>1
  <2>3. CASE d < e
    <3>1. Midnight(d + 1) <= Midnight(e)
      BY <1>1, <2>3, MidnightGrows
    <3> QED
      BY <1>2, <2>1, <3>1
  <2> QED
    BY <1>1, <1>2, <2>2, <2>3
<1> QED
  BY <1>2 DEF DayOf

LEMMA DayOfAt ==
  ASSUME shift \in {-1, 0, 1}, NEW d \in Calendar, NEW h \in 0..(Day - 1)
  PROVE  DayOf(At(d, h)) = d
<1>1. d \in Int
  BY ClockFacts DEF Calendar
<1> QED
  BY <1>1, AtInDay, DayOfIs

(***************************************************************************)
(* The clock and the schedules.                                            *)
(***************************************************************************)
ClockInv ==
  /\ shift \in {-1, 0, 1} /\ now \in Int /\ plan \in Plans
  /\ \E d \in 1..Days : Midnight(d) <= now /\ now < Midnight(d + 1)
  /\ lastFire \in Int

LEMMA Today ==
  ASSUME ClockInv
  PROVE  /\ DayOf(now) \in 1..Days /\ DayOf(now) \in Calendar /\ DayOf(now) - 1 \in Calendar
         /\ Midnight(DayOf(now)) <= now /\ now < Midnight(DayOf(now) + 1)
<1>1. PICK d \in 1..Days : Midnight(d) <= now /\ now < Midnight(d + 1)
  BY DEF ClockInv
<1>2. d \in Calendar /\ d - 1 \in Calendar
  BY ClockFacts DEF Calendar
<1>3. DayOf(now) = d
  BY <1>1, <1>2, DayOfIs DEF ClockInv
<1> QED
  BY <1>1, <1>2, <1>3

LEMMA ClockStep == ClockInv /\ [Next]_vars => ClockInv'
<1> SUFFICES ASSUME ClockInv, [Next]_vars PROVE ClockInv'
  OBVIOUS
<1>1. CASE Tick
  <2>1. PICK d \in 1..Days : Midnight(d) <= now /\ now < Midnight(d + 1)
    BY DEF ClockInv
  <2>2. now' = now + 1 /\ shift' = shift /\ plan' = plan /\ lastFire' = lastFire
    BY <1>1 DEF Tick
  <2>3. now + 1 < Midnight(Days + 1)
    BY <1>1 DEF Tick
  <2>4. \A e \in Int : Midnight(e)' = Midnight(e)
    BY <2>2 DEF Midnight
  <2>5. /\ d \in Int /\ d + 1 \in Int /\ Days + 1 \in Int
        /\ Midnight(d) \in Int /\ Midnight(d + 1) \in Int /\ Midnight(d + 1 + 1) \in Int
        /\ Midnight(d + 1) < Midnight(d + 1 + 1)
    <3>1. d \in Int /\ d + 1 \in Int /\ Days + 1 \in Int
      BY ClockFacts
    <3>2. /\ Midnight(d) \in Int /\ Midnight(d + 1) \in Int /\ Midnight(d + 1 + 1) \in Int
          /\ Midnight(d + 1 + 1) =
               Midnight(d + 1) + Day + IF d + 1 = Changeover THEN shift ELSE 0
      BY <3>1, MidnightNext DEF ClockInv
    <3> HIDE DEF Midnight
    <3> QED
      BY <3>1, <3>2, ClockFacts DEF ClockInv
  <2>6. CASE now + 1 < Midnight(d + 1)
    <3>1. Midnight(d) <= now + 1
      BY <2>1, <2>5 DEF ClockInv
    <3> QED
      BY <2>2, <2>4, <2>5, <2>6, <3>1 DEF ClockInv
  <2>7. CASE ~(now + 1 < Midnight(d + 1))
    <3>1. now + 1 = Midnight(d + 1)
      BY <2>1, <2>5, <2>7 DEF ClockInv
    <3>2. d + 1 \in 1..Days
      <4>1. d # Days
        BY <2>3, <2>7
      <4> QED
        BY <4>1, ClockFacts
    <3>3. Midnight(d + 1) <= now + 1 /\ now + 1 < Midnight(d + 1 + 1)
      BY <2>5, <3>1
    <3> QED
      BY <2>2, <2>4, <2>5, <3>2, <3>3 DEF ClockInv
  <2> QED
    BY <2>6, <2>7
<1>2. CASE Poll \/ Reseed
  <2>1. /\ now' = now /\ shift' = shift /\ plan' = plan
        /\ lastFire' \in {now, lastFire}
    BY <1>2 DEF Poll, Reseed
  <2>2. \A e \in Int : Midnight(e)' = Midnight(e)
    BY <2>1 DEF Midnight
  <2> QED
    BY <2>1, <2>2, ClockFacts DEF ClockInv
<1>3. CASE UNCHANGED <<now, shift, plan, lastFire>>
  <2>1. \A e \in Int : Midnight(e)' = Midnight(e)
    BY <1>3 DEF Midnight
  <2> QED
    BY <1>3, <2>1, ClockFacts DEF ClockInv
<1>4. CASE Hit \/ Launch \/ Turn \/ RunEnds \/ RunFails \/ UNCHANGED vars
  BY <1>3, <1>4 DEF Hit, Launch, Turn, RunEnds, RunFails, vars
<1> QED
  BY <1>1, <1>2, <1>4 DEF Next

LEMMA ClockInit == Init => ClockInv
<1> SUFFICES ASSUME Init PROVE ClockInv
  OBVIOUS
<1>1. shift \in {-1, 0, 1} /\ 1 \in 1..Days /\ 1 \in Int
  BY ClockFacts, WallClockAssumption DEF Init
<1>2. Midnight(1) \in Int /\ Midnight(1) < Midnight(1 + 1)
  <2>1. /\ Midnight(1) \in Int
        /\ Midnight(1 + 1) = Midnight(1) + Day + IF 1 = Changeover THEN shift ELSE 0
    BY <1>1, MidnightNext
  <2> HIDE DEF Midnight
  <2> QED
    BY <1>1, <2>1, ClockFacts
<1>3. now = Midnight(1) /\ lastFire = now /\ plan \in Plans
  BY DEF Init
<1> QED
  BY <1>1, <1>2, <1>3 DEF ClockInv

LEMMA ClockHolds == Spec => []ClockInv
BY ClockInit, ClockStep, PTL DEF Spec

LEMMA DueDaily ==
  ASSUME ClockInv, NEW h \in 0..(Day - 1), ~Skewed(h)
  PROVE  (LastDailyBoundary(now, h) > lastFire /\ LastDailyBoundary(now, h) <= now) <=>
           \E d \in Calendar : lastFire < At(d, h) /\ At(d, h) <= now
<1> DEFINE D == DayOf(now)
<1>1. /\ D \in Calendar /\ D - 1 \in Calendar /\ D \in Int /\ D - 1 \in Int
      /\ Midnight(D) <= now /\ now < Midnight(D + 1)
  BY Today, ClockFacts DEF Calendar
<1> HIDE DEF D
<1>2. shift \in {-1, 0, 1} /\ now \in Int /\ lastFire \in Int
  BY DEF ClockInv
<1>3. \A d \in Calendar : d \in Int /\ At(d, h) \in Int
  BY <1>2, AtInDay, ClockFacts DEF Calendar
<1>4. ASSUME NEW d \in Calendar, d > D PROVE now < At(d, h)
  <2>1. /\ Midnight(D + 1) \in Int /\ Midnight(d) \in Int /\ Midnight(D + 1) <= Midnight(d)
    BY <1>1, <1>2, <1>3, <1>4, MidnightNext, MidnightGrows
  <2>2. Midnight(d) <= At(d, h)
    BY <1>2, <1>3, AtInDay
  <2> QED
    BY <1>1, <1>2, <1>3, <2>1, <2>2
<1>5. CASE At(D, h) <= now
  <2>1. LastDailyBoundary(now, h) = At(D, h)
    BY <1>5 DEF LastDailyBoundary, D
  <2>2. \A d \in Calendar : At(d, h) <= now => At(d, h) <= At(D, h)
    BY <1>1, <1>2, <1>3, <1>4, AtGrows
  <2> QED
    BY <1>1, <1>2, <1>3, <1>5, <2>1, <2>2
<1>6. CASE now < At(D, h)
  <2>1. LastDailyBoundary(now, h) = At(D, h) - Day
    BY <1>1, <1>2, <1>3, <1>6 DEF LastDailyBoundary, D
  <2>2. At(D, h) - At(D - 1, h) = Day
    BY <1>6 DEF Skewed, D
  <2>3. LastDailyBoundary(now, h) = At(D - 1, h)
    BY <1>1, <1>3, <2>1, <2>2, ClockFacts
  <2>4. At(D - 1, h) < Midnight(D) /\ Midnight(D) \in Int
    BY <1>1, <1>2, AtGrows, MidnightNext
  <2>5. At(D - 1, h) <= now
    BY <1>1, <1>2, <1>3, <2>4
  <2>6. \A d \in Calendar : At(d, h) <= now => At(d, h) <= At(D - 1, h)
    <3>1. ASSUME NEW d \in Calendar, At(d, h) <= now PROVE d < D
      BY <1>1, <1>2, <1>3, <1>4, <1>6, <3>1
    <3> QED
      BY <1>1, <1>2, <1>3, <3>1, AtGrows
  <2> QED
    BY <1>1, <1>2, <1>3, <2>3, <2>5, <2>6
<1> QED
  BY <1>1, <1>2, <1>3, <1>5, <1>6

\* A schedule is due exactly when its interval has passed or its time of day
\* has come by since it last fired, however long nobody asked (isDue): for days
\* of any length and whenever on the day the clocks change.
THEOREM SchedulesAreDue == Spec => []DueAtBoundaries
<1>1. ASSUME ClockInv PROVE DueAtBoundaries
  <2>1. plan.daily \in 0..(Day - 1) \cup {None}
    BY <1>1, WallClockAssumption DEF ClockInv
  <2>2. CASE plan.daily = None
    BY <2>2 DEF DueAtBoundaries, IsDue
  <2>3. CASE plan.daily # None
    <3>1. plan.daily \in 0..(Day - 1)
      BY <2>1, <2>3
    <3> QED
      BY <1>1, <2>3, <3>1, DueDaily DEF DueAtBoundaries, IsDue
  <2> QED
    BY <2>2, <2>3
<1> QED
  BY <1>1, ClockHolds, PTL

(***************************************************************************)
(* Quiet hours.                                                            *)
(***************************************************************************)
LEMMA SilentNow == ClockInv => SilentByTheWallClock
<1> SUFFICES ASSUME ClockInv, NEW q \in QuietHours
              PROVE  LET last(d) == At(IF q.end > q.start THEN d ELSE d + 1, q.end)
                         open == {d \in DayOf(now) - 1..DayOf(now) :
                                    q.days = {} \/ d \in q.days}
                     IN  (\A d \in open : last(d) - At(d, q.start) = (q.end - q.start) % Day)
                           => (InQuietHours(q, now) <=>
                                 \E d \in open : At(d, q.start) <= now /\ now < last(d))
  BY DEF SilentByTheWallClock
<1> DEFINE last(d) == At(IF q.end > q.start THEN d ELSE d + 1, q.end)
            D == DayOf(now)
            open == {d \in D - 1..D : q.days = {} \/ d \in q.days}
            length == (q.end - q.start) % Day
<1> SUFFICES ASSUME \A d \in open : last(d) - At(d, q.start) = length
              PROVE  InQuietHours(q, now) <=>
                       \E d \in open : At(d, q.start) <= now /\ now < last(d)
  OBVIOUS
<1>1. q.start \in 0..(Day - 1) /\ q.end \in 0..(Day - 1) /\ now \in Int /\ shift \in {-1, 0, 1}
  BY DEF ClockInv, QuietHours
<1>2. D \in Calendar /\ D - 1 \in Calendar /\ D \in Int
  BY Today, ClockFacts DEF Calendar
<1>3. ASSUME NEW d \in {D - 1, D}
      PROVE  d \in Int /\ At(d, q.start) \in Int /\ last(d) \in Int /\ DayOf(At(d, q.start)) = d
  <2>1. d \in Int /\ d + 1 \in Int /\ d \in Calendar
    BY <1>2
  <2> QED
    BY <1>1, <2>1, AtInDay, DayOfAt
<1>4. q.start = q.end => length = 0
  BY <1>1, ClockFacts
<1>5. InQuietHours(q, now) <=>
        /\ q.start # q.end
        /\ \E d \in {D - 1, D} :
             /\ At(d, q.start) <= now /\ now < At(d, q.start) + length
             /\ q.days = {} \/ d \in q.days
  BY <1>2, <1>3 DEF InQuietHours
<1>6. open = {d \in {D - 1, D} : q.days = {} \/ d \in q.days}
  BY <1>2
<1> HIDE DEF D, length, last, open
<1>7. \A d \in open : d \in {D - 1, D} /\ last(d) = At(d, q.start) + length
  <2>1. length \in Int
    BY <1>1, ClockFacts DEF length
  <2> QED
    BY <1>3, <1>6, <2>1
<1> QED
  BY <1>1, <1>3, <1>4, <1>5, <1>6, <1>7

\* Alerts are silent from the start on the wall clock of a chosen day to the
\* end next after it, over midnight too (inQuietHours): for any quiet hours, on
\* days of any length.
THEOREM QuietByTheWallClock == Spec => []SilentByTheWallClock
BY SilentNow, ClockHolds, PTL

(***************************************************************************)
(* The limiter: what is left of a bucket.                                  *)
(***************************************************************************)
\* The moments of a bucket, in order.
Rising(times) == \A i, j \in 1..Len(times) : i <= j => times[i] <= times[j]

Splits(times, from, i) ==
  /\ i \in 1..Len(times) + 1
  /\ \A j \in 1..i - 1 : times[j] <= from
  /\ i <= Len(times) => times[i] > from

LEMMA LeastOf ==
  ASSUME NEW T \in SUBSET Nat, T # {}
  PROVE  \E x \in T : \A y \in T : ~(y < x)
<1>1. IsWellFoundedOn({p \in Nat \X Nat : p[1] < p[2]}, Nat)
  BY NatLessThanWellFounded DEF OpToRel
<1>2. \E x \in T : \A y \in T : ~(<<y, x>> \in {p \in Nat \X Nat : p[1] < p[2]})
  BY <1>1, WFMin
<1> QED
  BY <1>2

LEMMA FirstAfterSplits ==
  ASSUME NEW times \in Seq(Int), NEW from \in Int
  PROVE  Splits(times, from, FirstAfter(times, from))
<1> DEFINE n == Len(times)
            T == {i \in 1..n : times[i] > from} \cup {n + 1}
<1>1. n \in Nat /\ \A i \in 1..n : times[i] \in Int
  OBVIOUS
<1> HIDE DEF n
<1>2. PICK x \in T : \A y \in T : ~(y < x)
  <2>1. T \in SUBSET Nat /\ T # {}
    BY <1>1
  <2> HIDE DEF T
  <2> QED
    BY <2>1, LeastOf
<1>3. \A j \in 1..x - 1 : times[j] <= from
  BY <1>1, <1>2
<1>4. Splits(times, from, x)
  BY <1>1, <1>2, <1>3 DEF Splits, n
<1> DEFINE S == 1..Len(times) + 1
            P(i) == /\ \A j \in 1..i - 1 : times[j] <= from
                    /\ i <= Len(times) => times[i] > from
            first == CHOOSE i \in S : P(i)
<1>5. \E i \in S : P(i)
  BY <1>4 DEF Splits
<1>6. FirstAfter(times, from) = first
  BY DEF FirstAfter
<1>7. first \in S /\ P(first)
  <2> HIDE DEF S, P
  <2> QED
    BY <1>5, Zenon
<1> HIDE DEF first
<1> QED
  BY <1>6, <1>7 DEF Splits

LEMMA SplitsOnce ==
  ASSUME NEW times \in Seq(Int), NEW from \in Int, NEW i, Splits(times, from, i)
  PROVE  FirstAfter(times, from) = i
<1> DEFINE k == FirstAfter(times, from)
<1>1. Splits(times, from, k)
  BY FirstAfterSplits
<1> HIDE DEF k
<1>2. Len(times) \in Nat /\ \A j \in 1..Len(times) : times[j] \in Int
  OBVIOUS
<1>3. i \in Int /\ k \in Int /\ ~(i < k) /\ ~(k < i)
  BY <1>1, <1>2 DEF Splits
<1>4. i = k
  BY <1>3
<1> QED
  BY <1>4 DEF k

LEMMA FreshIs ==
  ASSUME NEW times \in Seq(Int), NEW from \in Int, NEW i, Splits(times, from, i)
  PROVE  /\ Fresh(times, from) \in Seq(Int)
         /\ Len(Fresh(times, from)) = Len(times) + 1 - i
         /\ \A j \in 1..Len(times) + 1 - i : Fresh(times, from)[j] = times[i + j - 1]
<1>1. i \in 1..Len(times) + 1 /\ Len(times) \in Nat /\ i \in Int
  BY DEF Splits
<1>2. \A j \in i..Len(times) : times[j] \in Int
  BY <1>1
<1>3. Fresh(times, from) = SubSeq(times, i, Len(times))
  BY SplitsOnce DEF Fresh
<1>4. /\ SubSeq(times, i, Len(times)) \in Seq(Int)
      /\ Len(SubSeq(times, i, Len(times))) =
           IF i <= Len(times) THEN Len(times) - i + 1 ELSE 0
      /\ \A j \in 1..Len(times) - i + 1 : SubSeq(times, i, Len(times))[j] = times[i + j - 1]
  BY <1>1, <1>2, SubSeqProperties
<1> QED
  BY <1>1, <1>3, <1>4

LEMMA FreshRising ==
  ASSUME NEW times \in Seq(Int), Rising(times), NEW from \in Int, NEW bound \in Int,
         \A i \in 1..Len(times) : times[i] <= bound
  PROVE  /\ Fresh(times, from) \in Seq(Int) /\ Rising(Fresh(times, from))
         /\ Len(Fresh(times, from)) <= Len(times)
         /\ \A i \in 1..Len(Fresh(times, from)) :
              from < Fresh(times, from)[i] /\ Fresh(times, from)[i] <= bound
<1> DEFINE i == FirstAfter(times, from)
            fresh == Fresh(times, from)
<1>1. Splits(times, from, i)
  BY FirstAfterSplits
<1> HIDE DEF i
<1>2. /\ fresh \in Seq(Int) /\ Len(fresh) = Len(times) + 1 - i
      /\ \A j \in 1..Len(times) + 1 - i : fresh[j] = times[i + j - 1]
  BY <1>1, FreshIs
<1> HIDE DEF fresh
<1>3. i \in 1..Len(times) + 1 /\ Len(times) \in Nat
  BY <1>1 DEF Splits
<1>4. ASSUME NEW j \in 1..Len(fresh)
      PROVE  /\ i + j - 1 \in 1..Len(times) /\ i <= i + j - 1 /\ i \in 1..Len(times)
             /\ fresh[j] = times[i + j - 1]
  BY <1>2, <1>3
<1>5. \A j \in 1..Len(times) : times[j] \in Int
  OBVIOUS
<1>6. ASSUME NEW j \in 1..Len(fresh) PROVE from < fresh[j] /\ fresh[j] <= bound
  <2>1. times[i] > from /\ times[i] <= times[i + j - 1]
    BY <1>1, <1>3, <1>4 DEF Splits, Rising
  <2>2. times[i] \in Int /\ times[i + j - 1] \in Int /\ times[i + j - 1] <= bound
    BY <1>4, <1>5
  <2>3. fresh[j] = times[i + j - 1]
    BY <1>4
  <2> QED
    BY <2>1, <2>2, <2>3
<1>7. Rising(fresh)
  <2>1. ASSUME NEW j \in 1..Len(fresh), NEW k \in 1..Len(fresh), j <= k
        PROVE  fresh[j] <= fresh[k]
    <3>1. i + j - 1 <= i + k - 1
      BY <1>3, <2>1
    <3>2. times[i + j - 1] <= times[i + k - 1]
      BY <1>4, <3>1 DEF Rising
    <3> QED
      BY <1>4, <3>2
  <2> QED
    BY <2>1 DEF Rising
<1>8. Len(fresh) <= Len(times)
  BY <1>2, <1>3
<1> QED
  BY <1>2, <1>6, <1>7, <1>8 DEF fresh

LEMMA FreshKeepsAll ==
  ASSUME NEW times \in Seq(Int), NEW from \in Int,
         \A i \in 1..Len(times) : times[i] > from
  PROVE  Fresh(times, from) = times
<1>1. Splits(times, from, 1)
  BY DEF Splits
<1>2. FirstAfter(times, from) = 1
  BY <1>1, SplitsOnce
<1> QED
  BY <1>2, SubSeqFull DEF Fresh

LEMMA FreshDropsAll ==
  ASSUME NEW times \in Seq(Int), NEW from \in Int,
         \A i \in 1..Len(times) : times[i] <= from
  PROVE  Fresh(times, from) = <<>>
<1>1. Splits(times, from, Len(times) + 1)
  BY DEF Splits
<1>2. FirstAfter(times, from) = Len(times) + 1
  BY <1>1, SplitsOnce
<1>3. Len(times) \in Nat
  OBVIOUS
<1> QED
  BY <1>2, <1>3, SubSeqEmpty DEF Fresh

LEMMA FreshOfEmpty ==
  ASSUME NEW from \in Int
  PROVE  Fresh(<<>>, from) = <<>>
<1>1. ASSUME NEW e, e = <<>> PROVE Fresh(e, from) = e
  <2>1. e \in Seq(Int) /\ Len(e) = 0
    BY <1>1
  <2>2. \A i \in 1..Len(e) : e[i] <= from
    BY <2>1
  <2> QED
    BY <1>1, <2>1, <2>2, FreshDropsAll
<1> QED
  BY <1>1

LEMMA FreshTwice ==
  ASSUME NEW times \in Seq(Int), NEW a \in Int, NEW b \in Int, a <= b
  PROVE  Fresh(Fresh(times, a), b) = Fresh(times, b)
<1> DEFINE i == FirstAfter(times, a)
            once == Fresh(times, a)
            k == FirstAfter(once, b)
            twice == Fresh(once, b)
            whole == Fresh(times, b)
<1>1. Splits(times, a, i)
  BY FirstAfterSplits
<1> HIDE DEF i
<1>2. /\ once \in Seq(Int) /\ Len(once) = Len(times) + 1 - i
      /\ \A j \in 1..Len(times) + 1 - i : once[j] = times[i + j - 1]
  BY <1>1, FreshIs
<1> HIDE DEF once
<1>3. Splits(once, b, k)
  BY <1>2, FirstAfterSplits
<1> HIDE DEF k
<1>4. /\ twice \in Seq(Int) /\ Len(twice) = Len(once) + 1 - k
      /\ \A j \in 1..Len(once) + 1 - k : twice[j] = once[k + j - 1]
  BY <1>2, <1>3, FreshIs
<1> HIDE DEF twice
<1>5. /\ i \in 1..Len(times) + 1 /\ Len(times) \in Nat
      /\ k \in 1..Len(once) + 1 /\ Len(once) \in Nat
      /\ \A j \in 1..Len(times) : times[j] \in Int
  BY <1>1, <1>2, <1>3 DEF Splits
<1>6. Splits(times, b, i + k - 1)
  <2>1. i + k - 1 \in 1..Len(times) + 1
    BY <1>2, <1>5
  <2>2. ASSUME NEW j \in 1..i + k - 1 - 1 PROVE times[j] <= b
    <3>1. CASE j < i
      <4>1. j \in 1..i - 1 /\ j \in 1..Len(times)
        BY <1>5, <3>1
      <4>2. times[j] <= a /\ times[j] \in Int
        BY <1>1, <1>5, <4>1 DEF Splits
      <4> QED
        BY <4>2
    <3>2. CASE ~(j < i)
      <4> DEFINE l == j - i + 1
      <4>1. l \in 1..k - 1 /\ l \in 1..Len(times) + 1 - i /\ i + l - 1 = j
        BY <1>2, <1>5, <3>2
      <4> HIDE DEF l
      <4>2. once[l] <= b /\ once[l] = times[j]
        BY <1>2, <1>3, <4>1 DEF Splits
      <4> QED
        BY <4>2
    <3> QED
      BY <3>1, <3>2
  <2>3. ASSUME i + k - 1 <= Len(times) PROVE times[i + k - 1] > b
    <3>1. k <= Len(once) /\ k \in 1..Len(times) + 1 - i
      BY <1>2, <1>5, <2>3
    <3> QED
      BY <1>2, <1>3, <3>1 DEF Splits
  <2> DEFINE m == i + k - 1
  <2>4. m \in 1..Len(times) + 1
    BY <2>1
  <2>5. ASSUME NEW j \in 1..m - 1 PROVE times[j] <= b
    <3>1. j \in 1..i + k - 1 - 1
      BY <1>5
    <3> QED
      BY <2>2, <3>1
  <2>6. m <= Len(times) => times[m] > b
    BY <2>3
  <2> HIDE DEF m
  <2>7. Splits(times, b, m)
    BY <2>4, <2>5, <2>6 DEF Splits
  <2> QED
    BY <2>7 DEF m
<1>7. /\ whole \in Seq(Int) /\ Len(whole) = Len(times) + 1 - (i + k - 1)
      /\ \A j \in 1..Len(times) + 1 - (i + k - 1) : whole[j] = times[(i + k - 1) + j - 1]
  <2> DEFINE m == i + k - 1
  <2> HIDE DEF m
  <2>1. Splits(times, b, m)
    BY <1>6 DEF m
  <2>2. /\ whole \in Seq(Int) /\ Len(whole) = Len(times) + 1 - m
        /\ \A j \in 1..Len(times) + 1 - m : whole[j] = times[m + j - 1]
    BY <2>1, FreshIs
  <2> QED
    BY <2>2 DEF m
<1> HIDE DEF whole
<1>8. Len(twice) = Len(whole)
  BY <1>2, <1>4, <1>5, <1>7
<1>9. ASSUME NEW j \in 1..Len(twice) PROVE twice[j] = whole[j]
  <2>1. k + j - 1 \in 1..Len(times) + 1 - i
    BY <1>2, <1>4, <1>5
  <2>2. twice[j] = once[k + j - 1] /\ once[k + j - 1] = times[i + (k + j - 1) - 1]
    BY <1>2, <1>4, <2>1
  <2>3. j \in 1..Len(times) + 1 - (i + k - 1)
    BY <1>7, <1>8
  <2>4. whole[j] = times[(i + k - 1) + j - 1]
    BY <1>7, <2>3
  <2>5. i + (k + j - 1) - 1 = (i + k - 1) + j - 1
    BY <1>5
  <2> QED
    BY <2>2, <2>4, <2>5
<1>10. twice = whole
  BY <1>4, <1>7, <1>8, <1>9, SeqEqual
<1> QED
  BY <1>10 DEF twice, whole, once

(***************************************************************************)
(* The limiter: what is counted is what was let through.                   *)
(***************************************************************************)
LimiterInv ==
  /\ now \in Int
  /\ hits \in Seq(Int) /\ Rising(hits)
  /\ \A i \in 1..Len(hits) : hits[i] <= now
  /\ WindowHolds

LEMMA SweptKeepsFresh ==
  ASSUME LimiterInv
  PROVE  /\ Swept \in Seq(Int) /\ Rising(Swept)
         /\ \A i \in 1..Len(Swept) : Swept[i] <= now
         /\ Fresh(Swept, now - Window) = served
<1>1. CASE Swept = hits
  BY <1>1 DEF LimiterInv, WindowHolds
<1>2. CASE Swept # hits
  <2> DEFINE horizon == IF Window > AuthWindow THEN Window ELSE AuthWindow
  <2>1. Swept = <<>> /\ hits # <<>> /\ hits[Len(hits)] <= now - horizon
    BY <1>2 DEF Swept
  <2>2. /\ horizon \in Int /\ Window \in Int /\ Window <= horizon /\ now \in Int
        /\ hits \in Seq(Int) /\ Len(hits) \in Nat
    BY WallClockAssumption DEF LimiterInv
  <2> HIDE DEF horizon
  <2>3. ASSUME NEW i \in 1..Len(hits) PROVE hits[i] <= now - Window
    <3>1. /\ Len(hits) \in 1..Len(hits) /\ i <= Len(hits)
          /\ hits[i] \in Int /\ hits[Len(hits)] \in Int
      BY <2>2
    <3>2. hits[i] <= hits[Len(hits)]
      BY <3>1 DEF LimiterInv, Rising
    <3> QED
      BY <2>1, <2>2, <3>1, <3>2
  <2>4. now - Window \in Int
    BY <2>2
  <2>5. served = <<>>
    BY <2>2, <2>3, <2>4, FreshDropsAll DEF LimiterInv, WindowHolds
  <2>6. Fresh(<<>>, now - Window) = <<>>
    BY <2>4, FreshOfEmpty
  <2> QED
    BY <2>1, <2>5, <2>6 DEF Rising
<1> QED
  BY <1>1, <1>2

LEMMA HitKeeps == LimiterInv /\ Hit => LimiterInv'
<1> SUFFICES ASSUME LimiterInv, Hit PROVE LimiterInv'
  OBVIOUS
<1> DEFINE from == now - Window
            kept == Fresh(Swept, from)
<1>1. from \in Int /\ now \in Int /\ from < now /\ MaxHits \in Int
  BY WallClockAssumption DEF LimiterInv
<1> HIDE DEF from
<1>2. /\ Swept \in Seq(Int) /\ Rising(Swept) /\ \A i \in 1..Len(Swept) : Swept[i] <= now
      /\ kept = served
  BY SweptKeepsFresh DEF from
<1>3. /\ kept \in Seq(Int) /\ Rising(kept)
      /\ \A i \in 1..Len(kept) : from < kept[i] /\ kept[i] <= now
  BY <1>1, <1>2, FreshRising
<1>4. /\ hits' = IF Len(kept) < MaxHits THEN Append(kept, now) ELSE kept
      /\ served' = IF Len(kept) < MaxHits THEN Append(served, now) ELSE served
      /\ now' = now
  BY DEF Hit, from
<1> HIDE DEF kept
<1>5. Len(kept) \in Nat /\ Len(kept) <= MaxHits
  BY <1>2, <1>3 DEF LimiterInv, WindowHolds
<1>6. hits' = served'
  BY <1>2, <1>4
<1>7. /\ hits' \in Seq(Int) /\ Rising(hits') /\ Len(hits') <= MaxHits
      /\ \A i \in 1..Len(hits') : hits'[i] > from /\ hits'[i] <= now
  <2>1. CASE Len(kept) < MaxHits
    <3> DEFINE new == Append(kept, now)
    <3>1. /\ new \in Seq(Int) /\ Len(new) = Len(kept) + 1 /\ new[Len(kept) + 1] = now
          /\ \A i \in 1..Len(kept) : new[i] = kept[i] /\ kept[i] \in Int
      BY <1>1, <1>3
    <3>2. hits' = new
      BY <1>4, <2>1
    <3> HIDE DEF new
    <3>3. ASSUME NEW i \in 1..Len(new) PROVE new[i] > from /\ new[i] <= now
      <4>1. CASE i = Len(kept) + 1
        BY <1>1, <3>1, <4>1
      <4>2. CASE i # Len(kept) + 1
        <5>1. i \in 1..Len(kept)
          BY <1>5, <3>1, <4>2
        <5> QED
          BY <1>1, <1>3, <3>1, <5>1
      <4> QED
        BY <4>1, <4>2
    <3>4. Rising(new)
      <4>1. ASSUME NEW i \in 1..Len(new), NEW j \in 1..Len(new), i <= j
            PROVE  new[i] <= new[j]
        <5>1. CASE j = Len(kept) + 1
          BY <3>1, <3>3, <5>1
        <5>2. CASE j # Len(kept) + 1
          <6>1. i \in 1..Len(kept) /\ j \in 1..Len(kept)
            BY <1>5, <3>1, <4>1, <5>2
          <6> QED
            BY <1>3, <3>1, <4>1, <6>1 DEF Rising
        <5> QED
          BY <5>1, <5>2
      <4> QED
        BY <4>1 DEF Rising
    <3>5. Len(new) <= MaxHits
      BY <1>1, <1>5, <2>1, <3>1
    <3> QED
      BY <3>1, <3>2, <3>3, <3>4, <3>5
  <2>2. CASE ~(Len(kept) < MaxHits)
    BY <1>1, <1>3, <1>4, <1>5, <2>2
  <2> QED
    BY <2>1, <2>2
<1>8. Fresh(hits', from) = hits'
  BY <1>1, <1>7, FreshKeepsAll
<1>9. WindowHolds'
  BY <1>4, <1>6, <1>7, <1>8 DEF WindowHolds, from, Fresh, FirstAfter
<1> QED
  BY <1>1, <1>4, <1>7, <1>9 DEF LimiterInv, Rising

LEMMA TickKeeps == LimiterInv /\ Tick => LimiterInv'
<1> SUFFICES ASSUME LimiterInv, Tick PROVE LimiterInv'
  OBVIOUS
<1> DEFINE a == now - Window
            b == now + 1 - Window
<1>1. now \in Int /\ a \in Int /\ b \in Int /\ a <= b /\ MaxHits \in Int
  BY WallClockAssumption DEF LimiterInv
<1>2. /\ now' = now + 1 /\ hits' = hits /\ served' = Fresh(served, b)
      /\ served = Fresh(hits, a)
  BY DEF Tick, LimiterInv, WindowHolds
<1> HIDE DEF a, b
<1>3. /\ hits \in Seq(Int) /\ Rising(hits) /\ \A i \in 1..Len(hits) : hits[i] <= now
      /\ Len(served) <= MaxHits
  BY DEF LimiterInv, WindowHolds
<1>4. served' = Fresh(hits, b)
  BY <1>1, <1>2, <1>3, FreshTwice
<1>5. Len(served') <= MaxHits
  <2>1. /\ served \in Seq(Int) /\ Rising(served)
        /\ \A i \in 1..Len(served) : served[i] <= now
    BY <1>1, <1>2, <1>3, FreshRising
  <2>2. served' \in Seq(Int) /\ Len(served') <= Len(served)
    BY <1>1, <1>2, <2>1, FreshRising
  <2> QED
    BY <1>1, <1>3, <2>1, <2>2
<1>6. Fresh(hits, now - Window)' = Fresh(hits, b)
  <2>1. now' - Window = b
    BY <1>1, <1>2, WallClockAssumption DEF b
  <2> QED
    BY <1>2, <2>1, Zenon DEF Fresh, FirstAfter
<1>7. \A i \in 1..Len(hits) : hits[i] <= now + 1
  BY <1>1, <1>3
<1> QED
  BY <1>1, <1>2, <1>3, <1>4, <1>5, <1>6, <1>7 DEF LimiterInv, WindowHolds, Rising

\* Whatever the moments of the requests and of the sweeps, no window lets more
\* than maxRequestsPerWindow through, and none is refused that fits: what the
\* bucket still counts is what was let through (hit, #roll, #maybeSweep).
THEOREM WindowsHold == Spec => []WindowHolds
<1>1. Init => LimiterInv
  <2> SUFFICES ASSUME Init PROVE LimiterInv
    OBVIOUS
  <2>1. now \in Int /\ hits = <<>> /\ served = <<>>
    BY ClockInit DEF ClockInv, Init
  <2>2. now - Window \in Int /\ MaxHits \in Nat
    BY <2>1, WallClockAssumption
  <2>3. <<>> \in Seq(Int) /\ Len(<<>>) = 0
    OBVIOUS
  <2>4. Fresh(<<>>, now - Window) = <<>>
    BY <2>2, FreshOfEmpty
  <2> QED
    BY <2>1, <2>2, <2>3, <2>4 DEF LimiterInv, WindowHolds, Rising
<1>2. LimiterInv /\ [Next]_vars => LimiterInv'
  <2> SUFFICES ASSUME LimiterInv, [Next]_vars PROVE LimiterInv'
    OBVIOUS
  <2>1. CASE UNCHANGED <<now, limiter>>
    BY <2>1 DEF limiter, LimiterInv, WindowHolds, Rising, Fresh, FirstAfter
  <2>2. CASE Tick
    BY <2>2, TickKeeps
  <2>3. CASE Hit
    BY <2>3, HitKeeps
  <2>4. CASE Poll \/ Reseed \/ Launch \/ Turn \/ RunEnds \/ RunFails \/ UNCHANGED vars
    BY <2>1, <2>4 DEF Poll, Reseed, Launch, Turn, RunEnds, RunFails, vars, limiter
  <2> QED
    BY <2>2, <2>3, <2>4 DEF Next
<1>3. LimiterInv => WindowHolds
  BY DEF LimiterInv
<1> QED
  BY <1>1, <1>2, <1>3, PTL DEF Spec
=============================================================================
