------------------------- MODULE FleetSafetyProofs -------------------------
(***************************************************************************)
(* What the supervisor keeps over every order of events: errors that are   *)
(* heard, wakeups, dependencies, stops, the budget and the queue.  But for *)
(* stops and budget, no run starts in the teardown of the last one, as for *)
(* the slots.                                                              *)
(***************************************************************************)
EXTENDS FleetProofs, FleetBudget

HIDE DEF Phase, Gates, Status, Active

(***************************************************************************)
(* A run that is to stop goes no further.  Runs may overlap here.          *)
(***************************************************************************)
\* The run g of s comes to p; another one is at most lost.
StepsTo(s, g, p) ==
  /\ phase'[s][g] = p
  /\ \A h \in Run \ {g} : phase'[s][h] \in {phase[s][h], "lost"}
  /\ \A t \in Session \ {s} : phase'[t] = phase[t]

\* The waits between the top of the loop and the turn: the next prompt is under
\* way, from the brain, the operator or a person asked.
Choosing == {"decide", "attention", "manual"}

\* Where the run g of s may come, if it is to stop; with the daily budget reached,
\* no prompt gets under way; and without the /usage gate, no one reads /usage.
MayCome(s, g, p) ==
  /\ stopRequested[s] =>
       StoppedGoes(phase[s][g], p) \/ (p = "boot" /\ ~stopRequested'[s])
  /\ ~UsageGate /\ spent /\ phase[s][g] \notin Choosing => p \notin Choosing
  /\ ~UsageGate /\ p = "usage" => phase[s][g] = "usage"

AllMayCome == \A s \in Session, g \in Run : MayCome(s, g, phase'[s][g])

LEMMA StepsToMay ==
  ASSUME NEW s \in Session, NEW g \in Run, NEW p, StepsTo(s, g, p), MayCome(s, g, p)
  PROVE  AllMayCome
<1>1. \A h \in Run \ {g} : MayCome(s, h, phase'[s][h])
  BY DEF StepsTo, MayCome, StoppedGoes, Choosing
<1>2. \A t \in Session \ {s}, h \in Run : MayCome(t, h, phase'[t][h])
  BY DEF StepsTo, MayCome, StoppedGoes, Choosing
<1> QED
  BY <1>1, <1>2 DEF AllMayCome, StepsTo

LEMMA MovesStepsTo ==
  ASSUME TypeOK, NEW s \in Session, NEW g \in Run, NEW p,
         Moves(s, g, p) \/ \E kind : Park(s, g, p, kind)
  PROVE  StepsTo(s, g, p)
<1>1. phase \in [Session -> [Run -> Phase]]
  BY DEF TypeOK
<1>2. CASE Moves(s, g, p)
  BY <1>1, <1>2 DEF Moves, StepsTo
<1>3. ASSUME NEW kind, Park(s, g, p, kind)
      PROVE  StepsTo(s, g, p)
  BY <1>1, <1>3 DEF Park, StepsTo
<1> QED
  BY <1>2, <1>3

LEMMA StopEventMay ==
  ASSUME TypeOK, NEW s \in Session, NEW g \in Run,
         ErrorEvent(s, g) \/ \E st, halted : StopEvent(s, g, st, halted)
  PROVE  AllMayCome
<1>1. StepsTo(s, g, "closing")
  BY MovesStepsTo DEF StopEvent, ErrorEvent
<1> QED
  BY <1>1, StepsToMay DEF MayCome, StoppedGoes, Choosing

LEMMA BeginTurnMay ==
  ASSUME TypeOK, NEW s \in Session, NEW g \in Run, NEW st, BeginTurn(s, g, st)
  PROVE  AllMayCome
<1>1. CASE ~stopRequested[s] /\ Moves(s, g, "turn")
  BY <1>1, MovesStepsTo, StepsToMay DEF MayCome, StoppedGoes, Choosing
<1>2. CASE StopEvent(s, g, st, stopRequested[s])
  BY <1>2, StopEventMay
<1> QED
  BY <1>1, <1>2 DEF BeginTurn

LEMMA LoopTopMay ==
  ASSUME TypeOK, NEW s \in Session, NEW g \in Run, NEW st, LoopTop(s, g, st)
  PROVE  AllMayCome
<1>1. CASE StopEvent(s, g, st, stopRequested[s])
  BY <1>1, StopEventMay
<1>2. CASE BeginTurn(s, g, st)
  BY <1>2, BeginTurnMay
<1>3. ASSUME ~ShouldStop(s), NEW p \in {"manual", "decide"},
             Moves(s, g, p) \/ Park(s, g, p, {"manual"})
      PROVE  AllMayCome
  BY <1>3, MovesStepsTo, StepsToMay DEF MayCome, StoppedGoes, Choosing, ShouldStop
<1> QED
  BY <1>1, <1>2, <1>3 DEF LoopTop

LEMMA RunEventMay ==
  ASSUME TypeOK, NEW s \in Session, NEW g \in Run, RunStep(s, g), ~RunEnded(s, g)
  PROVE  AllMayCome
<1>1. CASE GateRaised(s, g)
  <2>1. StepsTo(s, g, IF phase[s][g] = "boot" THEN "bootGate" ELSE "turnGate")
    BY <1>1, MovesStepsTo DEF GateRaised
  <2>2. phase[s][g] \in {"boot", "turn"}
    BY <1>1 DEF GateRaised
  <2> QED
    BY <2>1, <2>2, StepsToMay DEF MayCome, StoppedGoes, Gates, Choosing
<1>2. CASE UsageGate /\ Moves(s, g, "usage")
  BY <1>2, MovesStepsTo, StepsToMay DEF MayCome, StoppedGoes, Choosing
<1>3. CASE BrainAnswers(s, g) /\ Park(s, g, "attention", {"attention"})
  <2>1. StepsTo(s, g, "attention") /\ phase[s][g] = "decide"
    BY <1>3, MovesStepsTo DEF BrainAnswers
  <2> QED
    BY <2>1, StepsToMay DEF MayCome, StoppedGoes, Choosing
<1>4. CASE ~ShouldStop(s) /\ Moves(s, g, "brain")
  BY <1>4, MovesStepsTo, StepsToMay DEF MayCome, StoppedGoes, Choosing, ShouldStop
<1>5. CASE \/ ErrorEvent(s, g)
           \/ NoticeEvents(s, g)
           \/ \E st, halted : StopEvent(s, g, st, halted)
           \/ \E st : LoopTop(s, g, st) \/ BeginTurn(s, g, st)
  BY <1>5, StopEventMay, LoopTopMay, BeginTurnMay DEF NoticeEvents
<1> QED
  BY <1>1, <1>2, <1>3, <1>4, <1>5
  DEF RunStep, Booting, UsageRead, BrainAnswers, BrainUnreachable, BrainStops, BrainBack,
      TurnDone, TurnFails, Killed

LEMMA AnswerMay ==
  ASSUME TypeOK, NEW s \in Session, NEW g \in Run, Answer(s, g)
  PROVE  AllMayCome
<1>1. ASSUME phase[s][g] \in Gates, Moves(s, g, AfterGate(phase[s][g]))
      PROVE  AllMayCome
  <2>1. StepsTo(s, g, AfterGate(phase[s][g]))
    BY <1>1, MovesStepsTo
  <2> QED
    BY <1>1, <2>1, StepsToMay DEF MayCome, StoppedGoes, Choosing, Gates, AfterGate
<1> QED
  BY <1>1, StopEventMay, BeginTurnMay, LoopTopMay
  DEF Answer, GateAnswered, GateTimeout, AttentionAnswered, AttentionTimeout, AttentionStopped,
      ManualMessage, ManualSwitch

LEMMA StopMay ==
  ASSUME TypeOK, NEW s \in Session, Stop(s)
  PROVE  AllMayCome
<1>1. CASE UNCHANGED phase
  BY <1>1 DEF AllMayCome, MayCome, StoppedGoes, Choosing
<1>2. ASSUME NEW g \in Run, StopManual(s, g) \/ StopAtAttention(s, g)
      PROVE  AllMayCome
  BY <1>2, StopEventMay DEF StopManual, StopAtAttention
<1>3. ASSUME NEW g \in Run, StopAtGate(s, g)
      PROVE  AllMayCome
  <2>1. StepsTo(s, g, AfterGate(phase[s][g]))
    BY <1>3, MovesStepsTo DEF StopAtGate
  <2> QED
    BY <1>3, <2>1, StepsToMay DEF MayCome, StoppedGoes, Choosing, StopAtGate, Gates, AfterGate
<1>4. CASE StopActive(s)
  <2>1. /\ \A h \in Run : phase'[s][h] \in {phase[s][h], "killed"}
        /\ \A t \in Session \ {s} : phase'[t] = phase[t]
    BY <1>4 DEF StopActive, TypeOK
  <2> QED
    BY <2>1 DEF AllMayCome, MayCome, StoppedGoes, Choosing
<1> QED
  BY <1>1, <1>2, <1>3, <1>4
  DEF Stop, StopLimited, StopQueued, StopInactive, StopBlocked

LEMMA LaunchMay ==
  ASSUME NEW L, NEW inUse, NEW st, NEW ph \in [Session -> [Run -> Phase]], NEW review, NEW pages,
         Launch(L, inUse, st, ph, review, pages),
         \A t \in Session, h \in Run : ph[t][h] \in {phase[t][h], "none"}
  PROVE  AllMayCome
<1>1. ASSUME NEW t \in Session, NEW h \in Run
      PROVE  MayCome(t, h, phase'[t][h])
  <2>1. CASE t \in L
    <3>1. phase'[t][h] \in {ph[t][h], "boot"} /\ ~stopRequested'[t]
      BY <2>1 DEF Launch, Booted
    <3>2. phase'[t][h] \in {phase[t][h], "none", "boot"}
      BY <3>1
    <3> QED
      BY <3>1, <3>2 DEF MayCome, StoppedGoes, Choosing
  <2>2. CASE t \notin L
    <3>1. phase'[t][h] = ph[t][h]
      BY <2>2 DEF Launch, Booted
    <3>2. phase'[t][h] \in {phase[t][h], "none"}
      BY <3>1
    <3> QED
      BY <3>2 DEF MayCome, StoppedGoes, Choosing
  <2> QED
    BY <2>1, <2>2
<1> QED
  BY <1>1 DEF AllMayCome

LEMMA StartMay ==
  ASSUME TypeOK, NEW s \in Session, Start(s) \/ ResumeFires(s) \/ HealFires(s)
  PROVE  AllMayCome
<1>1. CASE UNCHANGED phase
  BY <1>1 DEF AllMayCome, MayCome, StoppedGoes, Choosing
<1>2. ASSUME NEW review, NEW pages, Launch({s}, running, status, phase, review, pages)
      PROVE  AllMayCome
  <2>1. phase \in [Session -> [Run -> Phase]]
    BY DEF TypeOK
  <2> QED
    BY <1>2, <2>1, LaunchMay
<1>3. ASSUME NEW auto, NEW limit, NEW pages, StartRequest(s, auto, limit, pages)
      PROVE  AllMayCome
  BY <1>1, <1>2, <1>3, Zenon DEF StartRequest
<1> QED
  BY <1>1, <1>3, Zenon DEF Start, ResumeFires, HealFires

LEMMA EditMay ==
  ASSUME TypeOK, NEW s \in Session, Edit(s)
  PROVE  AllMayCome
<1>1. CASE UNCHANGED phase
  BY <1>1 DEF AllMayCome, MayCome, StoppedGoes, Choosing
<1>2. CASE RemoveSession(s)
  <2>1. /\ \A h \in Run : phase'[s][h] = IF phase[s][h] = "attention" THEN "closing"
                                         ELSE AfterGate(phase[s][h])
        /\ \A t \in Session \ {s} : phase'[t] = phase[t]
    BY <1>2 DEF RemoveSession, TypeOK
  <2>2. \A h \in Run : MayCome(s, h, phase'[s][h])
    BY <2>1 DEF MayCome, StoppedGoes, Choosing, AfterGate, Gates
  <2>3. \A t \in Session \ {s}, h \in Run : MayCome(t, h, phase'[t][h])
    BY <2>1 DEF MayCome, StoppedGoes
  <2> QED
    BY <2>2, <2>3 DEF AllMayCome
<1> QED
  BY <1>1, <1>2 DEF Edit, AddSession, UpdateDeps

LEMMA RunEndedMay ==
  ASSUME TypeOK, NEW s \in Session, NEW g \in Run, RunEnded(s, g)
  PROVE  AllMayCome
<1> DEFINE freed == [phase EXCEPT ![s][g] = "none"]
<1>1. PICK L, inUse, st, review, pages : Launch(L, inUse, st, freed, review, pages)
  BY Zenon DEF RunEnded, EndOf
<1>2. phase \in [Session -> [Run -> Phase]] /\ "none" \in Phase
  BY DEF TypeOK, Phase
<1>3. /\ freed \in [Session -> [Run -> Phase]]
      /\ \A t \in Session, h \in Run : freed[t][h] \in {phase[t][h], "none"}
  BY <1>2
<1> HIDE DEF freed
<1> QED
  BY <1>1, <1>3, LaunchMay

LEMMA NextMay ==
  ASSUME TypeOK, [Next]_vars
  PROVE  AllMayCome
<1>1. CASE UNCHANGED phase
  BY <1>1 DEF AllMayCome, MayCome, StoppedGoes, Choosing
<1>2. ASSUME NEW s \in Session, NEW g \in Run, RunStep(s, g) \/ Answer(s, g)
      PROVE  AllMayCome
  BY <1>2, RunEventMay, RunEndedMay, AnswerMay
<1>3. ASSUME NEW s \in Session, Start(s) \/ ResumeFires(s) \/ HealFires(s) \/ Stop(s) \/ Edit(s)
      PROVE  AllMayCome
  BY <1>3, StartMay, StopMay, EditMay
<1>4. ASSUME NEW cap \in CapChoices, SetMaxConcurrent(cap)
      PROVE  AllMayCome
  BY <1>4, LaunchMay DEF SetMaxConcurrent, TypeOK
<1>5. CASE Restart
  BY <1>5 DEF Restart, AllMayCome, MayCome, StoppedGoes, Choosing
<1> QED
  BY <1>1, <1>2, <1>3, <1>4, <1>5 DEF Next, BudgetMoves, vars

LEMMA RunsMoveAsMay == Spec => [][AllMayCome]_vars
<1>1. TypeOK /\ [Next]_vars => AllMayCome
  BY NextMay
<1> QED
  BY <1>1, TypeCorrect, PTL DEF Spec

\* A run that was asked to stop begins no turn, decision, wait for a message or
\* wait for the brain, and parks on no gate or question but those of what it is at
\* (StopIsPrompt): of any number of sessions, and of runs of one session that
\* overlap too.
THEOREM StopsArePrompt == Spec => StopIsPrompt
<1>1. AllMayCome =>
        \A s \in Session, g \in Run :
          stopRequested[s] =>
            \/ StoppedGoes(phase[s][g], phase'[s][g])
            \/ phase'[s][g] = "boot" /\ ~stopRequested'[s]
  BY DEF AllMayCome, MayCome
<1> QED
  BY <1>1, RunsMoveAsMay, PTL DEF StopIsPrompt

(***************************************************************************)
(* A spent budget leaves a run the turn it was choosing.                   *)
(***************************************************************************)
\* A run that begins a turn has its prompt, or budget left.
TurnsRise ==
  \A s \in Session, g \in Run :
    turns'[s][g] > turns[s][g] =>
      /\ UsageGate \/ ~spent \/ phase[s][g] \in Choosing
      /\ phase'[s][g] \notin Choosing

LEMMA TurnsStay ==
  ASSUME TypeOK, UNCHANGED turns
  PROVE  TurnsRise
<1>1. \A s \in Session, g \in Run : turns[s][g] \in Nat
  BY LimitsAssumption DEF TypeOK
<1> QED
  BY <1>1 DEF TurnsRise

LEMMA BeginTurnRises ==
  ASSUME TypeOK, NEW s \in Session, NEW g \in Run, NEW st, BeginTurn(s, g, st),
         UsageGate \/ ~spent \/ phase[s][g] \in Choosing
  PROVE  TurnsRise
<1>1. CASE StopEvent(s, g, st, stopRequested[s])
  BY <1>1, TurnsStay DEF StopEvent
<1>2. CASE Moves(s, g, "turn") /\ turns' = [turns EXCEPT ![s][g] = @ + 1]
  <2>1. phase'[s][g] = "turn"
    BY <1>2, MovesStepsTo DEF StepsTo
  <2>2. \A t \in Session, h \in Run : turns[t][h] \in Nat
    BY LimitsAssumption DEF TypeOK
  <2>3. \A t \in Session, h \in Run : t # s \/ h # g => turns'[t][h] = turns[t][h]
    BY <1>2 DEF TypeOK
  <2> QED
    BY <2>1, <2>2, <2>3 DEF TurnsRise, Choosing
<1> QED
  BY <1>1, <1>2 DEF BeginTurn

LEMMA LoopTopRises ==
  ASSUME TypeOK, NEW s \in Session, NEW g \in Run, NEW st, LoopTop(s, g, st)
  PROVE  TurnsRise
<1>1. CASE UNCHANGED turns
  BY <1>1, TurnsStay
<1>2. CASE ~ShouldStop(s) /\ BeginTurn(s, g, st)
  BY <1>2, BeginTurnRises DEF ShouldStop
<1> QED
  BY <1>1, <1>2 DEF LoopTop, StopEvent

LEMMA RunTurns ==
  ASSUME TypeOK, NEW s \in Session, NEW g \in Run, RunStep(s, g) \/ Answer(s, g)
  PROVE  TurnsRise
<1>1. CASE UNCHANGED turns
  BY <1>1, TurnsStay
<1>2. CASE \E st : LoopTop(s, g, st)
  BY <1>2, LoopTopRises
<1>3. CASE phase[s][g] \in Choosing /\ \E st : BeginTurn(s, g, st)
  BY <1>3, BeginTurnRises
<1>4. CASE turns' = [turns EXCEPT ![s][g] = 0]
  <2>1. \A t \in Session, h \in Run : turns[t][h] \in Nat /\ turns'[t][h] \in {turns[t][h], 0}
    BY <1>4, LimitsAssumption DEF TypeOK
  <2> QED
    BY <2>1 DEF TurnsRise
<1>5. CASE RunStep(s, g)
  BY <1>1, <1>2, <1>3, <1>4, <1>5, Zenon
  DEF RunStep, RunEnded, GateRaised, Booting, UsageRead, BrainAnswers, BrainUnreachable,
      BrainStops, BrainBack, TurnDone, TurnFails, Killed, StopEvent, ErrorEvent, NoticeEvents,
      Choosing
<1>6. CASE Answer(s, g)
  BY <1>1, <1>2, <1>3, <1>6, Zenon
  DEF Answer, GateAnswered, GateTimeout, AttentionAnswered, AttentionTimeout, AttentionStopped,
      AttentionOpen, ManualMessage, ManualSwitch, StopEvent, Choosing
<1> QED
  BY <1>5, <1>6

LEMMA NextTurns ==
  ASSUME TypeOK, [Next]_vars
  PROVE  TurnsRise
<1>1. CASE UNCHANGED turns
  BY <1>1, TurnsStay
<1>2. ASSUME NEW s \in Session, NEW g \in Run, RunStep(s, g) \/ Answer(s, g)
      PROVE  TurnsRise
  BY <1>2, RunTurns
<1>3. ASSUME NEW s \in Session, Start(s) \/ ResumeFires(s) \/ HealFires(s) \/ Stop(s) \/ Edit(s)
      PROVE  UNCHANGED turns
  BY <1>3, Zenon
  DEF Start, ResumeFires, HealFires, StartRequest, Stop, StopLimited, StopManual, StopAtGate,
      StopAtAttention, StopQueued, StopActive, StopInactive, StopBlocked, StopEvent, Edit,
      AddSession, UpdateDeps, RemoveSession
<1>4. ASSUME NEW cap \in CapChoices, SetMaxConcurrent(cap)
      PROVE  UNCHANGED turns
  BY <1>4, Zenon DEF SetMaxConcurrent
<1>5. CASE Restart
  <2>1. \A t \in Session, h \in Run : turns[t][h] \in Nat /\ turns'[t][h] = 0
    BY <1>5, LimitsAssumption DEF TypeOK, Restart
  <2> QED
    BY <2>1 DEF TurnsRise
<1> QED
  BY <1>1, <1>2, <1>3, <1>4, <1>5, Zenon DEF Next, BudgetMoves, vars

\* What is kept of the history: none while there is budget, and a run that has had
\* its one turn is on no way to another.
OverrunOnce ==
  /\ overrun \in [Session -> [Run -> Nat]]
  /\ ~UsageGate =>
       \A s \in Session, g \in Run :
         /\ ~spent => overrun[s][g] = 0
         /\ overrun[s][g] <= 1
         /\ overrun[s][g] = 1 => phase[s][g] \notin Choosing

LEMMA OverrunStep ==
  ASSUME TypeOK, OverrunOnce, [BudgetNext]_budgetVars
  PROVE  OverrunOnce'
<1>1. CASE UNCHANGED budgetVars
  BY <1>1 DEF budgetVars, vars, OverrunOnce
<1>2. CASE BudgetNext
  <2>1. AllMayCome /\ TurnsRise
    BY <1>2, NextMay, NextTurns DEF BudgetNext
  <2>2. overrun' = [s \in Session |-> [g \in Run |-> Overrun(s, g)]]
    BY <1>2 DEF BudgetNext
  <2>3. \A s \in Session, g \in Run : Overrun(s, g) \in {0, overrun[s][g], overrun[s][g] + 1}
    BY DEF Overrun
  <2>4. overrun' \in [Session -> [Run -> Nat]]
    BY <2>2, <2>3 DEF OverrunOnce
  <2>5. ASSUME ~UsageGate, NEW s \in Session, NEW g \in Run
        PROVE  /\ ~spent' => overrun'[s][g] = 0
               /\ overrun'[s][g] <= 1
               /\ overrun'[s][g] = 1 => phase'[s][g] \notin Choosing
    <3>1. overrun'[s][g] = Overrun(s, g) /\ overrun[s][g] \in Nat
      BY <2>2 DEF OverrunOnce
    <3>2. /\ ~spent => overrun[s][g] = 0
          /\ overrun[s][g] <= 1
          /\ overrun[s][g] = 1 => phase[s][g] \notin Choosing
      BY <2>5 DEF OverrunOnce
    <3>3. /\ spent /\ phase[s][g] \notin Choosing => phase'[s][g] \notin Choosing
          /\ spent /\ turns'[s][g] > turns[s][g] =>
               phase[s][g] \in Choosing /\ phase'[s][g] \notin Choosing
      BY <2>1, <2>5 DEF AllMayCome, MayCome, TurnsRise
    <3>4. CASE Overrun(s, g) = 0
      BY <3>1, <3>4
    <3>5. CASE spent /\ turns'[s][g] > turns[s][g] /\ spent'
      <4>1. overrun[s][g] = 0
        BY <3>1, <3>2, <3>3, <3>5
      <4>2. Overrun(s, g) \in {0, 1}
        BY <3>5, <4>1 DEF Overrun
      <4> QED
        BY <3>1, <3>3, <3>5, <4>2
    <3>6. CASE spent' /\ Overrun(s, g) = overrun[s][g]
      <4>1. overrun[s][g] = 1 => spent /\ phase'[s][g] \notin Choosing
        BY <3>2, <3>3
      <4> QED
        BY <3>1, <3>2, <3>6, <4>1
    <3> QED
      BY <3>4, <3>5, <3>6 DEF Overrun
  <2> QED
    BY <2>4, <2>5 DEF OverrunOnce
<1> QED
  BY <1>1, <1>2

\* Once the daily budget is reached a run begins one turn more at most
\* (BudgetStopsRun), whoever reached it and whatever the run awaited then: gates,
\* pauses, questions, stops, of any number of sessions and of overlapping runs.
THEOREM BudgetsStopRuns == BudgetSpec => []BudgetStopsRun
<1>1. BudgetInit => Init /\ OverrunOnce
  BY DEF BudgetInit, Init, OverrunOnce
<1>2. [BudgetNext]_budgetVars => [Next]_vars
  BY DEF BudgetNext, budgetVars
<1>3. TypeOK /\ OverrunOnce /\ [BudgetNext]_budgetVars => OverrunOnce'
  BY OverrunStep
<1>4. OverrunOnce => BudgetStopsRun
  BY DEF OverrunOnce, BudgetStopsRun
<1>5. BudgetSpec => Spec
  BY <1>1, <1>2, PTL DEF BudgetSpec, Spec
<1> QED
  BY <1>1, <1>3, <1>4, <1>5, TypeCorrect, PTL DEF BudgetSpec

(***************************************************************************)
(* What steps do.                                                          *)
(***************************************************************************)
\* An event of the run of s, or the operator's answer to it.
Event(s, g) == (RunStep(s, g) /\ ~RunEnded(s, g)) \/ Answer(s, g)

EventFrame == UNCHANGED <<presence, deps, reviewRequired, paged, slotVars>>

LEMMA EventEffect ==
  ASSUME NEW g \in Run, TypeOK, OneRun(g), NEW s \in Session, Event(s, g)
  PROVE  /\ GoesOn(s, g)
         /\ phase[s][g] \notin {"none", "closing"}
         /\ EventFrame
<1>1. GoesOn(s, g)
  BY RunEventGoesOn, AnswerGoesOn DEF Event
<1>2. CASE RunStep(s, g) /\ ~RunEnded(s, g)
  <2>1. phase[s][g] \in {"boot", "turn", "usage", "decide", "brain", "killed"}
    BY <1>2, Zenon DEF RunStep, GateRaised, Booting, UsageRead, BrainAnswers, BrainUnreachable,
       BrainStops, BrainBack, TurnDone, TurnFails, Killed
  <2>2. EventFrame
    BY <1>2, Zenon DEF RunStep, GateRaised, Booting, UsageRead, BrainAnswers, BrainUnreachable,
       BrainStops, BrainBack, TurnDone, TurnFails, Killed, RunFrame, EventFrame, slotVars
  <2> QED
    BY <1>1, <2>1, <2>2
<1>3. CASE Answer(s, g)
  <2>1. phase[s][g] \in {"bootGate", "turnGate", "attention", "manual"}
    BY <1>3 DEF Answer, GateAnswered, GateTimeout, AttentionAnswered, AttentionTimeout,
       AttentionStopped, AttentionOpen, ManualMessage, ManualSwitch, Gates
  <2>2. EventFrame
    BY <1>3 DEF Answer, GateAnswered, GateTimeout, AttentionAnswered, AttentionTimeout,
       AttentionStopped, AttentionOpen, ManualMessage, ManualSwitch, OperatorFrame,
       EventFrame, slotVars
  <2> QED
    BY <1>1, <2>1, <2>2
<1> QED
  BY <1>2, <1>3 DEF Event

\* Only a /usage reading moves a timer in the middle of a run.
LEMMA EventTimer ==
  ASSUME NEW g \in Run, TypeOK, NEW s \in Session, Event(s, g)
  PROVE  /\ \/ UNCHANGED timer
            \/ timer'[s] = "resume" /\ status'[s] = "rate-limited" /\ phase[s][g] = "usage"
         /\ \A t \in Session \ {s} : timer'[t] = timer[t]
<1>1. CASE UsageRead(s, g)
  <2>1. CASE /\ StopEvent(s, g, [status EXCEPT ![s] = "rate-limited"], stopRequested[s])
             /\ timer' = [timer EXCEPT ![s] = "resume"]
    <3>1. status'[s] = "rate-limited"
      BY <2>1 DEF StopEvent, TypeOK
    <3>2. timer'[s] = "resume" /\ \A t \in Session \ {s} : timer'[t] = timer[t]
      BY <2>1 DEF TypeOK
    <3> QED
      BY <1>1, <3>1, <3>2 DEF UsageRead
  <2> QED
    BY <1>1, <2>1 DEF UsageRead
<1>2. CASE ~UsageRead(s, g)
  BY <1>2, Zenon DEF Event, RunStep, GateRaised, Booting, BrainAnswers, BrainUnreachable,
     BrainStops, BrainBack, TurnDone, TurnFails, Killed, Answer, GateAnswered, GateTimeout,
     AttentionAnswered, AttentionTimeout, AttentionStopped, ManualMessage, ManualSwitch
<1> QED
  BY <1>1, <1>2

\* What launch() makes of the sessions L, from the slots, statuses and phases
\* its caller leaves.
Launched(g, L, inUse, st, ph) ==
  /\ running' = inUse \cup L
  /\ \A t \in L : status'[t] = "running" /\ phase'[t][g] = "boot"
  /\ \A t \in Session \ L : status'[t] = st[t] /\ phase'[t] = ph[t]

LEMMA LaunchEffect ==
  ASSUME NEW g, Run = {g}, NEW L \in SUBSET Session, NEW inUse \in SUBSET Session,
         NEW st \in [Session -> Status], NEW ph \in [Session -> [Run -> Phase]],
         NEW review, NEW pages,
         Launch(L, inUse, st, ph, review, pages), \A t \in L : ph[t][g] = "none"
  PROVE  Launched(g, L, inUse, st, ph)
<1>1. \A t \in L : (CHOOSE h \in Run : ph[t][h] = "none") = g
  OBVIOUS
<1> QED
  BY <1>1 DEF Launch, Booted, Launched

\* A start, a wakeup or a heal that asks for a start.
Requests(s) ==
  \E auto \in BOOLEAN, limit \in BOOLEAN, pages \in {paged, [paged EXCEPT ![s] = TRUE]} :
    CanStart(s) /\ StartRequest(s, auto, limit, pages)

\* What is common to every outcome of a request.
LEMMA RequestEffect ==
  ASSUME NEW g, Run = {g}, TypeOK, OneRun(g), NEW s \in Session, Requests(s)
  PROVE  /\ Live(s) /\ status[s] \notin Active /\ phase[s][g] = "none"
         /\ \A t \in Session \ {s} : /\ status'[t] = status[t]
                                     /\ phase'[t] = phase[t]
                                     /\ paged'[t] = paged[t]
         /\ UNCHANGED <<presence, deps, maxConcurrent>>
         /\ \/ /\ status'[s] \in {"blocked", status[s]}
               /\ status'[s] # status[s] => UnmetIn(status, s) # {} \/ OverDepth(s)
               /\ UNCHANGED <<running, queue, phase, stopRequested>>
            \/ /\ UnmetIn(status, s) = {}
               /\ Cardinality(running) >= maxConcurrent
               /\ status'[s] = "queued"
               /\ queue' = Enqueued(queue, s)
               /\ UNCHANGED <<running, phase, stopRequested, paged>>
            \/ /\ UnmetIn(status, s) = {}
               /\ status'[s] = "running" /\ phase'[s][g] = "boot"
               /\ Cardinality(running) < maxConcurrent
               /\ running' = running \cup {s}
               /\ UNCHANGED queue
<1>1. PICK auto \in BOOLEAN, limit \in BOOLEAN, pages \in {paged, [paged EXCEPT ![s] = TRUE]} :
        CanStart(s) /\ StartRequest(s, auto, limit, pages)
  BY DEF Requests
<1>2. Live(s) /\ status[s] \notin Active /\ phase[s][g] = "none"
  BY <1>1 DEF CanStart, HasFreeRun
<1>3. UNCHANGED <<presence, deps, maxConcurrent>>
  BY <1>1 DEF StartRequest
<1>4. CASE /\ Refused(s, auto, limit)
           /\ status' = [status EXCEPT ![s] =
                           IF UnmetIn(status, s) # {} \/ Parked(s, auto) THEN "blocked" ELSE @]
           /\ paged' = pages
           /\ UNCHANGED <<running, queue, phase, stopRequested>>
  <2>1. \A t \in Session \ {s} : status'[t] = status[t] /\ paged'[t] = paged[t]
    BY <1>4 DEF TypeOK
  <2>2. /\ status'[s] \in {"blocked", status[s]}
        /\ status'[s] # status[s] => UnmetIn(status, s) # {} \/ OverDepth(s)
    BY <1>4 DEF TypeOK, Parked
  <2> QED
    BY <1>2, <1>3, <1>4, <2>1, <2>2
<1>5. CASE /\ UnmetIn(status, s) = {}
           /\ Cardinality(running) >= maxConcurrent
           /\ status' = [status EXCEPT ![s] = "queued"]
           /\ queue' = Enqueued(queue, s)
           /\ UNCHANGED <<running, phase, stopRequested, paged>>
  <2>1. status'[s] = "queued" /\ \A t \in Session \ {s} : status'[t] = status[t]
    BY <1>5 DEF TypeOK
  <2> QED
    BY <1>2, <1>3, <1>5, <2>1
<1>6. ASSUME NEW review, Launch({s}, running, status, phase, review, paged),
             UnmetIn(status, s) = {}, UNCHANGED queue
      PROVE  running' = running \cup {s} /\ status'[s] = "running" /\ phase'[s][g] = "boot"
             /\ \A t \in Session \ {s} : /\ status'[t] = status[t]
                                         /\ phase'[t] = phase[t]
                                         /\ paged'[t] = paged[t]
  <2>1. /\ phase \in [Session -> [Run -> Phase]] /\ status \in [Session -> Status]
        /\ paged \in [Session -> BOOLEAN] /\ running \in SUBSET Session
    BY DEF TypeOK
  <2>2. {s} \in SUBSET Session /\ \A t \in {s} : phase[t][g] = "none"
    BY <1>2
  <2>3. Launched(g, {s}, running, status, phase)
    BY <1>6, <2>1, <2>2, LaunchEffect
  <2>4. \A t \in Session \ {s} : paged'[t] = paged[t]
    BY <1>6, <2>1 DEF Launch
  <2> QED
    BY <2>3, <2>4 DEF Launched
<1>7. CASE /\ UnmetIn(status, s) = {}
           /\ Cardinality(running) < maxConcurrent
           /\ \E review : Launch({s}, running, status, phase, review, paged)
           /\ UNCHANGED queue
  BY <1>2, <1>3, <1>6, <1>7
<1> QED
  BY <1>1, <1>4, <1>5, <1>7, Zenon DEF StartRequest, Refused

\* The end of the run of s, when pump() takes n off the queue and promoteReady()
\* launches `now` and leaves `wait`.
EndParts(s, g, n, now, wait) ==
  LET launched == Picked(n, status) \cup now
      rest     == SubSeq(queue, n + 1, Len(queue))
  IN
  /\ now \cap wait = {}
  /\ \A t \in now \cup wait : Live(t) /\ status[t] = "blocked" /\ UnmetIn(status, t) = {}
  /\ PumpTakes(n, running \ {s}, status, maxConcurrent)
  /\ running' = (running \ {s}) \cup launched
  /\ wait = {} \/ spent \/ Cardinality(running') >= maxConcurrent
  /\ now # {} => \E t \in now : Cardinality((running \ {s}) \cup Picked(n, status) \cup (now \ {t}))
                                 < maxConcurrent
  /\ spent => now = {}
  /\ \A t \in launched : status'[t] = "running" /\ phase'[t][g] = "boot"
  /\ \A t \in wait : status'[t] = IF spent THEN "idle" ELSE "queued"
  /\ \A t \in Session \ (launched \cup wait) : status'[t] = status[t]
  /\ \A t \in Session \ (launched \cup {s}) : phase'[t] = phase[t] /\ paged'[t] = paged[t]
  /\ phase'[s][g] = "none"
  /\ \E tail \in SetToSeqs(IF spent THEN {} ELSE wait \ ToSet(rest)) : queue' = rest \o tail
  /\ status[s] = "done" =>
       \A t \in Promotable(status) \ (now \cup wait) : reviewRequired'[t] /\ OverDepth(t)
  /\ \A t \in Session : reviewRequired'[t] => reviewRequired[t] \/ OverDepth(t)
  /\ \A t \in Session \ launched : reviewRequired[t] => reviewRequired'[t]

LEMMA EndEffect ==
  ASSUME NEW g \in Run, Run = {g}, TypeOK, OneRun(g), NEW s \in Session, RunEnded(s, g)
  PROVE  /\ status[s] \in {"rate-limited", "stopped", "done", "error"}
         /\ phase[s][g] = "closing"
         /\ UNCHANGED <<presence, deps, maxConcurrent, spent>>
         /\ \E n \in 0..Len(queue), now \in SUBSET Session, wait \in SUBSET Session :
              EndParts(s, g, n, now, wait)
         /\ status[s] = "error" => timer'[s] = "heal" \/ paged'[s]
         /\ status[s] # "error" => timer'[s] = timer[s]
         /\ \A t \in Session \ {s} : timer'[t] = timer[t]
<1>1. PICK n \in 0..Len(queue), now \in SUBSET Session, restartable \in {FALSE, CanHeal(s)} :
        EndOf(s, g, n, now, restartable)
  BY DEF RunEnded
<1> DEFINE ended == [status EXCEPT ![s] = IF @ = "running" THEN "done" ELSE @]
           failed == ended[s] = "error"
           ready == IF ended[s] = "done" THEN Promotable(ended) ELSE {}
           deep == {t \in ready : OverDepth(t)}
           wait == (ready \ deep) \ now
           rest == SubSeq(queue, n + 1, Len(queue))
           left == [t \in Session |->
                      IF t \in wait THEN IF spent THEN "idle" ELSE "queued" ELSE ended[t]]
           freed == [phase EXCEPT ![s][g] = "none"]
           review == [t \in Session |-> reviewRequired[t] \/ t \in deep]
           pages == [paged EXCEPT ![s] = @ \/ (failed /\ ~restartable)]
           late == IF spent THEN {} ELSE wait \ ToSet(rest)
           L == Picked(n, ended) \cup now
<1>2. /\ PumpTakes(n, running \ {s}, ended, maxConcurrent)
      /\ IF spent THEN now = {}
         ELSE Splits(now, ready \ deep, (running \ {s}) \cup Picked(n, ended))
      /\ Launch(L, running \ {s}, left, freed, review, pages)
      /\ \E tail \in SetToSeqs(late) : queue' = rest \o tail
      /\ Settles(s, failed, restartable)
  BY <1>1, Zenon DEF EndOf
<1>3. status[s] \in {"rate-limited", "stopped", "done", "error"} /\ phase[s][g] = "closing"
  BY ShownIs DEF OneRun, RunEnded
<1>4. ended = status
  BY <1>3 DEF TypeOK
<1>5. UNCHANGED <<presence, deps, maxConcurrent, spent>>
  BY DEF RunEnded
<1>6. now \subseteq ready \ deep
  BY <1>2 DEF Splits
<1>7. \A t \in now \cup wait : Live(t) /\ status[t] = "blocked" /\ UnmetIn(status, t) = {}
  BY <1>4, <1>6 DEF Promotable
<1>8. \A t \in Picked(n, status) : t \in Session /\ status[t] = "queued"
  BY PickedAreQueued
<1>9. /\ freed[s][g] = "none"
      /\ \A t \in Session \ {s} : freed[t] = phase[t]
      /\ freed \in [Session -> [Run -> Phase]]
  <2>1. phase \in [Session -> [Run -> Phase]] /\ "none" \in Phase
    BY DEF TypeOK, Phase
  <2> QED
    BY <2>1
<1>10. /\ left \in [Session -> Status]
       /\ \A t \in wait : left[t] = IF spent THEN "idle" ELSE "queued"
       /\ \A t \in Session \ wait : left[t] = status[t]
  <2>1. status \in [Session -> Status] /\ "idle" \in Status /\ "queued" \in Status
    BY DEF TypeOK, Status, Active
  <2>2. wait \in SUBSET Session
    BY DEF Promotable
  <2> HIDE DEF wait, ended
  <2> QED
    BY <1>4, <2>1, <2>2
<1>11. pages \in [Session -> BOOLEAN] /\ \A t \in Session \ {s} : pages[t] = paged[t]
  BY DEF TypeOK
<1>12. L \in SUBSET Session /\ running \ {s} \in SUBSET Session /\ wait \in SUBSET Session
  BY DEF TypeOK, Picked, Promotable
<1>13. /\ L = Picked(n, status) \cup now
       /\ \A t \in L : t # s /\ freed[t][g] = "none"
  <2>1. \A t \in Session : status[t] \in {"queued", "blocked"} => phase[t][g] = "none"
    BY NoRunWhile
  <2>2. L = Picked(n, status) \cup now
    BY <1>4
  <2>3. \A t \in L : t \in Session /\ status[t] \in {"queued", "blocked"}
    BY <1>7, <1>8, <2>2
  <2> HIDE DEF ended, freed, L
  <2> QED
    BY <1>3, <1>9, <2>1, <2>2, <2>3
<1>14. /\ running' = (running \ {s}) \cup L
       /\ \A t \in L : status'[t] = "running" /\ phase'[t][g] = "boot"
       /\ \A t \in Session \ L : status'[t] = left[t] /\ phase'[t] = freed[t]
  <2> HIDE DEF left, freed, L, wait, deep, ready, failed, late
  <2>1. PICK rv, pg : Launch(L, running \ {s}, left, freed, rv, pg)
    BY <1>2
  <2> HIDE DEF ended, pages, review
  <2>2. /\ L \in SUBSET Session /\ running \ {s} \in SUBSET Session
        /\ left \in [Session -> Status] /\ freed \in [Session -> [Run -> Phase]]
        /\ \A t \in L : freed[t][g] = "none"
    BY <1>9, <1>10, <1>12, <1>13
  <2>3. Launched(g, L, running \ {s}, left, freed)
    BY <2>1, <2>2, LaunchEffect
  <2> QED
    BY <2>3 DEF Launched
<1>15. /\ \A t \in Session : reviewRequired'[t] <=> t \notin L /\ (reviewRequired[t] \/ t \in deep)
       /\ \A t \in Session \ L : paged'[t] = pages[t]
  <2> HIDE DEF left, freed, pages, L, ended, deep
  <2> QED
    BY <1>2, <1>11 DEF Launch
<1>16. wait = {} \/ spent \/ Cardinality(running') >= maxConcurrent
  <2>1. CASE ~spent /\ now # ready \ deep
    <3>1. Cardinality(((running \ {s}) \cup Picked(n, ended)) \cup now) >= maxConcurrent
      BY <1>2, <2>1 DEF Splits
    <3>2. ((running \ {s}) \cup Picked(n, ended)) \cup now = running'
      BY <1>4, <1>14, <1>13
    <3> QED
      BY <3>1, <3>2
  <2> QED
    BY <1>6, <2>1
<1>17. EndParts(s, g, n, now, wait)
  <2>1. now \cap wait = {}
    OBVIOUS
  <2>2. wait \cap L = {}
    BY <1>7, <1>8, <1>13
  <2>3. status[s] = "done" =>
          \A t \in Promotable(status) \ (now \cup wait) : t \in Session \ L /\ t \in deep
    <3>1. status[s] = "done" => ready = Promotable(status)
      BY <1>4
    <3>2. \A t \in Promotable(status) : t \in Session /\ status[t] = "blocked"
      BY DEF Promotable
    <3> QED
      BY <1>8, <1>13, <3>1, <3>2
  <2>4. \A t \in deep : OverDepth(t)
    OBVIOUS
  <2>5. s \notin L /\ phase'[s][g] = "none"
    BY <1>9, <1>13, <1>14
  <2>6. \E tail \in SetToSeqs(IF spent THEN {} ELSE wait \ ToSet(rest)) : queue' = rest \o tail
    BY <1>2
  <2>7. PumpTakes(n, running \ {s}, status, maxConcurrent)
    BY <1>2, <1>4
  <2>12. /\ now # {} => \E t \in now : Cardinality((running \ {s}) \cup Picked(n, status) \cup (now \ {t}))
                                        < maxConcurrent
         /\ spent => now = {}
    BY <1>2, <1>4, Zenon DEF Splits
  <2> HIDE DEF left, freed, pages, review, ended, ready, deep, wait, L
  <2>8. \A t \in Session \ (L \cup {s}) : phase'[t] = phase[t] /\ paged'[t] = paged[t]
    BY <1>9, <1>11, <1>14, <1>15
  <2>9. /\ \A t \in wait : status'[t] = IF spent THEN "idle" ELSE "queued"
        /\ \A t \in Session \ (L \cup wait) : status'[t] = status[t]
    BY <1>10, <1>12, <1>14, <2>2
  <2>10. status[s] = "done" =>
           \A t \in Promotable(status) \ (now \cup wait) : reviewRequired'[t] /\ OverDepth(t)
    BY <1>15, <2>3, <2>4
  <2>11. /\ \A t \in Session : reviewRequired'[t] => reviewRequired[t] \/ OverDepth(t)
         /\ \A t \in Session \ L : reviewRequired[t] => reviewRequired'[t]
    BY <1>15, <2>4
  <2> QED
    BY <1>7, <1>13, <1>14, <1>16, <2>1, <2>5, <2>6, <2>7, <2>8, <2>9, <2>10, <2>11, <2>12 DEF EndParts
<1>18. /\ status[s] = "error" => timer'[s] = "heal" \/ paged'[s]
       /\ status[s] # "error" => timer'[s] = timer[s]
       /\ \A t \in Session \ {s} : timer'[t] = timer[t]
  <2>1. timer' = [timer EXCEPT ![s] = IF failed /\ restartable THEN "heal" ELSE @]
    BY <1>2 DEF Settles
  <2>2. failed = (status[s] = "error")
    BY <1>4
  <2>3. paged'[s] = pages[s]
    BY <1>13, <1>15
  <2>4. failed /\ ~restartable => pages[s]
    BY DEF TypeOK
  <2> HIDE DEF failed, pages, ended
  <2> QED
    BY <2>1, <2>2, <2>3, <2>4 DEF TypeOK
<1> QED
  BY <1>3, <1>5, <1>12, <1>17, <1>18, Zenon

\* stop().
LEMMA StopEffect ==
  ASSUME NEW g \in Run, Run = {g}, TypeOK, OneRun(g), NEW s \in Session, Stop(s)
  PROVE  /\ Live(s)
         /\ UNCHANGED <<presence, deps, running, maxConcurrent>>
         /\ \A t \in Session \ {s} : /\ status'[t] = status[t]
                                     /\ phase'[t] = phase[t]
                                     /\ paged'[t] = paged[t]
                                     /\ timer'[t] = timer[t]
                                     /\ reviewRequired'[t] = reviewRequired[t]
         /\ \/ /\ status'[s] = status[s] /\ phase'[s] = phase[s]
               /\ status[s] \notin Active \cup {"rate-limited"}
               /\ UNCHANGED <<queue, reviewRequired>>
               /\ paged[s] => paged'[s]
               /\ status[s] = "error" /\ timer[s] = "heal" => paged'[s]
            \/ /\ status[s] = "rate-limited" /\ status'[s] = "stopped" /\ phase'[s] = phase[s]
               /\ UNCHANGED <<queue, reviewRequired>>
            \/ /\ status[s] = "blocked" /\ status'[s] = "idle" /\ phase'[s] = phase[s]
               /\ UNCHANGED <<queue, timer>>
            \/ /\ status[s] = "queued" /\ status'[s] = "idle" /\ phase'[s] = phase[s]
               /\ \/ UNCHANGED queue /\ s \notin ToSet(queue)
                  \/ \E i \in DOMAIN queue : queue[i] = s /\ queue' = RemoveAt(queue, i)
            \/ /\ status[s] \in {"running", "paused", "manual", "needs-input"}
               /\ phase[s][g] # "none" /\ phase'[s][g] # "none"
               /\ status'[s] \in {"running", "paused", "stopped"}
               /\ UNCHANGED <<queue, reviewRequired>>
<1>1. Live(s) /\ UNCHANGED <<presence, deps, running, maxConcurrent>>
  BY Zenon DEF Stop, StopLimited, StopManual, StopQueued, StopAtGate, StopAtAttention,
     StopActive, StopInactive, StopBlocked, Cancels, OperatorFrame, slotVars
<1>2. CASE StopLimited(s)
  <2>1. status'[s] = "stopped" /\ \A t \in Session \ {s} : status'[t] = status[t] /\ timer'[t] = timer[t]
    BY <1>2 DEF StopLimited, TypeOK
  <2> QED
    BY <1>1, <1>2, <2>1 DEF StopLimited, OperatorFrame, slotVars
<1>3. CASE StopQueued(s)
  <2>1. status'[s] = "idle" /\ \A t \in Session \ {s} : status'[t] = status[t] /\ timer'[t] = timer[t]
    BY <1>3 DEF StopQueued, TypeOK
  <2>2. status[s] = "queued" /\ UNCHANGED <<phase, paged, reviewRequired>>
    BY <1>3 DEF StopQueued, healVars
  <2>3. \/ UNCHANGED queue /\ s \notin ToSet(queue)
        \/ \E i \in DOMAIN queue : queue[i] = s /\ queue' = RemoveAt(queue, i)
    BY <1>3, Zenon DEF StopQueued
  <2> QED
    BY <1>1, <2>1, <2>2, <2>3
<1>4. CASE StopBlocked(s)
  <2>1. /\ status'[s] = "idle" /\ \A t \in Session \ {s} : status'[t] = status[t]
        /\ \A t \in Session \ {s} : reviewRequired'[t] = reviewRequired[t]
    BY <1>4 DEF StopBlocked, TypeOK
  <2>2. status[s] = "blocked" /\ UNCHANGED <<phase, paged, timer, queue>>
    BY <1>4 DEF StopBlocked, healVars, slotVars
  <2> QED
    BY <1>1, <2>1, <2>2
<1>5. CASE StopInactive(s)
  <2>1. \A t \in Session \ {s} : timer'[t] = timer[t] /\ paged'[t] = paged[t]
    BY <1>5 DEF StopInactive, Cancels, TypeOK
  <2>2. /\ paged[s] => paged'[s]
        /\ status[s] = "error" /\ timer[s] = "heal" => paged'[s]
    BY <1>5 DEF StopInactive, TypeOK
  <2>3. UNCHANGED <<status, phase, queue, reviewRequired>>
    BY <1>5 DEF StopInactive, Cancels, OperatorFrame, slotVars
  <2>4. status[s] \notin Active \cup {"rate-limited"}
    BY <1>5 DEF StopInactive, Active
  <2> QED
    BY <1>1, <2>1, <2>2, <2>3, <2>4
<1>6. CASE StopActive(s)
  <2>1. \A t \in Session \ {s} : timer'[t] = timer[t] /\ phase'[t] = phase[t]
    BY <1>6 DEF StopActive, Cancels, TypeOK
  <2>2. phase'[s][g] = IF phase[s][g] \in {"boot", "turn"} THEN "killed" ELSE phase[s][g]
    BY <1>6 DEF StopActive, TypeOK
  <2>3. UNCHANGED <<status, paged, queue, reviewRequired>> /\ status[s] \in {"running", "paused"}
    BY <1>6 DEF StopActive, Cancels, OperatorFrame, slotVars
  <2>4. phase[s][g] # "none"
    BY <2>3 DEF OneRun
  <2> QED
    BY <1>1, <2>1, <2>2, <2>3, <2>4
<1>7. ASSUME NEW h \in Run, StopManual(s, h) \/ StopAtGate(s, h) \/ StopAtAttention(s, h)
      PROVE  /\ UNCHANGED <<paged, queue, reviewRequired>>
             /\ status[s] \in {"manual", "needs-input"}
             /\ \A t \in Session \ {s} : timer'[t] = timer[t]
             /\ GoesOn(s, g) /\ status'[s] \in {"running", "stopped"}
  <2>1. h = g /\ phase[s][g] \in {"manual", "bootGate", "turnGate", "attention"}
    BY <1>7 DEF StopManual, StopAtGate, StopAtAttention, Gates
  <2>2. UNCHANGED <<paged, queue, reviewRequired>> /\ \A t \in Session \ {s} : timer'[t] = timer[t]
    BY <1>7 DEF StopManual, StopAtGate, StopAtAttention, Cancels, OperatorFrame, slotVars, TypeOK
  <2>3. status[s] \in {"manual", "needs-input"}
    BY <2>1, ShownIs DEF OneRun
  <2>4. CASE StopManual(s, g)
    <3>1. Agrees(status, s)
      BY DEF Agrees, TypeOK
    <3>2. status'[s] = "stopped"
      BY <2>4 DEF StopManual, StopEvent, TypeOK
    <3> QED
      BY <2>2, <2>3, <2>4, <3>1, <3>2, StopEventGoesOn DEF StopManual
  <2>5. CASE StopAtGate(s, g)
    <3>1. phase'[s][g] \in {"boot", "turn"} /\ \A t \in Session \ {s} : phase'[t] = phase[t]
      BY <2>5, MovesTo DEF StopAtGate, AfterGate, Gates
    <3>2. status'[s] = "running" /\ \A t \in Session \ {s} : status'[t] = status[t]
      BY <2>5 DEF StopAtGate, Unparked, TypeOK
    <3> QED
      BY <2>2, <2>3, <3>1, <3>2 DEF GoesOn, Shows
  <2>6. CASE StopAtAttention(s, g)
    <3>1. Unparked(s, status) = [status EXCEPT ![s] = "running"]
      BY <2>6 DEF StopAtAttention, Unparked, TypeOK
    <3>2. Agrees(Unparked(s, status), s)
      BY <3>1, AgreesExcept DEF Status, Active
    <3>3. status'[s] = "stopped"
      BY <2>6, <3>1 DEF StopAtAttention, StopEvent, TypeOK
    <3> QED
      BY <2>2, <2>3, <2>6, <3>2, <3>3, StopEventGoesOn DEF StopAtAttention
  <2> QED
    BY <1>7, <2>1, <2>4, <2>5, <2>6
<1>8. ASSUME NEW h \in Run, StopManual(s, h) \/ StopAtGate(s, h) \/ StopAtAttention(s, h)
      PROVE  /\ phase[s][g] # "none" /\ phase'[s][g] # "none"
             /\ \A t \in Session \ {s} : status'[t] = status[t] /\ phase'[t] = phase[t]
  BY <1>7, <1>8 DEF GoesOn, OneRun
<1> QED
  BY <1>1, <1>2, <1>3, <1>4, <1>5, <1>6, <1>7, <1>8, Zenon DEF Stop

(***************************************************************************)
(* Errors and wakeups.                                                     *)
(***************************************************************************)
\* A session that does not exist yet shows idle.
NewIdle == \A t \in Session : presence[t] = "new" => status[t] = "idle"

\* ErrorNeverSilent for the one run g.
Heard(g) ==
  /\ NewIdle
  /\ \A t \in Session :
       Live(t) /\ status[t] = "error" /\ phase[t][g] = "none" => timer[t] = "heal" \/ paged[t]

LEMMA HeardIs ==
  ASSUME NEW g, Run = {g}, TypeOK
  PROVE  Heard(g) => ErrorNeverSilent
<1>1. \A t \in Session : Alive(t) = {} => phase[t][g] = "none"
  BY DEF Alive, InPhase, TypeOK
<1> QED
  BY <1>1 DEF Heard, ErrorNeverSilent

\* A start, a wakeup or a heal: a request, or nothing but the timer moves.
LEMMA StartIs ==
  ASSUME TypeOK, NEW s \in Session, Start(s) \/ ResumeFires(s) \/ HealFires(s)
  PROVE  /\ \A t \in Session \ {s} : timer'[t] = timer[t]
         /\ \/ Requests(s)
            \/ UNCHANGED <<presence, deps, status, reviewRequired, phase, running, queue,
                           maxConcurrent, paged>>
<1>1. \A t \in Session \ {s} : timer'[t] = timer[t]
  BY DEF Start, ResumeFires, HealFires, TypeOK
<1>2. spent \in BOOLEAN /\ UsageGate \in BOOLEAN
  BY LimitsAssumption DEF TypeOK
<1>3. Requests(s) \/ UNCHANGED <<presence, deps, status, reviewRequired, phase, running, queue,
                                 maxConcurrent, paged>>
  BY <1>2 DEF Start, ResumeFires, HealFires, Requests, healVars, slotVars
<1> QED
  BY <1>1, <1>3

\* If the start, wakeup or heal of a failed session is refused, its operator
\* knows of the failure as before, or is told now.
LEMMA StartHeard ==
  ASSUME NEW g, Run = {g}, TypeOK, OneRun(g), Heard(g), NEW s \in Session,
         Start(s) \/ ResumeFires(s) \/ HealFires(s), Live(s)', status'[s] = "error",
         phase'[s][g] = "none"
  PROVE  timer'[s] = "heal" \/ paged'[s]
<1>1. ASSUME Requests(s)
      PROVE  Live(s) /\ status[s] = "error" /\ phase[s][g] = "none"
  BY <1>1, RequestEffect
<1>2. ASSUME NEW auto \in BOOLEAN, NEW limit \in BOOLEAN,
             NEW pages \in {paged, [paged EXCEPT ![s] = TRUE]},
             CanStart(s), StartRequest(s, auto, limit, pages)
      PROVE  paged' = pages /\ status[s] = "error"
  <2>1. Requests(s) /\ status[s] = "error"
    BY <1>1, <1>2 DEF Requests
  <2>2. ASSUME NEW review, Launch({s}, running, status, phase, review, paged)
        PROVE  FALSE
    BY <2>2 DEF Launch
  <2>3. status' # [status EXCEPT ![s] = "queued"]
    BY DEF TypeOK
  <2> QED
    BY <1>2, <2>1, <2>2, <2>3, Zenon DEF StartRequest
<1>3. spent \in BOOLEAN /\ UsageGate \in BOOLEAN
  BY LimitsAssumption DEF TypeOK
<1>4. CASE Start(s)
  <2>1. paged' = paged /\ Requests(s)
    BY <1>2, <1>3, <1>4 DEF Start, Requests
  <2>2. timer[s] = "heal" \/ paged[s]
    BY <1>1, <2>1 DEF Heard
  <2> QED
    BY <1>4, <2>1, <2>2 DEF Start
<1>5. CASE ResumeFires(s)
  <2>1. CASE Live(s) /\ status[s] = "rate-limited"
    BY <1>2, <1>3, <1>5, <2>1 DEF ResumeFires
  <2>2. CASE ~(Live(s) /\ status[s] = "rate-limited")
    <3>1. UNCHANGED <<presence, status, phase, paged>> /\ timer[s] = "resume"
      BY <1>5, <2>2 DEF ResumeFires, healVars
    <3> QED
      BY <3>1 DEF Heard, Live
  <2> QED
    BY <2>1, <2>2
<1>6. CASE HealFires(s)
  <2>1. CASE Live(s) /\ status[s] = "error"
    <3>1. paged' = [paged EXCEPT ![s] = TRUE]
      BY <1>2, <1>3, <1>6, <2>1 DEF HealFires
    <3> QED
      BY <3>1 DEF TypeOK
  <2>2. CASE ~(Live(s) /\ status[s] = "error")
    <3>1. UNCHANGED <<presence, status>>
      BY <1>6, <2>2 DEF HealFires
    <3> QED
      BY <2>2, <3>1 DEF Live
  <2> QED
    BY <2>1, <2>2
<1> QED
  BY <1>4, <1>5, <1>6

\* SetMaxConcurrent, by its effects.
LEMMA ResizeEffect ==
  ASSUME NEW g, Run = {g}, TypeOK, OneRun(g), NEW cap \in CapChoices, SetMaxConcurrent(cap)
  PROVE  /\ UNCHANGED <<presence, deps, timer, spent>> /\ maxConcurrent' = cap
         /\ \E n \in 0..Len(queue) :
              LET L == Picked(n, status)
              IN  /\ PumpTakes(n, running, status, cap)
                  /\ queue' = SubSeq(queue, n + 1, Len(queue))
                  /\ Launched(g, L, running, status, phase)
                  /\ \A t \in Session \ L : paged'[t] = paged[t] /\ reviewRequired'[t] = reviewRequired[t]
                  /\ \A t \in L : ~reviewRequired'[t]
<1>1. PICK n \in 0..Len(queue) :
        /\ PumpTakes(n, running, status, cap)
        /\ queue' = SubSeq(queue, n + 1, Len(queue))
        /\ Launch(Picked(n, status), running, status, phase, reviewRequired, paged)
  BY DEF SetMaxConcurrent
<1>2. /\ Picked(n, status) \in SUBSET Session
      /\ \A s \in Picked(n, status) : phase[s][g] = "none"
  BY PickedAreQueued, NoRunWhile
<1>3. /\ running \in SUBSET Session /\ status \in [Session -> Status]
      /\ phase \in [Session -> [Run -> Phase]]
      /\ paged \in [Session -> BOOLEAN] /\ reviewRequired \in [Session -> BOOLEAN]
  BY DEF TypeOK
<1>4. Launched(g, Picked(n, status), running, status, phase)
  BY <1>1, <1>2, <1>3, LaunchEffect
<1>5. /\ \A t \in Session \ Picked(n, status) :
           paged'[t] = paged[t] /\ reviewRequired'[t] = reviewRequired[t]
      /\ \A t \in Picked(n, status) : ~reviewRequired'[t]
  BY <1>1, <1>2, <1>3 DEF Launch
<1>6. UNCHANGED <<presence, deps, timer, spent>> /\ maxConcurrent' = cap
  BY DEF SetMaxConcurrent
<1> QED
  BY <1>1, <1>4, <1>5, <1>6

\* Adding a session, changing its dependencies, removing it.
LEMMA EditEffect ==
  ASSUME NEW g, Run = {g}, TypeOK, OneRun(g), NEW s \in Session, Edit(s)
  PROVE  /\ UNCHANGED <<running, queue, maxConcurrent, reviewRequired, paged>>
         /\ \A t \in Session \ {s} : /\ status'[t] = status[t]
                                     /\ phase'[t] = phase[t]
                                     /\ presence'[t] = presence[t]
                                     /\ timer'[t] = timer[t]
                                     /\ deps'[t] = deps[t]
         /\ phase[s][g] = "none" <=> phase'[s][g] = "none"
         /\ \/ presence[s] = "new" /\ presence'[s] = "live" /\ UNCHANGED <<status, phase, timer>>
            \/ /\ Live(s) /\ presence'[s] = "live" /\ UNCHANGED <<phase, timer>>
               /\ \/ UNCHANGED status /\ (status[s] = "blocked" => \E d \in deps'[s] : status[d] # "done")
                  \/ status[s] = "blocked" /\ status'[s] = "idle"
            \/ /\ Live(s) /\ presence'[s] = "removed"
               /\ status'[s] # status[s] => status[s] = "needs-input" /\ status'[s] \in {"running", "stopped"}
               /\ UNCHANGED deps
<1>1. UNCHANGED <<running, queue, maxConcurrent, reviewRequired, paged>>
  BY DEF Edit, AddSession, UpdateDeps, RemoveSession, slotVars, healVars
<1>2. ASSUME NEW D \in DepChoices, AddSession(s, D)
      PROVE  /\ UNCHANGED <<status, phase, timer>>
             /\ presence[s] = "new" /\ presence'[s] = "live"
             /\ \A t \in Session \ {s} : presence'[t] = presence[t] /\ deps'[t] = deps[t]
  BY <1>2 DEF AddSession, TypeOK
<1>3. ASSUME NEW D \in DepChoices, UpdateDeps(s, D)
      PROVE  /\ UNCHANGED <<presence, phase, timer>> /\ Live(s)
             /\ \A t \in Session \ {s} : status'[t] = status[t] /\ deps'[t] = deps[t]
             /\ \/ UNCHANGED status /\ (status[s] = "blocked" => \E d \in deps'[s] : status[d] # "done")
                \/ status[s] = "blocked" /\ status'[s] = "idle"
  <2>1. deps'[s] = D /\ \A t \in Session \ {s} : deps'[t] = deps[t]
    BY <1>3 DEF UpdateDeps, TypeOK
  <2>2. UNCHANGED <<presence, phase, timer>> /\ Live(s)
    BY <1>3 DEF UpdateDeps
  <2>3. CASE status[s] = "blocked" /\ \A d \in D : status[d] = "done"
    <3>1. status' = [status EXCEPT ![s] = "idle"]
      BY <1>3, <2>3 DEF UpdateDeps, TypeOK
    <3> QED
      BY <2>1, <2>2, <2>3, <3>1 DEF TypeOK
  <2>4. CASE ~(status[s] = "blocked" /\ \A d \in D : status[d] = "done")
    <3>1. status' = status
      BY <1>3, <2>4 DEF UpdateDeps, TypeOK
    <3> QED
      BY <2>1, <2>2, <2>4, <3>1
  <2> QED
    BY <2>3, <2>4
<1>4. CASE RemoveSession(s)
  <2>1. /\ phase'[s][g] = IF phase[s][g] = "attention" THEN "closing" ELSE AfterGate(phase[s][g])
        /\ \A t \in Session \ {s} : phase'[t] = phase[t]
    BY <1>4 DEF RemoveSession, TypeOK
  <2>2. phase[s][g] = "none" <=> phase'[s][g] = "none"
    BY <2>1 DEF AfterGate
  <2>3. /\ status'[s] # status[s] => phase[s][g] \in {"attention", "bootGate", "turnGate"}
        /\ status'[s] # status[s] => status'[s] \in {"running", "stopped"}
        /\ \A t \in Session \ {s} : status'[t] = status[t]
    BY <1>4 DEF RemoveSession, InPhase, Unparked, Gates, TypeOK
  <2>4. status'[s] # status[s] => status[s] = "needs-input"
    BY <2>3, ShownIs DEF OneRun
  <2>5. /\ Live(s) /\ presence'[s] = "removed" /\ UNCHANGED deps
        /\ \A t \in Session \ {s} : presence'[t] = presence[t] /\ timer'[t] = timer[t]
    BY <1>4 DEF RemoveSession, TypeOK
  <2> QED
    BY <1>1, <2>1, <2>2, <2>3, <2>4, <2>5
<1> QED
  BY <1>1, <1>2, <1>3, <1>4 DEF Edit, Live

\* What every step is, for the lemmas above.
LEMMA NextIs ==
  ASSUME NEW g \in Run, Run = {g}, [Next]_vars
  PROVE  \/ \E s \in Session :
              \/ Start(s) \/ ResumeFires(s) \/ HealFires(s)
              \/ Event(s, g) \/ RunEnded(s, g) \/ Stop(s) \/ Edit(s)
         \/ \E cap \in CapChoices : SetMaxConcurrent(cap)
         \/ Restart
         \/ UNCHANGED <<presence, deps, status, reviewRequired, timer, paged, running, queue,
                        maxConcurrent, phase>>
BY Zenon DEF Next, vars, BudgetMoves, Event, healVars, slotVars

LEMMA NewIdleKept ==
  ASSUME NEW g \in Run, Run = {g}, TypeOK, OneRun(g), NewIdle, [Next]_vars
  PROVE  NewIdle'
<1> USE DEF NewIdle
<1>1. ASSUME NEW s \in Session, Start(s) \/ ResumeFires(s) \/ HealFires(s)
      PROVE  NewIdle'
  <2>1. CASE Requests(s)
    <3>1. /\ presence[s] = "live" /\ UNCHANGED presence
          /\ \A t \in Session \ {s} : status'[t] = status[t]
      BY <2>1, RequestEffect DEF Live
    <3> QED
      BY <3>1
  <2> QED
    BY <1>1, <2>1, StartIs
<1>2. ASSUME NEW s \in Session, Event(s, g)
      PROVE  NewIdle'
  <2>1. /\ status[s] # "idle" /\ UNCHANGED presence
        /\ \A t \in Session \ {s} : status'[t] = status[t]
    BY <1>2, EventEffect, ShownIs DEF GoesOn, EventFrame, OneRun
  <2> QED
    BY <2>1
<1>3. ASSUME NEW s \in Session, RunEnded(s, g)
      PROVE  NewIdle'
  <2>1. PICK n \in 0..Len(queue), now \in SUBSET Session, wait \in SUBSET Session :
          EndParts(s, g, n, now, wait)
    BY <1>3, EndEffect
  <2>2. \A t \in Picked(n, status) \cup now \cup wait : Live(t)
    BY <2>1 DEF EndParts, Picked
  <2>3. \A t \in Session \ (Picked(n, status) \cup now \cup wait) : status'[t] = status[t]
    BY <2>1 DEF EndParts
  <2>4. UNCHANGED presence
    BY <1>3, EndEffect
  <2> QED
    BY <2>2, <2>3, <2>4 DEF Live
<1>4. ASSUME NEW s \in Session, Stop(s)
      PROVE  NewIdle'
  <2>1. /\ presence[s] = "live" /\ UNCHANGED presence
        /\ \A t \in Session \ {s} : status'[t] = status[t]
    BY <1>4, StopEffect DEF Live
  <2> QED
    BY <2>1
<1>5. ASSUME NEW s \in Session, Edit(s)
      PROVE  NewIdle'
  <2>1. /\ presence'[s] # "new"
        /\ \A t \in Session \ {s} : status'[t] = status[t] /\ presence'[t] = presence[t]
    BY <1>5, EditEffect
  <2> QED
    BY <2>1
<1>6. ASSUME NEW cap \in CapChoices, SetMaxConcurrent(cap)
      PROVE  NewIdle'
  <2>1. PICK n \in 0..Len(queue) : Launched(g, Picked(n, status), running, status, phase)
    BY <1>6, ResizeEffect
  <2>2. UNCHANGED presence /\ \A t \in Picked(n, status) : Live(t)
    BY <1>6, ResizeEffect DEF Picked
  <2> QED
    BY <2>1, <2>2 DEF Launched, Live
<1>7. CASE Restart
  BY <1>7 DEF Restart
<1> QED
  BY <1>1, <1>2, <1>3, <1>4, <1>5, <1>6, <1>7, NextIs

\* What a step does to ErrorNeverSilent, one part of NextIs after the other.
LEMMA HeardKept ==
  ASSUME NEW g \in Run, Run = {g}, TypeOK, OneRun(g), Heard(g), [Next]_vars
  PROVE  Heard(g)'
<1>1. NewIdle'
  BY NewIdleKept DEF Heard
<1> SUFFICES ASSUME NEW t \in Session, Live(t)', status'[t] = "error", phase'[t][g] = "none"
             PROVE  timer'[t] = "heal" \/ paged'[t]
  BY <1>1, Zenon DEF Heard
<1>2. ASSUME Live(t), status[t] = "error", phase[t][g] = "none", timer'[t] = timer[t],
             paged'[t] = paged[t]
      PROVE  timer'[t] = "heal" \/ paged'[t]
  BY <1>2 DEF Heard
<1>3. ASSUME NEW s \in Session, Start(s) \/ ResumeFires(s) \/ HealFires(s)
      PROVE  timer'[t] = "heal" \/ paged'[t]
  <2>1. CASE t = s
    BY <1>3, <2>1, StartHeard
  <2>2. CASE t # s
    <3>1. timer'[t] = timer[t] /\ presence'[t] = presence[t] /\ status'[t] = status[t]
          /\ phase'[t] = phase[t] /\ (paged'[t] = paged[t])
      BY <1>3, <2>2, StartIs, RequestEffect
    <3> QED
      BY <1>2, <3>1 DEF Live
  <2> QED
    BY <2>1, <2>2
<1>4. ASSUME NEW s \in Session, Event(s, g)
      PROVE  timer'[t] = "heal" \/ paged'[t]
  <2>1. /\ phase'[s][g] # "none" /\ UNCHANGED <<presence, paged>>
        /\ \A u \in Session \ {s} : status'[u] = status[u] /\ phase'[u] = phase[u]
    BY <1>4, EventEffect DEF GoesOn, EventFrame
  <2>2. \A u \in Session \ {s} : timer'[u] = timer[u]
    BY <1>4, EventTimer DEF TypeOK
  <2> QED
    BY <1>2, <2>1, <2>2 DEF Live
<1>5. ASSUME NEW s \in Session, RunEnded(s, g)
      PROVE  timer'[t] = "heal" \/ paged'[t]
  <2>1. PICK n \in 0..Len(queue), now \in SUBSET Session, wait \in SUBSET Session :
          EndParts(s, g, n, now, wait)
    BY <1>5, EndEffect
  <2>2. t \notin Picked(n, status) \cup now \cup wait /\ status[t] = "error"
    BY <2>1 DEF EndParts
  <2>3. CASE t = s
    BY <1>5, <2>2, <2>3, EndEffect
  <2>4. CASE t # s
    <3>1. phase'[t] = phase[t] /\ (paged'[t] = paged[t])
      BY <2>1, <2>2, <2>4 DEF EndParts
    <3>2. UNCHANGED presence /\ timer'[t] = timer[t]
      BY <1>5, <2>4, EndEffect
    <3> QED
      BY <1>2, <2>2, <3>1, <3>2 DEF Live
  <2> QED
    BY <2>3, <2>4
<1>6. ASSUME NEW s \in Session, Stop(s)
      PROVE  timer'[t] = "heal" \/ paged'[t]
  <2>1. CASE t = s
    <3>1. /\ status[s] = "error" /\ phase'[s] = phase[s] /\ Live(s)
          /\ paged[s] => paged'[s]
          /\ timer[s] = "heal" => paged'[s]
      BY <1>6, <2>1, StopEffect
    <3> QED
      BY <2>1, <3>1 DEF Heard
  <2>2. CASE t # s
    <3>1. timer'[t] = timer[t] /\ presence'[t] = presence[t] /\ status'[t] = status[t]
          /\ phase'[t] = phase[t] /\ (paged'[t] = paged[t])
      BY <1>6, <2>2, StopEffect
    <3> QED
      BY <1>2, <3>1 DEF Live
  <2> QED
    BY <2>1, <2>2
<1>7. ASSUME NEW s \in Session, Edit(s)
      PROVE  timer'[t] = "heal" \/ paged'[t]
  <2>1. CASE t = s
    <3>1. presence[s] # "new"
      BY <1>7, <2>1, EditEffect DEF Heard, NewIdle
    <3>2. Live(s) /\ status'[s] = status[s] /\ UNCHANGED <<phase, timer, paged>>
      BY <1>7, <2>1, <3>1, EditEffect DEF Live
    <3> QED
      BY <1>2, <2>1, <3>2
  <2>2. CASE t # s
    <3>1. timer'[t] = timer[t] /\ presence'[t] = presence[t] /\ status'[t] = status[t]
          /\ phase'[t] = phase[t] /\ UNCHANGED paged
      BY <1>7, <2>2, EditEffect
    <3> QED
      BY <1>2, <3>1 DEF Live
  <2> QED
    BY <2>1, <2>2
<1>8. ASSUME NEW cap \in CapChoices, SetMaxConcurrent(cap)
      PROVE  timer'[t] = "heal" \/ paged'[t]
  <2>1. PICK n \in 0..Len(queue) :
          /\ Launched(g, Picked(n, status), running, status, phase)
          /\ \A u \in Session \ Picked(n, status) : paged'[u] = paged[u]
    BY <1>8, ResizeEffect
  <2>2. UNCHANGED <<presence, timer>>
    BY <1>8, ResizeEffect
  <2>3. t \notin Picked(n, status)
    BY <2>1 DEF Launched
  <2> QED
    BY <1>2, <2>1, <2>2, <2>3 DEF Launched, Live
<1>9. CASE Restart
  BY <1>9 DEF Restart
<1> QED
  BY <1>2, <1>3, <1>4, <1>5, <1>6, <1>7, <1>8, <1>9, NextIs DEF Live

\* A failed session is never silently dead: whatever the order of ends, stops,
\* restarts, limits and edits, a restart is pending or the operator knows.
THEOREM ErrorsAreHeard ==
  ASSUME NEW g \in Run, Run = {g}
  PROVE  Spec => []ErrorNeverSilent
<1>1. Init => Heard(g)
  BY DEF Init, Heard, NewIdle
<1>2. TypeOK /\ SlotAccounting /\ StatusMatchesRun /\ Heard(g) /\ [Next]_vars => Heard(g)'
  BY OneRunIs, HeardKept
<1>3. TypeOK /\ Heard(g) => ErrorNeverSilent
  BY HeardIs
<1> QED
  BY <1>1, <1>2, <1>3, TypeCorrect, SlotsMatchRuns, StatusesMatchRuns, PTL DEF Spec

\* Wakeups are the /usage gate's alone.
GateOnly(g) ==
  ~UsageGate => \A t \in Session : timer[t] # "resume" /\ phase[t][g] # "usage"

LEMMA TimerOnly ==
  ASSUME TypeOK, [Next]_vars, NEW t \in Session, timer'[t] = "resume"
  PROVE  timer[t] = "resume" \/ \E g \in Run : phase[t][g] = "usage"
<1> USE DEF TypeOK
<1>1. ASSUME NEW s \in Session, Start(s) \/ ResumeFires(s) \/ HealFires(s)
      PROVE  timer[t] = "resume"
  BY <1>1 DEF Start, ResumeFires, HealFires
<1>2. ASSUME NEW s \in Session, NEW g \in Run, RunStep(s, g) \/ Answer(s, g)
      PROVE  timer[t] = "resume" \/ phase[t][g] = "usage"
  <2>1. CASE UsageRead(s, g)
    BY <2>1 DEF UsageRead
  <2>2. CASE RunEnded(s, g)
    <3>1. \E v : timer' = [timer EXCEPT ![s] = IF v THEN "heal" ELSE @]
      BY <2>2, Zenon DEF RunEnded, EndOf, Settles
    <3> QED
      BY <3>1
  <2>3. CASE ~UsageRead(s, g) /\ ~RunEnded(s, g)
    <3>1. UNCHANGED timer
      BY <1>2, <2>3, Zenon DEF RunStep, GateRaised, Booting, BrainAnswers, BrainUnreachable,
         BrainStops, BrainBack, TurnDone, TurnFails, Killed, Answer, GateAnswered, GateTimeout,
         AttentionAnswered, AttentionTimeout, AttentionStopped, ManualMessage, ManualSwitch
    <3> QED
      BY <3>1
  <2> QED
    BY <2>1, <2>2, <2>3
<1>3. ASSUME NEW s \in Session, Stop(s) \/ Edit(s)
      PROVE  timer[t] = "resume"
  <2>1. timer' \in {timer, [timer EXCEPT ![s] = "none"]}
    BY <1>3, Zenon DEF Stop, StopLimited, StopManual, StopQueued, StopAtGate, StopAtAttention,
       StopActive, StopInactive, StopBlocked, Cancels, Edit, AddSession, UpdateDeps, RemoveSession
  <2> QED
    BY <2>1
<1>4. CASE Restart
  BY <1>4 DEF Restart
<1>5. CASE BudgetMoves \/ UNCHANGED vars \/ \E cap \in CapChoices : SetMaxConcurrent(cap)
  BY <1>5 DEF BudgetMoves, vars, SetMaxConcurrent
<1> QED
  BY <1>1, <1>2, <1>3, <1>4, <1>5 DEF Next

\* The wakeup of a session that is paused on a limit finds the reading gone and
\* starts it, queues it or blocks it on a dependency.
LEMMA ResumeLeaves ==
  ASSUME TypeOK, NEW s \in Session, UsageGate, ResumeFires(s),
         Live(s), status[s] = "rate-limited"
  PROVE  status'[s] # "rate-limited"
<1>1. StartRequest(s, FALSE, FALSE, paged)
  BY LimitsAssumption DEF ResumeFires
<1>2. CASE status' = [status EXCEPT ![s] =
                        IF UnmetIn(status, s) # {} \/ Parked(s, FALSE) THEN "blocked" ELSE @]
           /\ Refused(s, FALSE, FALSE)
  BY <1>2 DEF Refused, Parked, TypeOK
<1>3. CASE status' = [status EXCEPT ![s] = "queued"]
  BY <1>3 DEF TypeOK
<1>4. CASE \E review : Launch({s}, running, status, phase, review, paged)
  BY <1>4 DEF Launch
<1> QED
  BY <1>1, <1>2, <1>3, <1>4, Zenon DEF StartRequest

LEMMA WakeupStep ==
  ASSUME NEW g \in Run, Run = {g}, TypeOK, OneRun(g), GateOnly(g), [Next]_vars, NEW t \in Session,
         timer[t] = "resume", timer'[t] # "resume", status[t] = "rate-limited",
         presence'[t] = "live"
  PROVE  status'[t] # "rate-limited"
<1>1. ASSUME NEW s \in Session, Start(s) \/ ResumeFires(s) \/ HealFires(s)
      PROVE  status'[t] # "rate-limited"
  <2>1. t = s /\ ResumeFires(s)
    BY <1>1, StartIs DEF Start, HealFires
  <2>2. Live(s)
    BY <2>1 DEF ResumeFires, Live
  <2> QED
    BY <2>1, <2>2, ResumeLeaves DEF GateOnly
<1>2. ASSUME NEW s \in Session, Event(s, g)
      PROVE  FALSE
  BY <1>2, EventTimer
<1>3. ASSUME NEW s \in Session, RunEnded(s, g)
      PROVE  FALSE
  BY <1>3, EndEffect
<1>4. ASSUME NEW s \in Session, Stop(s)
      PROVE  status'[t] # "rate-limited"
  BY <1>4, StopEffect
<1>5. ASSUME NEW s \in Session, Edit(s)
      PROVE  FALSE
  BY <1>5, EditEffect DEF Live
<1>6. ASSUME NEW cap \in CapChoices, SetMaxConcurrent(cap)
      PROVE  FALSE
  BY <1>6, ResizeEffect
<1>7. CASE Restart
  BY <1>7 DEF Restart
<1> QED
  BY <1>1, <1>2, <1>3, <1>4, <1>5, <1>6, <1>7, NextIs

\* A session paused on a spent limit keeps its wakeup as long as it is paused:
\* no heal, start, end, edit or stop takes the one timer slot it shares with
\* self-heal and leaves it rate-limited.
THEOREM LimitPausesKeepWakeup ==
  ASSUME NEW g \in Run, Run = {g}
  PROVE  Spec => LimitPauseKeepsWakeup
<1>1. Init => GateOnly(g)
  BY DEF Init, GateOnly
<1>2. TypeOK /\ GateOnly(g) /\ [Next]_vars => GateOnly(g)'
  BY NextMay, TimerOnly DEF GateOnly, AllMayCome, MayCome
<1>3. TypeOK /\ SlotAccounting /\ StatusMatchesRun /\ GateOnly(g) /\ [Next]_vars =>
        [\A s \in Session :
           /\ timer[s] = "resume" /\ timer'[s] # "resume"
           /\ status[s] = "rate-limited" /\ presence'[s] = "live"
           => status'[s] # "rate-limited"]_vars
  BY OneRunIs, WakeupStep
<1> QED
  BY <1>1, <1>2, <1>3, TypeCorrect, SlotsMatchRuns, StatusesMatchRuns, PTL DEF Spec, LimitPauseKeepsWakeup

(***************************************************************************)
(* Dependencies.                                                           *)
(***************************************************************************)
LEMMA OrderStep ==
  ASSUME NEW g \in Run, Run = {g}, TypeOK, OneRun(g), [Next]_vars, NEW t \in Session,
         status[t] \notin Active, status'[t] \in {"running", "queued"}
  PROVE  UnmetIn(status, t) = {}
<1>1. status'[t] # status[t] /\ "queued" \in Active
  BY DEF Active
<1>2. ASSUME NEW s \in Session, Start(s) \/ ResumeFires(s) \/ HealFires(s)
      PROVE  UnmetIn(status, t) = {}
  BY <1>1, <1>2, StartIs, RequestEffect
<1>3. ASSUME NEW s \in Session, Event(s, g)
      PROVE  FALSE
  <2>1. status[s] \in Active
    BY <1>3, EventEffect DEF OneRun, Shows, Active
  <2>2. \A u \in Session \ {s} : status'[u] = status[u]
    BY <1>3, EventEffect DEF GoesOn
  <2> QED
    BY <1>1, <2>1, <2>2
<1>4. ASSUME NEW s \in Session, RunEnded(s, g)
      PROVE  UnmetIn(status, t) = {}
  <2>1. PICK n \in 0..Len(queue), now \in SUBSET Session, wait \in SUBSET Session :
          EndParts(s, g, n, now, wait)
    BY <1>4, EndEffect
  <2>2. t \in Picked(n, status) \cup now \cup wait
    BY <1>1, <2>1 DEF EndParts
  <2>3. t \notin Picked(n, status)
    BY <1>1, PickedAreQueued
  <2> QED
    BY <2>1, <2>2, <2>3 DEF EndParts
<1>5. ASSUME NEW s \in Session, Stop(s)
      PROVE  FALSE
  BY <1>1, <1>5, StopEffect DEF Active
<1>6. ASSUME NEW s \in Session, Edit(s)
      PROVE  FALSE
  BY <1>1, <1>6, EditEffect DEF Active
<1>7. ASSUME NEW cap \in CapChoices, SetMaxConcurrent(cap)
      PROVE  FALSE
  <2>1. PICK n \in 0..Len(queue) : Launched(g, Picked(n, status), running, status, phase)
    BY <1>7, ResizeEffect
  <2>2. t \in Picked(n, status)
    BY <1>1, <2>1 DEF Launched
  <2> QED
    BY <1>1, <2>2, PickedAreQueued
<1>8. CASE Restart
  BY <1>8 DEF Restart
<1> QED
  BY <1>1, <1>2, <1>3, <1>4, <1>5, <1>6, <1>7, <1>8, NextIs

\* Whoever asks for a start, a wakeup, a heal or a promotion included, a session
\* is launched or queued only when all that it depends on is done.
THEOREM WorkflowsInOrder ==
  ASSUME NEW g \in Run, Run = {g}
  PROVE  Spec => WorkflowOrder
<1>1. TypeOK /\ SlotAccounting /\ StatusMatchesRun /\ [Next]_vars =>
        [\A s \in Session :
           status[s] \notin Active /\ status'[s] \in {"running", "queued"}
             => \A d \in deps[s] : Live(d) => status[d] = "done"]_vars
  <2> SUFFICES ASSUME TypeOK, OneRun(g), [Next]_vars, NEW s \in Session,
                      status[s] \notin Active, status'[s] \in {"running", "queued"},
                      NEW d \in deps[s], Live(d)
               PROVE  status[d] = "done"
    BY OneRunIs
  <2> QED
    BY OrderStep DEF UnmetIn
<1> QED
  BY <1>1, TypeCorrect, SlotsMatchRuns, StatusesMatchRuns, PTL DEF Spec, WorkflowOrder

\* d is a reason for a session that depends on it to be blocked.
HoldsUp(d, g) == presence[d] = "removed" \/ status[d] # "done" \/ phase[d][g] # "none"

\* BlockedForAReason for the one run g, when no session is parked on its depth.
HeldUp(g) ==
  /\ NewIdle
  /\ \A t \in Session : ~reviewRequired[t]
  /\ \A t \in Session :
       Live(t) /\ status[t] = "blocked" => \E d \in deps[t] : HoldsUp(d, g)

\* Only the depth cap parks a session for a review.
LEMMA ReviewOnly ==
  ASSUME TypeOK, [Next]_vars, \A t \in Session : ~reviewRequired[t] /\ ~OverDepth(t)
  PROVE  \A t \in Session : ~reviewRequired'[t]
<1> USE DEF TypeOK
<1>1. ASSUME NEW s \in Session, Start(s) \/ ResumeFires(s) \/ HealFires(s)
      PROVE  \A t \in Session : ~reviewRequired'[t]
  <2>1. CASE UNCHANGED reviewRequired
    BY <2>1
  <2>2. ASSUME NEW auto, NEW limit, NEW pages, StartRequest(s, auto, limit, pages)
        PROVE  \A t \in Session : ~reviewRequired'[t]
    <3> DEFINE review == IF auto THEN reviewRequired ELSE [reviewRequired EXCEPT ![s] = FALSE]
    <3>1. \A t \in Session : ~review[t]
      OBVIOUS
    <3>2. ~Parked(s, auto)
      BY DEF Parked
    <3>3. reviewRequired' = review \/ \E L, i, st, ph, pg : Launch(L, i, st, ph, review, pg)
      BY <2>2, <3>2, Zenon DEF StartRequest
    <3> HIDE DEF review
    <3> QED
      BY <3>1, <3>3 DEF Launch
  <2> QED
    BY <1>1, <2>1, <2>2, Zenon DEF Start, ResumeFires, HealFires
<1>2. ASSUME NEW s \in Session, NEW g \in Run, RunStep(s, g) \/ Answer(s, g)
      PROVE  \A t \in Session : ~reviewRequired'[t]
  <2>1. CASE RunEnded(s, g)
    <3>1. PICK n \in 0..Len(queue), now \in SUBSET Session, restartable \in {FALSE, CanHeal(s)} :
            EndOf(s, g, n, now, restartable)
      BY <2>1 DEF RunEnded
    <3> DEFINE ended == [status EXCEPT ![s] = IF @ = "running" THEN "done" ELSE @]
               ready == IF ended[s] = "done" THEN Promotable(ended) ELSE {}
               deep == {t \in ready : OverDepth(t)}
               review == [t \in Session |-> reviewRequired[t] \/ t \in deep]
    <3>2. PICK L, i, st, ph, pg : Launch(L, i, st, ph, review, pg)
      BY <3>1, Zenon DEF EndOf
    <3>3. \A t \in Session : ~review[t]
      OBVIOUS
    <3> HIDE DEF review
    <3> QED
      BY <3>2, <3>3 DEF Launch
  <2>2. CASE ~RunEnded(s, g)
    <3>1. UNCHANGED reviewRequired
      BY <1>2, <2>2, Zenon DEF RunStep, GateRaised, Booting, UsageRead, BrainAnswers,
         BrainUnreachable, BrainStops, BrainBack, TurnDone, TurnFails, Killed, RunFrame, Answer,
         GateAnswered, GateTimeout, AttentionAnswered, AttentionTimeout, AttentionStopped,
         ManualMessage, ManualSwitch, OperatorFrame
    <3> QED
      BY <3>1
  <2> QED
    BY <2>1, <2>2
<1>3. ASSUME NEW s \in Session, Stop(s) \/ Edit(s)
      PROVE  \A t \in Session : ~reviewRequired'[t]
  <2>1. reviewRequired' \in {reviewRequired, [reviewRequired EXCEPT ![s] = FALSE]}
    BY <1>3, Zenon DEF Stop, StopLimited, StopManual, StopQueued, StopAtGate, StopAtAttention,
       StopActive, StopInactive, StopBlocked, Cancels, OperatorFrame, Edit, AddSession, UpdateDeps,
       RemoveSession
  <2> QED
    BY <2>1
<1>4. ASSUME NEW cap \in CapChoices, SetMaxConcurrent(cap)
      PROVE  \A t \in Session : ~reviewRequired'[t]
  BY <1>4 DEF SetMaxConcurrent, Launch
<1>5. CASE Restart \/ BudgetMoves \/ UNCHANGED vars
  BY <1>5 DEF Restart, BudgetMoves, vars
<1> QED
  BY <1>1, <1>2, <1>3, <1>4, <1>5 DEF Next

\* A reason holds as long as it is not the end of its own run.
LEMMA ReasonStays ==
  ASSUME NEW g \in Run, Run = {g}, TypeOK, OneRun(g), [Next]_vars, NEW d \in Session,
         HoldsUp(d, g), ~RunEnded(d, g)
  PROVE  HoldsUp(d, g)'
<1> USE DEF HoldsUp
<1>1. ASSUME presence'[d] = presence[d], phase'[d] = phase[d], status'[d] = status[d]
      PROVE  HoldsUp(d, g)'
  BY <1>1
<1>2. ASSUME NEW s \in Session, Start(s) \/ ResumeFires(s) \/ HealFires(s)
      PROVE  HoldsUp(d, g)'
  <2>1. CASE Requests(s)
    <3>1. UNCHANGED presence
      BY <2>1, RequestEffect
    <3>2. CASE d = s
      BY <2>1, <3>1, <3>2, RequestEffect
    <3>3. CASE d # s
      BY <1>1, <2>1, <3>1, <3>3, RequestEffect
    <3> QED
      BY <3>2, <3>3
  <2> QED
    BY <1>1, <1>2, <2>1, StartIs
<1>3. ASSUME NEW s \in Session, Event(s, g)
      PROVE  HoldsUp(d, g)'
  BY <1>1, <1>3, EventEffect DEF GoesOn, EventFrame
<1>4. ASSUME NEW s \in Session, RunEnded(s, g)
      PROVE  HoldsUp(d, g)'
  <2>1. PICK n \in 0..Len(queue), now \in SUBSET Session, wait \in SUBSET Session :
          EndParts(s, g, n, now, wait)
    BY <1>4, EndEffect
  <2>2. UNCHANGED presence /\ d # s
    BY <1>4, EndEffect
  <2>3. CASE d \in Picked(n, status) \cup now \cup wait
    BY <2>1, <2>3 DEF EndParts
  <2>4. CASE d \notin Picked(n, status) \cup now \cup wait
    BY <1>1, <2>1, <2>2, <2>4 DEF EndParts
  <2> QED
    BY <2>3, <2>4
<1>5. ASSUME NEW s \in Session, Stop(s)
      PROVE  HoldsUp(d, g)'
  <2>1. UNCHANGED presence
    BY <1>5, StopEffect
  <2>2. CASE d = s
    BY <1>1, <1>5, <2>1, <2>2, StopEffect
  <2>3. CASE d # s
    BY <1>1, <1>5, <2>1, <2>3, StopEffect
  <2> QED
    BY <2>2, <2>3
<1>6. ASSUME NEW s \in Session, Edit(s)
      PROVE  HoldsUp(d, g)'
  BY <1>6, EditEffect DEF Live
<1>7. ASSUME NEW cap \in CapChoices, SetMaxConcurrent(cap)
      PROVE  HoldsUp(d, g)'
  <2>1. PICK n \in 0..Len(queue) : Launched(g, Picked(n, status), running, status, phase)
    BY <1>7, ResizeEffect
  <2>2. UNCHANGED presence
    BY <1>7, ResizeEffect
  <2> QED
    BY <1>1, <2>1, <2>2 DEF Launched
<1>8. CASE Restart
  BY <1>8 DEF Restart
<1> QED
  BY <1>1, <1>2, <1>3, <1>4, <1>5, <1>6, <1>7, <1>8, NextIs

LEMMA HeldUpKept ==
  ASSUME NEW g \in Run, Run = {g}, TypeOK, OneRun(g), \A t \in Session : ~OverDepth(t),
         HeldUp(g), [Next]_vars
  PROVE  HeldUp(g)'
<1>1. NewIdle' /\ \A t \in Session : ~reviewRequired'[t]
  BY NewIdleKept, ReviewOnly DEF HeldUp
<1> SUFFICES ASSUME NEW t \in Session, Live(t)', status'[t] = "blocked"
             PROVE  \E d \in deps'[t] : HoldsUp(d, g)'
  BY <1>1 DEF HeldUp
<1>2. deps[t] \subseteq Session
  BY DEF TypeOK
<1>3. ASSUME deps'[t] = deps[t], NEW d \in deps[t], HoldsUp(d, g), ~RunEnded(d, g)
      PROVE  \E e \in deps'[t] : HoldsUp(e, g)'
  BY <1>2, <1>3, ReasonStays
<1>4. ASSUME deps'[t] = deps[t], Live(t), status[t] = "blocked", \A s \in Session : ~RunEnded(s, g)
      PROVE  \E d \in deps'[t] : HoldsUp(d, g)'
  <2>1. PICK d \in deps[t] : HoldsUp(d, g)
    BY <1>4 DEF HeldUp
  <2> QED
    BY <1>2, <1>3, <1>4, <2>1
<1>5. ASSUME NEW s \in Session, RunEnded(s, g)
      PROVE  \E d \in deps'[t] : HoldsUp(d, g)'
  <2>1. PICK n \in 0..Len(queue), now \in SUBSET Session, wait \in SUBSET Session :
          EndParts(s, g, n, now, wait)
    BY <1>5, EndEffect
  <2>2. UNCHANGED <<presence, deps>>
    BY <1>5, EndEffect
  <2>3. t \notin Picked(n, status) \cup now \cup wait /\ status[t] = "blocked" /\ Live(t)
    BY <2>1, <2>2 DEF EndParts, Live
  <2>4. s \notin Picked(n, status) \cup now \cup wait
    <3>1. status[s] \notin {"queued", "blocked"}
      BY <1>5, EndEffect
    <3> QED
      BY <2>1, <3>1, PickedAreQueued DEF EndParts
  <2>5. status'[s] = status[s]
    BY <2>1, <2>4 DEF EndParts
  <2>6. \A d \in Session \ {s} : HoldsUp(d, g) => HoldsUp(d, g)'
    <3> SUFFICES ASSUME NEW d \in Session \ {s}, HoldsUp(d, g) PROVE HoldsUp(d, g)'
      OBVIOUS
    <3>1. CASE d \in Picked(n, status) \cup now \cup wait
      BY <2>1, <3>1 DEF EndParts, HoldsUp
    <3>2. CASE d \notin Picked(n, status) \cup now \cup wait
      BY <2>1, <2>2, <3>2 DEF EndParts, HoldsUp
    <3> QED
      BY <3>1, <3>2
  <2>7. CASE status[s] = "done"
    <3>1. t \notin Promotable(status)
      BY <1>1, <2>1, <2>3, <2>7 DEF EndParts
    <3>2. PICK d \in deps[t] : Live(d) /\ status[d] # "done"
      BY <2>3, <3>1 DEF Promotable, UnmetIn, HeldUp
    <3> QED
      BY <1>2, <2>2, <2>6, <2>7, <3>2 DEF HoldsUp
  <2>8. CASE status[s] # "done"
    <3>1. PICK d \in deps[t] : HoldsUp(d, g)
      BY <2>3 DEF HeldUp
    <3>2. HoldsUp(s, g)'
      BY <2>5, <2>8 DEF HoldsUp
    <3> QED
      BY <1>2, <2>2, <2>6, <3>1, <3>2
  <2> QED
    BY <2>7, <2>8
<1>6. ASSUME \A s \in Session : ~RunEnded(s, g),
             NEW s \in Session, Start(s) \/ ResumeFires(s) \/ HealFires(s)
      PROVE  \E d \in deps'[t] : HoldsUp(d, g)'
  <2>1. CASE Requests(s) /\ t = s /\ status[t] # "blocked"
    <3>1. UnmetIn(status, t) # {} /\ UNCHANGED deps
      BY <2>1, RequestEffect
    <3>2. PICK d \in deps[t] : Live(d) /\ status[d] # "done"
      BY <3>1 DEF UnmetIn
    <3> QED
      BY <1>2, <1>3, <1>6, <3>1, <3>2 DEF HoldsUp
  <2>2. CASE status[t] = "blocked" \/ ~(Requests(s) /\ t = s)
    <3>1. status[t] = "blocked" /\ UNCHANGED <<presence, deps>>
      BY <1>6, <2>2, StartIs, RequestEffect
    <3> QED
      BY <1>4, <1>6, <3>1 DEF Live
  <2> QED
    BY <2>1, <2>2
<1>7. ASSUME \A s \in Session : ~RunEnded(s, g), NEW s \in Session, Event(s, g)
      PROVE  \E d \in deps'[t] : HoldsUp(d, g)'
  <2>1. UNCHANGED <<presence, deps>> /\ status'[s] # "blocked"
        /\ \A u \in Session \ {s} : status'[u] = status[u]
    BY <1>7, EventEffect, ShownIs DEF GoesOn, EventFrame, Shows
  <2> QED
    BY <1>4, <1>7, <2>1 DEF Live
<1>8. ASSUME \A s \in Session : ~RunEnded(s, g), NEW s \in Session, Stop(s)
      PROVE  \E d \in deps'[t] : HoldsUp(d, g)'
  <2>1. UNCHANGED <<presence, deps>> /\ status[t] = "blocked"
    BY <1>8, StopEffect
  <2> QED
    BY <1>4, <1>8, <2>1 DEF Live
<1>9. ASSUME \A s \in Session : ~RunEnded(s, g), NEW s \in Session, Edit(s)
      PROVE  \E d \in deps'[t] : HoldsUp(d, g)'
  <2>1. status[t] = "blocked"
    BY <1>9, EditEffect
  <2>2. CASE t = s
    <3>1. presence[t] # "new"
      BY <2>1 DEF HeldUp, NewIdle
    <3>2. Live(t) /\ status'[t] = status[t] /\ presence'[t] = "live" /\ UNCHANGED status
      BY <1>9, <2>1, <2>2, <3>1, EditEffect DEF Live
    <3>3. \E d \in deps'[t] : status[d] # "done"
      BY <1>9, <2>1, <2>2, <3>1, <3>2, EditEffect
    <3> QED
      BY <3>2, <3>3 DEF HoldsUp
  <2>3. CASE t # s
    <3>1. presence'[t] = presence[t] /\ deps'[t] = deps[t]
      BY <1>9, <2>3, EditEffect
    <3> QED
      BY <1>4, <1>9, <2>1, <3>1 DEF Live
  <2> QED
    BY <2>2, <2>3
<1>10. ASSUME \A s \in Session : ~RunEnded(s, g), NEW cap \in CapChoices, SetMaxConcurrent(cap)
       PROVE  \E d \in deps'[t] : HoldsUp(d, g)'
  <2>1. PICK n \in 0..Len(queue) : Launched(g, Picked(n, status), running, status, phase)
    BY <1>10, ResizeEffect
  <2>2. UNCHANGED <<presence, deps>>
    BY <1>10, ResizeEffect
  <2>3. status[t] = "blocked"
    BY <2>1 DEF Launched
  <2> QED
    BY <1>4, <1>10, <2>2, <2>3 DEF Live
<1>11. CASE Restart
  BY <1>11 DEF Restart
<1> QED
  BY <1>4, <1>5, <1>6, <1>7, <1>8, <1>9, <1>10, <1>11, NextIs DEF Live

\* An edit the supervisor accepts closes no circle: one through s would go on
\* from D inside the closed set that holds D and not s.
LEMMA EditsCloseNoCircle ==
  ASSUME TypeOK, Acyclic, NEW s \in Session, NEW D \in SUBSET Session, NormalDeps(s, D),
         deps' = [deps EXCEPT ![s] = D],
         \A t \in Session \ {s} : presence'[t] = presence[t]
  PROVE  Acyclic'
<1>1. deps \in [Session -> SUBSET Session] /\ deps' \in [Session -> SUBSET Session]
  BY DEF TypeOK
<1>2. deps'[s] = D /\ \A t \in Session \ {s} : deps'[t] = deps[t]
  BY <1>1
<1>3. SUFFICES ASSUME NEW C \in SUBSET Session, C # {}, \A c \in C : Live(c)'
               PROVE  \E c \in C : deps'[c] \cap C = {}
  BY DEF Acyclic
<1>4. CASE s \notin C
  <2>1. \A c \in C : Live(c)
    BY <1>3, <1>4 DEF Live
  <2>2. PICK c \in C : deps[c] \cap C = {}
    BY <1>3, <2>1 DEF Acyclic
  <2> QED
    BY <1>2, <1>4, <2>2
<1>5. CASE s \in C
  <2>1. PICK K \in SUBSET Session : D \subseteq K /\ s \notin K /\ \A c \in K : Live(c) => deps[c] \subseteq K
    BY DEF NormalDeps
  <2>2. CASE K \cap C = {}
    BY <1>2, <1>5, <2>1, <2>2
  <2>3. CASE K \cap C # {}
    <3>1. \A c \in K \cap C : Live(c)
      BY <1>3, <2>1 DEF Live
    <3>2. PICK c \in K \cap C : deps[c] \cap (K \cap C) = {}
      <4>1. K \cap C \in SUBSET Session
        OBVIOUS
      <4> QED
        BY <2>3, <3>1, <4>1 DEF Acyclic
    <3>3. deps[c] \subseteq K /\ deps'[c] = deps[c]
      BY <1>2, <2>1, <3>1
    <3> QED
      BY <3>2, <3>3
  <2> QED
    BY <2>2, <2>3
<1> QED
  BY <1>4, <1>5

\* No other step touches an edge, and a removed session only takes one away.
LEMMA AcyclicKept ==
  ASSUME TypeOK, Acyclic, [Next]_vars
  PROVE  Acyclic'
<1>1. CASE UNCHANGED <<presence, deps>>
  BY <1>1 DEF Acyclic, Live
<1>2. ASSUME NEW s \in Session, NEW D \in DepChoices, AddSession(s, D) \/ UpdateDeps(s, D)
      PROVE  Acyclic'
  <2>1. D \in SUBSET Session
    BY SessionsAssumption
  <2>2. /\ NormalDeps(s, D) /\ deps' = [deps EXCEPT ![s] = D]
        /\ presence' = [presence EXCEPT ![s] = "live"] \/ UNCHANGED presence
    BY <1>2 DEF AddSession, UpdateDeps
  <2>3. \A t \in Session \ {s} : presence'[t] = presence[t]
    BY <2>2 DEF TypeOK
  <2> QED
    BY <2>1, <2>2, <2>3, EditsCloseNoCircle
<1>3. ASSUME NEW s \in Session, RemoveSession(s)
      PROVE  Acyclic'
  <2>1. \A t \in Session : Live(t)' => Live(t)
    BY <1>3 DEF RemoveSession, Live, TypeOK
  <2>2. UNCHANGED deps
    BY <1>3 DEF RemoveSession
  <2> QED
    BY <2>1, <2>2 DEF Acyclic
<1>4. ASSUME NEW s \in Session,
             Start(s) \/ ResumeFires(s) \/ HealFires(s) \/ Stop(s)
      PROVE  UNCHANGED <<presence, deps>>
  <2>1. ASSUME NEW auto, NEW limit, NEW pages, StartRequest(s, auto, limit, pages)
        PROVE  UNCHANGED <<presence, deps>>
    BY <2>1, Zenon DEF StartRequest
  <2>2. CASE Start(s)
    BY <2>1, <2>2, Zenon DEF Start
  <2>3. CASE ResumeFires(s)
    BY <2>3, Zenon DEF ResumeFires, StartRequest
  <2>4. CASE HealFires(s)
    BY <2>4, Zenon DEF HealFires, StartRequest
  <2>5. CASE StopLimited(s) \/ StopQueued(s) \/ StopActive(s)
    BY <2>5, SMT DEF StopLimited, StopQueued, StopActive, Cancels, OperatorFrame
  <2>6. CASE StopInactive(s) \/ StopBlocked(s)
    BY <2>6, SMT DEF StopInactive, StopBlocked, Cancels, OperatorFrame
  <2>7. ASSUME NEW g \in Run, StopManual(s, g) \/ StopAtGate(s, g) \/ StopAtAttention(s, g)
        PROVE  UNCHANGED <<presence, deps>>
    BY <2>7, Zenon DEF StopManual, StopAtGate, StopAtAttention, Cancels, OperatorFrame
  <2> QED
    BY <1>4, <2>2, <2>3, <2>4, <2>5, <2>6, <2>7, Zenon DEF Stop
<1>5. ASSUME NEW s \in Session, NEW g \in Run, RunStep(s, g) \/ Answer(s, g)
      PROVE  UNCHANGED <<presence, deps>>
  <2>1. CASE RunEnded(s, g)
    BY <2>1, Zenon DEF RunEnded, EndOf
  <2>2. CASE ~RunEnded(s, g)
    BY <1>5, <2>2, Zenon DEF RunStep, GateRaised, Booting, UsageRead, BrainAnswers,
       BrainUnreachable, BrainStops, BrainBack, TurnDone, TurnFails, Killed, RunFrame, Answer,
       GateAnswered, GateTimeout, AttentionAnswered, AttentionTimeout, AttentionStopped,
       ManualMessage, ManualSwitch, OperatorFrame
  <2> QED
    BY <2>1, <2>2
<1>6. CASE \E cap \in CapChoices : SetMaxConcurrent(cap)
  BY <1>1, <1>6, Zenon DEF SetMaxConcurrent
<1>7. CASE BudgetMoves \/ Restart \/ UNCHANGED vars
  BY <1>1, <1>7, Zenon DEF BudgetMoves, Restart, vars
<1> QED
  BY <1>1, <1>2, <1>3, <1>4, <1>5, <1>6, <1>7, Zenon DEF Next, Edit

\* addSession() and setDependencies() refuse what normalizeDeps() finds circular,
\* and nothing else adds an edge: if the dependencies the supervisor came up with
\* hold no circle of live sessions, they never do.
THEOREM NobodyWaitsInACircle == Acyclic /\ Spec => []Acyclic
BY TypeCorrect, AcyclicKept, PTL DEF Spec

\* Without a depth cap and from dependencies that are not circular, sessions
\* blocked on their dependencies wait for one outside their own number: no order
\* of finishing, promoting, stopping, editing and restarting leaves one behind
\* that nothing will promote, or several that wait for each other.
THEOREM BlockedWaitForSomething ==
  ASSUME NEW g \in Run, Run = {g}, DepthCap = 0
  PROVE  Acyclic /\ Spec => []BlockedForAReason
<1>1. Init => HeldUp(g)
  BY DEF Init, HeldUp, NewIdle
<1>2. \A t \in Session : ~OverDepth(t)
  BY DEF OverDepth
<1>3. TypeOK /\ SlotAccounting /\ StatusMatchesRun /\ HeldUp(g) /\ [Next]_vars => HeldUp(g)'
  BY <1>2, OneRunIs, HeldUpKept
<1>4. TypeOK /\ HeldUp(g) /\ Acyclic => BlockedForAReason
  <2> SUFFICES ASSUME TypeOK, HeldUp(g), Acyclic, NEW B \in SUBSET Session, B # {},
                      \A s \in B : Live(s) /\ status[s] = "blocked" /\ ~reviewRequired[s]
               PROVE  \E s \in B : \E d \in deps[s] \ B :
                        presence[d] = "removed" \/ status[d] # "done" \/ Alive(d) # {}
    BY DEF BlockedForAReason
  <2>1. PICK s \in B : deps[s] \cap B = {}
    BY DEF Acyclic
  <2>2. PICK d \in deps[s] : HoldsUp(d, g)
    BY DEF HeldUp
  <2>3. d \in Session /\ d \notin B
    BY <2>1 DEF TypeOK
  <2>4. phase[d][g] # "none" => Alive(d) # {}
    BY <2>3 DEF Alive, InPhase, TypeOK
  <2> QED
    BY <2>2, <2>3, <2>4 DEF HoldsUp
<1> QED
  BY <1>1, <1>3, <1>4, TypeCorrect, SlotsMatchRuns, StatusesMatchRuns, NobodyWaitsInACircle,
     PTL DEF Spec

(***************************************************************************)
(* The queue.                                                              *)
(***************************************************************************)
Distinct(q) == \A i, j \in DOMAIN q : q[i] = q[j] => i = j

\* What is left of a queue that gives up its first n.
LEMMA RestOf ==
  ASSUME NEW q \in Seq(Session), Distinct(q), NEW n \in 0..Len(q)
  PROVE  /\ SubSeq(q, n + 1, Len(q)) \in Seq(Session)
         /\ Distinct(SubSeq(q, n + 1, Len(q)))
         /\ ToSet(SubSeq(q, n + 1, Len(q))) = ToSet(q) \ {q[i] : i \in 1..n}
<1> DEFINE r == SubSeq(q, n + 1, Len(q))
<1>1. Len(q) \in Nat /\ DOMAIN q = 1..Len(q) /\ \A i \in 1..Len(q) : q[i] \in Session
  BY LenProperties, ElementOfSeq
<1>2. r \in Seq(Session) /\ DOMAIN r = 1..(Len(q) - n)
  BY <1>1, SubSeqProperties, LenProperties
<1>3. \A i \in 1..(Len(q) - n) : r[i] = q[i + n]
  <2>1. n + 1 \in Int /\ Len(q) \in Int /\ \A i \in (n + 1)..Len(q) : q[i] \in Session
    BY <1>1
  <2>2. \A i \in 1..(Len(q) - (n + 1) + 1) : r[i] = q[(n + 1) + i - 1]
    BY <2>1, SubSeqProperties
  <2>3. \A i \in 1..(Len(q) - n) : (n + 1) + i - 1 = i + n
    BY <1>1
  <2>4. Len(q) - (n + 1) + 1 = Len(q) - n
    BY <1>1
  <2> QED
    BY <2>2, <2>3, <2>4
<1> HIDE DEF r
<1>4. Distinct(r)
  <2> SUFFICES ASSUME NEW i \in DOMAIN r, NEW j \in DOMAIN r, r[i] = r[j] PROVE i = j
    BY DEF Distinct
  <2>1. i \in Int /\ j \in Int /\ n \in Int /\ i + n \in DOMAIN q /\ j + n \in DOMAIN q
    BY <1>1, <1>2
  <2>2. q[i + n] = q[j + n]
    BY <1>2, <1>3
  <2>3. i + n = j + n
    BY <2>1, <2>2 DEF Distinct
  <2> QED
    BY <2>1, <2>3
<1>5. \A x \in ToSet(r) : \E i \in (n + 1)..Len(q) : q[i] = x
  <2> SUFFICES ASSUME NEW j \in DOMAIN r PROVE \E i \in (n + 1)..Len(q) : q[i] = r[j]
    BY DEF ToSet
  <2>1. j + n \in (n + 1)..Len(q)
    BY <1>1, <1>2
  <2> QED
    BY <1>2, <1>3, <2>1
<1>6. \A i \in (n + 1)..Len(q) : q[i] \in ToSet(r)
  <2> SUFFICES ASSUME NEW i \in (n + 1)..Len(q) PROVE q[i] \in ToSet(r)
    OBVIOUS
  <2>1. i - n \in DOMAIN r /\ r[i - n] = q[i]
    BY <1>1, <1>2, <1>3
  <2> QED
    BY <2>1 DEF ToSet
<1>7. \A x \in ToSet(r) : x \in ToSet(q) /\ \A i \in 1..n : q[i] # x
  <2> SUFFICES ASSUME NEW x \in ToSet(r) PROVE x \in ToSet(q) /\ \A i \in 1..n : q[i] # x
    OBVIOUS
  <2>1. PICK k \in (n + 1)..Len(q) : q[k] = x
    BY <1>5
  <2>2. k \in DOMAIN q /\ \A i \in 1..n : i \in DOMAIN q /\ i # k
    BY <1>1
  <2> QED
    BY <2>1, <2>2 DEF ToSet, Distinct
<1>8. \A x \in ToSet(q) : (\A i \in 1..n : q[i] # x) => x \in ToSet(r)
  <2> SUFFICES ASSUME NEW k \in DOMAIN q, \A i \in 1..n : q[i] # q[k] PROVE q[k] \in ToSet(r)
    BY DEF ToSet
  <2>1. k \in (n + 1)..Len(q)
    BY <1>1
  <2> QED
    BY <1>6, <2>1
<1>9. ToSet(r) = ToSet(q) \ {q[i] : i \in 1..n}
  BY <1>7, <1>8
<1> QED
  BY <1>2, <1>4, <1>9 DEF r

LEMMA ConcatOf ==
  ASSUME NEW q \in Seq(Session), NEW r \in Seq(Session), Distinct(q), Distinct(r),
         ToSet(q) \cap ToSet(r) = {}
  PROVE  Distinct(q \o r) /\ ToSet(q \o r) = ToSet(q) \cup ToSet(r)
<1>1. /\ Len(q) \in Nat /\ DOMAIN q = 1..Len(q) /\ Len(r) \in Nat /\ DOMAIN r = 1..Len(r)
      /\ DOMAIN (q \o r) = 1..(Len(q) + Len(r))
  BY LenProperties, ConcatProperties
<1>2. \A i \in 1..(Len(q) + Len(r)) : (q \o r)[i] = IF i <= Len(q) THEN q[i] ELSE r[i - Len(q)]
  BY ConcatProperties
<1> DEFINE c == q \o r
<1> HIDE DEF c
<1>3. /\ \A i \in 1..Len(q) : i \in DOMAIN c /\ c[i] = q[i]
      /\ \A i \in 1..Len(r) : i + Len(q) \in DOMAIN c /\ c[i + Len(q)] = r[i]
  BY <1>1, <1>2 DEF c
<1>4. \A i \in DOMAIN c : \/ i \in DOMAIN q /\ c[i] = q[i]
                          \/ i - Len(q) \in DOMAIN r /\ c[i] = r[i - Len(q)]
  BY <1>1, <1>2 DEF c
<1>5. \A i \in DOMAIN q, j \in DOMAIN r : q[i] # r[j]
  BY DEF ToSet
<1>6. Distinct(c)
  <2> SUFFICES ASSUME NEW i \in DOMAIN c, NEW j \in DOMAIN c, c[i] = c[j] PROVE i = j
    BY DEF Distinct
  <2>1. i \in Int /\ j \in Int /\ Len(q) \in Int
    BY <1>1 DEF c
  <2>2. CASE i \in DOMAIN q /\ c[i] = q[i]
    BY <1>4, <1>5, <2>2 DEF Distinct
  <2>3. CASE i - Len(q) \in DOMAIN r /\ c[i] = r[i - Len(q)]
    <3>1. j - Len(q) \in DOMAIN r /\ c[j] = r[j - Len(q)]
      BY <1>4, <1>5, <2>3
    <3>2. i - Len(q) = j - Len(q)
      BY <2>3, <3>1 DEF Distinct
    <3> QED
      BY <2>1, <3>2
  <2> QED
    BY <1>4, <2>2, <2>3
<1>7. \A x \in ToSet(c) : x \in ToSet(q) \cup ToSet(r)
  BY <1>4 DEF ToSet
<1>8. \A x \in ToSet(q) \cup ToSet(r) : x \in ToSet(c)
  BY <1>1, <1>3 DEF ToSet
<1> QED
  BY <1>6, <1>7, <1>8 DEF c

LEMMA RemoveOf ==
  ASSUME NEW q \in Seq(Session), Distinct(q), NEW k \in DOMAIN q
  PROVE  Distinct(RemoveAt(q, k)) /\ ToSet(RemoveAt(q, k)) = ToSet(q) \ {q[k]}
<1> DEFINE a == SubSeq(q, 1, k - 1)
           b == SubSeq(q, k + 1, Len(q))
<1>1. Len(q) \in Nat /\ DOMAIN q = 1..Len(q) /\ \A i \in 1..Len(q) : q[i] \in Session
  BY LenProperties, ElementOfSeq
<1>2. /\ a \in Seq(Session) /\ DOMAIN a = 1..(k - 1)
      /\ \A i \in 1..(k - 1) : a[i] = q[i]
  <2>1. 1 \in Int /\ k - 1 \in Int /\ \A i \in 1..(k - 1) : q[i] \in Session
    BY <1>1
  <2> QED
    BY <1>1, <2>1, SubSeqProperties, LenProperties
<1>3. b \in Seq(Session) /\ Distinct(b) /\ ToSet(b) = ToSet(q) \ {q[i] : i \in 1..k}
  <2>1. k \in 0..Len(q)
    BY <1>1
  <2> HIDE DEF a
  <2> QED
    BY <2>1, RestOf
<1> HIDE DEF a, b
<1>4. Distinct(a)
  BY <1>1, <1>2 DEF Distinct
<1>5. ToSet(a) = {q[i] : i \in 1..(k - 1)}
  BY <1>2 DEF ToSet
<1>6. 1..k = 1..(k - 1) \cup {k} /\ k \notin 1..(k - 1) /\ 1..k \subseteq DOMAIN q
  BY <1>1
<1>7. ToSet(a) \cap ToSet(b) = {} /\ ToSet(a) \cup ToSet(b) = ToSet(q) \ {q[k]}
  <2>1. \A i \in 1..(k - 1) : q[i] # q[k] /\ q[i] \in ToSet(q)
    BY <1>6 DEF Distinct, ToSet
  <2>2. {q[i] : i \in 1..k} = ToSet(a) \cup {q[k]}
    BY <1>5, <1>6
  <2> QED
    BY <1>3, <1>5, <2>1, <2>2
<1>8. Distinct(a \o b) /\ ToSet(a \o b) = ToSet(a) \cup ToSet(b)
  BY <1>2, <1>3, <1>4, <1>7, ConcatOf
<1> QED
  BY <1>7, <1>8 DEF RemoveAt, a, b

LEMMA AppendOf ==
  ASSUME NEW q \in Seq(Session), Distinct(q), NEW s \in Session, s \notin ToSet(q)
  PROVE  Distinct(Append(q, s)) /\ ToSet(Append(q, s)) = ToSet(q) \cup {s}
<1>1. /\ Len(q) \in Nat /\ DOMAIN q = 1..Len(q) /\ DOMAIN Append(q, s) = 1..(Len(q) + 1)
      /\ \A i \in 1..Len(q) : Append(q, s)[i] = q[i]
      /\ Append(q, s)[Len(q) + 1] = s
  BY LenProperties, AppendProperties
<1> DEFINE c == Append(q, s)
<1> HIDE DEF c
<1>2. \A i \in DOMAIN c : (i \in DOMAIN q /\ c[i] = q[i]) \/ (i = Len(q) + 1 /\ c[i] = s)
  BY <1>1 DEF c
<1>3. \A i \in DOMAIN q : q[i] # s
  BY DEF ToSet
<1>4. Distinct(c)
  BY <1>2, <1>3 DEF Distinct
<1>5. /\ \A i \in DOMAIN q : i \in DOMAIN c /\ c[i] = q[i]
      /\ Len(q) + 1 \in DOMAIN c /\ c[Len(q) + 1] = s
  BY <1>1 DEF c
<1>6. \A x : x \in ToSet(c) <=> x \in ToSet(q) \cup {s}
  BY <1>2, <1>5 DEF ToSet
<1> QED
  BY <1>4, <1>6 DEF c

\* An ordering of a set holds each of its members once.
LEMMA OrderingOf ==
  ASSUME NEW S \in SUBSET Session, NEW tail \in SetToSeqs(S)
  PROVE  tail \in Seq(Session) /\ Distinct(tail) /\ ToSet(tail) = S
<1>1. IsFiniteSet(S) /\ Cardinality(S) \in Nat
  BY SessionsAssumption, FS_Subset, FS_CardinalityType
<1> DEFINE D == 1..Cardinality(S)
<1>2. tail \in [D -> S] /\ \A i, j \in D : i # j => tail[i] # tail[j]
  BY DEF SetToSeqs
<1>3. IsFiniteSet(D) /\ Cardinality(D) = Cardinality(S)
  BY <1>1, FS_Interval
<1> HIDE DEF D
<1>4. tail \in Injection(D, S)
  BY <1>2 DEF Injection, IsInjective
<1>5. tail \in Surjection(D, S)
  BY <1>1, <1>3, <1>4, FS_Injection
<1>6. \A x \in S : \E i \in D : tail[i] = x
  BY <1>5 DEF Surjection
<1>7. Distinct(tail) /\ ToSet(tail) = S
  BY <1>2, <1>6 DEF Distinct, ToSet
<1> QED
  BY <1>7, OrderingType

\* QueueSound, with what it needs of the sessions to come.
Lined ==
  /\ NewIdle
  /\ Distinct(queue)
  /\ \A t \in Session : Live(t) => (status[t] = "queued" <=> t \in ToSet(queue))
  /\ \A t \in Session : presence[t] = "new" => t \notin ToSet(queue)

Full == (\E t \in Session : Live(t) /\ status[t] = "queued") => Cardinality(running) >= maxConcurrent

LEMMA MoreInUse ==
  ASSUME NEW A \in SUBSET Session, NEW B \in SUBSET Session, A \subseteq B
  PROVE  Cardinality(A) \in Nat /\ Cardinality(B) \in Nat /\ Cardinality(A) <= Cardinality(B)
BY SessionsAssumption, FS_Subset, FS_CardinalityType

\* Nothing changes but a session that is neither queued before nor after.
LEMMA StaysLined ==
  ASSUME Lined, NewIdle', UNCHANGED <<queue, running, maxConcurrent>>, NEW s \in Session,
         status[s] # "queued", status'[s] # "queued",
         \A t \in Session \ {s} : status'[t] = status[t] /\ presence'[t] = presence[t],
         presence'[s] # "new", presence[s] \in {"new", "live"} \/ presence'[s] = "removed"
  PROVE  Lined' /\ (Full => Full')
<1> USE DEF Live
<1>1. presence'[s] = "live" => s \notin ToSet(queue)
  BY DEF Lined
<1>2. Lined'
  BY <1>1 DEF Lined, Distinct
<1>3. Full => Full'
  BY DEF Full
<1> QED
  BY <1>2, <1>3

\* pump() takes n from a sound queue, whatever it then launches besides.
LEMMA PumpLeaves ==
  ASSUME TypeOK, Lined, NEW n \in 0..Len(queue), NEW inUse \in SUBSET Session,
         NEW cap \in Nat, PumpTakes(n, inUse, status, cap)
  PROVE  LET rest == SubSeq(queue, n + 1, Len(queue))
         IN  /\ rest \in Seq(Session) /\ Distinct(rest)
             /\ \A t \in Session : Live(t) =>
                  (t \in ToSet(rest) <=> status[t] = "queued" /\ t \notin Picked(n, status))
             /\ \A t \in Session : t \in ToSet(rest) => t \in ToSet(queue)
             /\ (\E t \in Session : Live(t) /\ t \in ToSet(rest))
                  => Cardinality(inUse \cup Picked(n, status)) >= cap
<1> DEFINE rest == SubSeq(queue, n + 1, Len(queue))
<1>1. queue \in Seq(Session) /\ DOMAIN queue = 1..Len(queue) /\ Len(queue) \in Nat
  BY LenProperties DEF TypeOK
<1>2. rest \in Seq(Session) /\ Distinct(rest)
      /\ ToSet(rest) = ToSet(queue) \ {queue[i] : i \in 1..n}
  BY <1>1, RestOf DEF Lined
<1> HIDE DEF rest
<1>3. ASSUME NEW t \in Session, Live(t)
      PROVE  t \in ToSet(rest) <=> status[t] = "queued" /\ t \notin Picked(n, status)
  <2>1. status[t] = "queued" <=> t \in ToSet(queue)
    BY <1>3 DEF Lined
  <2>2. status[t] = "queued" => (t \in Picked(n, status) <=> t \in {queue[i] : i \in 1..n})
    BY <1>3 DEF Picked
  <2> QED
    BY <1>2, <2>1, <2>2
<1>4. ASSUME NEW t \in Session, Live(t), t \in ToSet(rest)
      PROVE  Cardinality(inUse \cup Picked(n, status)) >= cap
  <2>1. PICK i \in DOMAIN queue : queue[i] = t /\ i \notin 1..n
    BY <1>2, <1>4 DEF ToSet
  <2>2. n # Len(queue)
    BY <1>1, <2>1
  <2> QED
    BY <2>2 DEF PumpTakes
<1> QED
  BY <1>2, <1>3, <1>4 DEF rest

LEMMA RequestLined ==
  ASSUME NEW g \in Run, Run = {g}, TypeOK, OneRun(g), Lined, Full, NewIdle', NEW s \in Session,
         Requests(s)
  PROVE  Lined' /\ Full'
<1>1. /\ Live(s) /\ status[s] \notin Active /\ UNCHANGED <<presence, maxConcurrent>>
      /\ \A t \in Session \ {s} : status'[t] = status[t]
  BY RequestEffect
<1>2. status[s] # "queued" /\ s \notin ToSet(queue)
  BY <1>1 DEF Active, Lined
<1>3. queue \in Seq(Session)
  BY DEF TypeOK
<1>4. CASE UNCHANGED <<running, queue>> /\ status'[s] # "queued"
  BY <1>1, <1>2, <1>4, StaysLined DEF Live
<1>5. CASE /\ Cardinality(running) >= maxConcurrent /\ UNCHANGED running
           /\ status'[s] = "queued" /\ queue' = Enqueued(queue, s)
  <2>1. Distinct(queue') /\ ToSet(queue') = ToSet(queue) \cup {s}
    BY <1>2, <1>3, <1>5, AppendOf DEF Enqueued, Lined
  <2>2. Lined'
    BY <1>1, <1>5, <2>1 DEF Lined, Live
  <2> QED
    BY <1>1, <1>5, <2>2 DEF Full
<1>6. CASE status'[s] = "running" /\ running' = running \cup {s} /\ UNCHANGED queue
  <2>1. Lined'
    BY <1>1, <1>2, <1>6 DEF Lined, Live
  <2>2. /\ Cardinality(running) \in Nat /\ Cardinality(running') \in Nat
        /\ Cardinality(running) <= Cardinality(running')
    BY <1>6, MoreInUse DEF TypeOK
  <2>3. maxConcurrent \in Nat
    BY LimitsAssumption DEF TypeOK
  <2>4. (\E t \in Session : Live(t)' /\ status'[t] = "queued")
          => \E t \in Session : Live(t) /\ status[t] = "queued"
    BY <1>1, <1>6 DEF Live
  <2> QED
    BY <1>1, <2>1, <2>2, <2>3, <2>4 DEF Full
<1> QED
  BY <1>2, <1>4, <1>5, <1>6, RequestEffect

LEMMA EndLined ==
  ASSUME NEW g \in Run, Run = {g}, TypeOK, OneRun(g), Lined, Full, NewIdle', NEW s \in Session,
         RunEnded(s, g)
  PROVE  Lined' /\ Full'
<1>1. PICK n \in 0..Len(queue), now \in SUBSET Session, wait \in SUBSET Session :
        EndParts(s, g, n, now, wait)
  BY EndEffect
<1> DEFINE rest == SubSeq(queue, n + 1, Len(queue))
           late == IF spent THEN {} ELSE wait \ ToSet(rest)
           kept == running \ {s}
<1>2. UNCHANGED <<presence, maxConcurrent>>
  BY EndEffect
<1>3. kept \in SUBSET Session /\ maxConcurrent \in Nat /\ Picked(n, status) \in SUBSET Session
  BY LimitsAssumption DEF TypeOK, Picked
<1>4. /\ PumpTakes(n, kept, status, maxConcurrent)
      /\ running' = kept \cup (Picked(n, status) \cup now)
      /\ wait = {} \/ spent \/ Cardinality(running') >= maxConcurrent
  BY <1>1 DEF EndParts
<1>5. /\ rest \in Seq(Session) /\ Distinct(rest)
      /\ \A t \in Session : Live(t) =>
           (t \in ToSet(rest) <=> status[t] = "queued" /\ t \notin Picked(n, status))
      /\ \A t \in Session : t \in ToSet(rest) => t \in ToSet(queue)
      /\ (\E t \in Session : Live(t) /\ t \in ToSet(rest))
           => Cardinality(kept \cup Picked(n, status)) >= maxConcurrent
  <2> HIDE DEF kept
  <2> QED
    BY <1>3, <1>4, PumpLeaves
<1>6. /\ now \cap wait = {}
      /\ \A t \in now \cup wait : Live(t) /\ status[t] = "blocked"
      /\ \A t \in Picked(n, status) \cup now : status'[t] = "running"
      /\ \A t \in wait : status'[t] = IF spent THEN "idle" ELSE "queued"
      /\ \A t \in Session \ (Picked(n, status) \cup now \cup wait) : status'[t] = status[t]
  BY <1>1 DEF EndParts
<1> HIDE DEF rest
<1>7. PICK tail \in SetToSeqs(late) : queue' = rest \o tail
  BY <1>1 DEF EndParts, rest
<1>8. late = IF spent THEN {} ELSE wait
  BY <1>5, <1>6
<1> HIDE DEF late, kept
<1>9. late \in SUBSET Session /\ late \cap ToSet(rest) = {}
  BY <1>5, <1>6, <1>8
<1>10. tail \in Seq(Session) /\ Distinct(tail) /\ ToSet(tail) = late
  BY <1>9, OrderingOf
<1>11. Distinct(queue') /\ ToSet(queue') = ToSet(rest) \cup late
  BY <1>5, <1>7, <1>9, <1>10, ConcatOf
<1>12. \A t \in Session : Live(t) => (status'[t] = "queued" <=> t \in ToSet(queue'))
  <2> SUFFICES ASSUME NEW t \in Session, Live(t)
               PROVE  status'[t] = "queued" <=> t \in ToSet(queue')
    OBVIOUS
  <2>1. CASE t \in wait
    BY <1>5, <1>6, <1>8, <1>11, <2>1
  <2>2. CASE t \in Picked(n, status) \cup now
    <3>1. t \notin late
      BY <1>6, <1>8, <2>2, PickedAreQueued
    <3>2. t \notin ToSet(rest)
      BY <1>5, <1>6, <2>2
    <3> QED
      BY <1>6, <1>11, <2>2, <3>1, <3>2
  <2>3. CASE t \notin Picked(n, status) \cup now \cup wait
    BY <1>5, <1>6, <1>8, <1>11, <2>3
  <2> QED
    BY <2>1, <2>2, <2>3
<1>13. \A t \in Session : presence[t] = "new" => t \notin ToSet(queue')
  BY <1>5, <1>6, <1>8, <1>11 DEF Lined, Live
<1>14. Full'
  <2> SUFFICES ASSUME NEW t \in Session, Live(t), status'[t] = "queued"
               PROVE  Cardinality(running') >= maxConcurrent
    BY <1>2 DEF Full, Live
  <2>1. t \in ToSet(rest) \/ t \in late
    BY <1>11, <1>12
  <2>2. CASE t \in late
    BY <1>4, <1>8, <2>2
  <2>3. CASE t \in ToSet(rest)
    <3>1. Cardinality(kept \cup Picked(n, status)) >= maxConcurrent
      BY <1>5, <2>3
    <3>2. kept \cup Picked(n, status) \in SUBSET Session /\ running' \in SUBSET Session
          /\ kept \cup Picked(n, status) \subseteq running'
      BY <1>3, <1>4
    <3>3. /\ Cardinality(kept \cup Picked(n, status)) \in Nat /\ Cardinality(running') \in Nat
          /\ Cardinality(kept \cup Picked(n, status)) <= Cardinality(running')
      BY <3>2, MoreInUse
    <3> QED
      BY <1>3, <3>1, <3>3
  <2> QED
    BY <2>1, <2>2, <2>3
<1> QED
  BY <1>2, <1>11, <1>12, <1>13, <1>14 DEF Lined, Live

LEMMA ResizeLined ==
  ASSUME NEW g \in Run, Run = {g}, TypeOK, OneRun(g), Lined, NewIdle', NEW cap \in CapChoices,
         SetMaxConcurrent(cap)
  PROVE  Lined' /\ Full'
<1>1. PICK n \in 0..Len(queue) :
        /\ PumpTakes(n, running, status, cap)
        /\ queue' = SubSeq(queue, n + 1, Len(queue))
        /\ Launched(g, Picked(n, status), running, status, phase)
  BY ResizeEffect
<1>2. UNCHANGED presence /\ maxConcurrent' = cap /\ cap \in Nat /\ running \in SUBSET Session
  BY ResizeEffect, LimitsAssumption DEF TypeOK
<1>3. /\ Distinct(queue')
      /\ \A t \in Session : Live(t) =>
           (t \in ToSet(queue') <=> status[t] = "queued" /\ t \notin Picked(n, status))
      /\ \A t \in Session : t \in ToSet(queue') => t \in ToSet(queue)
      /\ (\E t \in Session : Live(t) /\ t \in ToSet(queue'))
           => Cardinality(running \cup Picked(n, status)) >= cap
  BY <1>1, <1>2, PumpLeaves
<1>4. /\ running' = running \cup Picked(n, status)
      /\ \A t \in Picked(n, status) : status'[t] = "running"
      /\ \A t \in Session \ Picked(n, status) : status'[t] = status[t]
  BY <1>1 DEF Launched
<1>5. \A t \in Session : Live(t) => (status'[t] = "queued" <=> t \in ToSet(queue'))
  BY <1>3, <1>4
<1>6. Lined'
  BY <1>2, <1>3, <1>5 DEF Lined, Live
<1>7. Full'
  BY <1>2, <1>3, <1>4, <1>5 DEF Full, Live
<1> QED
  BY <1>6, <1>7

LEMMA StopLined ==
  ASSUME NEW g \in Run, Run = {g}, TypeOK, OneRun(g), Lined, Full, NewIdle', NEW s \in Session,
         Stop(s)
  PROVE  Lined' /\ Full'
<1>1. /\ Live(s) /\ UNCHANGED <<presence, running, maxConcurrent>>
      /\ \A t \in Session \ {s} : status'[t] = status[t]
  BY StopEffect
<1>2. CASE UNCHANGED queue /\ status[s] # "queued" /\ status'[s] # "queued"
  BY <1>1, <1>2, StaysLined DEF Live
<1>3. CASE /\ status[s] = "queued" /\ status'[s] = "idle"
           /\ \E i \in DOMAIN queue : queue[i] = s /\ queue' = RemoveAt(queue, i)
  <2>1. Distinct(queue') /\ ToSet(queue') = ToSet(queue) \ {s}
    BY <1>3, RemoveOf DEF Lined, TypeOK
  <2>2. Lined'
    BY <1>1, <1>3, <2>1 DEF Lined, Live
  <2> QED
    BY <1>1, <1>3, <2>2 DEF Full, Live
<1>4. status[s] = "queued" => s \in ToSet(queue)
  BY <1>1 DEF Lined
<1>5. "queued" \in Active
  BY DEF Active
<1> QED
  BY <1>2, <1>3, <1>4, <1>5, StopEffect

LEMMA LinedKept ==
  ASSUME NEW g \in Run, Run = {g}, TypeOK, OneRun(g), Lined, Full, [Next]_vars
  PROVE  Lined' /\ Full'
<1>1. NewIdle'
  BY NewIdleKept DEF Lined
<1>2. CASE UNCHANGED <<presence, status, queue, running, maxConcurrent>>
  BY <1>2 DEF Lined, Full, NewIdle, Distinct, Live
<1>3. ASSUME NEW s \in Session, Start(s) \/ ResumeFires(s) \/ HealFires(s)
      PROVE  Lined' /\ Full'
  BY <1>1, <1>2, <1>3, StartIs, RequestLined
<1>4. ASSUME NEW s \in Session, Event(s, g)
      PROVE  Lined' /\ Full'
  <2>1. /\ status[s] # "queued" /\ status'[s] # "queued"
        /\ \A t \in Session \ {s} : status'[t] = status[t]
    BY <1>4, EventEffect, ShownIs DEF GoesOn, OneRun
  <2>2. UNCHANGED <<presence, queue, running, maxConcurrent>>
    BY <1>4, EventEffect DEF EventFrame, slotVars
  <2>3. presence[s] # "new"
    BY <1>4, EventEffect, ShownIs DEF Lined, NewIdle, OneRun
  <2>4. presence[s] \in {"new", "live", "removed"}
    BY DEF TypeOK
  <2> QED
    BY <1>1, <2>1, <2>2, <2>3, <2>4, StaysLined
<1>5. ASSUME NEW s \in Session, RunEnded(s, g)
      PROVE  Lined' /\ Full'
  BY <1>1, <1>5, EndLined
<1>6. ASSUME NEW s \in Session, Stop(s)
      PROVE  Lined' /\ Full'
  BY <1>1, <1>6, StopLined
<1>7. ASSUME NEW s \in Session, Edit(s)
      PROVE  Lined' /\ Full'
  <2>1. /\ UNCHANGED <<queue, running, maxConcurrent>>
        /\ \A t \in Session \ {s} : status'[t] = status[t] /\ presence'[t] = presence[t]
        /\ presence[s] \in {"new", "live"} /\ presence'[s] # "new"
    BY <1>7, EditEffect DEF Live
  <2>2. CASE status[s] # "queued"
    <3>1. status'[s] # "queued"
      BY <1>7, <2>2, EditEffect
    <3> QED
      BY <1>1, <2>1, <2>2, <3>1, StaysLined
  <2>3. CASE status[s] = "queued"
    <3>1. Live(s) /\ status'[s] = status[s]
      BY <1>7, <2>3, EditEffect DEF Lined, NewIdle
    <3>2. Lined'
      BY <1>1, <2>1, <3>1 DEF Lined, Live, Distinct
    <3> QED
      BY <2>1, <2>3, <3>1, <3>2 DEF Full, Live
  <2> QED
    BY <2>2, <2>3
<1>8. ASSUME NEW cap \in CapChoices, SetMaxConcurrent(cap)
      PROVE  Lined' /\ Full'
  BY <1>1, <1>8, ResizeLined
<1>9. CASE Restart
  <2>1. \A t \in Session : status'[t] = "idle" /\ t \notin ToSet(queue')
    BY <1>9 DEF Restart, ToSet
  <2>2. Distinct(queue')
    BY <1>9 DEF Restart, Distinct
  <2> QED
    BY <1>1, <2>1, <2>2 DEF Lined, Full
<1> QED
  BY <1>2, <1>3, <1>4, <1>5, <1>6, <1>7, <1>8, <1>9, NextIs

\* No order of starts, stops, ends, edits, removals and changes of the cap leaves
\* a session queued that is not in the queue, or in it twice or when it shows
\* something else; and none leaves one waiting while a slot is free.
THEOREM QueueIsSound ==
  ASSUME NEW g \in Run, Run = {g}
  PROVE  Spec => []QueueSound
<1>1. Init => Lined /\ Full
  <2> SUFFICES ASSUME Init PROVE Lined /\ Full
    OBVIOUS
  <2>1. \A t \in Session : status[t] = "idle" /\ t \notin ToSet(queue)
    BY DEF Init, ToSet
  <2>2. Distinct(queue)
    BY DEF Init, Distinct
  <2> QED
    BY <2>1, <2>2 DEF Lined, Full, NewIdle
<1>2. TypeOK /\ SlotAccounting /\ StatusMatchesRun /\ Lined /\ Full /\ [Next]_vars => Lined' /\ Full'
  BY OneRunIs, LinedKept
<1>3. Lined /\ Full => QueueSound
  BY DEF Lined, Full, QueueSound, NoIdleSlot, Distinct
<1> QED
  BY <1>1, <1>2, <1>3, TypeCorrect, SlotsMatchRuns, StatusesMatchRuns, PTL DEF Spec

(***************************************************************************)
(* The slot pool.  The line is the queue without its stale entries.        *)
(***************************************************************************)
\* The places in a queue without duplicates order any of its members.
LEMMA QueueOrders ==
  ASSUME NEW q \in Seq(Session), Distinct(q), NEW W, W \subseteq ToSet(q)
  PROVE  Pool!Orders({p \in W \X W : Ahead(q, p[1], p[2])}, W)
<1> DEFINE B == {p \in W \X W : Ahead(q, p[1], p[2])}
<1>1. \A a, b \in W : <<a, b>> \in B <=> Ahead(q, a, b)
  OBVIOUS
<1>2. B \subseteq W \X W
  OBVIOUS
<1> HIDE DEF B
<1>3. DOMAIN q = 1..Len(q) /\ Len(q) \in Nat
  BY LenProperties
<1>4. \A a \in W : \E i \in DOMAIN q : q[i] = a
  BY DEF ToSet
<1>5. ASSUME NEW a \in W, NEW b \in W, a # b
      PROVE  Ahead(q, a, b) <=> ~Ahead(q, b, a)
  <2>1. PICK i \in DOMAIN q, j \in DOMAIN q : q[i] = a /\ q[j] = b
    BY <1>4
  <2>2. i \in Int /\ j \in Int /\ i # j
    BY <1>3, <1>5, <2>1
  <2>3. Ahead(q, a, b) <=> i < j
    BY <2>1 DEF Ahead, Distinct
  <2>4. Ahead(q, b, a) <=> j < i
    BY <2>1 DEF Ahead, Distinct
  <2> QED
    BY <2>2, <2>3, <2>4
<1>6. \A a \in W : ~Ahead(q, a, a)
  BY <1>3 DEF Ahead, Distinct
<1>7. ASSUME NEW a \in W, NEW b \in W, NEW c \in W, Ahead(q, a, b), Ahead(q, b, c)
      PROVE  Ahead(q, a, c)
  <2>1. PICK i \in DOMAIN q, j \in DOMAIN q : i < j /\ q[i] = a /\ q[j] = b
    BY <1>7 DEF Ahead
  <2>2. PICK k \in DOMAIN q, l \in DOMAIN q : k < l /\ q[k] = b /\ q[l] = c
    BY <1>7 DEF Ahead
  <2>3. j = k
    BY <2>1, <2>2 DEF Distinct
  <2>4. i < l
    BY <1>3, <2>1, <2>2, <2>3
  <2> QED
    BY <2>1, <2>2, <2>4 DEF Ahead
<1> QED
  BY <1>1, <1>2, <1>5, <1>6, <1>7 DEF Pool!Orders, B

LEMMA BeforeIs ==
  ASSUME NEW a, NEW b
  PROVE  /\ <<a, b>> \in Before <=> a \in Waiting /\ b \in Waiting /\ Ahead(queue, a, b)
         /\ <<a, b>> \in Before' <=> a \in Waiting' /\ b \in Waiting' /\ Ahead(queue', a, b)
BY DEF Before

\* Whoever still waits has kept his place, and whoever is late is behind him.
LEMMA LineIs ==
  ASSUME TypeOK, TypeOK', Lined, Lined', NEW stay \in SUBSET Waiting, NEW late,
         Waiting' = stay \cup late,
         \A a, b \in stay : Ahead(queue, a, b) => Ahead(queue', a, b),
         \A a \in stay, b \in late : Ahead(queue', a, b)
  PROVE  Pool!Line(stay, late)
<1>1. Waiting \subseteq ToSet(queue) /\ Waiting' \subseteq ToSet(queue')
  BY DEF Waiting, Lined
<1>2. Pool!Orders(Before, Waiting)
  BY <1>1, QueueOrders DEF Before, Lined, TypeOK
<1>3. Pool!Orders(Before', Waiting')
  <2>1. queue' \in Seq(Session) /\ Distinct(queue')
    BY DEF Lined, TypeOK
  <2> QED
    BY <1>1, <2>1, QueueOrders DEF Before
<1>4. ASSUME NEW a \in stay, NEW b \in stay
      PROVE  <<a, b>> \in Before' <=> <<a, b>> \in Before
  <2>1. a \in Waiting /\ b \in Waiting /\ a \in Waiting' /\ b \in Waiting'
    OBVIOUS
  <2>2. ASSUME NEW c \in stay, NEW d \in stay, <<c, d>> \in Before
        PROVE  <<c, d>> \in Before'
    BY <2>2, BeforeIs
  <2>3. CASE a = b
    BY <1>2, <1>3, <2>1, <2>3 DEF Pool!Orders
  <2>4. CASE a # b
    BY <1>2, <1>3, <2>1, <2>2, <2>4 DEF Pool!Orders
  <2> QED
    BY <2>3, <2>4
<1>5. stay \X late \subseteq Before'
  <2>1. \A a \in stay, b \in late : <<a, b>> \in Before'
    BY BeforeIs
  <2> QED
    BY <2>1
<1> QED
  BY <1>3, <1>4, <1>5 DEF Pool!Line

LEMMA PoolStill ==
  ASSUME UNCHANGED <<running, queue, maxConcurrent>>, Waiting' = Waiting
  PROVE  UNCHANGED Pool!vars
BY DEF Pool!vars, Before

\* pump() lets on who is first, and as many as there is room for.
LEMMA PumpAdmits ==
  ASSUME TypeOK, Lined, NEW n \in 0..Len(queue), NEW inUse \in SUBSET Session,
         NEW cap \in Nat, PumpTakes(n, inUse, status, cap)
  PROVE  /\ Picked(n, status) \in SUBSET Waiting
         /\ \A a \in Picked(n, status), b \in Waiting \ Picked(n, status) : <<b, a>> \notin Before
         /\ Picked(n, status) # {} => Cardinality(inUse \cup Picked(n, status)) <= cap
         /\ Picked(n, status) # Waiting => Cardinality(inUse \cup Picked(n, status)) >= cap
<1>1. queue \in Seq(Session) /\ DOMAIN queue = 1..Len(queue) /\ Len(queue) \in Nat
  BY LenProperties DEF TypeOK
<1>2. \A t : t \in Picked(n, status) <=> t \in Waiting /\ \E i \in 1..n : queue[i] = t
  BY DEF Picked, Waiting
<1>3. Picked(n, status) \in SUBSET Waiting
  BY <1>2
<1>4. ASSUME NEW a \in Picked(n, status), NEW b \in Waiting \ Picked(n, status)
      PROVE  <<b, a>> \notin Before
  <2> SUFFICES ASSUME Ahead(queue, b, a)
               PROVE  FALSE
    BY BeforeIs
  <2>1. PICK i \in DOMAIN queue, j \in DOMAIN queue : i < j /\ queue[i] = b /\ queue[j] = a
    BY DEF Ahead
  <2>2. PICK k \in 1..n : queue[k] = a
    BY <1>2
  <2>3. k = j
    BY <1>1, <2>1, <2>2 DEF Lined, Distinct
  <2>4. i \in 1..n
    BY <1>1, <2>1, <2>2, <2>3
  <2> QED
    BY <1>2, <2>1, <2>4
<1>5. ASSUME Picked(n, status) # {}
      PROVE  Cardinality(inUse \cup Picked(n, status)) <= cap
  <2>1. n >= 1 /\ n - 1 \in 0..(n - 1) /\ n \in DOMAIN queue
    BY <1>1, <1>2, <1>5
  <2> DEFINE less == inUse \cup Picked(n - 1, status)
             one  == less \cup {queue[n]}
  <2>2. Cardinality(less) < cap
    BY <2>1 DEF PumpTakes
  <2>3. less \in SUBSET Session /\ queue[n] \in Session
    BY <1>1, <2>1, ElementOfSeq DEF Picked
  <2>4. 1..n = 1..(n - 1) \cup {n}
    BY <2>1
  <2>5. inUse \cup Picked(n, status) \subseteq one
    BY <2>4 DEF Picked
  <2>6. IsFiniteSet(less) /\ Cardinality(less) \in Nat
    BY <2>3, SessionsAssumption, FS_Subset, FS_CardinalityType
  <2> HIDE DEF less
  <2>7. Cardinality(one) \in Nat /\ Cardinality(one) <= Cardinality(less) + 1
    <3> DEFINE last == queue[n]
    <3> HIDE DEF last
    <3>1. Cardinality(less \cup {last}) =
            IF last \in less THEN Cardinality(less) ELSE Cardinality(less) + 1
      BY <2>6, FS_AddElement
    <3>2. Cardinality(less \cup {last}) \in Nat
          /\ Cardinality(less \cup {last}) <= Cardinality(less) + 1
      BY <2>6, <3>1
    <3> QED
      BY <3>2 DEF last
  <2>8. one \in SUBSET Session /\ inUse \cup Picked(n, status) \in SUBSET Session
    BY <1>3, <2>3 DEF Waiting
  <2> HIDE DEF one
  <2>9. /\ Cardinality(inUse \cup Picked(n, status)) \in Nat
        /\ Cardinality(inUse \cup Picked(n, status)) <= Cardinality(one)
    BY <2>5, <2>8, MoreInUse
  <2> QED
    BY <2>2, <2>6, <2>7, <2>9
<1>6. ASSUME Picked(n, status) # Waiting
      PROVE  Cardinality(inUse \cup Picked(n, status)) >= cap
  <2>1. PICK t \in Waiting : t \notin Picked(n, status)
    BY <1>3, <1>6
  <2>2. t \in ToSet(queue)
    BY DEF Waiting, Lined
  <2>3. PICK i \in DOMAIN queue : queue[i] = t
    BY <2>2 DEF ToSet
  <2>4. n # Len(queue)
    BY <1>1, <1>2, <2>1, <2>3
  <2> QED
    BY <2>4 DEF PumpTakes
<1> QED
  BY <1>3, <1>4, <1>5, <1>6

LEMMA PoolCardinality ==
  ASSUME NEW S
  PROVE  Pool!Cardinality(S) = Cardinality(S)
BY DEF Pool!Cardinality, Cardinality

LEMMA AdmitsIs ==
  ASSUME NEW held, NEW fresh, NEW c, NEW first \in SUBSET Waiting, NEW now \in SUBSET fresh,
         running' = held \cup first \cup now,
         running' = held \/ Cardinality(running') <= c,
         first # Waiting \/ now # fresh => Cardinality(running') >= c,
         now # {} => first = Waiting,
         \A a \in first, b \in Waiting \ first : <<b, a>> \notin Before,
         Pool!Line(Waiting \ first, fresh \ now)
  PROVE  Pool!Admits(held, fresh, c)
<1>1. /\ running' = held \cup first \cup now
      /\ running' = held \/ Pool!Cardinality(running') <= c
      /\ first # Waiting \/ now # fresh => Pool!Cardinality(running') >= c
      /\ now # {} => first = Waiting
      /\ \A a \in first, b \in Waiting \ first : <<b, a>> \notin Before
      /\ Pool!Line(Waiting \ first, fresh \ now)
  BY PoolCardinality
<1> QED
  BY <1>1, Zenon DEF Pool!Admits

\* A start that is queued or launched asks for a slot.
LEMMA RequestPool ==
  ASSUME NEW g \in Run, Run = {g}, TypeOK, TypeOK', OneRun(g), Lined, Full, Lined',
         NEW s \in Session, Requests(s)
  PROVE  Pool!Ask(s) \/ UNCHANGED Pool!vars
<1>1. /\ Live(s) /\ status[s] \notin Active /\ phase[s][g] = "none"
      /\ UNCHANGED <<presence, maxConcurrent>>
      /\ \A t \in Session \ {s} : status'[t] = status[t]
  BY RequestEffect
<1>2. /\ s \notin running /\ s \notin Waiting
      /\ Waiting' \ {s} = Waiting /\ (s \in Waiting' <=> status'[s] = "queued")
  BY <1>1 DEF OneRun, Active, Waiting, Live
<1>3. running \in SUBSET Session /\ maxConcurrent \in Nat /\ queue \in Seq(Session)
  BY LimitsAssumption DEF TypeOK
<1>4. CASE UNCHANGED <<running, queue>> /\ status'[s] # "queued"
  BY <1>1, <1>2, <1>4, PoolStill
<1>5. CASE /\ Cardinality(running) >= maxConcurrent /\ UNCHANGED running
           /\ status'[s] = "queued" /\ queue' = Enqueued(queue, s)
  <2>1. s \notin ToSet(queue) /\ queue' = Append(queue, s)
    BY <1>1, <1>5 DEF Lined, Active, Enqueued
  <2>2. Waiting' = Waiting \cup {s}
    BY <1>2, <1>5
  <2>3. /\ \A a, b \in Waiting : Ahead(queue, a, b) => Ahead(queue', a, b)
        /\ \A a \in Waiting : Ahead(queue', a, s)
    <3>1. /\ Len(queue) \in Nat /\ DOMAIN queue = 1..Len(queue)
          /\ DOMAIN queue' = 1..(Len(queue) + 1)
          /\ \A i \in 1..Len(queue) : queue'[i] = queue[i]
          /\ queue'[Len(queue) + 1] = s
      BY <1>3, <2>1, LenProperties, AppendProperties
    <3>2. \A a, b \in Waiting : Ahead(queue, a, b) => Ahead(queue', a, b)
      BY <3>1 DEF Ahead
    <3>3. \A a \in Waiting : \E i \in DOMAIN queue : queue[i] = a
      BY DEF Waiting, Lined, ToSet
    <3>4. \A a \in Waiting : Ahead(queue', a, s)
      BY <3>1, <3>3 DEF Ahead
    <3> QED
      BY <3>2, <3>4
  <2>4. Pool!Line(Waiting, {s})
    BY <2>2, <2>3, LineIs
  <2>5. Pool!Admits(running, {s}, maxConcurrent)
    <3>1. /\ running' = running \cup {} \cup {} /\ Cardinality(running') >= maxConcurrent
          /\ Waiting \ {} = Waiting /\ {s} \ {} = {s}
      BY <1>5
    <3>2. {} \in SUBSET Waiting /\ {} \in SUBSET {s} /\ running' = running
      BY <1>5
    <3>3. Pool!Line(Waiting \ {}, {s} \ {})
      BY <2>4, <3>1
    <3> QED
      BY <3>1, <3>2, <3>3, AdmitsIs
  <2> QED
    BY <1>1, <1>2, <1>5, <2>5 DEF Pool!Ask
<1>6. CASE status'[s] = "running" /\ running' = running \cup {s} /\ UNCHANGED queue
           /\ Cardinality(running) < maxConcurrent
  <2>1. Waiting = {} /\ Waiting' = {}
    BY <1>2, <1>3, <1>6, MoreInUse DEF Full, Waiting
  <2>2. Pool!Line({}, {})
    BY <2>1, LineIs
  <2>3. IsFiniteSet(running) /\ Cardinality(running) \in Nat
    BY <1>3, SessionsAssumption, FS_Subset, FS_CardinalityType
  <2>4. Cardinality(running \cup {s}) = Cardinality(running) + 1
    BY <1>2, <2>3, FS_AddElement
  <2>5. Pool!Admits(running, {s}, maxConcurrent)
    <3>1. /\ running' = running \cup {} \cup {s} /\ Cardinality(running') <= maxConcurrent
          /\ Waiting \ {} = {} /\ {s} \ {s} = {}
      BY <1>3, <1>6, <2>1, <2>3, <2>4
    <3>2. {} \in SUBSET Waiting /\ {s} \in SUBSET {s}
      OBVIOUS
    <3>3. Pool!Line(Waiting \ {}, {s} \ {s})
      BY <2>2, <3>1
    <3> QED
      BY <2>1, <3>1, <3>2, <3>3, AdmitsIs
  <2> QED
    BY <1>1, <1>2, <1>6, <2>5 DEF Pool!Ask
<1>7. \/ UNCHANGED <<running, queue>> /\ status'[s] # "queued"
      \/ /\ Cardinality(running) >= maxConcurrent /\ UNCHANGED running
         /\ status'[s] = "queued" /\ queue' = Enqueued(queue, s)
      \/ /\ status'[s] = "running" /\ running' = running \cup {s} /\ UNCHANGED queue
         /\ Cardinality(running) < maxConcurrent
  BY <1>1, RequestEffect DEF Active
<1> QED
  BY <1>4, <1>5, <1>6, <1>7

LEMMA ConcatPlaces ==
  ASSUME NEW q \in Seq(Session), NEW r \in Seq(Session)
  PROVE  /\ \A i \in DOMAIN q : i \in DOMAIN (q \o r) /\ (q \o r)[i] = q[i]
         /\ \A i \in DOMAIN r : /\ Len(q) + i \in DOMAIN (q \o r)
                                /\ (q \o r)[Len(q) + i] = r[i]
<1>1. /\ Len(q) \in Nat /\ DOMAIN q = 1..Len(q) /\ Len(r) \in Nat /\ DOMAIN r = 1..Len(r)
      /\ DOMAIN (q \o r) = 1..(Len(q) + Len(r))
  BY LenProperties, ConcatProperties
<1>2. \A i \in 1..(Len(q) + Len(r)) : (q \o r)[i] = IF i <= Len(q) THEN q[i] ELSE r[i - Len(q)]
  BY ConcatProperties
<1> DEFINE c == q \o r
<1> HIDE DEF c
<1>3. \A i \in DOMAIN q : i \in DOMAIN c /\ c[i] = q[i]
  BY <1>1, <1>2 DEF c
<1>4. ASSUME NEW i \in DOMAIN r
      PROVE  Len(q) + i \in DOMAIN c /\ c[Len(q) + i] = r[i]
  <2>1. /\ Len(q) + i \in 1..(Len(q) + Len(r)) /\ ~(Len(q) + i <= Len(q))
        /\ Len(q) + i - Len(q) = i
    BY <1>1
  <2> QED
    BY <1>1, <1>2, <2>1 DEF c
<1> QED
  BY <1>3, <1>4 DEF c

\* What is taken off the front, or out of the middle, of a queue leaves the rest
\* in order, and what is added comes after it.
LEMMA RestAhead ==
  ASSUME NEW q \in Seq(Session), Distinct(q), NEW n \in 0..Len(q), NEW tail \in Seq(Session),
         NEW a, NEW b
  PROVE  LET rest == SubSeq(q, n + 1, Len(q))
         IN  /\ a \in ToSet(rest) /\ b \in ToSet(rest) /\ Ahead(q, a, b) =>
                  Ahead(rest, a, b) /\ Ahead(rest \o tail, a, b)
             /\ a \in ToSet(rest) /\ b \in ToSet(tail) => Ahead(rest \o tail, a, b)
<1> DEFINE rest == SubSeq(q, n + 1, Len(q))
           all  == rest \o tail
<1>1. Len(q) \in Nat /\ DOMAIN q = 1..Len(q) /\ \A i \in 1..Len(q) : q[i] \in Session
  BY LenProperties, ElementOfSeq
<1>2. rest \in Seq(Session) /\ Len(rest) = Len(q) - n /\ DOMAIN rest = 1..(Len(q) - n)
  <2>1. n + 1 \in Int /\ Len(q) \in Int /\ \A i \in (n + 1)..Len(q) : q[i] \in Session
    BY <1>1
  <2>2. /\ rest \in Seq(Session)
        /\ Len(rest) = IF n + 1 <= Len(q) THEN Len(q) - (n + 1) + 1 ELSE 0
    BY <2>1, SubSeqProperties
  <2> HIDE DEF rest
  <2>3. CASE n + 1 <= Len(q)
    <3>1. Len(q) - (n + 1) + 1 = Len(q) - n
      BY <1>1
    <3> QED
      BY <2>2, <2>3, <3>1, LenProperties
  <2>4. CASE ~(n + 1 <= Len(q))
    <3> DEFINE l == Len(q)
    <3>1. l \in Nat /\ n \in 0..l /\ ~(n + 1 <= l)
      BY <1>1, <2>4
    <3> HIDE DEF l
    <3>2. l - n = 0
      BY <3>1
    <3>3. Len(q) - n = 0
      BY <3>2 DEF l
    <3> QED
      BY <2>2, <2>4, <3>3, LenProperties
  <2> QED
    BY <2>3, <2>4
<1>3. \A i \in 1..(Len(q) - n) : rest[i] = q[i + n]
  <2>1. n + 1 \in Int /\ Len(q) \in Int /\ \A i \in (n + 1)..Len(q) : q[i] \in Session
    BY <1>1
  <2>2. \A i \in 1..(Len(q) - (n + 1) + 1) : rest[i] = q[(n + 1) + i - 1]
    BY <2>1, SubSeqProperties
  <2>3. \A i \in 1..(Len(q) - n) : (n + 1) + i - 1 = i + n
    BY <1>1
  <2>4. Len(q) - (n + 1) + 1 = Len(q) - n
    BY <1>1
  <2> QED
    BY <2>2, <2>3, <2>4
<1> HIDE DEF rest
<1>4. /\ Len(rest) \in Nat /\ Len(tail) \in Nat
      /\ DOMAIN rest = 1..Len(rest) /\ DOMAIN tail = 1..Len(tail)
  BY <1>2, LenProperties
<1>5. /\ \A i \in DOMAIN rest : i \in DOMAIN all /\ all[i] = rest[i]
      /\ \A i \in DOMAIN tail : Len(rest) + i \in DOMAIN all /\ all[Len(rest) + i] = tail[i]
  BY <1>2, <1>4, ConcatPlaces
<1> HIDE DEF all
<1>6. ASSUME a \in ToSet(rest), b \in ToSet(rest), Ahead(q, a, b)
      PROVE  Ahead(rest, a, b)
  <2>1. PICK i \in DOMAIN q, j \in DOMAIN q : i < j /\ q[i] = a /\ q[j] = b
    BY <1>6 DEF Ahead
  <2>2. PICK k \in DOMAIN rest, l \in DOMAIN rest : rest[k] = a /\ rest[l] = b
    BY <1>6 DEF ToSet
  <2>3. q[k + n] = a /\ q[l + n] = b /\ k + n \in DOMAIN q /\ l + n \in DOMAIN q
    BY <1>1, <1>2, <1>3, <2>2
  <2>4. k + n = i /\ l + n = j
    BY <2>1, <2>3 DEF Distinct
  <2>5. k < l
    BY <1>1, <1>2, <2>1, <2>4
  <2> QED
    BY <2>2, <2>5 DEF Ahead
<1>7. Ahead(rest, a, b) => Ahead(all, a, b)
  BY <1>5 DEF Ahead
<1>8. ASSUME a \in ToSet(rest), b \in ToSet(tail)
      PROVE  Ahead(all, a, b)
  <2>1. PICK i \in DOMAIN rest, j \in DOMAIN tail : rest[i] = a /\ tail[j] = b
    BY <1>8 DEF ToSet
  <2>2. i < Len(rest) + j
    BY <1>1, <1>2, <1>4, <2>1
  <2> QED
    BY <1>5, <2>1, <2>2 DEF Ahead
<1> QED
  BY <1>6, <1>7, <1>8 DEF all, rest

LEMMA RemoveAhead ==
  ASSUME NEW q \in Seq(Session), NEW k \in DOMAIN q, NEW a, NEW b,
         a # q[k], b # q[k], Ahead(q, a, b)
  PROVE  Ahead(RemoveAt(q, k), a, b)
<1> DEFINE front == SubSeq(q, 1, k - 1)
           back  == SubSeq(q, k + 1, Len(q))
           all   == front \o back
<1>1. Len(q) \in Nat /\ DOMAIN q = 1..Len(q) /\ \A i \in 1..Len(q) : q[i] \in Session
  BY LenProperties, ElementOfSeq
<1>2. /\ front \in Seq(Session) /\ Len(front) = k - 1
      /\ \A i \in 1..(k - 1) : front[i] = q[i]
  <2>1. 1 \in Int /\ k - 1 \in Int /\ \A i \in 1..(k - 1) : q[i] \in Session
    BY <1>1
  <2> QED
    BY <1>1, <2>1, SubSeqProperties, LenProperties
<1>3. /\ back \in Seq(Session) /\ Len(back) = Len(q) - k
      /\ \A i \in 1..(Len(q) - k) : back[i] = q[i + k]
  <2>1. k + 1 \in Int /\ Len(q) \in Int /\ \A i \in (k + 1)..Len(q) : q[i] \in Session
    BY <1>1
  <2>2. /\ back \in Seq(Session)
        /\ Len(back) = IF k + 1 <= Len(q) THEN Len(q) - (k + 1) + 1 ELSE 0
        /\ \A i \in 1..(Len(q) - (k + 1) + 1) : back[i] = q[(k + 1) + i - 1]
    BY <2>1, SubSeqProperties
  <2>3. \A i \in 1..(Len(q) - k) : (k + 1) + i - 1 = i + k
    BY <1>1
  <2>4. Len(q) - (k + 1) + 1 = Len(q) - k
    BY <1>1
  <2>5. Len(back) = Len(q) - k
    BY <1>1, <2>2
  <2> HIDE DEF back
  <2> QED
    BY <2>2, <2>3, <2>4, <2>5
<1> HIDE DEF front, back
<1>4. /\ Len(front) = k - 1 /\ k \in Int /\ DOMAIN front = 1..(k - 1)
      /\ DOMAIN back = 1..(Len(q) - k)
      /\ \A i \in DOMAIN front : i \in DOMAIN all /\ all[i] = front[i]
      /\ \A i \in DOMAIN back : Len(front) + i \in DOMAIN all /\ all[Len(front) + i] = back[i]
  <2>1. DOMAIN front = 1..Len(front) /\ DOMAIN back = 1..Len(back)
    BY <1>2, <1>3, LenProperties
  <2>2. /\ \A i \in DOMAIN front : i \in DOMAIN all /\ all[i] = front[i]
        /\ \A i \in DOMAIN back : Len(front) + i \in DOMAIN all /\ all[Len(front) + i] = back[i]
    BY <1>2, <1>3, ConcatPlaces
  <2> HIDE DEF all
  <2> QED
    BY <1>1, <1>2, <1>3, <2>1, <2>2
<1> HIDE DEF all
<1>5. ASSUME NEW i \in DOMAIN q
      PROVE  /\ i < k => i \in DOMAIN all /\ all[i] = q[i]
             /\ i > k => i - 1 \in DOMAIN all /\ all[i - 1] = q[i]
  <2>1. CASE i < k
    <3>1. i \in 1..(k - 1)
      BY <1>1, <2>1
    <3> QED
      BY <1>1, <1>2, <1>4, <2>1, <3>1
  <2>2. CASE i > k
    <3>1. i - k \in 1..(Len(q) - k) /\ (i - k) + k = i /\ (k - 1) + (i - k) = i - 1 /\ ~(i < k)
      BY <1>1, <2>2
    <3> QED
      BY <1>3, <1>4, <3>1
  <2> QED
    BY <2>1, <2>2
<1>6. PICK i \in DOMAIN q, j \in DOMAIN q : i < j /\ q[i] = a /\ q[j] = b
  BY DEF Ahead
<1>7. i # k /\ j # k /\ i \in Int /\ j \in Int /\ k \in Int
  BY <1>1, <1>6
<1>8. CASE j < k
  <2>1. i < k
    BY <1>6, <1>7, <1>8
  <2>2. Ahead(all, a, b)
    BY <1>5, <1>6, <1>8, <2>1 DEF Ahead
  <2> QED
    BY <2>2 DEF RemoveAt, all, front, back
<1>9. CASE i < k /\ j > k
  <2>1. i < j - 1
    BY <1>7, <1>9
  <2>2. Ahead(all, a, b)
    BY <1>5, <1>6, <1>9, <2>1 DEF Ahead
  <2> QED
    BY <2>2 DEF RemoveAt, all, front, back
<1>10. CASE i > k
  <2>1. i - 1 < j - 1 /\ j > k
    BY <1>6, <1>7, <1>10
  <2>2. Ahead(all, a, b)
    BY <1>5, <1>6, <1>10, <2>1 DEF Ahead
  <2> QED
    BY <2>2 DEF RemoveAt, all, front, back
<1> QED
  BY <1>6, <1>7, <1>8, <1>9, <1>10

\* The end of a run gives its slot back, and may bring dependents to the pool.
LEMMA EndPool ==
  ASSUME NEW g \in Run, Run = {g}, TypeOK, TypeOK', OneRun(g), Lined, Lined', NEW s \in Session,
         RunEnded(s, g)
  PROVE  Pool!Return(s)
<1>1. PICK n \in 0..Len(queue), now \in SUBSET Session, wait \in SUBSET Session :
        EndParts(s, g, n, now, wait)
  BY EndEffect
<1> DEFINE rest  == SubSeq(queue, n + 1, Len(queue))
           kept  == running \ {s}
           first == Picked(n, status)
           late  == IF spent THEN {} ELSE wait
           fresh == now \cup late
<1>2. UNCHANGED <<presence, maxConcurrent>> /\ s \in running
  BY EndEffect DEF OneRun
<1>3. kept \in SUBSET Session /\ maxConcurrent \in Nat /\ queue \in Seq(Session)
      /\ Distinct(queue)
  BY LimitsAssumption DEF TypeOK, Lined
<1>4. /\ now \cap wait = {}
      /\ \A t \in now \cup wait : Live(t) /\ status[t] = "blocked"
      /\ PumpTakes(n, kept, status, maxConcurrent)
      /\ running' = kept \cup (first \cup now)
      /\ wait = {} \/ spent \/ Cardinality(running') >= maxConcurrent
      /\ now # {} => \E t \in now : Cardinality(kept \cup first \cup (now \ {t})) < maxConcurrent
      /\ spent => now = {}
      /\ \A t \in first \cup now : status'[t] = "running"
      /\ \A t \in wait : status'[t] = IF spent THEN "idle" ELSE "queued"
      /\ \A t \in Session \ (first \cup now \cup wait) : status'[t] = status[t]
  BY <1>1 DEF EndParts
<1>5. \E tail \in SetToSeqs(IF spent THEN {} ELSE wait \ ToSet(rest)) : queue' = rest \o tail
  BY <1>1 DEF EndParts
<1>6. \A t \in Session : Live(t) => (t \in ToSet(rest) <=> status[t] = "queued" /\ t \notin first)
  <2> HIDE DEF kept, first
  <2> QED
    BY <1>3, <1>4, PumpLeaves DEF first
<1>7. /\ first \in SUBSET Waiting
      /\ \A a \in first, b \in Waiting \ first : <<b, a>> \notin Before
      /\ first # {} => Cardinality(kept \cup first) <= maxConcurrent
      /\ first # Waiting => Cardinality(kept \cup first) >= maxConcurrent
  <2> HIDE DEF kept
  <2> QED
    BY <1>3, <1>4, PumpAdmits
<1>8. rest \in Seq(Session)
  BY <1>3, RestOf
<1> HIDE DEF rest, kept, first
<1>9. PICK tail \in SetToSeqs(late) : queue' = rest \o tail
  <2>1. (IF spent THEN {} ELSE wait \ ToSet(rest)) = late
    BY <1>4, <1>6
  <2> QED
    BY <1>5, <2>1
<1>10. tail \in Seq(Session) /\ ToSet(tail) = late
  BY OrderingOf
<1>11. Waiting' = (Waiting \ first) \cup late
  <2> SUFFICES ASSUME NEW t \in Session
               PROVE  t \in Waiting' <=> t \in (Waiting \ first) \cup late
    BY DEF Waiting
  <2>1. t \in Waiting' <=> Live(t) /\ status'[t] = "queued"
    BY <1>2 DEF Waiting, Live
  <2>2. t \in Waiting <=> Live(t) /\ status[t] = "queued"
    BY DEF Waiting
  <2>3. CASE t \in wait
    BY <1>4, <2>1, <2>2, <2>3
  <2>4. CASE t \in first \cup now
    BY <1>4, <1>7, <2>1, <2>2, <2>4
  <2>5. CASE t \notin first \cup now \cup wait
    BY <1>4, <2>1, <2>2, <2>5
  <2> QED
    BY <2>3, <2>4, <2>5
<1>12. \A t \in Waiting \ first : t \in ToSet(rest)
  BY <1>6 DEF Waiting
<1>13. /\ \A a, b \in Waiting \ first : Ahead(queue, a, b) => Ahead(queue', a, b)
       /\ \A a \in Waiting \ first, b \in late : Ahead(queue', a, b)
  BY <1>3, <1>9, <1>10, <1>12, RestAhead DEF rest
<1>14. Pool!Line(Waiting \ first, fresh \ now)
  <2>1. fresh \ now = late
    BY <1>4
  <2>2. Waiting \ first \in SUBSET Waiting
    OBVIOUS
  <2> HIDE DEF late, fresh
  <2> QED
    BY <1>11, <1>13, <2>1, <2>2, LineIs
<1>15. fresh \in SUBSET (Session \ (running \cup Waiting))
  <2>1. \A t \in now \cup wait : phase[t][g] = "none"
    BY <1>4, NoRunWhile
  <2>2. \A t \in now \cup wait : t \notin running /\ t \notin Waiting
    BY <1>4, <2>1 DEF OneRun, Waiting
  <2> QED
    BY <2>2
<1>16. /\ now # {} => first = Waiting /\ Cardinality(running') <= maxConcurrent
       /\ Cardinality(kept \cup first) \in Nat /\ Cardinality(running') \in Nat
       /\ Cardinality(kept \cup first) <= Cardinality(running')
  <2>1. first \in SUBSET Session /\ running' \in SUBSET Session
    BY <1>3, <1>4, <1>7 DEF Waiting
  <2>2. /\ Cardinality(kept \cup first) \in Nat /\ Cardinality(running') \in Nat
        /\ Cardinality(kept \cup first) <= Cardinality(running')
    <3>1. kept \cup first \in SUBSET Session /\ kept \cup first \subseteq running'
      BY <1>3, <1>4, <2>1
    <3> QED
      BY <2>1, <3>1, MoreInUse
  <2>3. ASSUME now # {}
        PROVE  first = Waiting /\ Cardinality(running') <= maxConcurrent
    <3>1. PICK t \in now : Cardinality(kept \cup first \cup (now \ {t})) < maxConcurrent
      BY <1>4, <2>3
    <3> DEFINE less == kept \cup first \cup (now \ {t})
    <3>2. less \in SUBSET Session /\ kept \cup first \in SUBSET Session /\ kept \cup first \subseteq less
          /\ running' = less \cup {t} /\ Cardinality(less) < maxConcurrent
      BY <1>3, <1>4, <2>1, <3>1
    <3> HIDE DEF less
    <3>3. /\ Cardinality(less) \in Nat /\ Cardinality(kept \cup first) \in Nat
          /\ Cardinality(kept \cup first) <= Cardinality(less)
      BY <3>2, MoreInUse
    <3>4. first = Waiting
      BY <1>3, <1>7, <3>2, <3>3
    <3>5. IsFiniteSet(less)
      BY <3>2, SessionsAssumption, FS_Subset
    <3>6. Cardinality(less \cup {t}) = IF t \in less THEN Cardinality(less) ELSE Cardinality(less) + 1
      BY <3>5, FS_AddElement
    <3>7. Cardinality(less \cup {t}) <= Cardinality(less) + 1
          /\ Cardinality(less \cup {t}) \in Nat
      BY <3>3, <3>6
    <3>8. Cardinality(running') <= maxConcurrent
      BY <1>3, <3>2, <3>3, <3>7
    <3> QED
      BY <3>4, <3>8
  <2> QED
    BY <2>2, <2>3
<1>17. running' = kept \cup first \cup now /\ now \in SUBSET fresh
  BY <1>4
<1>18. running' = kept \/ Cardinality(running') <= maxConcurrent
  <2>1. CASE now # {}
    BY <1>16, <2>1
  <2>2. CASE now = {} /\ first # {}
    BY <1>7, <1>17, <2>2
  <2>3. CASE now = {} /\ first = {}
    BY <1>17, <2>3
  <2> QED
    BY <2>1, <2>2, <2>3
<1>19. first # Waiting \/ now # fresh => Cardinality(running') >= maxConcurrent
  <2>1. CASE first # Waiting
    BY <1>3, <1>7, <1>16, <2>1
  <2>2. CASE now # fresh
    BY <1>4, <2>2
  <2> QED
    BY <2>1, <2>2
<1> HIDE DEF fresh, late
<1>20. Pool!Admits(kept, fresh, maxConcurrent)
  BY <1>7, <1>14, <1>16, <1>17, <1>18, <1>19, AdmitsIs
<1>21. s \notin running'
  <2>1. status[s] # "queued"
    BY <1>2, EndEffect, ShownIs DEF OneRun
  <2>2. s \notin kept /\ s \notin first /\ s \notin now
    BY <1>2, <1>7, <1>15, <1>17, <2>1 DEF Waiting, kept
  <2> QED
    BY <1>17, <2>2
<1> QED
  BY <1>2, <1>15, <1>20, <1>21 DEF Pool!Return, kept

LEMMA ResizePool ==
  ASSUME NEW g \in Run, Run = {g}, TypeOK, TypeOK', OneRun(g), Lined, Lined',
         NEW cap \in CapChoices, SetMaxConcurrent(cap)
  PROVE  Pool!Resize(cap)
<1>1. PICK n \in 0..Len(queue) :
        /\ PumpTakes(n, running, status, cap)
        /\ queue' = SubSeq(queue, n + 1, Len(queue))
        /\ Launched(g, Picked(n, status), running, status, phase)
  BY ResizeEffect
<1> DEFINE first == Picked(n, status)
<1>2. /\ UNCHANGED presence /\ maxConcurrent' = cap /\ cap \in Nat /\ running \in SUBSET Session
      /\ queue \in Seq(Session) /\ Distinct(queue)
  BY ResizeEffect, LimitsAssumption DEF TypeOK, Lined
<1>3. \A t \in Session : Live(t) => (t \in ToSet(queue') <=> status[t] = "queued" /\ t \notin first)
  BY <1>1, <1>2, PumpLeaves
<1>4. /\ first \in SUBSET Waiting
      /\ \A a \in first, b \in Waiting \ first : <<b, a>> \notin Before
      /\ first # {} => Cardinality(running \cup first) <= cap
      /\ first # Waiting => Cardinality(running \cup first) >= cap
  BY <1>1, <1>2, PumpAdmits
<1>5. /\ running' = running \cup first
      /\ \A t \in first : status'[t] = "running"
      /\ \A t \in Session \ first : status'[t] = status[t]
  BY <1>1 DEF Launched
<1> HIDE DEF first
<1>6. Waiting' = (Waiting \ first) \cup {}
  BY <1>2, <1>5 DEF Waiting, Live
<1>7. \A a, b \in Waiting \ first : Ahead(queue, a, b) => Ahead(queue', a, b)
  <2>1. \A t \in Waiting \ first : t \in ToSet(queue')
    BY <1>3 DEF Waiting
  <2>2. << >> \in Seq(Session)
    BY EmptySeq
  <2> QED
    BY <1>1, <1>2, <2>1, <2>2, RestAhead
<1>8. Pool!Line(Waiting \ first, {} \ {})
  <2>1. Waiting \ first \in SUBSET Waiting /\ {} \ {} = {}
    OBVIOUS
  <2>2. \A a \in Waiting \ first, b \in {} : Ahead(queue', a, b)
    OBVIOUS
  <2> QED
    BY <1>6, <1>7, <2>1, <2>2, LineIs
<1>9. /\ running' = running \cup first \cup {} /\ {} \in SUBSET {}
      /\ running' = running \/ Cardinality(running') <= cap
      /\ first # Waiting \/ {} # {} => Cardinality(running') >= cap
  BY <1>4, <1>5
<1>10. Pool!Admits(running, {}, cap)
  BY <1>4, <1>8, <1>9, AdmitsIs
<1> QED
  BY <1>2, <1>10 DEF Pool!Resize

\* A queued session that is stopped or deleted gives up its place.
LEMMA LeavePool ==
  ASSUME TypeOK, TypeOK', Lined, Lined', UNCHANGED <<running, maxConcurrent>>,
         NEW s \in Waiting, Waiting' = Waiting \ {s},
         \/ UNCHANGED queue
         \/ \E k \in DOMAIN queue : queue[k] = s /\ queue' = RemoveAt(queue, k)
  PROVE  Pool!Leave(s)
<1>1. \A a, b \in Waiting \ {s} : Ahead(queue, a, b) => Ahead(queue', a, b)
  BY RemoveAhead DEF TypeOK
<1>2. Waiting \ {s} \in SUBSET Waiting /\ Waiting' = (Waiting \ {s}) \cup {}
  OBVIOUS
<1>3. \A a \in Waiting \ {s}, b \in {} : Ahead(queue', a, b)
  OBVIOUS
<1>4. Pool!Line(Waiting \ {s}, {})
  BY <1>1, <1>2, <1>3, LineIs
<1> QED
  BY <1>4 DEF Pool!Leave

LEMMA StopPool ==
  ASSUME NEW g \in Run, Run = {g}, TypeOK, TypeOK', OneRun(g), Lined, Lined', NEW s \in Session,
         Stop(s)
  PROVE  Pool!Leave(s) \/ UNCHANGED Pool!vars
<1>1. /\ Live(s) /\ UNCHANGED <<presence, running, maxConcurrent>>
      /\ \A t \in Session \ {s} : status'[t] = status[t]
  BY StopEffect
<1>2. CASE UNCHANGED queue /\ status[s] # "queued" /\ status'[s] # "queued"
  <2>1. Waiting' = Waiting
    BY <1>1, <1>2 DEF Waiting, Live
  <2> QED
    BY <1>1, <1>2, <2>1, PoolStill
<1>3. CASE /\ status[s] = "queued" /\ status'[s] = "idle"
           /\ \E i \in DOMAIN queue : queue[i] = s /\ queue' = RemoveAt(queue, i)
  <2>1. s \in Waiting /\ Waiting' = Waiting \ {s}
    BY <1>1, <1>3 DEF Waiting, Live
  <2> QED
    BY <1>1, <1>3, <2>1, LeavePool
<1>4. status[s] = "queued" => s \in ToSet(queue)
  BY <1>1 DEF Lined
<1>5. "queued" \in Active
  BY DEF Active
<1> QED
  BY <1>2, <1>3, <1>4, <1>5, StopEffect

LEMMA EditPool ==
  ASSUME NEW g \in Run, Run = {g}, TypeOK, TypeOK', OneRun(g), Lined, Lined', NEW s \in Session,
         Edit(s)
  PROVE  Pool!Leave(s) \/ UNCHANGED Pool!vars
<1>1. /\ UNCHANGED <<running, queue, maxConcurrent>>
      /\ \A t \in Session \ {s} : status'[t] = status[t] /\ presence'[t] = presence[t]
      /\ presence[s] \in {"new", "live"} /\ presence'[s] # "new"
  BY EditEffect DEF Live
<1>2. status[s] # "queued" => status'[s] # "queued"
  BY EditEffect
<1>3. CASE status[s] # "queued" \/ presence'[s] = "live"
  <2>1. Waiting' = Waiting
    <3>1. CASE status[s] # "queued"
      BY <1>1, <1>2, <3>1 DEF Waiting, Live
    <3>2. CASE status[s] = "queued"
      <4>1. Live(s) /\ status'[s] = status[s]
        BY <3>2, EditEffect DEF Lined, NewIdle
      <4> QED
        BY <1>1, <1>3, <3>2, <4>1 DEF Waiting, Live
    <3> QED
      BY <3>1, <3>2
  <2> QED
    BY <1>1, <2>1, PoolStill
<1>4. CASE status[s] = "queued" /\ presence'[s] # "live"
  <2>1. Live(s)
    BY <1>4, EditEffect DEF Lined, NewIdle
  <2>2. s \in Waiting /\ Waiting' = Waiting \ {s}
    BY <1>1, <1>4, <2>1 DEF Waiting, Live
  <2> QED
    BY <1>1, <2>2, LeavePool
<1> QED
  BY <1>3, <1>4

LEMMA PoolStep ==
  ASSUME NEW g \in Run, Run = {g}, TypeOK, TypeOK', OneRun(g), Lined, Full, Lined', [Next]_vars
  PROVE  [Pool!Next]_(Pool!vars)
<1>1. ASSUME NEW s \in Session, Pool!Ask(s) \/ Pool!Leave(s) \/ Pool!Return(s)
      PROVE  Pool!Next
  BY <1>1 DEF Pool!Next
<1>2. CASE UNCHANGED <<presence, status, queue, running, maxConcurrent>>
  <2>1. Waiting' = Waiting
    BY <1>2 DEF Waiting, Live
  <2> QED
    BY <1>2, <2>1, PoolStill
<1>3. ASSUME NEW s \in Session, Start(s) \/ ResumeFires(s) \/ HealFires(s)
      PROVE  [Pool!Next]_(Pool!vars)
  BY <1>1, <1>2, <1>3, StartIs, RequestPool
<1>4. ASSUME NEW s \in Session, Event(s, g)
      PROVE  [Pool!Next]_(Pool!vars)
  <2>1. /\ status[s] # "queued" /\ status'[s] # "queued"
        /\ \A t \in Session \ {s} : status'[t] = status[t]
    BY <1>4, EventEffect, ShownIs DEF GoesOn, OneRun
  <2>2. UNCHANGED <<queue, running, maxConcurrent>>
        /\ \A t \in Session \ {s} : presence'[t] = presence[t]
    BY <1>4, EventEffect DEF EventFrame, slotVars
  <2>3. Waiting' = Waiting
    BY <2>1, <2>2 DEF Waiting, Live
  <2> QED
    BY <2>2, <2>3, PoolStill
<1>5. ASSUME NEW s \in Session, RunEnded(s, g)
      PROVE  [Pool!Next]_(Pool!vars)
  BY <1>1, <1>5, EndPool
<1>6. ASSUME NEW s \in Session, Stop(s)
      PROVE  [Pool!Next]_(Pool!vars)
  BY <1>1, <1>6, StopPool
<1>7. ASSUME NEW s \in Session, Edit(s)
      PROVE  [Pool!Next]_(Pool!vars)
  BY <1>1, <1>7, EditPool
<1>8. ASSUME NEW cap \in CapChoices, SetMaxConcurrent(cap)
      PROVE  [Pool!Next]_(Pool!vars)
  BY <1>8, ResizePool DEF Pool!Next
<1>9. CASE Restart
  <2>1. Waiting' = {} /\ Before' = {}
    BY <1>9 DEF Restart, Waiting, Before
  <2>2. running' = {} /\ UNCHANGED maxConcurrent
    BY <1>9 DEF Restart
  <2> QED
    BY <2>1, <2>2 DEF Pool!Next, Pool!Reset
<1> QED
  BY <1>2, <1>3, <1>4, <1>5, <1>6, <1>7, <1>8, <1>9, NextIs

\* The supervisor's queue and its pump keep what they promise of the cap: in the
\* order they asked, as many as there is room for and no more, whatever starts,
\* stops, ends, edits, deletions and changes of the cap come in between; the
\* stale entries of the queue never show.
THEOREM FleetImplementsSlotPool ==
  ASSUME NEW g \in Run, Run = {g}
  PROVE  Spec => ImplementsSlotPool
<1>1. Init => Pool!Init /\ Lined /\ Full
  <2> SUFFICES ASSUME Init PROVE Pool!Init /\ Lined /\ Full
    OBVIOUS
  <2>1. \A t \in Session : status[t] = "idle" /\ t \notin ToSet(queue)
    BY DEF Init, ToSet
  <2>2. Distinct(queue)
    BY DEF Init, Distinct
  <2>3. Waiting = {} /\ Before = {}
    BY <2>1 DEF Waiting, Before
  <2> QED
    BY <2>1, <2>2, <2>3 DEF Init, Pool!Init, Lined, Full, NewIdle
<1>2. TypeOK /\ SlotAccounting /\ StatusMatchesRun /\ Lined /\ Full /\ [Next]_vars => Lined' /\ Full'
  BY OneRunIs, LinedKept
<1>3. /\ TypeOK /\ TypeOK' /\ SlotAccounting /\ StatusMatchesRun /\ Lined /\ Full /\ Lined'
      /\ [Next]_vars
      => [Pool!Next]_(Pool!vars)
  BY OneRunIs, PoolStep
<1> QED
  BY <1>1, <1>2, <1>3, TypeCorrect, SlotsMatchRuns, StatusesMatchRuns, PTL DEF Spec, ImplementsSlotPool, Pool!Spec
=============================================================================
