---------------------------- MODULE FleetProofs ----------------------------
(***************************************************************************)
(* Theorems about Fleet, for every value of its constants: types, and that *)
(* slots, statuses and runs agree.                                         *)
(***************************************************************************)
EXTENDS Fleet, FiniteSetTheorems, SequenceTheorems, TLAPS

USE DEF Phase, Gates, Status, Active

(***************************************************************************)
(* Type correctness.                                                       *)
(***************************************************************************)
\* The variables an event of a run writes have their types.
RunTyped ==
  /\ status \in [Session -> Status]
  /\ phase \in [Session -> [Run -> Phase]]
  /\ turns \in [Session -> [Run -> 0..MaxTurns]]

LEMMA InitTypes == Init => TypeOK
<1> SUFFICES ASSUME Init PROVE TypeOK
  OBVIOUS
<1>1. /\ deps \in [Session -> SUBSET Session]
      /\ maxConcurrent \in CapChoices
  BY SessionsAssumption DEF Init
<1>2. /\ healAttempts \in [Session -> 0..MaxHeals]
      /\ turns \in [Session -> [Run -> 0..MaxTurns]]
  BY LimitsAssumption, SMT DEF Init
<1>3. queue \in Seq(Session) /\ running \in SUBSET Session /\ spent \in BOOLEAN
  BY EmptySeq DEF Init
<1>4. /\ presence \in [Session -> {"new", "live", "removed"}]
      /\ status \in [Session -> Status]
      /\ stopRequested \in [Session -> BOOLEAN]
      /\ reviewRequired \in [Session -> BOOLEAN]
      /\ paged \in [Session -> BOOLEAN]
  BY SMT DEF Init
<1>5. timer \in [Session -> {"none", "resume", "heal"}]
  BY SMT DEF Init
<1>6. phase \in [Session -> [Run -> Phase]]
  BY SMT DEF Init
<1> QED
  BY <1>1, <1>2, <1>3, <1>4, <1>5, <1>6 DEF TypeOK

LEMMA MovesType ==
  ASSUME TypeOK, NEW s \in Session, NEW g \in Run, NEW p \in Phase, Moves(s, g, p)
  PROVE  phase' \in [Session -> [Run -> Phase]]
<1>1. phase \in [Session -> [Run -> Phase]]
  BY DEF TypeOK
<1> HIDE DEF Phase
<1> QED
  BY <1>1 DEF Moves

LEMMA ParkType ==
  ASSUME TypeOK, NEW s \in Session, NEW g \in Run, NEW p \in Phase, NEW kind,
         Park(s, g, p, kind)
  PROVE  phase' \in [Session -> [Run -> Phase]]
<1>1. phase \in [Session -> [Run -> Phase]]
  BY DEF TypeOK
<1>2. "lost" \in Phase
  OBVIOUS
<1> HIDE DEF Phase
<1> QED
  BY <1>1, <1>2 DEF Park

LEMMA StopEventTypes ==
  ASSUME TypeOK, NEW s \in Session, NEW g \in Run, NEW st \in [Session -> Status],
         NEW halted, StopEvent(s, g, st, halted)
  PROVE  RunTyped'
<1>1. phase' \in [Session -> [Run -> Phase]]
  BY MovesType DEF StopEvent
<1>2. status' \in [Session -> Status]
  BY DEF StopEvent
<1> QED
  BY <1>1, <1>2 DEF StopEvent, RunTyped, TypeOK

LEMMA ErrorEventTypes ==
  ASSUME TypeOK, NEW s \in Session, NEW g \in Run, ErrorEvent(s, g)
  PROVE  RunTyped'
<1>1. phase' \in [Session -> [Run -> Phase]]
  BY MovesType DEF ErrorEvent
<1>2. status' \in [Session -> Status]
  BY DEF ErrorEvent, TypeOK
<1> QED
  BY <1>1, <1>2 DEF ErrorEvent, RunTyped, TypeOK

LEMMA NoticeEventsTypes ==
  ASSUME TypeOK, NEW s \in Session, NEW g \in Run, NoticeEvents(s, g)
  PROVE  RunTyped'
<1>1. [status EXCEPT ![s] = "rate-limited"] \in [Session -> Status]
  BY DEF TypeOK
<1> QED
  BY <1>1, StopEventTypes DEF NoticeEvents

LEMMA BeginTurnTypes ==
  ASSUME TypeOK, NEW s \in Session, NEW g \in Run, NEW st \in [Session -> Status],
         BeginTurn(s, g, st)
  PROVE  RunTyped'
<1>1. CASE /\ turns[s][g] < MaxTurns
           /\ status' = st
           /\ Moves(s, g, "turn")
           /\ turns' = [turns EXCEPT ![s][g] = @ + 1]
  <2>1. phase' \in [Session -> [Run -> Phase]]
    BY <1>1, MovesType
  <2>2. turns[s][g] + 1 \in 0..MaxTurns
    BY <1>1, LimitsAssumption DEF TypeOK
  <2>3. turns' \in [Session -> [Run -> 0..MaxTurns]]
    BY <1>1, <2>2, Zenon DEF TypeOK
  <2> QED
    BY <1>1, <2>1, <2>3 DEF RunTyped
<1>2. CASE StopEvent(s, g, st, stopRequested[s])
  BY <1>2, StopEventTypes
<1> QED
  BY <1>1, <1>2 DEF BeginTurn

LEMMA LoopTopTypes ==
  ASSUME TypeOK, NEW s \in Session, NEW g \in Run, NEW st \in [Session -> Status],
         LoopTop(s, g, st)
  PROVE  RunTyped'
<1>1. CASE StopEvent(s, g, st, stopRequested[s])
  BY <1>1, StopEventTypes
<1>2. CASE BeginTurn(s, g, st)
  BY <1>2, BeginTurnTypes
<1>3. CASE /\ status' = [st EXCEPT ![s] = IF @ = "running" THEN "manual" ELSE @]
           /\ Park(s, g, "manual", {"manual"})
           /\ UNCHANGED turns
  <2>1. phase' \in [Session -> [Run -> Phase]]
    BY <1>3, ParkType
  <2>2. status' \in [Session -> Status]
    BY <1>3
  <2> QED
    BY <1>3, <2>1, <2>2 DEF RunTyped, TypeOK
<1>4. CASE status' = st /\ Moves(s, g, "decide") /\ UNCHANGED turns
  BY <1>4, MovesType DEF RunTyped, TypeOK
<1> QED
  BY <1>1, <1>2, <1>3, <1>4 DEF LoopTop

\* What launch() writes, whatever sessions it is asked to launch.
LEMMA LaunchTypes ==
  ASSUME NEW L \in SUBSET Session, NEW inUse \in SUBSET Session,
         NEW st \in [Session -> Status], NEW ph \in [Session -> [Run -> Phase]],
         NEW review \in [Session -> BOOLEAN], NEW pages \in [Session -> BOOLEAN],
         TypeOK, Launch(L, inUse, st, ph, review, pages)
  PROVE  /\ running' \in SUBSET Session
         /\ status' \in [Session -> Status]
         /\ phase' \in [Session -> [Run -> Phase]]
         /\ stopRequested' \in [Session -> BOOLEAN]
         /\ reviewRequired' \in [Session -> BOOLEAN]
         /\ paged' \in [Session -> BOOLEAN]
<1>1. phase' \in [Session -> [Run -> Phase]]
  <2>1. "boot" \in Phase
    OBVIOUS
  <2> HIDE DEF Phase
  <2> QED
    BY <2>1 DEF Launch, Booted
<1>2. status' \in [Session -> Status]
  BY DEF Launch
<1>3. stopRequested' \in [Session -> BOOLEAN]
  BY DEF Launch, TypeOK
<1>4. reviewRequired' \in [Session -> BOOLEAN] /\ paged' \in [Session -> BOOLEAN]
  BY DEF Launch
<1> QED
  BY <1>1, <1>2, <1>3, <1>4 DEF Launch

LEMMA StartRequestTypes ==
  ASSUME TypeOK, NEW s \in Session, NEW auto \in BOOLEAN, NEW limit \in BOOLEAN,
         NEW pages \in [Session -> BOOLEAN], StartRequest(s, auto, limit, pages),
         spent' \in BOOLEAN, timer' \in [Session -> {"none", "resume", "heal"}]
  PROVE  TypeOK'
<1> DEFINE review == IF auto THEN reviewRequired ELSE [reviewRequired EXCEPT ![s] = FALSE]
<1>1. review \in [Session -> BOOLEAN]
  BY DEF TypeOK
<1>2. healAttempts' \in [Session -> 0..MaxHeals]
  BY LimitsAssumption DEF StartRequest, TypeOK
<1>3. CASE /\ status' = [status EXCEPT ![s] =
                           IF UnmetIn(status, s) # {} \/ Parked(s, auto) THEN "blocked" ELSE @]
           /\ reviewRequired' = IF Parked(s, auto) THEN [review EXCEPT ![s] = TRUE] ELSE review
           /\ paged' = pages
           /\ UNCHANGED <<running, queue, phase, stopRequested>>
  <2>1. status' \in [Session -> Status]
    BY <1>3 DEF TypeOK
  <2>2. reviewRequired' \in [Session -> BOOLEAN]
    BY <1>1, <1>3
  <2> QED
    BY <1>2, <1>3, <2>1, <2>2 DEF StartRequest, TypeOK
<1>4. CASE /\ status' = [status EXCEPT ![s] = "queued"]
           /\ queue' = Enqueued(queue, s)
           /\ reviewRequired' = review
           /\ UNCHANGED <<running, phase, stopRequested, paged>>
  <2>1. status' \in [Session -> Status]
    BY <1>4 DEF TypeOK
  <2>2. queue' \in Seq(Session)
    BY <1>4, AppendProperties DEF TypeOK, Enqueued
  <2> QED
    BY <1>1, <1>2, <1>4, <2>1, <2>2 DEF StartRequest, TypeOK
<1>5. CASE Launch({s}, running, status, phase, review, paged) /\ UNCHANGED queue
  <2>1. /\ running' \in SUBSET Session
        /\ status' \in [Session -> Status]
        /\ phase' \in [Session -> [Run -> Phase]]
        /\ stopRequested' \in [Session -> BOOLEAN]
        /\ reviewRequired' \in [Session -> BOOLEAN]
        /\ paged' \in [Session -> BOOLEAN]
    <3> HIDE DEF review
    <3>1. /\ {s} \in SUBSET Session /\ running \in SUBSET Session
          /\ status \in [Session -> Status] /\ paged \in [Session -> BOOLEAN]
          /\ phase \in [Session -> [Run -> Phase]]
      BY DEF TypeOK
    <3> QED
      BY <1>1, <1>5, <3>1, LaunchTypes
  <2> QED
    BY <1>2, <1>5, <2>1 DEF StartRequest, TypeOK
<1> QED
  BY <1>3, <1>4, <1>5 DEF StartRequest

LEMMA StartTypes ==
  ASSUME TypeOK, NEW s \in Session, Start(s) \/ ResumeFires(s) \/ HealFires(s)
  PROVE  TypeOK'
<1> DEFINE keeps == UNCHANGED <<presence, deps, status, stopRequested, reviewRequired,
                                healAttempts, paged, running, queue, maxConcurrent,
                                phase, turns>>
<1>1. timer' \in [Session -> {"none", "resume", "heal"}] /\ spent' \in BOOLEAN
  BY DEF Start, ResumeFires, HealFires, TypeOK, slotVars, healVars
<1>2. CASE keeps
  BY <1>1, <1>2 DEF TypeOK
<1>3. CASE ~keeps
  <2>1. PICK auto \in BOOLEAN, limit \in BOOLEAN, pages \in [Session -> BOOLEAN] :
          StartRequest(s, auto, limit, pages)
    <3>1. CASE Start(s)
      BY <3>1 DEF Start, TypeOK
    <3>2. CASE ResumeFires(s)
      BY <1>3, <3>2 DEF ResumeFires, TypeOK, slotVars, healVars
    <3>3. CASE HealFires(s)
      <4>1. [paged EXCEPT ![s] = TRUE] \in [Session -> BOOLEAN]
        BY DEF TypeOK
      <4> QED
        BY <1>3, <3>3, <4>1 DEF HealFires, TypeOK, slotVars, healVars
    <3> QED
      BY <3>1, <3>2, <3>3
  <2> QED
    BY <1>1, <2>1, StartRequestTypes
<1> QED
  BY <1>2, <1>3

\* Every event of a run but its end.
LEMMA RunEventTypes ==
  ASSUME TypeOK, NEW s \in Session, NEW g \in Run,
         RunStep(s, g), ~RunEnded(s, g)
  PROVE  TypeOK'
<1> DEFINE heal == [healAttempts EXCEPT ![s] = 0]
           resume == [timer EXCEPT ![s] = "resume"]
<1>1. /\ RunFrame
      /\ healAttempts' \in {healAttempts, heal}
      /\ timer' \in {timer, resume}
      /\ spent' \in {spent, TRUE, FALSE}
  BY Zenon DEF RunStep, GateRaised, Booting, UsageRead, BrainAnswers, BrainUnreachable,
               BrainStops, BrainBack, TurnDone, TurnFails, Killed
<1>2. heal \in [Session -> 0..MaxHeals] /\ resume \in [Session -> {"none", "resume", "heal"}]
  BY LimitsAssumption DEF TypeOK
<1>3. RunTyped'
  <2>1. CASE GateRaised(s, g)
    <3>1. phase' \in [Session -> [Run -> Phase]]
      <4>1. (IF phase[s][g] = "boot" THEN "bootGate" ELSE "turnGate") \in Phase
        OBVIOUS
      <4> HIDE DEF Phase
      <4> QED
        BY <2>1, <4>1, ParkType DEF GateRaised
    <3>2. status' \in [Session -> Status]
      BY <2>1 DEF GateRaised, TypeOK
    <3> QED
      BY <2>1, <3>1, <3>2 DEF GateRaised, RunTyped, TypeOK
  <2>2. CASE Booting(s, g) \/ TurnDone(s, g)
    <3>1. \/ Moves(s, g, "usage") /\ UNCHANGED <<status, turns>>
          \/ LoopTop(s, g, status)
          \/ ErrorEvent(s, g)
          \/ NoticeEvents(s, g)
      BY <2>2 DEF Booting, TurnDone
    <3>2. CASE Moves(s, g, "usage") /\ UNCHANGED <<status, turns>>
      BY <3>2, MovesType DEF RunTyped, TypeOK
    <3> QED
      BY <3>1, <3>2, LoopTopTypes, ErrorEventTypes, NoticeEventsTypes DEF TypeOK
  <2>3. CASE UsageRead(s, g)
    <3>1. [status EXCEPT ![s] = "rate-limited"] \in [Session -> Status]
      BY DEF TypeOK
    <3>2. status \in [Session -> Status]
      BY DEF TypeOK
    <3>3. \/ LoopTop(s, g, status)
          \/ StopEvent(s, g, [status EXCEPT ![s] = "rate-limited"], stopRequested[s])
      BY <2>3 DEF UsageRead
    <3> HIDE DEF Status
    <3> QED
      BY <3>1, <3>2, <3>3, LoopTopTypes, StopEventTypes
  <2>4. CASE BrainAnswers(s, g)
    <3>1. [status EXCEPT ![s] = "needs-input"] \in [Session -> Status]
      BY DEF TypeOK
    <3>2. CASE /\ status' = [status EXCEPT ![s] = "needs-input"]
               /\ Park(s, g, "attention", {"attention"})
               /\ UNCHANGED turns
      BY <3>1, <3>2, ParkType DEF RunTyped, TypeOK
    <3>3. status \in [Session -> Status]
      BY DEF TypeOK
    <3>4. \/ BeginTurn(s, g, status)
          \/ StopEvent(s, g, status, stopRequested[s])
          \/ ErrorEvent(s, g)
      => RunTyped'
      BY <3>3, BeginTurnTypes, StopEventTypes, ErrorEventTypes
    <3> QED
      BY <2>4, <3>2, <3>4 DEF BrainAnswers
  <2>5. CASE BrainUnreachable(s, g)
    <3>1. CASE StopEvent(s, g, status, stopRequested[s])
      BY <3>1, StopEventTypes DEF TypeOK
    <3>2. CASE status' = [status EXCEPT ![s] = "paused"] /\ Moves(s, g, "brain")
               /\ UNCHANGED turns
      <4>1. status' \in [Session -> Status]
        BY <3>2 DEF TypeOK
      <4> QED
        BY <3>2, <4>1, MovesType DEF RunTyped, TypeOK
    <3> QED
      BY <2>5, <3>1, <3>2 DEF BrainUnreachable
  <2>6. CASE BrainBack(s, g)
    <3>1. [status EXCEPT ![s] = IF @ = "paused" THEN "running" ELSE @] \in [Session -> Status]
      BY DEF TypeOK
    <3> QED
      BY <2>6, <3>1, LoopTopTypes DEF BrainBack
  <2>7. CASE BrainStops(s, g) \/ Killed(s, g)
    BY <2>7, StopEventTypes DEF BrainStops, Killed, TypeOK
  <2>8. CASE TurnFails(s, g)
    BY <2>8, StopEventTypes, ErrorEventTypes, NoticeEventsTypes DEF TurnFails, TypeOK
  <2> QED
    BY <2>1, <2>2, <2>3, <2>4, <2>5, <2>6, <2>7, <2>8 DEF RunStep
<1>4. /\ healAttempts' \in [Session -> 0..MaxHeals]
      /\ timer' \in [Session -> {"none", "resume", "heal"}]
  BY <1>1, <1>2, Zenon DEF TypeOK
<1>5. spent' \in BOOLEAN
  BY <1>1, Zenon DEF TypeOK
<1> HIDE DEF Status, Phase, heal, resume
<1> QED
  BY <1>1, <1>3, <1>4, <1>5 DEF TypeOK, RunTyped, RunFrame, slotVars

LEMMA UnparkedType ==
  ASSUME TypeOK, NEW s \in Session
  PROVE  Unparked(s, status) \in [Session -> Status]
BY DEF Unparked, TypeOK

LEMMA AnswerTypes ==
  ASSUME TypeOK, NEW s \in Session, NEW g \in Run, Answer(s, g)
  PROVE  TypeOK'
<1> DEFINE resumed == [status EXCEPT ![s] = "running"]
<1>1. resumed \in [Session -> Status]
  BY DEF TypeOK
<1>2. ASSUME NEW stop \in BOOLEAN, GateAnswered(s, g, stop)
      PROVE  TypeOK'
  <2>1. phase' \in [Session -> [Run -> Phase]]
    BY <1>2, MovesType DEF GateAnswered, AfterGate
  <2>2. stopRequested' \in [Session -> BOOLEAN]
    BY <1>2 DEF GateAnswered, TypeOK
  <2> HIDE DEF Phase, Status
  <2> QED
    BY <1>2, <2>1, <2>2, UnparkedType DEF GateAnswered, OperatorFrame, slotVars, TypeOK
<1>3. ASSUME RunTyped', OperatorFrame, UNCHANGED <<stopRequested, timer, paged>>
      PROVE  TypeOK'
  <2> HIDE DEF Phase, Status
  <2> QED
    BY <1>3 DEF RunTyped, OperatorFrame, slotVars, TypeOK
<1>4. CASE AttentionAnswered(s, g)
  BY <1>3, <1>4, UnparkedType, BeginTurnTypes DEF AttentionAnswered
<1>5. CASE AttentionStopped(s, g)
  BY <1>3, <1>5, UnparkedType, StopEventTypes DEF AttentionStopped
<1>6. CASE ManualMessage(s, g)
  BY <1>1, <1>3, <1>6, BeginTurnTypes DEF ManualMessage
<1>7. CASE ManualSwitch(s, g)
  BY <1>1, <1>3, <1>7, LoopTopTypes DEF ManualSwitch
<1> QED
  BY <1>2, <1>4, <1>5, <1>6, <1>7 DEF Answer, GateTimeout, AttentionTimeout

LEMMA StopTypes ==
  ASSUME TypeOK, NEW s \in Session, Stop(s)
  PROVE  TypeOK'
<1>1. /\ UNCHANGED <<presence, deps, healAttempts, running, maxConcurrent, spent>>
      /\ timer' \in [Session -> {"none", "resume", "heal"}]
  <2>1. timer' \in {timer, [timer EXCEPT ![s] = "none"]}
    BY Zenon DEF Stop, StopLimited, StopManual, StopQueued, StopAtGate, StopAtAttention, StopActive,
        StopInactive, StopBlocked, Cancels
  <2>2. UNCHANGED <<presence, deps, healAttempts, running, maxConcurrent, spent>>
    BY Zenon DEF Stop, StopLimited, StopManual, StopQueued, StopAtGate, StopAtAttention, StopActive,
        StopInactive, StopBlocked, Cancels, OperatorFrame, slotVars, healVars
  <2> QED
    BY <2>1, <2>2 DEF TypeOK
<1>2. /\ stopRequested' \in [Session -> BOOLEAN]
      /\ reviewRequired' \in [Session -> BOOLEAN]
      /\ paged' \in [Session -> BOOLEAN]
  <2>1. stopRequested' \in {stopRequested, [stopRequested EXCEPT ![s] = TRUE]}
    BY Zenon DEF Stop, StopLimited, StopManual, StopQueued, StopAtGate, StopAtAttention,
        StopActive, StopInactive, StopBlocked
  <2>2. reviewRequired' \in {reviewRequired, [reviewRequired EXCEPT ![s] = FALSE]}
    BY Zenon DEF Stop, StopLimited, StopManual, StopQueued, StopAtGate, StopAtAttention,
        StopActive, StopInactive, StopBlocked, Cancels, OperatorFrame
  <2>3. \/ paged' = paged
        \/ paged' = [paged EXCEPT ![s] = @ \/ (status[s] = "error" /\ timer[s] = "heal")]
    BY Zenon DEF Stop, StopLimited, StopManual, StopQueued, StopAtGate, StopAtAttention,
        StopActive, StopInactive, StopBlocked, healVars
  <2> QED
    BY <2>1, <2>2, <2>3 DEF TypeOK
<1>3. queue' \in Seq(Session)
  <2>1. CASE UNCHANGED queue
    BY <2>1 DEF TypeOK
  <2>2. CASE \E i \in DOMAIN queue : queue' = RemoveAt(queue, i)
    <3>1. PICK i \in DOMAIN queue : queue' = RemoveAt(queue, i)
      BY <2>2
    <3>2. queue \in Seq(Session) /\ i \in 1..Len(queue) /\ Len(queue) \in Nat
      BY LenProperties DEF TypeOK
    <3>3. SubSeq(queue, 1, i - 1) \in Seq(Session) /\ SubSeq(queue, i + 1, Len(queue)) \in Seq(Session)
      BY <3>2, SubSeqProperties, ElementOfSeq
    <3> QED
      BY <3>1, <3>3, ConcatProperties DEF RemoveAt
  <2> QED
    BY <2>1, <2>2 DEF Stop, StopLimited, StopManual, StopQueued, StopAtGate, StopAtAttention,
        StopActive, StopInactive, StopBlocked, Cancels, OperatorFrame, slotVars
<1>4. RunTyped'
  <2>1. CASE StopLimited(s) \/ StopInactive(s) \/ StopQueued(s) \/ StopBlocked(s)
    <3>1. status' \in {status, [status EXCEPT ![s] = "stopped"], [status EXCEPT ![s] = "idle"]}
      BY <2>1, Zenon DEF StopLimited, StopInactive, StopQueued, StopBlocked
    <3>2. UNCHANGED <<phase, turns>>
      BY <2>1 DEF StopLimited, StopInactive, StopQueued, StopBlocked
    <3> QED
      BY <3>1, <3>2 DEF RunTyped, TypeOK
  <2>2. ASSUME NEW g \in Run, StopManual(s, g) \/ StopAtAttention(s, g)
        PROVE  RunTyped'
    BY <2>2, UnparkedType, StopEventTypes DEF StopManual, StopAtAttention, TypeOK
  <2>3. ASSUME NEW g \in Run, StopAtGate(s, g)
        PROVE  RunTyped'
    <3>1. phase' \in [Session -> [Run -> Phase]]
      BY <2>3, MovesType DEF StopAtGate, AfterGate
    <3> HIDE DEF Phase, Status
    <3> QED
      BY <2>3, <3>1, UnparkedType DEF StopAtGate, RunTyped, TypeOK
  <2>4. CASE StopActive(s)
    <3>1. "killed" \in Phase
      OBVIOUS
    <3> HIDE DEF Phase, Status
    <3> QED
      BY <2>4, <3>1 DEF StopActive, RunTyped, TypeOK
  <2> QED
    BY <2>1, <2>2, <2>3, <2>4 DEF Stop
<1> HIDE DEF Phase, Status
<1> QED
  BY <1>1, <1>2, <1>3, <1>4 DEF RunTyped, TypeOK

LEMMA EditTypes ==
  ASSUME TypeOK, NEW s \in Session, Edit(s)
  PROVE  TypeOK'
<1>1. ASSUME NEW D \in DepChoices, AddSession(s, D)
      PROVE  TypeOK'
  <2>1. presence' \in [Session -> {"new", "live", "removed"}]
    BY <1>1 DEF AddSession, TypeOK
  <2>2. deps' \in [Session -> SUBSET Session]
    BY <1>1, SessionsAssumption DEF AddSession, TypeOK
  <2> HIDE DEF Phase, Status
  <2> QED
    BY <1>1, <2>1, <2>2 DEF AddSession, TypeOK, healVars, slotVars
<1>2. ASSUME NEW D \in DepChoices, UpdateDeps(s, D)
      PROVE  TypeOK'
  <2>1. status' \in [Session -> Status]
    BY <1>2 DEF UpdateDeps, TypeOK
  <2>2. deps' \in [Session -> SUBSET Session]
    BY <1>2, SessionsAssumption DEF UpdateDeps, TypeOK
  <2> HIDE DEF Phase, Status
  <2> QED
    BY <1>2, <2>1, <2>2 DEF UpdateDeps, TypeOK, healVars, slotVars
<1>3. CASE RemoveSession(s)
  <2>1. status' \in [Session -> Status]
    BY <1>3, UnparkedType DEF RemoveSession, TypeOK
  <2>2. phase' \in [Session -> [Run -> Phase]]
    BY <1>3 DEF RemoveSession, AfterGate, TypeOK
  <2>3. /\ presence' \in [Session -> {"new", "live", "removed"}]
        /\ timer' \in [Session -> {"none", "resume", "heal"}]
        /\ stopRequested' \in [Session -> BOOLEAN]
    BY <1>3 DEF RemoveSession, TypeOK
  <2> HIDE DEF Phase, Status
  <2> QED
    BY <1>3, <2>1, <2>2, <2>3 DEF RemoveSession, TypeOK, healVars, slotVars
<1> QED
  BY <1>1, <1>2, <1>3 DEF Edit

\* What is left of the queue when its first n are taken.
LEMMA RestType ==
  ASSUME TypeOK, NEW n \in 0..Len(queue)
  PROVE  SubSeq(queue, n + 1, Len(queue)) \in Seq(Session)
<1>1. queue \in Seq(Session) /\ Len(queue) \in Nat
  BY LenProperties DEF TypeOK
<1> QED
  BY <1>1, SubSeqProperties, ElementOfSeq

\* An ordering of a set of sessions is a sequence of sessions.
LEMMA OrderingType ==
  ASSUME NEW S \in SUBSET Session, NEW tail \in SetToSeqs(S)
  PROVE  tail \in Seq(Session)
<1>1. Cardinality(S) \in Nat
  BY SessionsAssumption, FS_Subset, FS_CardinalityType
<1>2. tail \in [1..Cardinality(S) -> S]
  BY DEF SetToSeqs
<1> QED
  BY <1>1, <1>2, SeqDef

LEMMA SetMaxConcurrentTypes ==
  ASSUME TypeOK, NEW cap \in CapChoices, SetMaxConcurrent(cap)
  PROVE  TypeOK'
<1>1. PICK n \in 0..Len(queue) :
        /\ queue' = SubSeq(queue, n + 1, Len(queue))
        /\ Launch(Picked(n, status), running, status, phase, reviewRequired, paged)
  BY DEF SetMaxConcurrent
<1>2. /\ running' \in SUBSET Session
      /\ status' \in [Session -> Status]
      /\ phase' \in [Session -> [Run -> Phase]]
      /\ stopRequested' \in [Session -> BOOLEAN]
      /\ reviewRequired' \in [Session -> BOOLEAN]
      /\ paged' \in [Session -> BOOLEAN]
  <2>1. Picked(n, status) \in SUBSET Session
    BY DEF Picked
  <2> HIDE DEF Phase, Status
  <2> QED
    BY <1>1, <2>1, LaunchTypes DEF TypeOK
<1> HIDE DEF Phase, Status
<1> QED
  BY <1>1, <1>2, RestType DEF SetMaxConcurrent, TypeOK

LEMMA RunEndedTypes ==
  ASSUME TypeOK, NEW s \in Session, NEW g \in Run, RunEnded(s, g)
  PROVE  TypeOK'
<1>1. PICK n \in 0..Len(queue), now \in SUBSET Session, restartable \in {FALSE, CanHeal(s)} :
        EndOf(s, g, n, now, restartable)
  BY DEF RunEnded
<1> DEFINE ended == [status EXCEPT ![s] = IF @ = "running" THEN "done" ELSE @]
           failed == ended[s] = "error"
           ready == IF ended[s] = "done" THEN Promotable(ended) ELSE {}
           deep == {t \in ready : OverDepth(t)}
           wait == (ready \ deep) \ now
           rest == SubSeq(queue, n + 1, Len(queue))
           left == [t \in Session |->
                      IF t \in wait THEN IF spent THEN "idle" ELSE "queued" ELSE ended[t]]
           freed == [phase EXCEPT ![s][g] = "none"]
           review == [t \in Session |-> reviewRequired[t] \/ t \in deep]
           pages == [paged EXCEPT ![s] = @ \/ (failed /\ ~restartable)]
           late == IF spent THEN {} ELSE wait \ ToSet(rest)
<1>2. /\ Launch(Picked(n, ended) \cup now, running \ {s}, left, freed, review, pages)
      /\ \E tail \in SetToSeqs(late) : queue' = rest \o tail
      /\ Settles(s, failed, restartable)
  BY <1>1, Zenon DEF EndOf
<1>3. ready \in SUBSET Session
  BY DEF Promotable
<1>4. ended \in [Session -> Status] /\ left \in [Session -> Status]
  BY DEF TypeOK
<1>5. freed \in [Session -> [Run -> Phase]]
  <2>1. phase \in [Session -> [Run -> Phase]] /\ "none" \in Phase
    BY DEF TypeOK
  <2> HIDE DEF Phase
  <2> QED
    BY <2>1
<1>6. review \in [Session -> BOOLEAN] /\ pages \in [Session -> BOOLEAN]
  BY DEF TypeOK
<1>7. Picked(n, ended) \cup now \in SUBSET Session /\ running \ {s} \in SUBSET Session
  BY DEF TypeOK, Picked
<1>8. queue' \in Seq(Session)
  <2>1. rest \in Seq(Session)
    BY RestType
  <2>2. late \in SUBSET Session
    BY <1>3
  <2> HIDE DEF rest, late
  <2>3. PICK tail \in SetToSeqs(late) : queue' = rest \o tail
    BY <1>2
  <2>4. tail \in Seq(Session)
    BY <2>2, OrderingType
  <2> QED
    BY <2>1, <2>3, <2>4, ConcatProperties
<1>9. /\ healAttempts' \in [Session -> 0..MaxHeals]
      /\ timer' \in [Session -> {"none", "resume", "heal"}]
      /\ turns' \in [Session -> [Run -> 0..MaxTurns]]
  <2> HIDE DEF failed
  <2>1. healAttempts' \in [Session -> 0..MaxHeals]
    <3>1. restartable => healAttempts[s] < MaxHeals
      BY Zenon DEF CanHeal
    <3>2. healAttempts' = [healAttempts EXCEPT ![s] = IF failed /\ restartable THEN @ + 1 ELSE @]
      BY <1>2 DEF Settles
    <3>3. CASE failed /\ restartable
      BY <3>1, <3>2, <3>3, LimitsAssumption DEF TypeOK
    <3>4. CASE ~(failed /\ restartable)
      BY <3>2, <3>4, LimitsAssumption DEF TypeOK
    <3> QED
      BY <3>3, <3>4
  <2>2. timer' \in [Session -> {"none", "resume", "heal"}]
    BY <1>2 DEF Settles, TypeOK
  <2>3. 0 \in 0..MaxTurns
    BY LimitsAssumption
  <2>4. turns' \in [Session -> [Run -> 0..MaxTurns]]
    BY <2>3, Zenon DEF RunEnded, TypeOK
  <2> QED
    BY <2>1, <2>2, <2>4
<1>10. /\ running' \in SUBSET Session
       /\ status' \in [Session -> Status]
       /\ phase' \in [Session -> [Run -> Phase]]
       /\ stopRequested' \in [Session -> BOOLEAN]
       /\ reviewRequired' \in [Session -> BOOLEAN]
       /\ paged' \in [Session -> BOOLEAN]
  <2> HIDE DEF Phase, Status, left, freed, review, pages
  <2>1. Launch(Picked(n, ended) \cup now, running \ {s}, left, freed, review, pages)
    BY <1>2
  <2> HIDE DEF ended
  <2> QED
    BY <2>1, <1>4, <1>5, <1>6, <1>7, LaunchTypes
<1> HIDE DEF Phase, Status
<1> QED
  BY <1>8, <1>9, <1>10 DEF RunEnded, TypeOK

\* Every variable keeps its type, whatever the sessions, dependencies, caps,
\* limits and interleavings of runs.  In particular no run counts more turns
\* than maxTurns and no session has more restarts than autoHealMaxAttempts.
THEOREM TypeCorrect == Spec => []TypeOK
<1>1. TypeOK /\ [Next]_vars => TypeOK'
  <2> SUFFICES ASSUME TypeOK, [Next]_vars PROVE TypeOK'
    OBVIOUS
  <2>1. ASSUME NEW s \in Session, Start(s) \/ ResumeFires(s) \/ HealFires(s)
        PROVE  TypeOK'
    BY <2>1, StartTypes
  <2>2. ASSUME NEW s \in Session, NEW g \in Run, RunStep(s, g)
        PROVE  TypeOK'
    BY <2>2, RunEventTypes, RunEndedTypes
  <2>3. ASSUME NEW s \in Session, NEW g \in Run, Answer(s, g)
        PROVE  TypeOK'
    BY <2>3, AnswerTypes
  <2>4. ASSUME NEW s \in Session, Stop(s) \/ Edit(s)
        PROVE  TypeOK'
    BY <2>4, StopTypes, EditTypes
  <2>5. ASSUME NEW cap \in CapChoices, SetMaxConcurrent(cap)
        PROVE  TypeOK'
    BY <2>5, SetMaxConcurrentTypes
  <2>6. CASE BudgetMoves
    BY <2>6 DEF BudgetMoves, TypeOK, healVars, slotVars
  <2>7. CASE Restart
    <3>1. healAttempts' \in [Session -> 0..MaxHeals] /\ turns' \in [Session -> [Run -> 0..MaxTurns]]
      BY <2>7, LimitsAssumption DEF Restart
    <3>2. status' \in [Session -> Status] /\ phase' \in [Session -> [Run -> Phase]]
      BY <2>7 DEF Restart
    <3>3. queue' \in Seq(Session) /\ running' \in SUBSET Session /\ spent' \in BOOLEAN
      BY <2>7, EmptySeq DEF Restart, TypeOK
    <3>4. /\ stopRequested' \in [Session -> BOOLEAN]
          /\ reviewRequired' \in [Session -> BOOLEAN]
          /\ paged' \in [Session -> BOOLEAN]
          /\ timer' \in [Session -> {"none", "resume", "heal"}]
      BY <2>7 DEF Restart
    <3> HIDE DEF Phase, Status
    <3> QED
      BY <2>7, <3>1, <3>2, <3>3, <3>4 DEF Restart, TypeOK
  <2>8. CASE UNCHANGED vars
    BY <2>8 DEF vars, TypeOK
  <2> QED
    BY <2>1, <2>2, <2>3, <2>4, <2>5, <2>6, <2>7, <2>8 DEF Next
<1> QED
  BY InitTypes, <1>1, PTL DEF Spec

(***************************************************************************)
(* Slots, statuses and runs, when no run starts in the teardown of the     *)
(* last one (Run is a singleton; FleetTeardown shows what happens if not). *)
(***************************************************************************)
\* SlotAccounting and StatusMatchesRun for the one run g a session can have.
OneRun(g) ==
  \A s \in Session :
    /\ s \in running <=> phase[s][g] # "none"
    /\ phase[s][g] # "none" => Shows(status[s], phase[s][g])
    /\ status[s] \in {"running", "paused", "manual", "needs-input"} => phase[s][g] # "none"

LEMMA OneRunIs ==
  ASSUME NEW g, Run = {g}, TypeOK
  PROVE  OneRun(g) <=> SlotAccounting /\ StatusMatchesRun
<1>1. \A s \in Session : Alive(s) = {h \in Run : phase[s][h] # "none"}
  BY DEF Alive, InPhase, TypeOK
<1>2. \A s \in Session : (Alive(s) # {} <=> phase[s][g] # "none") /\ Alive(s) \subseteq {g}
  BY <1>1
<1> HIDE DEF Alive, Phase, Status
<1>3. SlotAccounting <=> \A s \in Session : s \in running <=> phase[s][g] # "none"
  BY <1>2 DEF SlotAccounting
<1>4. StatusMatchesRun <=>
        \A s \in Session :
          /\ phase[s][g] # "none" => Shows(status[s], phase[s][g])
          /\ status[s] \in {"running", "paused", "manual", "needs-input"} => phase[s][g] # "none"
  BY <1>1, <1>2 DEF StatusMatchesRun
<1> QED
  BY <1>3, <1>4 DEF OneRun

LEMMA ShownIs ==
  ASSUME NEW st, NEW p, Shows(st, p)
  PROVE  /\ p \in {"boot", "usage", "decide", "turn", "killed"} => st = "running"
         /\ p = "brain" => st = "paused"
         /\ p = "manual" => st = "manual"
         /\ p \in {"bootGate", "turnGate", "attention"} => st = "needs-input"
         /\ p = "closing" => st \in {"rate-limited", "stopped", "done", "error"}
         /\ p # "lost"
         /\ st \notin {"idle", "queued", "blocked"}
BY DEF Shows

\* The run of s goes on (the slot is kept), its status with it; no other does.
GoesOn(s, g) ==
  /\ phase'[s][g] # "none"
  /\ Shows(status'[s], phase'[s][g])
  /\ \A t \in Session \ {s} : status'[t] = status[t] /\ phase'[t] = phase[t]

LEMMA GoesOnKeeps ==
  ASSUME NEW g, OneRun(g), NEW s \in Session, phase[s][g] # "none",
         GoesOn(s, g), UNCHANGED running
  PROVE  OneRun(g)'
BY DEF OneRun, GoesOn

\* st is status but for s.
Agrees(st, s) ==
  /\ st \in [Session -> Status]
  /\ \A t \in Session \ {s} : st[t] = status[t]

LEMMA AgreesExcept ==
  ASSUME TypeOK, NEW s \in Session, NEW v \in Status
  PROVE  Agrees([status EXCEPT ![s] = v], s) /\ [status EXCEPT ![s] = v][s] = v
BY DEF Agrees, TypeOK

LEMMA MovesTo ==
  ASSUME TypeOK, NEW s \in Session, NEW g \in Run, NEW p, Moves(s, g, p)
  PROVE  /\ phase'[s][g] = p
         /\ \A t \in Session \ {s} : phase'[t] = phase[t]
<1>1. phase \in [Session -> [Run -> Phase]]
  BY DEF TypeOK
<1> HIDE DEF Phase
<1> QED
  BY <1>1 DEF Moves

LEMMA ParksAt ==
  ASSUME TypeOK, NEW s \in Session, NEW g \in Run, NEW p, NEW kind, Park(s, g, p, kind)
  PROVE  /\ phase'[s][g] = p
         /\ \A t \in Session \ {s} : phase'[t] = phase[t]
<1>1. phase \in [Session -> [Run -> Phase]]
  BY DEF TypeOK
<1> HIDE DEF Phase
<1> QED
  BY <1>1 DEF Park

LEMMA StopEventGoesOn ==
  ASSUME TypeOK, NEW s \in Session, NEW g \in Run, NEW st, Agrees(st, s),
         NEW halted \in BOOLEAN, StopEvent(s, g, st, halted)
  PROVE  GoesOn(s, g)
<1>1. phase'[s][g] = "closing" /\ \A t \in Session \ {s} : phase'[t] = phase[t]
  BY MovesTo DEF StopEvent
<1>2. status'[s] \in {"rate-limited", "stopped", "done"}
  BY DEF StopEvent, Agrees
<1>3. \A t \in Session \ {s} : status'[t] = status[t]
  BY DEF StopEvent, Agrees
<1> QED
  BY <1>1, <1>2, <1>3 DEF GoesOn, Shows

LEMMA ErrorEventGoesOn ==
  ASSUME TypeOK, NEW s \in Session, NEW g \in Run, ErrorEvent(s, g)
  PROVE  GoesOn(s, g)
<1>1. phase'[s][g] = "closing" /\ \A t \in Session \ {s} : phase'[t] = phase[t]
  BY MovesTo DEF ErrorEvent
<1>2. /\ status'[s] \in {"stopped", "error"}
      /\ \A t \in Session \ {s} : status'[t] = status[t]
  BY DEF ErrorEvent, TypeOK
<1> QED
  BY <1>1, <1>2 DEF GoesOn, Shows

LEMMA BeginTurnGoesOn ==
  ASSUME TypeOK, NEW s \in Session, NEW g \in Run, NEW st, Agrees(st, s),
         st[s] = "running", BeginTurn(s, g, st)
  PROVE  GoesOn(s, g)
<1>1. CASE status' = st /\ Moves(s, g, "turn")
  <2>1. phase'[s][g] = "turn" /\ \A t \in Session \ {s} : phase'[t] = phase[t]
    BY <1>1, MovesTo
  <2> QED
    BY <1>1, <2>1 DEF GoesOn, Shows, Agrees
<1>2. CASE StopEvent(s, g, st, stopRequested[s])
  BY <1>2, StopEventGoesOn DEF TypeOK
<1> QED
  BY <1>1, <1>2 DEF BeginTurn

LEMMA LoopTopGoesOn ==
  ASSUME TypeOK, NEW s \in Session, NEW g \in Run, NEW st, Agrees(st, s),
         st[s] = "running", LoopTop(s, g, st)
  PROVE  GoesOn(s, g)
<1>1. CASE StopEvent(s, g, st, stopRequested[s])
  BY <1>1, StopEventGoesOn DEF TypeOK
<1>2. CASE BeginTurn(s, g, st)
  BY <1>2, BeginTurnGoesOn
<1>3. CASE /\ status' = [st EXCEPT ![s] = IF @ = "running" THEN "manual" ELSE @]
           /\ Park(s, g, "manual", {"manual"})
  <2>1. status'[s] = "manual" /\ \A t \in Session \ {s} : status'[t] = status[t]
    BY <1>3 DEF Agrees
  <2>2. phase'[s][g] = "manual" /\ \A t \in Session \ {s} : phase'[t] = phase[t]
    BY <1>3, ParksAt
  <2> QED
    BY <2>1, <2>2 DEF GoesOn, Shows
<1>4. CASE status' = st /\ Moves(s, g, "decide")
  <2>1. phase'[s][g] = "decide" /\ \A t \in Session \ {s} : phase'[t] = phase[t]
    BY <1>4, MovesTo
  <2> QED
    BY <1>4, <2>1 DEF GoesOn, Shows, Agrees
<1> QED
  BY <1>1, <1>2, <1>3, <1>4 DEF LoopTop

LEMMA RunEventGoesOn ==
  ASSUME NEW g \in Run, TypeOK, OneRun(g), NEW s \in Session,
         RunStep(s, g), ~RunEnded(s, g)
  PROVE  GoesOn(s, g) /\ UNCHANGED running /\ phase[s][g] # "none"
<1> USE DEF OneRun
<1>1. UNCHANGED running /\ phase[s][g] # "none"
  BY Zenon
  DEF RunStep, GateRaised, Booting, UsageRead, BrainAnswers, BrainUnreachable, BrainStops,
      BrainBack, TurnDone, TurnFails, Killed, RunFrame, slotVars
<1>2. Agrees(status, s)
  BY DEF Agrees, TypeOK
<1>3. phase[s][g] \in {"boot", "usage", "decide", "turn", "killed"} => status[s] = "running"
  BY ShownIs
<1>4. phase[s][g] = "brain" => status[s] = "paused"
  BY ShownIs
<1> HIDE DEF OneRun, Phase, Status, Gates
<1>5. /\ stopRequested[s] \in BOOLEAN
      /\ Agrees([status EXCEPT ![s] = "rate-limited"], s)
  BY AgreesExcept DEF TypeOK, Status
<1>6. CASE GateRaised(s, g)
  <2>1. status'[s] = "needs-input" /\ \A t \in Session \ {s} : status'[t] = status[t]
    BY <1>6 DEF GateRaised, TypeOK
  <2>2. phase'[s][g] \in {"bootGate", "turnGate"} /\ \A t \in Session \ {s} : phase'[t] = phase[t]
    BY <1>6, ParksAt DEF GateRaised
  <2>3. GoesOn(s, g)
    BY <2>1, <2>2 DEF GoesOn, Shows, Gates
  <2> QED
    BY <1>1, <2>3
<1>7. CASE Booting(s, g) \/ TurnDone(s, g)
  <2>1. CASE Moves(s, g, "usage") /\ UNCHANGED status
    <3>1. phase'[s][g] = "usage" /\ \A t \in Session \ {s} : phase'[t] = phase[t]
      BY <2>1, MovesTo
    <3>2. status'[s] = "running" /\ \A t \in Session \ {s} : status'[t] = status[t]
      BY <1>3, <1>7, <2>1 DEF Booting, TurnDone
    <3> QED
      BY <3>1, <3>2, <1>1 DEF GoesOn, Shows
  <2>2. CASE LoopTop(s, g, status)
    BY <1>1, <1>2, <1>3, <1>7, <2>2, LoopTopGoesOn DEF Booting, TurnDone
  <2>3. CASE ErrorEvent(s, g)
    BY <1>1, <2>3, ErrorEventGoesOn
  <2>4. CASE NoticeEvents(s, g)
    BY <1>1, <1>5, <2>4, StopEventGoesOn DEF NoticeEvents
  <2> QED
    BY <1>7, <2>1, <2>2, <2>3, <2>4 DEF Booting, TurnDone
<1>8. CASE UsageRead(s, g)
  <2>1. CASE LoopTop(s, g, status)
    BY <1>1, <1>2, <1>3, <1>8, <2>1, LoopTopGoesOn DEF UsageRead
  <2>2. CASE StopEvent(s, g, [status EXCEPT ![s] = "rate-limited"], stopRequested[s])
    BY <1>1, <1>5, <2>2, StopEventGoesOn
  <2> QED
    BY <1>8, <2>1, <2>2 DEF UsageRead
<1>9. CASE BrainAnswers(s, g)
  <2>1. CASE BeginTurn(s, g, status)
    BY <1>1, <1>2, <1>3, <1>9, <2>1, BeginTurnGoesOn DEF BrainAnswers
  <2>2. CASE StopEvent(s, g, status, stopRequested[s])
    BY <1>1, <1>2, <1>5, <2>2, StopEventGoesOn
  <2>3. CASE /\ status' = [status EXCEPT ![s] = "needs-input"]
             /\ Park(s, g, "attention", {"attention"})
    <3>1. phase'[s][g] = "attention" /\ \A t \in Session \ {s} : phase'[t] = phase[t]
      BY <2>3, ParksAt
    <3>2. status'[s] = "needs-input" /\ \A t \in Session \ {s} : status'[t] = status[t]
      BY <2>3 DEF TypeOK
    <3> QED
      BY <3>1, <3>2, <1>1 DEF GoesOn, Shows
  <2>4. CASE ErrorEvent(s, g)
    BY <1>1, <2>4, ErrorEventGoesOn
  <2> QED
    BY <1>9, <2>1, <2>2, <2>3, <2>4 DEF BrainAnswers
<1>10. CASE BrainUnreachable(s, g)
  <2>1. CASE StopEvent(s, g, status, stopRequested[s])
    BY <1>1, <1>2, <1>5, <2>1, StopEventGoesOn
  <2>2. CASE status' = [status EXCEPT ![s] = "paused"] /\ Moves(s, g, "brain")
    <3>1. phase'[s][g] = "brain" /\ \A t \in Session \ {s} : phase'[t] = phase[t]
      BY <2>2, MovesTo
    <3>2. status'[s] = "paused" /\ \A t \in Session \ {s} : status'[t] = status[t]
      BY <2>2 DEF TypeOK
    <3> QED
      BY <3>1, <3>2, <1>1 DEF GoesOn, Shows
  <2> QED
    BY <1>10, <2>1, <2>2 DEF BrainUnreachable
<1>11. CASE BrainBack(s, g)
  <2> DEFINE st == [status EXCEPT ![s] = IF @ = "paused" THEN "running" ELSE @]
  <2>1. st = [status EXCEPT ![s] = "running"]
    BY <1>4, <1>11 DEF BrainBack, TypeOK
  <2>2. Agrees(st, s) /\ st[s] = "running"
    BY <2>1, AgreesExcept DEF Status, Active
  <2> QED
    BY <1>1, <1>11, <2>2, LoopTopGoesOn DEF BrainBack
<1>12. CASE BrainStops(s, g) \/ Killed(s, g)
  BY <1>1, <1>2, <1>5, <1>12, StopEventGoesOn DEF BrainStops, Killed
<1>13. CASE TurnFails(s, g)
  <2>1. CASE StopEvent(s, g, status, stopRequested[s])
    BY <1>1, <1>2, <1>5, <2>1, StopEventGoesOn
  <2>2. CASE ErrorEvent(s, g)
    BY <1>1, <2>2, ErrorEventGoesOn
  <2>3. CASE NoticeEvents(s, g)
    BY <1>1, <1>5, <2>3, StopEventGoesOn DEF NoticeEvents
  <2> QED
    BY <1>13, <2>1, <2>2, <2>3 DEF TurnFails
<1> QED
  BY <1>6, <1>7, <1>8, <1>9, <1>10, <1>11, <1>12, <1>13 DEF RunStep

LEMMA AnswerGoesOn ==
  ASSUME NEW g \in Run, TypeOK, OneRun(g), NEW s \in Session, Answer(s, g)
  PROVE  GoesOn(s, g) /\ UNCHANGED running /\ phase[s][g] # "none"
<1>1. UNCHANGED running /\ phase[s][g] \in {"bootGate", "turnGate", "attention", "manual"}
  BY DEF Answer, GateAnswered, GateTimeout, AttentionAnswered, AttentionTimeout,
         AttentionStopped, AttentionOpen, ManualMessage, ManualSwitch, OperatorFrame, slotVars
<1>2. Shows(status[s], phase[s][g]) /\ phase[s][g] # "none"
  BY <1>1 DEF OneRun
<1>3. stopRequested[s] \in BOOLEAN
  BY DEF TypeOK
<1> DEFINE resumed == [status EXCEPT ![s] = "running"]
<1>4. Agrees(resumed, s) /\ resumed[s] = "running"
  BY AgreesExcept
<1>5. phase[s][g] # "manual" => Unparked(s, status) = resumed
  BY <1>1, <1>2, ShownIs DEF Unparked, TypeOK
<1> HIDE DEF resumed, Phase, Status, Active, Gates
<1>6. ASSUME NEW stop \in BOOLEAN, GateAnswered(s, g, stop)
      PROVE  GoesOn(s, g)
  <2>1. phase[s][g] \in {"bootGate", "turnGate"} /\ status' = resumed
    BY <1>5, <1>6 DEF GateAnswered, Gates
  <2>2. phase'[s][g] \in {"boot", "turn"} /\ \A t \in Session \ {s} : phase'[t] = phase[t]
    BY <1>6, <2>1, MovesTo DEF GateAnswered, AfterGate
  <2> QED
    BY <1>4, <2>1, <2>2 DEF GoesOn, Shows, Agrees
<1>7. CASE AttentionAnswered(s, g)
  <2>1. BeginTurn(s, g, resumed)
    BY <1>5, <1>7 DEF AttentionAnswered, AttentionOpen
  <2> QED
    BY <1>1, <1>2, <1>4, <2>1, BeginTurnGoesOn
<1>8. CASE AttentionStopped(s, g)
  <2>1. StopEvent(s, g, resumed, stopRequested[s])
    BY <1>5, <1>8 DEF AttentionStopped, AttentionOpen
  <2> QED
    BY <1>1, <1>2, <1>3, <1>4, <2>1, StopEventGoesOn
<1>9. CASE ManualMessage(s, g)
  <2>1. BeginTurn(s, g, resumed)
    BY <1>9 DEF ManualMessage, resumed
  <2> QED
    BY <1>1, <1>2, <1>4, <2>1, BeginTurnGoesOn
<1>10. CASE ManualSwitch(s, g)
  <2>1. LoopTop(s, g, resumed)
    BY <1>10 DEF ManualSwitch, resumed
  <2> QED
    BY <1>1, <1>2, <1>4, <2>1, LoopTopGoesOn
<1> QED
  BY <1>1, <1>2, <1>6, <1>7, <1>8, <1>9, <1>10
  DEF Answer, GateTimeout, AttentionTimeout

LEMMA StopGoesOn ==
  ASSUME NEW g, Run = {g}, TypeOK, OneRun(g), NEW s \in Session, Stop(s)
  PROVE  OneRun(g)'
<1>1. UNCHANGED running
  BY Zenon DEF Stop, StopLimited, StopManual, StopQueued, StopAtGate, StopAtAttention,
      StopActive, StopInactive, StopBlocked, Cancels, OperatorFrame, slotVars
<1>2. /\ phase[s][g] # "none" => Shows(status[s], phase[s][g])
      /\ status[s] \in {"running", "paused", "manual", "needs-input"} => phase[s][g] # "none"
  BY DEF OneRun
<1>3. CASE StopLimited(s) \/ StopQueued(s) \/ StopBlocked(s) \/ StopInactive(s)
  <2>1. UNCHANGED phase
    BY <1>3 DEF StopLimited, StopQueued, StopBlocked, StopInactive
  <2>2. \/ UNCHANGED status
        \/ status[s] = "rate-limited" /\ status' = [status EXCEPT ![s] = "stopped"]
        \/ status[s] \in {"queued", "blocked"} /\ status' = [status EXCEPT ![s] = "idle"]
    BY <1>3 DEF StopLimited, StopQueued, StopBlocked, StopInactive
  <2>3. phase[s][g] # "none" => Shows(status'[s], phase[s][g])
    BY <1>2, <2>2 DEF Shows, TypeOK
  <2>4. status'[s] \in {"running", "paused", "manual", "needs-input"} => status'[s] = status[s]
    BY <2>2 DEF TypeOK
  <2>5. \A t \in Session \ {s} : status'[t] = status[t]
    BY <2>2 DEF TypeOK
  <2> HIDE DEF Phase, Status, Active, Gates
  <2> QED
    BY <1>1, <2>1, <2>3, <2>4, <2>5 DEF OneRun
<1>4. CASE StopManual(s, g)
  <2>1. Agrees(status, s) /\ phase[s][g] # "none"
    BY <1>4 DEF Agrees, TypeOK, StopManual
  <2> QED
    BY <1>1, <1>4, <2>1, StopEventGoesOn, GoesOnKeeps DEF StopManual
<1>5. CASE StopAtGate(s, g)
  <2>1. phase'[s][g] \in {"boot", "turn"} /\ \A t \in Session \ {s} : phase'[t] = phase[t]
    BY <1>5, MovesTo DEF StopAtGate, AfterGate
  <2>2. status'[s] = "running" /\ \A t \in Session \ {s} : status'[t] = status[t]
    BY <1>5 DEF StopAtGate, Unparked, TypeOK
  <2>3. phase[s][g] # "none"
    BY <1>5 DEF StopAtGate
  <2> QED
    BY <1>1, <2>1, <2>2, <2>3, GoesOnKeeps DEF GoesOn, Shows
<1>6. CASE StopAtAttention(s, g)
  <2>1. phase[s][g] # "none" /\ Unparked(s, status) = [status EXCEPT ![s] = "running"]
    BY <1>6 DEF StopAtAttention, Unparked, TypeOK
  <2>2. Agrees(Unparked(s, status), s)
    BY <2>1, AgreesExcept
  <2> QED
    BY <1>1, <1>6, <2>1, <2>2, StopEventGoesOn, GoesOnKeeps DEF StopAtAttention
<1>7. CASE StopActive(s)
  <2>1. phase[s][g] # "none" /\ Shows(status[s], phase[s][g])
    BY <1>2, <1>7 DEF StopActive
  <2>2. phase'[s][g] = IF phase[s][g] \in {"boot", "turn"} THEN "killed" ELSE phase[s][g]
    BY <1>7 DEF StopActive, TypeOK
  <2>3. \A t \in Session \ {s} : phase'[t] = phase[t]
    BY <1>7 DEF StopActive, TypeOK
  <2>4. UNCHANGED status
    BY <1>7 DEF StopActive
  <2>5. Shows(status[s], phase'[s][g]) /\ phase'[s][g] # "none"
    BY <2>1, <2>2 DEF Shows
  <2> QED
    BY <1>1, <2>1, <2>3, <2>4, <2>5, GoesOnKeeps DEF GoesOn
<1> QED
  BY <1>3, <1>4, <1>5, <1>6, <1>7 DEF Stop

\* A session that has no run: what start(), pump() and promoteReady() launch.
LEMMA NoRunWhile ==
  ASSUME NEW g, OneRun(g), NEW s \in Session,
         status[s] \in {"idle", "queued", "blocked"} \/ s \notin running
  PROVE  phase[s][g] = "none"
BY ShownIs DEF OneRun

\* OneRun for slots, statuses and phases on the way to a launch.
Agree(inUse, st, ph, g) ==
  \A s \in Session :
    /\ s \in inUse <=> ph[s][g] # "none"
    /\ ph[s][g] # "none" => Shows(st[s], ph[s][g])
    /\ st[s] \in {"running", "paused", "manual", "needs-input"} => ph[s][g] # "none"

\* launch() from slots, statuses and phases that agree leaves them agreeing.
LEMMA LaunchAgrees ==
  ASSUME NEW g, Run = {g}, NEW L \in SUBSET Session, NEW inUse \in SUBSET Session,
         NEW st \in [Session -> Status], NEW ph \in [Session -> [Run -> Phase]],
         NEW review, NEW pages, Launch(L, inUse, st, ph, review, pages),
         \A s \in L : ph[s][g] = "none", Agree(inUse, st, ph, g)
  PROVE  OneRun(g)'
<1> HIDE DEF Phase, Status, Gates, Active
<1>1. \A s \in L : (CHOOSE h \in Run : ph[s][h] = "none") = g
  OBVIOUS
<1>2. /\ \A s \in L : phase'[s][g] = "boot" /\ status'[s] = "running"
      /\ \A s \in Session \ L : phase'[s] = ph[s] /\ status'[s] = st[s]
  BY <1>1 DEF Launch, Booted
<1>3. running' = inUse \cup L
  BY DEF Launch
<1> QED
  BY <1>2, <1>3 DEF OneRun, Agree, Shows

LEMMA StartAgrees ==
  ASSUME NEW g, Run = {g}, TypeOK, OneRun(g), NEW s \in Session,
         Start(s) \/ ResumeFires(s) \/ HealFires(s)
  PROVE  OneRun(g)'
<1>1. CASE UNCHANGED <<running, status, phase>>
  BY <1>1 DEF OneRun
<1>2. CASE ~UNCHANGED <<running, status, phase>>
  <2>1. CanStart(s) /\ \E auto, limit, pages : StartRequest(s, auto, limit, pages)
    BY <1>2, Zenon DEF Start, ResumeFires, HealFires, slotVars, healVars
  <2>2. phase[s][g] = "none"
    BY <2>1 DEF CanStart, HasFreeRun
  <2>3. CASE /\ UNCHANGED <<running, phase>>
             /\ \E v \in {"blocked", "queued", status[s]} : status' = [status EXCEPT ![s] = v]
    <3>1. PICK v \in {"blocked", "queued", status[s]} : status' = [status EXCEPT ![s] = v]
      BY <2>3
    <3>2. status[s] \notin {"running", "paused", "manual", "needs-input"}
      BY <2>1 DEF CanStart
    <3>3. status'[s] \notin {"running", "paused", "manual", "needs-input"}
      BY <3>1, <3>2 DEF TypeOK
    <3>4. \A t \in Session \ {s} : status'[t] = status[t]
      BY <3>1 DEF TypeOK
    <3> HIDE DEF Phase, Status, Gates, Active
    <3> QED
      BY <2>2, <2>3, <3>3, <3>4 DEF OneRun
  <2>4. CASE \E review : Launch({s}, running, status, phase, review, paged)
    <3>1. running \in SUBSET Session /\ status \in [Session -> Status]
          /\ phase \in [Session -> [Run -> Phase]]
      BY DEF TypeOK
    <3>2. Agree(running, status, phase, g)
      BY DEF OneRun, Agree
    <3>3. PICK review : Launch({s}, running, status, phase, review, paged)
      BY <2>4
    <3>4. {s} \in SUBSET Session /\ \A t \in {s} : phase[t][g] = "none"
      BY <2>2
    <3> HIDE DEF Phase, Status, Gates, Active
    <3> QED
      BY <3>1, <3>2, <3>3, <3>4, LaunchAgrees
  <2> QED
    BY <2>1, <2>3, <2>4, Zenon DEF StartRequest
<1> QED
  BY <1>1, <1>2

LEMMA EditAgrees ==
  ASSUME NEW g, Run = {g}, TypeOK, OneRun(g), NEW s \in Session, Edit(s)
  PROVE  OneRun(g)'
<1>1. UNCHANGED running
  BY DEF Edit, AddSession, UpdateDeps, RemoveSession, slotVars
<1>2. ASSUME NEW D \in DepChoices, AddSession(s, D)
      PROVE  OneRun(g)'
  BY <1>2 DEF AddSession, OneRun, slotVars
<1>3. ASSUME NEW D \in DepChoices, UpdateDeps(s, D)
      PROVE  OneRun(g)'
  <2>1. status' \in {status, [status EXCEPT ![s] = "idle"]}
        /\ (status' # status => status[s] = "blocked")
    BY <1>3 DEF UpdateDeps, TypeOK
  <2>2. status[s] = "blocked" => phase[s][g] = "none"
    BY NoRunWhile
  <2>3. /\ status'[s] = status[s] \/ (status'[s] = "idle" /\ phase[s][g] = "none")
        /\ \A t \in Session \ {s} : status'[t] = status[t]
    BY <2>1, <2>2 DEF TypeOK
  <2> HIDE DEF Phase, Status, Gates, Active
  <2> QED
    BY <1>1, <1>3, <2>3 DEF UpdateDeps, OneRun
<1>4. CASE RemoveSession(s)
  <2>1. /\ phase'[s][g] = IF phase[s][g] = "attention" THEN "closing"
                          ELSE AfterGate(phase[s][g])
        /\ \A t \in Session \ {s} : phase'[t] = phase[t]
    BY <1>4 DEF RemoveSession, TypeOK
  <2>2. /\ status'[s] = IF phase[s][g] = "attention" THEN "stopped"
                        ELSE IF phase[s][g] \in Gates /\ status[s] = "needs-input" THEN "running"
                        ELSE status[s]
        /\ \A t \in Session \ {s} : status'[t] = status[t]
    BY <1>4 DEF RemoveSession, InPhase, Unparked, TypeOK
  <2>3. phase[s][g] # "none" => Shows(status[s], phase[s][g])
    BY DEF OneRun
  <2>4. CASE phase[s][g] = "none"
    <3>1. phase'[s][g] = "none" /\ status'[s] = status[s]
      BY <2>1, <2>2, <2>4 DEF AfterGate
    <3> HIDE DEF Phase, Status, Gates, Active
    <3> QED
      BY <1>1, <2>1, <2>2, <2>4, <3>1 DEF OneRun
  <2>5. CASE phase[s][g] # "none"
    <3>1. Shows(status'[s], phase'[s][g]) /\ phase'[s][g] # "none"
      <4>1. phase'[s][g] # "none"
        BY <2>1, <2>5 DEF AfterGate
      <4>2. CASE phase[s][g] = "attention"
        BY <2>1, <2>2, <4>2 DEF Shows
      <4>3. CASE phase[s][g] \in Gates
        BY <2>1, <2>2, <2>3, <2>5, <4>3, ShownIs DEF Shows, AfterGate
      <4>4. CASE phase[s][g] \notin Gates \cup {"attention"}
        BY <2>1, <2>2, <2>3, <2>5, <4>4 DEF AfterGate
      <4> QED
        BY <4>1, <4>2, <4>3, <4>4
    <3> QED
      BY <1>1, <2>1, <2>2, <2>5, <3>1, GoesOnKeeps DEF GoesOn
  <2> QED
    BY <2>4, <2>5
<1> QED
  BY <1>2, <1>3, <1>4 DEF Edit

LEMMA PickedAreQueued ==
  ASSUME NEW n, NEW st
  PROVE  \A s \in Picked(n, st) : s \in Session /\ st[s] = "queued"
BY DEF Picked

LEMMA SetMaxConcurrentAgrees ==
  ASSUME NEW g, Run = {g}, TypeOK, OneRun(g), NEW cap \in CapChoices, SetMaxConcurrent(cap)
  PROVE  OneRun(g)'
<1>1. PICK n \in 0..Len(queue) :
        Launch(Picked(n, status), running, status, phase, reviewRequired, paged)
  BY DEF SetMaxConcurrent
<1>2. /\ Picked(n, status) \in SUBSET Session
      /\ \A s \in Picked(n, status) : phase[s][g] = "none"
  BY PickedAreQueued, NoRunWhile
<1>3. /\ running \in SUBSET Session /\ status \in [Session -> Status]
      /\ phase \in [Session -> [Run -> Phase]]
  BY DEF TypeOK
<1>4. Agree(running, status, phase, g)
  BY DEF OneRun, Agree
<1> HIDE DEF Phase, Status, Gates, Active
<1> QED
  BY <1>1, <1>2, <1>3, <1>4, LaunchAgrees

LEMMA RunEndedAgrees ==
  ASSUME NEW g, Run = {g}, TypeOK, OneRun(g), NEW s \in Session, RunEnded(s, g)
  PROVE  OneRun(g)'
<1>1. PICK n \in 0..Len(queue), now \in SUBSET Session, restartable \in {FALSE, CanHeal(s)} :
        EndOf(s, g, n, now, restartable)
  BY DEF RunEnded
<1> DEFINE ended == [status EXCEPT ![s] = IF @ = "running" THEN "done" ELSE @]
           ready == IF ended[s] = "done" THEN Promotable(ended) ELSE {}
           deep == {t \in ready : OverDepth(t)}
           wait == (ready \ deep) \ now
           left == [t \in Session |->
                      IF t \in wait THEN IF spent THEN "idle" ELSE "queued" ELSE ended[t]]
           freed == [phase EXCEPT ![s][g] = "none"]
<1>2. /\ \E review, pages :
           Launch(Picked(n, ended) \cup now, running \ {s}, left, freed, review, pages)
      /\ now \subseteq ready
  BY <1>1, Zenon DEF EndOf, Splits
<1>3. status[s] \in {"rate-limited", "stopped", "done", "error"} /\ phase[s][g] = "closing"
  BY ShownIs DEF OneRun, RunEnded
<1>4. ended = status
  BY <1>3 DEF TypeOK
<1>5. \A t \in ready : t \in Session /\ status[t] = "blocked"
  BY <1>4 DEF Promotable
<1>6. \A t \in Picked(n, ended) \cup now : t \in Session /\ phase[t][g] = "none" /\ t # s
  <2>1. \A t \in Session : status[t] \in {"queued", "blocked"} => phase[t][g] = "none"
    BY NoRunWhile
  <2>2. \A t \in Picked(n, ended) : t \in Session /\ status[t] = "queued"
    BY <1>4, PickedAreQueued
  <2>3. \A t \in now : t \in Session /\ status[t] = "blocked"
    BY <1>2, <1>5
  <2> HIDE DEF Phase, Status, Gates, Active, ended, ready
  <2> QED
    BY <1>3, <2>1, <2>2, <2>3
<1>7. /\ freed[s][g] = "none"
      /\ \A t \in Session \ {s} : freed[t] = phase[t]
      /\ freed \in [Session -> [Run -> Phase]]
  <2>1. phase \in [Session -> [Run -> Phase]] /\ "none" \in Phase
    BY DEF TypeOK
  <2> HIDE DEF Phase
  <2> QED
    BY <2>1
<1>8. /\ left \in [Session -> Status]
      /\ \A t \in Session :
           left[t] = status[t] \/ (left[t] \in {"idle", "queued"} /\ status[t] = "blocked")
  BY <1>4, <1>5 DEF TypeOK
<1> HIDE DEF ended, ready, deep, wait, left, freed
<1>9. Agree(running \ {s}, left, freed, g)
  <2> SUFFICES ASSUME NEW t \in Session
               PROVE  /\ t \in running \ {s} <=> freed[t][g] # "none"
                      /\ freed[t][g] # "none" => Shows(left[t], freed[t][g])
                      /\ left[t] \in {"running", "paused", "manual", "needs-input"}
                           => freed[t][g] # "none"
    BY DEF Agree
  <2>1. CASE t = s
    BY <1>3, <1>7, <1>8, <2>1
  <2>2. CASE t # s
    <3>1. freed[t] = phase[t]
      BY <1>7, <2>2
    <3>2. left[t] # status[t] => phase[t][g] = "none" /\ left[t] \in {"idle", "queued"}
      BY <1>8, NoRunWhile
    <3> HIDE DEF Phase, Status, Gates, Active
    <3> QED
      BY <2>2, <3>1, <3>2 DEF OneRun
  <2> QED
    BY <2>1, <2>2
<1>10. PICK review, pages :
         Launch(Picked(n, ended) \cup now, running \ {s}, left, freed, review, pages)
  BY <1>2
<1>11. /\ Picked(n, ended) \cup now \in SUBSET Session
       /\ running \ {s} \in SUBSET Session
       /\ \A t \in Picked(n, ended) \cup now : freed[t][g] = "none"
  BY <1>6, <1>7 DEF TypeOK
<1> HIDE DEF Phase, Status, Gates, Active
<1> QED
  BY <1>7, <1>8, <1>9, <1>10, <1>11, LaunchAgrees

LEMMA OneRunKept ==
  ASSUME NEW g, Run = {g}
  PROVE  TypeOK /\ OneRun(g) /\ [Next]_vars => OneRun(g)'
<1> SUFFICES ASSUME TypeOK, OneRun(g), [Next]_vars PROVE OneRun(g)'
  OBVIOUS
<1>1. ASSUME NEW s \in Session, Start(s) \/ ResumeFires(s) \/ HealFires(s)
      PROVE  OneRun(g)'
  BY <1>1, StartAgrees
<1>2. ASSUME NEW s \in Session, NEW h \in Run, RunStep(s, h)
      PROVE  OneRun(g)'
  BY <1>2, RunEventGoesOn, GoesOnKeeps, RunEndedAgrees
<1>3. ASSUME NEW s \in Session, NEW h \in Run, Answer(s, h)
      PROVE  OneRun(g)'
  BY <1>3, AnswerGoesOn, GoesOnKeeps
<1>4. ASSUME NEW s \in Session, Stop(s) \/ Edit(s)
      PROVE  OneRun(g)'
  BY <1>4, StopGoesOn, EditAgrees
<1>5. ASSUME NEW cap \in CapChoices, SetMaxConcurrent(cap)
      PROVE  OneRun(g)'
  BY <1>5, SetMaxConcurrentAgrees
<1>6. CASE BudgetMoves
  BY <1>6 DEF BudgetMoves, OneRun, slotVars
<1>7. CASE Restart
  BY <1>7 DEF Restart, OneRun
<1>8. CASE UNCHANGED vars
  BY <1>8 DEF vars, OneRun
<1> QED
  BY <1>1, <1>2, <1>3, <1>4, <1>5, <1>6, <1>7, <1>8 DEF Next

LEMMA OneRunHolds ==
  ASSUME NEW g, Run = {g}
  PROVE  Spec => [](TypeOK /\ OneRun(g))
<1>1. Init => OneRun(g)
  BY DEF Init, OneRun
<1> QED
  BY <1>1, OneRunKept, TypeCorrect, PTL DEF Spec

\* While a session's runs never overlap, the slots in use are exactly the
\* sessions with a run alive, teardown included: no run without a slot, no slot
\* leaked.
THEOREM SlotsMatchRuns ==
  ASSUME NEW g, Run = {g}
  PROVE  Spec => []SlotAccounting
<1>1. TypeOK /\ OneRun(g) => SlotAccounting
  BY OneRunIs
<1> QED
  BY <1>1, OneRunHolds, PTL

\* The status, which alone guards start(), stop() and removeSession(), tells what
\* the run of the session is doing, and that there is one.
THEOREM StatusesMatchRuns ==
  ASSUME NEW g, Run = {g}
  PROVE  Spec => []StatusMatchesRun
<1>1. TypeOK /\ OneRun(g) => StatusMatchesRun
  BY OneRunIs
<1> QED
  BY <1>1, OneRunHolds, PTL
=============================================================================
