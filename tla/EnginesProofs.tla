---------------------------- MODULE EnginesProofs ----------------------------
(***************************************************************************)
(* Theorems about the engines, for every number of runs, requests, server  *)
(* processes and turns of OpenCode, and of conversations and prompts of    *)
(* Headless (H); and about a session that is handed to one of the two.     *)
(***************************************************************************)
EXTENDS EnginesMC, TLAPS


(***************************************************************************)
(* The server.                                                             *)
(***************************************************************************)
\* A child is held only while ensure() polls for it or its url is out.
ChildPolledOrServing == child = None \/ url \/ ensuring = "polling"

\* ensure() is in flight only while there is no url.
EnsuringWithoutUrl == ensuring # "no" => ~url

ServerInv == ChildPolledOrServing /\ EnsuringWithoutUrl

LEMMA ServerKept == ServerInv /\ [Next]_vars => ServerInv'
<1> SUFFICES ASSUME ServerInv, [Next]_vars PROVE ServerInv'
  OBVIOUS
<1> USE DEF ServerInv, ChildPolledOrServing, EnsuringWithoutUrl
<1>1. CASE UNCHANGED <<url, ensuring, child>>
  BY <1>1
<1>2. ASSUME NEW r \in Run, Launch(r) PROVE ServerInv'
  <2>1. CASE Ensure(r)
    BY <2>1 DEF Ensure
  <2>2. CASE EnsureCached(r)
    BY <2>2 DEF EnsureCached, Becomes, server
  <2>3. CASE UNCHANGED server
    BY <2>3 DEF server
  <2> QED
    BY <1>2, <2>1, <2>2, <2>3 DEF Launch, Becomes
<1>3. CASE Attach
  BY <1>3 DEF Attach
<1>4. CASE GiveUp
  BY <1>4 DEF GiveUp
<1>5. ASSUME NEW p \in Proc, Spawn(p) PROVE ServerInv'
  BY <1>5 DEF Spawn
<1>6. ASSUME NEW p \in Proc, ExitEvent(p) PROVE ServerInv'
  BY <1>6 DEF ExitEvent
<1>7. ASSUME ForeignLeaves \/ \E p \in Proc : Boots(p) \/ Dies(p)
      PROVE  UNCHANGED <<url, ensuring, child>>
  BY <1>7 DEF ForeignLeaves, Boots, Dies
<1>8. ASSUME NEW p \in Perm, AnsweredElsewhere(p) PROVE UNCHANGED server
  BY <1>8 DEF AnsweredElsewhere
<1>9. ASSUME NEW r \in Run, LoopSteps(r) PROVE UNCHANGED server
  BY <1>9 DEF LoopSteps, Create, Top, Decide, BrainFails, BrainBack, BrainStops,
              QuestionTimesOut, TurnReturns, TurnFails, TurnTimesOut, Ends, Becomes
<1>10. ASSUME NEW r \in Run, PermissionSteps(r) PROVE UNCHANGED server
  BY <1>10 DEF PermissionSteps, GateTimesOut, StreamEnds, Asks, ReadPermission, GateClosed,
               Becomes
<1>11. ASSUME NEW r \in Run, OperatorSteps(r), ~Launch(r) PROVE UNCHANGED server
  BY <1>11 DEF OperatorSteps, Message, SwitchMode, AnswerQuestion, ResolveGate, Stop, GateClosed,
               Becomes
<1>12. UNCHANGED server => UNCHANGED <<url, ensuring, child>>
  BY DEF server
<1>13. UNCHANGED vars => UNCHANGED server
  BY DEF vars, server
<1> QED
  BY <1>1, <1>2, <1>3, <1>4, <1>5, <1>6, <1>7, <1>8, <1>9, <1>10, <1>11, <1>12, <1>13
  DEF Next, ManagerSteps

\* However many runs ask at once, and whatever becomes of the processes, none is
\* spawned while the manager holds one.
THEOREM OneServerAtATime == Spec => OneServer
<1> DEFINE A == \A p \in Proc : Spawn(p) => child = None
<1>1. Init => ServerInv
  BY DEF Init, ServerInv, ChildPolledOrServing, EnsuringWithoutUrl
<1>2. ServerInv => A
  BY DEF ServerInv, ChildPolledOrServing, EnsuringWithoutUrl, Spawn
<1>3. Spec => [][A]_vars
  <2> HIDE DEF A
  <2> QED
    BY <1>1, <1>2, ServerKept, PTL DEF Spec
<1> QED
  BY <1>3 DEF OneServer

(***************************************************************************)
(* The records of a run and of a request.                                  *)
(***************************************************************************)
\* What the supervisor does to a record keeps its type and its open gate.
LEMMA RecordSteps ==
  ASSUME NEW m \in RunState
  PROVE  /\ StopRun(m) \in RunState /\ StopRun(m).gate = m.gate
         /\ Fail(m) \in RunState /\ Fail(m).gate = m.gate
         /\ Prompted(m) \in RunState /\ Prompted(m).gate = m.gate
         /\ Unpark(m) \in RunState /\ Unpark(m).gate = m.gate
<1>1. StopRun(m) \in RunState /\ StopRun(m).gate = m.gate
  BY DEF StopRun, RunState, Phase, Status
<1>2. Fail(m) \in RunState /\ Fail(m).gate = m.gate
  BY DEF Fail, RunState, Phase, Status
<1>3. Unpark(m) \in RunState /\ Unpark(m).gate = m.gate
  BY DEF Unpark, RunState, Status
<1>4. Prompted(m) \in RunState /\ Prompted(m).gate = m.gate
  <2>1. MaxTurns \in Nat /\ m.turns \in 0..MaxTurns
    BY OpenCodeAssumption DEF RunState
  <2>2. CASE m.turns < MaxTurns
    <3>1. m.turns + 1 \in 0..MaxTurns
      BY <2>1, <2>2
    <3> QED
      BY <2>2, <3>1 DEF Prompted, RunState, Phase
  <2>3. CASE ~(m.turns < MaxTurns)
    BY <1>1, <2>3 DEF Prompted
  <2> QED
    BY <2>2, <2>3
<1> QED
  BY <1>1, <1>2, <1>3, <1>4

LEMMA RecordAnswers ==
  ASSUME NEW m \in RunState, NEW stops \in BOOLEAN
  PROVE  Answered(m, stops) \in RunState /\ Answered(m, stops).gate = m.gate
<1> DEFINE n == [Unpark(m) EXCEPT !.card = "none"]
<1>1. n \in RunState /\ n.gate = m.gate
  BY RecordSteps DEF RunState
<1> HIDE DEF n
<1>2. Answered(m, stops) = IF stops THEN StopRun(n) ELSE Prompted(n)
  BY DEF Answered, n
<1> QED
  BY <1>1, <1>2, RecordSteps

LEMMA RecordLaunches ==
  ASSUME NEW m \in RunState
  PROVE  /\ Refused(m) \in RunState /\ Refused(m).gate = m.gate
         /\ Launched(m, "ensure") \in RunState /\ Launched(m, "ensure").gate = m.gate
         /\ Launched(m, "create") \in RunState /\ Launched(m, "create").gate = m.gate
<1>1. Fail(m) \in RunState /\ Fail(m).gate = m.gate
  BY RecordSteps
<1>2. Refused(m) \in RunState /\ Refused(m).gate = m.gate
  BY <1>1 DEF Refused, RunState, Phase
<1>3. /\ Launched(m, "ensure") \in RunState /\ Launched(m, "ensure").gate = m.gate
      /\ Launched(m, "create") \in RunState /\ Launched(m, "create").gate = m.gate
  BY DEF Launched, RunState, Phase, Status
<1> QED
  BY <1>2, <1>3

LEMMA RecordOpensGate ==
  ASSUME NEW m \in RunState, NEW p \in Perm
  PROVE  GateOpened(m, p) \in RunState /\ GateOpened(m, p).gate = p
BY DEF GateOpened, RunState, Reader, Status

(***************************************************************************)
(* Permissions.                                                            *)
(***************************************************************************)
RecordsTyped == run \in [Run -> RunState] /\ perm \in [Perm -> PermState]

\* The gate of a run is a request of that run which was taken and not answered.
GateIsOwn(r) ==
  run[r].gate # None => LET p == perm[run[r].gate]
                        IN  p.of = r /\ p.seen /\ p.sent = 0

AnsweredOnce(p) ==
  /\ ~perm[p].seen => perm[p].sent = 0
  /\ perm[p].granted => perm[p].approved
  /\ perm[p].sent <= 1

GateInv ==
  /\ RecordsTyped
  /\ \A r \in Run : GateIsOwn(r)
  /\ \A p \in Perm : AnsweredOnce(p)

LEMMA GateInit == Init => GateInv
<1> SUFFICES ASSUME Init PROVE GateInv
  OBVIOUS
<1>1. MaxTurns \in Nat
  BY OpenCodeAssumption
<1>2. \A r \in Run : run[r].gate = None
  BY DEF Init
<1>3. \A p \in Perm : perm[p].sent = 0 /\ ~perm[p].granted
  BY DEF Init
<1>4. run \in [Run -> RunState]
  BY <1>1 DEF Init, RunState, Phase, Status, Reader
<1>5. perm \in [Perm -> PermState]
  BY DEF Init, PermState
<1> QED
  BY <1>2, <1>3, <1>4, <1>5 DEF GateInv, RecordsTyped, GateIsOwn, AnsweredOnce

\* While the server waits for an answer to a request, its run is in the turn that
\* asked or past its end, and a gate that is open for it has its own card on show.
CardShows(m, p) ==
  /\ m.phase \in {"turn", "dispose", "ended"}
  /\ m.gate = p => m.card = "gate"

OpenGateShows(r, p) == perm[p].of = r /\ perm[p].open => CardShows(run[r], p)

CardInv == \A r \in Run, p \in Perm : OpenGateShows(r, p)

\* A step that leaves the requests alone, and every run its gate.
LEMMA GatesStay ==
  ASSUME GateInv, UNCHANGED perm, run' \in [Run -> RunState],
         \A r \in Run : run'[r].gate = run[r].gate
  PROVE  GateInv'
BY DEF GateInv, RecordsTyped, GateIsOwn, AnsweredOnce

LEMMA BecomesKeeps ==
  ASSUME GateInv, NEW r \in Run, NEW m \in RunState, m.gate = run[r].gate, Becomes(r, m)
  PROVE  GateInv'
<1>1. run' \in [Run -> RunState] /\ \A q \in Run : run'[q].gate = run[q].gate
  BY DEF Becomes, GateInv, RecordsTyped
<1> QED
  BY <1>1, GatesStay DEF Becomes

LEMMA LoopKeeps ==
  ASSUME GateInv, NEW r \in Run, LoopSteps(r), ~QuestionTimesOut(r) PROVE GateInv'
<1> DEFINE m == run[r]
<1>1. m \in RunState
  BY DEF GateInv, RecordsTyped
<1>2. /\ \A t \in {"top", "decide", "attention", "brain", "manual"} :
           [m EXCEPT !.phase = t] \in RunState /\ [m EXCEPT !.phase = t].gate = m.gate
      /\ [m EXCEPT !.phase = "top", !.reader = "reading"] \in RunState
      /\ [m EXCEPT !.phase = "top", !.reader = "reading"].gate = m.gate
  BY <1>1 DEF RunState, Phase, Reader
<1>3. ASSUME NEW st \in Status
      PROVE  /\ [m EXCEPT !.phase = "manual", !.status = st] \in RunState
             /\ [m EXCEPT !.phase = "manual", !.status = st].gate = m.gate
             /\ [m EXCEPT !.phase = "top", !.status = st] \in RunState
             /\ [m EXCEPT !.phase = "top", !.status = st].gate = m.gate
             /\ [m EXCEPT !.phase = "brain", !.status = st] \in RunState
             /\ [m EXCEPT !.phase = "brain", !.status = st].gate = m.gate
  BY <1>1 DEF RunState, Phase
<1>4. {"manual", "running", "paused", "needs-input", m.status} \subseteq Status
  BY <1>1 DEF RunState, Status
<1>5. /\ StopRun(m) \in RunState /\ StopRun(m).gate = m.gate
      /\ Fail(m) \in RunState /\ Fail(m).gate = m.gate
      /\ Prompted(m) \in RunState /\ Prompted(m).gate = m.gate
  BY <1>1, RecordSteps
<1>6. [m EXCEPT !.phase = "attention", !.status = "needs-input", !.card = "question"] \in RunState
  BY <1>1 DEF RunState, Phase, Status
<1>7. [m EXCEPT !.phase = "attention", !.status = "needs-input", !.card = "question"].gate = m.gate
  BY <1>1 DEF RunState
<1>8. ASSUME NEW rd \in Reader
      PROVE  /\ [m EXCEPT !.phase = "ended", !.reader = rd] \in RunState
             /\ [m EXCEPT !.phase = "ended", !.reader = rd].gate = m.gate
  BY <1>1 DEF RunState, Phase
<1>9. CASE Create(r)
  BY <1>2, <1>5, <1>9, BecomesKeeps DEF Create
<1>10. CASE Top(r)
  <2>1. CASE Becomes(r, StopRun(m))
    BY <1>5, <2>1, BecomesKeeps
  <2>2. CASE Becomes(r, [m EXCEPT !.phase = "manual",
               !.status = IF m.status = "running" THEN "manual" ELSE m.status])
    BY <1>3, <1>4, <2>2, BecomesKeeps
  <2>3. CASE Becomes(r, IF m.turns = 0 THEN Prompted(m) ELSE [m EXCEPT !.phase = "decide"])
    BY <1>2, <1>5, <2>3, BecomesKeeps
  <2> QED
    BY <1>10, <2>1, <2>2, <2>3 DEF Top
<1>11. CASE Decide(r)
  <2>1. CASE Becomes(r, Prompted(m)) \/ Becomes(r, StopRun(m))
    BY <1>5, <2>1, BecomesKeeps
  <2>2. CASE Becomes(r, [m EXCEPT !.phase = "attention", !.status = "needs-input",
                                  !.card = "question"])
    BY <1>6, <1>7, <2>2, BecomesKeeps
  <2> QED
    BY <1>11, <2>1, <2>2 DEF Decide
<1>12. CASE BrainFails(r)
  BY <1>3, <1>4, <1>5, <1>12, BecomesKeeps DEF BrainFails
<1>13. CASE BrainBack(r)
  BY <1>3, <1>4, <1>13, BecomesKeeps DEF BrainBack
<1>14. CASE BrainStops(r)
  BY <1>5, <1>14, BecomesKeeps DEF BrainStops
<1>15. CASE TurnReturns(r)
  BY <1>2, <1>15, BecomesKeeps DEF TurnReturns
<1>16. CASE TurnFails(r) \/ TurnTimesOut(r)
  BY <1>5, <1>16, BecomesKeeps DEF TurnFails, TurnTimesOut
<1>17. CASE Ends(r)
  BY <1>8, <1>17, BecomesKeeps DEF Ends, Reader
<1> QED
  BY <1>9, <1>10, <1>11, <1>12, <1>13, <1>14, <1>15, <1>16, <1>17 DEF LoopSteps

\* Requests other than p, and the gates of runs other than r, are as they were.
LEMMA OthersKeep ==
  ASSUME GateInv, NEW r \in Run, NEW p \in Perm, NEW m \in RunState, NEW n \in PermState,
         run' = [run EXCEPT ![r] = m], perm' = [perm EXCEPT ![p] = n],
         perm[p].of = r,
         m.gate # None => m.gate = p /\ n.of = r /\ n.seen /\ n.sent = 0,
         ~n.seen => n.sent = 0,
         n.granted => n.approved,
         n.sent <= 1
  PROVE  GateInv'
<1>1. RecordsTyped'
  BY DEF GateInv, RecordsTyped
<1>2. /\ run'[r] = m /\ \A q \in Run \ {r} : run'[q] = run[q]
      /\ perm'[p] = n /\ \A q \in Perm \ {p} : perm'[q] = perm[q]
  BY DEF GateInv, RecordsTyped
<1>3. ASSUME NEW q \in Run PROVE GateIsOwn(q)'
  <2>1. CASE q = r
    BY <1>2, <2>1 DEF GateIsOwn
  <2>2. CASE q # r
    <3>1. run'[q] = run[q]
      BY <1>2, <2>2
    <3>2. run[q] \in RunState
      BY DEF GateInv, RecordsTyped
    <3>3. run[q].gate # None => run[q].gate \in Perm \ {p}
      BY <2>2, <3>2 DEF GateInv, GateIsOwn, RunState
    <3> QED
      BY <1>2, <3>1, <3>3 DEF GateInv, GateIsOwn
  <2> QED
    BY <2>1, <2>2
<1>4. ASSUME NEW q \in Perm PROVE AnsweredOnce(q)'
  BY <1>2 DEF AnsweredOnce, GateInv
<1> QED
  BY <1>1, <1>3, <1>4 DEF GateInv

LEMMA RespondedState ==
  ASSUME NEW q \in PermState, q.sent = 0, q.granted => q.approved,
         NEW clicked \in BOOLEAN, NEW approve \in BOOLEAN, NEW lands \in BOOLEAN,
         lands /\ approve => clicked,
         NEW o, o = Responded(Said(q, clicked), approve, lands)
  PROVE  /\ o \in PermState
         /\ o.of = q.of /\ o.seen = q.seen /\ o.sent = 1
         /\ o.granted => o.approved
<1>1. q.sent + 1 \in 0..2 /\ q.sent + 1 = 1
  OBVIOUS
<1>2. o.of = q.of /\ o.seen = q.seen /\ o.sent = 1
  BY <1>1 DEF Responded, Said, PermState
<1>3. o \in PermState
  BY <1>1 DEF Responded, Said, PermState
<1>4. o.granted = (q.granted \/ (lands /\ approve)) /\ o.approved = (q.approved \/ clicked)
  BY DEF Responded, Said, PermState
<1> QED
  BY <1>2, <1>3, <1>4

LEMMA CloseKeeps ==
  ASSUME GateInv, NEW r \in Run, NEW m \in RunState, m.gate = run[r].gate,
         run[r].gate # None, NEW clicked \in BOOLEAN, NEW approve \in BOOLEAN,
         perm[run[r].gate].open /\ approve => clicked, GateClosed(r, clicked, approve, m)
  PROVE  GateInv'
<1> DEFINE p == m.gate
           lands == Healthy /\ perm[p].open
           o == Responded(Said(perm[p], clicked), approve, lands)
<1>1. p \in Perm
  BY DEF RunState
<1>2. perm[p].of = r /\ perm[p].seen /\ perm[p].sent = 0
  BY DEF GateInv, GateIsOwn
<1>3. perm[p] \in PermState /\ (perm[p].granted => perm[p].approved)
  BY <1>1 DEF GateInv, RecordsTyped, AnsweredOnce
<1>4. run' = [run EXCEPT ![r] = GateShut(m)] /\ perm' = [perm EXCEPT ![p] = o]
  BY Zenon DEF GateClosed
<1>5. GateShut(m) \in RunState /\ GateShut(m).gate = None
  <2>1. Unpark(m) \in RunState
    BY RecordSteps
  <2> QED
    BY <2>1 DEF GateShut, RunState, Reader
<1>6. lands \in BOOLEAN /\ (lands /\ approve => clicked)
  OBVIOUS
<1> HIDE DEF lands
<1>7. o \in PermState /\ o.of = r /\ o.seen /\ o.sent = 1 /\ (o.granted => o.approved)
  BY <1>2, <1>3, <1>6, RespondedState
<1>8. o.sent <= 1
  BY <1>7
<1> HIDE DEF o, p
<1> QED
  BY <1>1, <1>2, <1>4, <1>5, <1>7, <1>8, OthersKeep, Zenon

LEMMA ReadKeeps ==
  ASSUME GateInv, NEW r \in Run, NEW p \in Perm, ReadPermission(r, p) PROVE GateInv'
<1> DEFINE n == GateOpened(run[r], p)
           o == [perm[p] EXCEPT !.seen = TRUE]
<1>1. run[r] \in RunState /\ perm[p] \in PermState /\ AnsweredOnce(p)
  BY DEF GateInv, RecordsTyped
<1>2. n \in RunState /\ n.gate = p
  BY <1>1, RecordOpensGate
<1>3. perm[p].of = r /\ ~perm[p].seen /\ perm[p].sent = 0
  BY <1>1 DEF ReadPermission, AnsweredOnce
<1>4. /\ o \in PermState /\ o.of = r /\ o.seen /\ o.sent = 0
      /\ o.granted => o.approved
  BY <1>1, <1>3 DEF PermState, AnsweredOnce
<1>5. run' = [run EXCEPT ![r] = n] /\ perm' = [perm EXCEPT ![p] = o]
  BY Zenon DEF ReadPermission
<1>6. o.sent <= 1
  BY <1>4
<1> HIDE DEF n, o
<1> QED
  BY <1>2, <1>3, <1>4, <1>5, <1>6, OthersKeep, Zenon

\* What the server and other clients do to a request: its answer is not theirs.
LEMMA ExternalKeeps ==
  ASSUME GateInv, UNCHANGED run, NEW p \in Perm, NEW n \in PermState,
         perm' = [perm EXCEPT ![p] = n],
         perm[p].of # None => n.of = perm[p].of,
         n.seen = perm[p].seen, n.sent = perm[p].sent,
         n.granted = perm[p].granted, n.approved = perm[p].approved
  PROVE  GateInv'
<1>1. RecordsTyped'
  BY DEF GateInv, RecordsTyped
<1>2. perm'[p] = n /\ \A q \in Perm \ {p} : perm'[q] = perm[q]
  BY DEF GateInv, RecordsTyped
<1>3. ASSUME NEW q \in Run PROVE GateIsOwn(q)'
  <2>1. q # None
    BY OpenCodeAssumption
  <2>2. run[q].gate # None => run[q].gate \in Perm
    BY DEF GateInv, RecordsTyped, RunState
  <2> QED
    BY <1>2, <2>1, <2>2 DEF GateInv, GateIsOwn
<1>4. ASSUME NEW q \in Perm PROVE AnsweredOnce(q)'
  BY <1>2 DEF AnsweredOnce, GateInv
<1> QED
  BY <1>1, <1>3, <1>4 DEF GateInv

LEMMA AskKeeps ==
  ASSUME GateInv, NEW r \in Run, NEW p \in Perm, Asks(r, p) PROVE GateInv'
<1> DEFINE n == [perm[p] EXCEPT !.of = r, !.open = TRUE]
<1>1. perm[p] \in PermState
  BY DEF GateInv, RecordsTyped
<1>2. /\ n \in PermState
      /\ n.seen = perm[p].seen /\ n.sent = perm[p].sent
      /\ n.granted = perm[p].granted /\ n.approved = perm[p].approved
  BY <1>1 DEF PermState
<1>3. perm' = [perm EXCEPT ![p] = n] /\ UNCHANGED run /\ perm[p].of = None
  BY Zenon DEF Asks
<1> HIDE DEF n
<1> QED
  BY <1>2, <1>3, ExternalKeeps

LEMMA ElsewhereKeeps ==
  ASSUME GateInv, NEW p \in Perm, AnsweredElsewhere(p) PROVE GateInv'
<1> DEFINE n == [perm[p] EXCEPT !.open = FALSE, !.elsewhere = TRUE]
<1>1. perm[p] \in PermState
  BY DEF GateInv, RecordsTyped
<1>2. /\ n \in PermState
      /\ n.of = perm[p].of /\ n.seen = perm[p].seen /\ n.sent = perm[p].sent
      /\ n.granted = perm[p].granted /\ n.approved = perm[p].approved
  BY <1>1 DEF PermState
<1>3. perm' = [perm EXCEPT ![p] = n] /\ UNCHANGED run
  BY Zenon DEF AnsweredElsewhere
<1> HIDE DEF n
<1> QED
  BY <1>2, <1>3, ExternalKeeps

LEMMA PermissionKeeps ==
  ASSUME GateInv, NEW r \in Run, PermissionSteps(r) PROVE GateInv'
<1> DEFINE m == run[r]
<1>1. m \in RunState
  BY DEF GateInv, RecordsTyped
<1>2. CASE GateTimesOut(r)
  BY <1>1, <1>2, CloseKeeps DEF GateTimesOut
<1>3. CASE StreamEnds(r)
  <2>1. [m EXCEPT !.reader = "over"] \in RunState /\ [m EXCEPT !.reader = "over"].gate = m.gate
    BY <1>1 DEF RunState, Reader
  <2> QED
    BY <1>3, <2>1, BecomesKeeps DEF StreamEnds
<1> QED
  BY <1>2, <1>3, AskKeeps, ReadKeeps DEF PermissionSteps

LEMMA OperatorKeeps ==
  ASSUME GateInv, CardInv, NEW r \in Run, OperatorSteps(r) PROVE GateInv'
<1> DEFINE m == run[r]
<1>1. m \in RunState
  BY DEF GateInv, RecordsTyped
<1>2. CASE Launch(r)
  <2>1. CASE Ensure(r)
    <3>1. run' = [run EXCEPT ![r] = Launched(m, "ensure")] /\ UNCHANGED perm
      BY <2>1 DEF Ensure
    <3>2. run' \in [Run -> RunState] /\ \A q \in Run : run'[q].gate = run[q].gate
      BY <1>1, <3>1, RecordLaunches DEF GateInv, RecordsTyped
    <3> QED
      BY <3>1, <3>2, GatesStay
  <2>2. CASE EnsureCached(r)
    BY <1>1, <2>2, RecordLaunches, BecomesKeeps DEF EnsureCached
  <2>3. CASE Becomes(r, Refused(m))
    BY <1>1, <2>3, RecordLaunches, BecomesKeeps
  <2> QED
    BY <1>2, <2>1, <2>2, <2>3 DEF Launch
<1>3. CASE Message(r)
  <2> DEFINE n == [m EXCEPT !.status = "running"]
  <2>1. n \in RunState /\ n.gate = m.gate
    BY <1>1 DEF RunState, Status
  <2> HIDE DEF n
  <2>2. Becomes(r, Prompted(n))
    BY <1>3, Zenon DEF Message, n
  <2> QED
    BY <2>1, <2>2, RecordSteps, BecomesKeeps
<1>4. CASE SwitchMode(r)
  <2>1. /\ [m EXCEPT !.phase = "top", !.status = "running"] \in RunState
        /\ [m EXCEPT !.phase = "top", !.status = "running"].gate = m.gate
    BY <1>1 DEF RunState, Status, Phase
  <2> QED
    BY <1>4, <2>1, BecomesKeeps DEF SwitchMode
<1>5. CASE AnswerQuestion(r)
  BY <1>1, <1>5, RecordAnswers, BecomesKeeps DEF AnswerQuestion
<1>6. [m EXCEPT !.stop = TRUE] \in RunState /\ [m EXCEPT !.stop = TRUE].gate = m.gate
  BY <1>1 DEF RunState
<1>7. CASE ResolveGate(r)
  <2>1. m.gate # None
    BY <1>7 DEF ResolveGate
  <2>2. perm[m.gate].open => m.card = "gate"
    BY <1>1, <2>1 DEF CardInv, OpenGateShows, CardShows, GateInv, GateIsOwn, RunState
  <2>3. CASE GateClosed(r, m.card = "gate", TRUE, m)
    BY <1>1, <2>1, <2>2, <2>3, CloseKeeps
  <2>4. CASE GateClosed(r, FALSE, FALSE, m)
    BY <1>1, <2>1, <2>4, CloseKeeps
  <2>5. CASE GateClosed(r, FALSE, FALSE, [m EXCEPT !.stop = TRUE])
    BY <1>6, <2>1, <2>5, CloseKeeps
  <2> QED
    BY <1>7, <2>3, <2>4, <2>5 DEF ResolveGate
<1>8. CASE Stop(r)
  <2> DEFINE n == [m EXCEPT !.stop = TRUE]
  <2>1. \/ Becomes(r, StopRun(n)) \/ Becomes(r, Answered(n, TRUE)) \/ Becomes(r, n)
        \/ run[r].gate # None /\ GateClosed(r, FALSE, FALSE, n)
    BY <1>8, Zenon DEF Stop
  <2> HIDE DEF n
  <2>2. n \in RunState /\ n.gate = m.gate
    BY <1>6 DEF n
  <2> QED
    BY <2>1, <2>2, RecordSteps, RecordAnswers, BecomesKeeps, CloseKeeps
<1> QED
  BY <1>2, <1>3, <1>4, <1>5, <1>7, <1>8 DEF OperatorSteps

LEMMA ManagerKeeps == GateInv /\ ManagerSteps => GateInv'
<1> SUFFICES ASSUME GateInv, ManagerSteps PROVE GateInv'
  OBVIOUS
<1>1. \A r \in Run : run[r] \in RunState
  BY DEF GateInv, RecordsTyped
<1>2. \A r \in Run : /\ [run[r] EXCEPT !.phase = "create"] \in RunState
                     /\ [run[r] EXCEPT !.phase = "create"].gate = run[r].gate
  BY <1>1 DEF RunState, Phase
<1>3. CASE Attach
  <2>1. run' = Ensured /\ UNCHANGED perm
    BY <1>3 DEF Attach
  <2>2. run' \in [Run -> RunState] /\ \A r \in Run : run'[r].gate = run[r].gate
    BY <1>1, <1>2, <2>1 DEF Ensured
  <2> QED
    BY <2>1, <2>2, GatesStay
<1>4. CASE GiveUp
  <2>1. run' = Unavailable /\ UNCHANGED perm
    BY <1>4 DEF GiveUp
  <2>2. run' \in [Run -> RunState] /\ \A r \in Run : run'[r].gate = run[r].gate
    BY <1>1, <2>1, RecordLaunches DEF Unavailable
  <2> QED
    BY <2>1, <2>2, GatesStay
<1>5. CASE UNCHANGED <<run, perm>>
  BY <1>5 DEF GateInv, RecordsTyped, GateIsOwn, AnsweredOnce
<1> QED
  BY <1>3, <1>4, <1>5 DEF ManagerSteps, ForeignLeaves, Spawn, ExitEvent, Boots, Dies

LEMMA GateKept == GateInv /\ CardInv /\ [Next]_vars => GateInv'
<1> SUFFICES ASSUME GateInv, CardInv, [Next]_vars PROVE GateInv'
  OBVIOUS
<1>1. ASSUME NEW r \in Run, QuestionTimesOut(r) PROVE GateInv'
  <2>1. run[r] \in RunState
    BY DEF GateInv, RecordsTyped
  <2> QED
    BY <1>1, <2>1, RecordAnswers, BecomesKeeps DEF QuestionTimesOut
<1>2. CASE UNCHANGED vars
  BY <1>2 DEF vars, GateInv, RecordsTyped, GateIsOwn, AnsweredOnce
<1> QED
  BY <1>1, <1>2, ManagerKeeps, ElsewhereKeeps, LoopKeeps, PermissionKeeps, OperatorKeeps
  DEF Next

\* What a step does to a record that waits for the server keeps its card on show.
LEMMA RecordShows ==
  ASSUME NEW m \in RunState, NEW p \in Perm, CardShows(m, p)
  PROVE  /\ CardShows(StopRun(m), p) /\ CardShows(Fail(m), p)
         /\ CardShows([m EXCEPT !.stop = TRUE], p)
         /\ CardShows(GateShut(m), p)
         /\ \A q \in Perm : CardShows(GateOpened(m, q), p)
         /\ \A rd \in Reader : /\ CardShows([m EXCEPT !.reader = rd], p)
                              /\ CardShows([m EXCEPT !.phase = "ended", !.reader = rd], p)
<1>1. p # None
  BY OpenCodeAssumption
<1>2. CardShows(StopRun(m), p) /\ CardShows(Fail(m), p)
  BY DEF CardShows, StopRun, Fail, RunState
<1>3. CardShows(GateShut(m), p)
  BY <1>1 DEF CardShows, GateShut, Unpark, RunState
<1>4. /\ CardShows([m EXCEPT !.stop = TRUE], p)
      /\ \A q \in Perm : CardShows(GateOpened(m, q), p)
      /\ \A rd \in Reader : /\ CardShows([m EXCEPT !.reader = rd], p)
                           /\ CardShows([m EXCEPT !.phase = "ended", !.reader = rd], p)
  BY DEF CardShows, GateOpened, RunState
<1> QED
  BY <1>2, <1>3, <1>4

\* No request is opened, and every run that waits for the server shows its card.
LEMMA CardsStay ==
  ASSUME CardInv, \A p \in Perm : perm'[p].open => perm[p].open /\ perm'[p].of = perm[p].of,
         \A q \in Run, p \in Perm : CardShows(run[q], p) => CardShows(run'[q], p)
  PROVE  CardInv'
BY DEF CardInv, OpenGateShows, CardShows

\* The same for a step of one run, where no request of the run is open, or it shows.
LEMMA CardStays ==
  ASSUME RecordsTyped, CardInv, NEW r \in Run, NEW n, run' = [run EXCEPT ![r] = n],
         \A p \in Perm : perm'[p].open => perm[p].open /\ perm'[p].of = perm[p].of,
         \A p \in Perm :
           perm[p].of = r /\ perm[p].open /\ CardShows(run[r], p) => CardShows(n, p)
  PROVE  CardInv'
<1>1. run'[r] = n /\ \A q \in Run \ {r} : run'[q] = run[q]
  BY DEF RecordsTyped
<1>2. ASSUME NEW q \in Run, NEW p \in Perm, perm'[p].of = q, perm'[p].open
      PROVE  CardShows(run'[q], p)
  <2>1. perm[p].of = q /\ perm[p].open /\ CardShows(run[q], p)
    BY <1>2 DEF CardInv, OpenGateShows
  <2>2. CASE q = r
    BY <1>1, <2>1, <2>2
  <2>3. CASE q # r
    BY <1>1, <2>1, <2>3
  <2> QED
    BY <2>2, <2>3
<1>3. ASSUME NEW q \in Run, NEW p \in Perm PROVE OpenGateShows(q, p)'
  BY <1>2 DEF OpenGateShows, CardShows
<1> QED
  BY <1>3 DEF CardInv

LEMMA CardBecomes ==
  ASSUME RecordsTyped, CardInv, NEW r \in Run, NEW n, Becomes(r, n),
         \A p \in Perm :
           perm[p].of = r /\ perm[p].open /\ CardShows(run[r], p) => CardShows(n, p)
  PROVE  CardInv'
<1>1. run' = [run EXCEPT ![r] = n] /\ perm' = perm
  BY DEF Becomes
<1>2. \A p \in Perm : perm'[p].open => perm[p].open /\ perm'[p].of = perm[p].of
  BY <1>1
<1> QED
  BY <1>1, <1>2, CardStays

\* A run in another phase than those has no request open: it does as it likes.
LEMMA CardElsewhere ==
  ASSUME RecordsTyped, CardInv, NEW r \in Run, NEW n, Becomes(r, n),
         run[r].phase \notin {"turn", "dispose", "ended"}
  PROVE  CardInv'
<1>1. \A p \in Perm : ~CardShows(run[r], p)
  BY DEF CardShows
<1> QED
  BY <1>1, CardBecomes

LEMMA CardLoop ==
  ASSUME GateInv, CardInv, NEW r \in Run, LoopSteps(r) PROVE CardInv'
<1>1. RecordsTyped /\ run[r] \in RunState
  BY DEF GateInv, RecordsTyped
<1>2. CASE Create(r)
  BY <1>1, <1>2, CardElsewhere DEF Create
<1>3. CASE Top(r)
  BY <1>1, <1>3, CardElsewhere DEF Top
<1>4. CASE Decide(r) \/ BrainFails(r)
  BY <1>1, <1>4, CardElsewhere DEF Decide, BrainFails
<1>5. CASE BrainBack(r) \/ BrainStops(r)
  BY <1>1, <1>5, CardElsewhere DEF BrainBack, BrainStops
<1>6. CASE QuestionTimesOut(r)
  BY <1>1, <1>6, CardElsewhere DEF QuestionTimesOut
<1>7. CASE TurnReturns(r)
  BY <1>1, <1>7, CardBecomes DEF TurnReturns
<1>8. CASE TurnFails(r) \/ TurnTimesOut(r)
  BY <1>1, <1>8, CardBecomes, RecordShows DEF TurnFails, TurnTimesOut
<1>9. CASE Ends(r)
  <2> DEFINE rd == IF run[r].reader = "none" THEN "none" ELSE "over"
  <2>1. Becomes(r, [run[r] EXCEPT !.phase = "ended", !.reader = rd])
    BY <1>9 DEF Ends
  <2>2. rd \in Reader
    BY DEF Reader
  <2> DEFINE n == [run[r] EXCEPT !.phase = "ended", !.reader = rd]
  <2>3. \A p \in Perm : CardShows(run[r], p) => CardShows(n, p)
    BY <1>1, <2>2, RecordShows
  <2> HIDE DEF n
  <2> QED
    BY <1>1, <2>1, <2>3, CardBecomes DEF n
<1> QED
  BY <1>2, <1>3, <1>4, <1>5, <1>6, <1>7, <1>8, <1>9 DEF LoopSteps

LEMMA CardCloses ==
  ASSUME GateInv, CardInv, NEW r \in Run, NEW m \in {run[r], [run[r] EXCEPT !.stop = TRUE]},
         run[r].gate # None, NEW clicked, NEW approve, GateClosed(r, clicked, approve, m)
  PROVE  CardInv'
<1>1. RecordsTyped /\ run[r] \in RunState /\ m \in RunState /\ m.gate \in Perm
  BY DEF GateInv, RecordsTyped, RunState
<1>2. run' = [run EXCEPT ![r] = GateShut(m)]
  BY Zenon DEF GateClosed
<1>3. \A p \in Perm : perm'[p].open => perm[p].open /\ perm'[p].of = perm[p].of
  BY <1>1 DEF GateClosed, Responded, Said, RecordsTyped, PermState
<1>4. \A p \in Perm : CardShows(run[r], p) => CardShows(GateShut(m), p)
  BY <1>1, RecordShows
<1> QED
  BY <1>1, <1>2, <1>3, <1>4, CardStays

LEMMA CardPermission ==
  ASSUME GateInv, CardInv, NEW r \in Run, PermissionSteps(r) PROVE CardInv'
<1>1. RecordsTyped /\ run[r] \in RunState
  BY DEF GateInv, RecordsTyped
<1>2. CASE GateTimesOut(r)
  BY <1>2, CardCloses DEF GateTimesOut
<1>3. CASE StreamEnds(r)
  <2>1. \A p \in Perm : CardShows(run[r], p) => CardShows([run[r] EXCEPT !.reader = "over"], p)
    BY <1>1, RecordShows DEF Reader
  <2> QED
    BY <1>1, <1>3, <2>1, CardBecomes DEF StreamEnds
<1>4. ASSUME NEW p \in Perm, ReadPermission(r, p) PROVE CardInv'
  <2>1. run' = [run EXCEPT ![r] = GateOpened(run[r], p)]
    BY <1>4 DEF ReadPermission
  <2>2. \A q \in Perm : perm'[q].open => perm[q].open /\ perm'[q].of = perm[q].of
    BY <1>1, <1>4 DEF ReadPermission, RecordsTyped, PermState
  <2>3. \A q \in Perm : CardShows(run[r], q) => CardShows(GateOpened(run[r], p), q)
    BY <1>1, RecordShows
  <2> QED
    BY <1>1, <2>1, <2>2, <2>3, CardStays
<1>5. ASSUME NEW p \in Perm, Asks(r, p) PROVE CardInv'
  <2>1. /\ run' = run /\ run[r].phase = "turn" /\ perm[p].of = None
        /\ perm'[p].of = r /\ \A q \in Perm \ {p} : perm'[q] = perm[q]
    BY <1>1, <1>5 DEF Asks, RecordsTyped, PermState
  <2>2. r # None /\ run[r].gate # p
    BY <2>1, OpenCodeAssumption DEF GateInv, GateIsOwn
  <2>3. ASSUME NEW s \in Run, NEW q \in Perm, perm'[q].of = s, perm'[q].open
        PROVE  CardShows(run'[s], q)
    <3>1. CASE q = p
      BY <2>1, <2>2, <2>3, <3>1 DEF CardShows
    <3>2. CASE q # p
      BY <2>1, <2>3, <3>2 DEF CardInv, OpenGateShows
    <3> QED
      BY <3>1, <3>2
  <2> QED
    BY <2>3 DEF CardInv, OpenGateShows, CardShows
<1> QED
  BY <1>2, <1>3, <1>4, <1>5 DEF PermissionSteps

LEMMA CardOperator ==
  ASSUME GateInv, CardInv, NEW r \in Run, OperatorSteps(r) PROVE CardInv'
<1>1. RecordsTyped /\ run[r] \in RunState
  BY DEF GateInv, RecordsTyped
<1>2. CASE Launch(r)
  <2>1. CASE Ensure(r)
    <3>1. run' = [run EXCEPT ![r] = Launched(run[r], "ensure")] /\ perm' = perm
      BY <2>1 DEF Ensure
    <3>2. \A p \in Perm : ~CardShows(run[r], p)
      BY <1>2 DEF Launch, CardShows
    <3> QED
      BY <1>1, <3>1, <3>2, CardStays
  <2>2. CASE EnsureCached(r) \/ Becomes(r, Refused(run[r]))
    BY <1>1, <1>2, <2>2, CardElsewhere DEF Launch, EnsureCached
  <2> QED
    BY <1>2, <2>1, <2>2 DEF Launch
<1>3. CASE Message(r) \/ SwitchMode(r)
  BY <1>1, <1>3, CardElsewhere DEF Message, SwitchMode
<1>4. CASE AnswerQuestion(r)
  BY <1>1, <1>4, CardElsewhere DEF AnswerQuestion
<1>5. CASE ResolveGate(r)
  BY <1>5, CardCloses DEF ResolveGate
<1>6. CASE Stop(r)
  <2> DEFINE m == [run[r] EXCEPT !.stop = TRUE]
  <2>1. m \in RunState /\ m.gate = run[r].gate
    BY <1>1 DEF RunState
  <2>2. CASE run[r].phase = "manual" /\ Becomes(r, StopRun(m))
    BY <1>1, <2>2, CardElsewhere
  <2>3. CASE run[r].gate # None /\ GateClosed(r, FALSE, FALSE, m)
    BY <2>3, CardCloses
  <2>4. CASE run[r].gate = None /\ Becomes(r, Answered(m, TRUE))
    <3>1. ASSUME NEW p \in Perm, CardShows(run[r], p) PROVE CardShows(Answered(m, TRUE), p)
      <4>1. p # None
        BY OpenCodeAssumption
      <4> QED
        BY <2>1, <2>4, <3>1, <4>1 DEF CardShows, Answered, Unpark, StopRun, RunState
    <3> QED
      BY <1>1, <2>4, <3>1, CardBecomes
  <2>5. CASE Becomes(r, m)
    <3>1. \A p \in Perm : CardShows(run[r], p) => CardShows(m, p)
      BY <1>1, RecordShows
    <3> QED
      BY <1>1, <2>5, <3>1, CardBecomes
  <2> QED
    BY <1>6, <2>2, <2>3, <2>4, <2>5 DEF Stop
<1> QED
  BY <1>2, <1>3, <1>4, <1>5, <1>6 DEF OperatorSteps

LEMMA CardManager ==
  ASSUME GateInv, CardInv, ManagerSteps PROVE CardInv'
<1>1. perm' = perm
  BY DEF ManagerSteps, Attach, GiveUp, ForeignLeaves, Spawn, ExitEvent, Boots, Dies
<1>2. run' \in {run, Ensured, Unavailable}
  BY DEF ManagerSteps, Attach, GiveUp, ForeignLeaves, Spawn, ExitEvent, Boots, Dies
<1>3. ASSUME NEW q \in Run, NEW p \in Perm, CardShows(run[q], p) PROVE CardShows(run'[q], p)
  BY <1>2, <1>3 DEF CardShows, Ensured, Unavailable
<1>4. \A p \in Perm : perm'[p].open => perm[p].open /\ perm'[p].of = perm[p].of
  BY <1>1
<1> QED
  BY <1>3, <1>4, CardsStay

LEMMA CardKept == GateInv /\ CardInv /\ [Next]_vars => CardInv'
<1> SUFFICES ASSUME GateInv, CardInv, [Next]_vars PROVE CardInv'
  OBVIOUS
<1>1. ASSUME NEW p \in Perm, AnsweredElsewhere(p) PROVE CardInv'
  <2>1. run' = run
    BY <1>1 DEF AnsweredElsewhere
  <2>2. \A q \in Perm : perm'[q].open => perm[q].open /\ perm'[q].of = perm[q].of
    BY <1>1 DEF AnsweredElsewhere, GateInv, RecordsTyped, PermState
  <2> QED
    BY <2>1, <2>2, CardsStay
<1>2. CASE UNCHANGED vars
  BY <1>2 DEF vars, CardInv, OpenGateShows, CardShows
<1> QED
  BY <1>1, <1>2, CardManager, CardLoop, CardPermission, CardOperator DEF Next

\* The server goes ahead on our answer only if the operator clicked Approve on the
\* card of that very request, whoever else answers, and whatever card is on show;
\* and a request is answered once however often its event comes.
THEOREM OperatorGrants == Spec => []GrantedByOperator
<1>1. GateInv => GrantedByOperator
  BY DEF GateInv, AnsweredOnce, GrantedByOperator
<1>2. Init => CardInv
  BY DEF Init, CardInv, OpenGateShows
<1> QED
  BY <1>1, <1>2, GateInit, GateKept, CardKept, PTL DEF Spec

(***************************************************************************)
(* Headless claude.  HeadlessInv is the inductive invariant: each property *)
(* has its part, and NobodyAtRest is what they share.                      *)
(***************************************************************************)
Child ==
  [st : {"none", "refused", "fresh", "busy", "replied"}, id : Id,
   told : {"ask", "again"}, result : {"none", "ok", "error"}, killed : BOOLEAN]

Object == [id : Id, has : BOOLEAN, disposed : BOOLEAN]

\* Between turns and in a recovery's checks there is no child.
NobodyAtRest ==
  /\ claude.st = "none" => claude = H!NoChild
  /\ pc \in {"between", "check", "grace"} => claude = H!NoChild

\* A stop disposes the session object, and the run does not bring another.
StopDisposes == stop => sess.disposed

\* A child that was refused has written nothing, and what a recovery is about to
\* spawn is accepted.
Mending ==
  /\ refusals \in {0, 1}
  /\ refusals = 1 => /\ pc \in {"turn", "backoff", "check", "off"}
                     /\ claude.st \in {"refused", "none"}
                     /\ \A i \in Id : grown[i] = "nothing"
  /\ pc \in {"check", "grace"} => H!Accepts(sess.id, sess.has)

\* Claude is in the conversation the session object names, and a prompt it took
\* shows there: until it goes on elsewhere.
TakenOnce ==
  /\ claude # H!NoChild => claude.id = sess.id
  /\ claude.st = "fresh" /\ claude.told = "ask" => asked = 0
  /\ asked <= 1
  /\ asked = 1 /\ pc \in {"turn", "backoff", "check", "grace"} =>
       grown[sess.id] # "nothing" /\ file[sess.id] = "messages"

Taken ==
  /\ asked \in Nat /\ forked \in BOOLEAN
  /\ ~forked => TakenOnce

HeadlessInv == H!TypeOK /\ NobodyAtRest /\ StopDisposes /\ Mending /\ Taken

LEMMA NoChildIs == H!NoChild \in Child /\ H!NoChild.st = "none"
BY HeadlessAssumption DEF H!NoChild, Child

LEMMA KilledIs ==
  ASSUME NEW c \in Child
  PROVE  H!Killed(c) \in Child
BY DEF H!Killed, Child

\* The operators that several steps share keep the types.
LEMMA RunOverTypes ==
  ASSUME NEW c \in Child, NEW s \in Object, H!RunOver(c, s)
  PROVE  /\ claude' \in Child /\ sess' \in Object
         /\ pc' = "off" /\ attempt' = 0 /\ wording' = "ask"
BY KilledIs DEF H!RunOver, H!TurnOver, Object

LEMMA ThrowsTypes ==
  ASSUME NEW c \in Child, NEW s \in Object, NEW r \in BOOLEAN,
         attempt \in 0..H!MaxRecoveries, wording \in {"ask", "again"},
         H!Throws(r, c, s)
  PROVE  /\ claude' \in Child /\ sess' \in Object /\ pc' \in {"off", "backoff"}
         /\ attempt' \in 0..H!MaxRecoveries /\ wording' \in {"ask", "again"}
<1>1. CASE stop \/ ~r \/ attempt >= H!MaxRecoveries
  BY <1>1, RunOverTypes DEF H!Throws, H!MaxRecoveries
<1>2. CASE ~(stop \/ ~r \/ attempt >= H!MaxRecoveries)
  <2>1. [s EXCEPT !.disposed = TRUE] \in Object
    BY DEF Object
  <2>2. attempt + 1 \in 0..H!MaxRecoveries
    BY <1>2 DEF H!MaxRecoveries
  <2> QED
    BY <1>2, <2>1, <2>2, KilledIs DEF H!Throws
<1> QED
  BY <1>1, <1>2

LEMMA OpensTypes ==
  ASSUME H!TypeOK, NEW id \in Id, NEW resume \in BOOLEAN, H!Opens(id, resume)
  PROVE  /\ sess' \in Object /\ kept' \in Id
         /\ file' \in [Id -> {"none", "meta", "messages"}]
         /\ grown' \in [Id -> {"nothing", "partial", "reply"}]
<1>1. (resume /\ file[id] = "messages") \in BOOLEAN
  OBVIOUS
<1>2. sess' \in Object /\ kept' \in Id
  BY <1>1 DEF H!Opens, Object
<1> QED
  BY <1>2 DEF H!Opens, H!Clears, H!TypeOK

LEMMA RunTurnTypes ==
  ASSUME NEW words \in {"ask", "again"}, H!TypeOK, H!RunTurn(words)
  PROVE  /\ claude' \in Child /\ sess' \in Object /\ pc' \in {"off", "backoff", "turn"}
         /\ attempt' \in 0..H!MaxRecoveries /\ wording' \in {"ask", "again"}
<1>1. /\ claude \in Child /\ sess \in Object
      /\ attempt \in 0..H!MaxRecoveries /\ wording \in {"ask", "again"}
  BY DEF H!TypeOK, Child, Object
<1>2. CASE H!Throws(TRUE, claude, sess)
  BY <1>1, <1>2, ThrowsTypes
<1>3. CASE H!Throws(FALSE, claude, sess)
  BY <1>1, <1>3, ThrowsTypes
<1>4. CASE pc' = "turn"
  BY <1>4, <1>1, NoChildIs DEF H!RunTurn, Child, Object, H!Throws, H!RunOver
<1> QED
  BY <1>2, <1>3, <1>4 DEF H!RunTurn

LEMMA HeadlessTypes == H!TypeOK /\ H!Next => H!TypeOK'
<1> SUFFICES ASSUME H!TypeOK, H!Next PROVE H!TypeOK'
  OBVIOUS
<1>1. /\ claude \in Child /\ sess \in Object
      /\ attempt \in 0..H!MaxRecoveries /\ wording \in {"ask", "again"}
  BY DEF H!TypeOK, Child, Object
<1> USE HeadlessAssumption DEF H!TypeOK, H!disk, H!loop, H!seen
<1>2. CASE H!WritesMetadata
  BY <1>2 DEF H!WritesMetadata
<1>3. CASE H!TakesPrompt
  BY <1>3 DEF H!TakesPrompt
<1>4. CASE H!Replies
  BY <1>4 DEF H!Replies
<1>5. CASE H!PrintsResult
  BY <1>5 DEF H!PrintsResult, H!Up
<1>6. CASE H!Closes
  <2> DEFINE s == IF claude.result # "none"
                    THEN [sess EXCEPT !.has = TRUE, !.id = claude.id] ELSE sess
  <2>1. s \in Object
    BY <1>1 DEF Object, Child
  <2>2. CASE pc # "turn"
    BY <1>6, <2>2, <2>1, NoChildIs DEF H!Closes, Object, Child
  <2>3. CASE H!Returns(H!NoChild, s)
    BY <1>6, <2>3, <2>1, NoChildIs
    DEF H!Closes, Object, Child, H!Returns, H!TurnOver, H!MaxRecoveries
  <2>4. CASE H!Throws(TRUE, H!NoChild, s)
    BY <1>1, <1>6, <2>4, <2>1, NoChildIs, ThrowsTypes DEF H!Closes, Object, Child
  <2> QED
    BY <1>6, <2>2, <2>3, <2>4 DEF H!Closes
<1>7. CASE H!TimesOut
  BY <1>1, <1>7, ThrowsTypes DEF H!TimesOut, Child, Object
<1>8. CASE H!Launch
  BY <1>1, <1>8, OpensTypes DEF H!Launch, Object
<1>9. CASE H!RunEnds
  BY <1>1, <1>9, RunOverTypes DEF H!RunEnds, Child, Object, H!MaxRecoveries
<1>10. CASE H!BeginTurn
  BY <1>10, RunTurnTypes DEF H!BeginTurn, Child, Object
<1>11. CASE H!Reopens
  <2>1. sess.id \in Id
    BY <1>1 DEF Object
  <2>2. CASE stop /\ H!RunOver(claude, sess) /\ UNCHANGED <<file, grown, kept>>
    BY <1>1, <1>11, <2>2, RunOverTypes DEF H!Reopens, Child, Object, H!MaxRecoveries
  <2>3. CASE pc' = "check" /\ H!Opens(sess.id, TRUE) /\ UNCHANGED <<claude, attempt, wording>>
    BY <1>1, <1>11, <2>1, <2>3, OpensTypes DEF H!Reopens, Child, Object, H!MaxRecoveries
  <2>4. CASE ~stop /\ H!RunOver(claude, sess) /\ kept' = sess.id /\ H!Clears(sess.id)
    BY <1>1, <1>11, <2>1, <2>4, RunOverTypes
    DEF H!Reopens, H!Clears, Child, Object, H!MaxRecoveries
  <2> QED
    BY <1>11, <2>2, <2>3, <2>4 DEF H!Reopens
<1>12. CASE H!Checks
  BY <1>1, <1>12, RunTurnTypes
  DEF H!Checks, H!Returns, H!TurnOver, Child, Object, H!MaxRecoveries
<1>13. CASE H!GraceEnds
  BY <1>1, <1>13, RunTurnTypes, RunOverTypes DEF H!GraceEnds, Child, Object, H!MaxRecoveries
<1>14. CASE H!OperatorStops
  BY <1>1, <1>14, KilledIs DEF H!OperatorStops, Child, Object
<1> QED
  BY <1>2, <1>3, <1>4, <1>5, <1>6, <1>7, <1>8, <1>9, <1>10, <1>11, <1>12, <1>13, <1>14
  DEF H!Next, H!Claude

\* A kill shows in nothing but the mark.
LEMMA KilledKeeps ==
  ASSUME NEW c \in Child
  PROVE  /\ H!Killed(c).st = c.st /\ H!Killed(c).id = c.id /\ H!Killed(c).told = c.told
         /\ c = H!NoChild => H!Killed(c) = H!NoChild
         /\ c # H!NoChild /\ c.st # "none" => H!Killed(c) # H!NoChild
<1>1. CASE c = H!NoChild
  BY <1>1 DEF H!Killed
<1>2. CASE c # H!NoChild
  BY <1>2, NoChildIs DEF H!Killed, Child
<1> QED
  BY <1>1, <1>2

\* However a turn fails, its session object is disposed and its child killed.
LEMMA ThrowsDoes ==
  ASSUME NEW c \in Child, NEW s \in Object, NEW r \in BOOLEAN, H!Throws(r, c, s)
  PROVE  /\ claude' = H!Killed(c) /\ pc' \in {"off", "backoff"}
         /\ sess' = [s EXCEPT !.disposed = TRUE]
BY DEF H!Throws, H!RunOver

\* runTurn() fails, or spawns a child for a session object that is not disposed.
LEMMA RunTurnDoes ==
  ASSUME H!TypeOK, NEW words \in {"ask", "again"}, H!RunTurn(words)
  PROVE  \/ /\ claude' = H!Killed(claude) /\ pc' \in {"off", "backoff"}
            /\ sess' = [sess EXCEPT !.disposed = TRUE]
            /\ refusals' = refusals
         \/ /\ ~sess.disposed /\ sess' = sess /\ pc' = "turn"
            /\ claude'.id = sess.id /\ claude'.told = words /\ claude' # H!NoChild
            /\ H!Accepts(sess.id, sess.has) /\ claude'.st = "fresh" /\ refusals' = 0
         \/ /\ ~sess.disposed /\ sess' = sess /\ pc' = "turn"
            /\ claude'.id = sess.id /\ claude'.told = words /\ claude' # H!NoChild
            /\ ~H!Accepts(sess.id, sess.has) /\ claude'.st = "refused"
            /\ refusals' = refusals + 1
<1>1. claude \in Child /\ sess \in Object
  BY DEF H!TypeOK, Child, Object
<1>2. CASE H!Throws(TRUE, claude, sess) /\ UNCHANGED refusals
  BY <1>1, <1>2, ThrowsDoes
<1>3. CASE H!Throws(FALSE, claude, sess) /\ UNCHANGED refusals
  BY <1>1, <1>3, ThrowsDoes
<1>4. CASE pc' = "turn"
  <2>1. \A r \in BOOLEAN : ~H!Throws(r, claude, sess)
    BY <1>4, <1>1, ThrowsDoes
  <2>2. /\ ~sess.disposed /\ UNCHANGED <<sess, attempt>>
        /\ claude' = [H!NoChild EXCEPT
                         !.st = IF H!Accepts(sess.id, sess.has) THEN "fresh" ELSE "refused",
                         !.id = sess.id, !.told = words]
        /\ refusals' = IF H!Accepts(sess.id, sess.has) THEN 0 ELSE refusals + 1
    BY <2>1 DEF H!RunTurn
  <2> QED
    BY <1>4, <2>2, NoChildIs DEF Child
<1> QED
  BY <1>2, <1>3, <1>4 DEF H!RunTurn

LEMMA HeadlessInit == H!Init => HeadlessInv
<1> SUFFICES ASSUME H!Init PROVE HeadlessInv
  OBVIOUS
<1>1. /\ claude = H!NoChild /\ sess = [id |-> OwnId, has |-> FALSE, disposed |-> TRUE]
      /\ stop = FALSE /\ pc = "off" /\ refusals = 0 /\ asked = 0 /\ forked = FALSE
  BY DEF H!Init
<1>2. claude \in Child /\ sess \in Object /\ OwnId \in Id /\ sess.disposed
  BY <1>1, NoChildIs, HeadlessAssumption DEF Object
<1>3. 0 \in 0..Prompts /\ 0 \in 0..H!MaxRecoveries
  BY HeadlessAssumption DEF H!MaxRecoveries
<1>4. H!TypeOK
  BY <1>2, <1>3 DEF H!Init, H!TypeOK, Child, Object
<1>5. NobodyAtRest /\ StopDisposes
  BY <1>1, <1>2 DEF NobodyAtRest, StopDisposes
<1>6. Mending
  BY <1>1 DEF Mending
<1>7. Taken
  <2>1. asked \in Nat /\ asked <= 1 /\ asked # 1
    BY <1>1
  <2>2. forked \in BOOLEAN
    BY <1>1
  <2>3. claude = H!NoChild /\ claude.st # "fresh"
    BY <1>1, NoChildIs
  <2>4. TakenOnce
    BY <2>1, <2>3 DEF TakenOnce
  <2> QED
    BY <2>1, <2>4, <2>2 DEF Taken
<1> QED
  BY <1>4, <1>5, <1>7, <1>6 DEF HeadlessInv

LEMMA StopDisposesKept == H!TypeOK /\ StopDisposes /\ H!Next => StopDisposes'
<1> SUFFICES ASSUME H!TypeOK, StopDisposes, H!Next PROVE StopDisposes'
  OBVIOUS
<1>1. claude \in Child /\ sess \in Object /\ wording \in {"ask", "again"}
  BY DEF H!TypeOK, Child, Object
<1> USE DEF StopDisposes, H!disk, H!loop, H!seen
<1>2. CASE H!Claude
  BY <1>2 DEF H!Claude, H!WritesMetadata, H!TakesPrompt, H!Replies, H!PrintsResult
<1>3. CASE H!Closes
  <2> DEFINE s == IF claude.result # "none"
                    THEN [sess EXCEPT !.has = TRUE, !.id = claude.id] ELSE sess
  <2>1. s \in Object /\ s.disposed = sess.disposed
    BY <1>1 DEF Object, Child
  <2>2. CASE sess' = s
    BY <1>3, <2>1, <2>2 DEF H!Closes
  <2>3. CASE H!Throws(TRUE, H!NoChild, s)
    BY <1>3, <2>1, <2>3, NoChildIs, ThrowsDoes DEF Object
  <2> QED
    BY <1>3, <2>2, <2>3 DEF H!Closes, H!Returns
<1>4. CASE H!TimesOut
  BY <1>1, <1>4, ThrowsDoes DEF H!TimesOut, Object
<1>5. CASE H!Launch
  BY <1>5 DEF H!Launch
<1>6. CASE H!RunEnds
  BY <1>1, <1>6 DEF H!RunEnds, H!RunOver, Object
<1>7. CASE H!BeginTurn
  BY <1>1, <1>7, RunTurnDoes DEF H!BeginTurn, Object
<1>8. CASE H!Reopens
  BY <1>1, <1>8 DEF H!Reopens, H!RunOver, Object
<1>9. CASE H!Checks
  BY <1>1, <1>9, RunTurnDoes DEF H!Checks, H!Returns, Object
<1>10. CASE H!GraceEnds
  BY <1>1, <1>10, RunTurnDoes DEF H!GraceEnds, H!RunOver, Object
<1>11. CASE H!OperatorStops
  BY <1>1, <1>11 DEF H!OperatorStops, Object
<1> QED
  BY <1>2, <1>3, <1>4, <1>5, <1>6, <1>7, <1>8, <1>9, <1>10, <1>11 DEF H!Next

LEMMA NobodyKept == H!TypeOK /\ NobodyAtRest /\ H!Next => NobodyAtRest'
<1> SUFFICES ASSUME H!TypeOK, NobodyAtRest, H!Next PROVE NobodyAtRest'
  OBVIOUS
<1>1. claude \in Child /\ sess \in Object /\ wording \in {"ask", "again"}
  BY DEF H!TypeOK, Child, Object
<1>2. H!Killed(claude).st = "none" => H!Killed(claude) = H!NoChild
  BY <1>1, KilledKeeps DEF NobodyAtRest
<1> USE DEF NobodyAtRest, H!disk, H!loop, H!seen
<1>3. CASE H!Claude
  <2>1. pc' = pc /\ claude # H!NoChild
    BY <1>3, NoChildIs
    DEF H!Claude, H!WritesMetadata, H!TakesPrompt, H!Replies, H!PrintsResult, H!Up
  <2>2. claude'.st # "none"
    BY <1>1, <1>3, <2>1
    DEF H!Claude, H!WritesMetadata, H!TakesPrompt, H!Replies, H!PrintsResult, H!Up, Child
  <2> QED
    BY <2>1, <2>2
<1>4. CASE H!Closes
  <2> DEFINE s == IF claude.result # "none"
                    THEN [sess EXCEPT !.has = TRUE, !.id = claude.id] ELSE sess
  <2>1. s \in Object
    BY <1>1 DEF Object, Child
  <2>2. CASE claude' = H!NoChild
    BY <2>2
  <2>3. CASE H!Throws(TRUE, H!NoChild, s)
    BY <2>1, <2>3, NoChildIs, ThrowsDoes, KilledKeeps
  <2> QED
    BY <1>4, <2>2, <2>3 DEF H!Closes, H!Returns
<1>5. CASE H!TimesOut
  BY <1>1, <1>2, <1>5, ThrowsDoes DEF H!TimesOut
<1>6. CASE H!Launch
  BY <1>6 DEF H!Launch
<1>7. CASE H!RunEnds
  BY <1>1, <1>2, <1>7 DEF H!RunEnds, H!RunOver
<1>8. CASE H!BeginTurn
  BY <1>1, <1>2, <1>8, RunTurnDoes DEF H!BeginTurn
<1>9. CASE H!Reopens
  BY <1>1, <1>2, <1>9 DEF H!Reopens, H!RunOver
<1>10. CASE H!Checks
  BY <1>1, <1>2, <1>10, RunTurnDoes DEF H!Checks, H!Returns
<1>11. CASE H!GraceEnds
  BY <1>1, <1>2, <1>11, RunTurnDoes DEF H!GraceEnds, H!RunOver
<1>12. CASE H!OperatorStops
  BY <1>1, <1>2, <1>12, KilledKeeps DEF H!OperatorStops
<1> QED
  BY <1>3, <1>4, <1>5, <1>6, <1>7, <1>8, <1>9, <1>10, <1>11, <1>12 DEF H!Next

\* A child needs a session object that is not disposed.
LEMMA SpawnsAfterStop == H!TypeOK /\ NobodyAtRest /\ StopDisposes /\ H!Next => H!SpawnsNothing
<1> SUFFICES ASSUME H!TypeOK, NobodyAtRest, StopDisposes, H!Next,
                    stop, stop', claude = H!NoChild
             PROVE  claude' = H!NoChild
  BY DEF H!SpawnsNothing
<1>1. claude \in Child /\ sess \in Object /\ wording \in {"ask", "again"} /\ sess.disposed
  BY DEF H!TypeOK, Child, Object, StopDisposes
<1>2. H!Killed(claude) = H!NoChild
  BY <1>1, KilledKeeps
<1> USE DEF H!disk, H!loop, H!seen
<1>3. ~H!Claude
  BY NoChildIs
  DEF H!Claude, H!WritesMetadata, H!TakesPrompt, H!Replies, H!PrintsResult, H!Up
<1>4. ~H!Closes
  BY DEF H!Closes
<1>5. CASE H!TimesOut
  BY <1>1, <1>2, <1>5, ThrowsDoes DEF H!TimesOut
<1>6. CASE H!Launch
  BY <1>6 DEF H!Launch
<1>7. CASE H!RunEnds
  BY <1>1, <1>2, <1>7 DEF H!RunEnds, H!RunOver
<1>8. CASE H!BeginTurn
  BY <1>1, <1>2, <1>8, RunTurnDoes DEF H!BeginTurn
<1>9. CASE H!Reopens
  BY <1>1, <1>2, <1>9 DEF H!Reopens, H!RunOver
<1>10. CASE H!Checks
  BY <1>1, <1>2, <1>10, RunTurnDoes DEF H!Checks, H!Returns
<1>11. CASE H!GraceEnds
  BY <1>1, <1>2, <1>11, RunTurnDoes DEF H!GraceEnds, H!RunOver
<1>12. CASE H!OperatorStops
  BY <1>1, <1>2, <1>12, KilledKeeps DEF H!OperatorStops
<1> QED
  BY <1>3, <1>4, <1>5, <1>6, <1>7, <1>8, <1>9, <1>10, <1>11, <1>12 DEF H!Next

\* Opening a conversation leaves it with messages or without a file, and the session
\* object knows which.
LEMMA OpensAccepted ==
  ASSUME H!TypeOK, NEW id \in Id, H!Opens(id, TRUE)
  PROVE  H!Accepts(sess.id, sess.has)'
<1>1. /\ sess'.id = id /\ sess'.has = (file[id] = "messages")
      /\ file'[id] = IF file[id] = "meta" THEN "none" ELSE file[id]
      /\ file[id] \in {"none", "meta", "messages"}
  BY DEF H!Opens, H!Clears, H!TypeOK
<1> QED
  BY <1>1 DEF H!Accepts

\* A turn that is started while the conversation would be accepted is not refused.
LEMMA MendsWith ==
  ASSUME H!TypeOK, Mending, NEW words \in {"ask", "again"}, H!RunTurn(words),
         UNCHANGED <<file, grown>>,
         H!Accepts(sess.id, sess.has), claude = H!NoChild
  PROVE  Mending'
<1>1. claude \in Child /\ sess \in Object
  BY DEF H!TypeOK, Child, Object
<1>2. CASE /\ claude' = H!Killed(claude) /\ pc' \in {"off", "backoff"} /\ refusals' = refusals
  BY <1>2, <1>1, NoChildIs, KilledKeeps DEF Mending
<1>3. CASE pc' = "turn" /\ refusals' = 0
  BY <1>3 DEF Mending
<1>4. CASE /\ ~H!Accepts(sess.id, sess.has) /\ pc' = "turn" /\ claude'.st = "refused"
           /\ refusals' = refusals + 1
  BY <1>4 DEF Mending
<1> QED
  BY <1>2, <1>3, <1>4, RunTurnDoes

LEMMA MendingKept == H!TypeOK /\ NobodyAtRest /\ StopDisposes /\ Mending /\ H!Next => Mending'
<1> SUFFICES ASSUME H!TypeOK, NobodyAtRest, StopDisposes, Mending, H!Next PROVE Mending'
  OBVIOUS
<1>1. claude \in Child /\ sess \in Object /\ wording \in {"ask", "again"} /\ sess.id \in Id
  BY DEF H!TypeOK, Child, Object
<1>2. H!Killed(claude).st = claude.st
  BY <1>1, KilledKeeps
<1>3. refusals \in {0, 1}
  BY DEF Mending
<1> USE DEF H!disk, H!loop, H!seen
<1>4. CASE H!Claude
  <2>1. /\ claude.st \notin {"refused", "none"} /\ claude # H!NoChild
        /\ UNCHANGED <<pc, sess, refusals>>
    BY <1>4, NoChildIs
    DEF H!Claude, H!WritesMetadata, H!TakesPrompt, H!Replies, H!PrintsResult, H!Up
  <2>2. refusals = 0 /\ pc \notin {"check", "grace"}
    BY <2>1 DEF Mending, NobodyAtRest
  <2> QED
    BY <2>1, <2>2 DEF Mending
<1>5. CASE H!Closes
  <2> DEFINE s == IF claude.result # "none"
                    THEN [sess EXCEPT !.has = TRUE, !.id = claude.id] ELSE sess
  <2>1. s \in Object /\ UNCHANGED <<file, grown, refusals>> /\ claude # H!NoChild
    BY <1>1, <1>5 DEF Object, Child, H!Closes
  <2>2. claude.st # "none" /\ pc \notin {"between", "check", "grace"}
    BY <2>1 DEF NobodyAtRest
  <2>3. CASE pc # "turn"
    BY <1>5, <2>2, <2>1, <2>3, NoChildIs DEF H!Closes, Mending
  <2>4. CASE pc = "turn" /\ H!Returns(H!NoChild, s) /\ claude.st # "refused"
    BY <2>2, <2>1, <2>4, NoChildIs DEF H!Returns, Mending
  <2>5. CASE H!Throws(TRUE, H!NoChild, s)
    BY <2>1, <2>5, NoChildIs, ThrowsDoes, KilledKeeps DEF Mending
  <2> QED
    BY <1>5, <2>3, <2>4, <2>5 DEF H!Closes
<1>6. CASE H!TimesOut
  BY <1>1, <1>2, <1>6, ThrowsDoes DEF H!TimesOut, Mending
<1>7. CASE H!Launch
  BY <1>7 DEF H!Launch, Mending
<1>8. CASE H!RunEnds
  BY <1>1, <1>2, <1>8 DEF H!RunEnds, H!RunOver, Mending
<1>9. CASE H!BeginTurn
  <2>1. refusals = 0 /\ claude = H!NoChild
    BY <1>9 DEF H!BeginTurn, Mending
  <2>2. refusals' \in {0, 1}
    BY <1>9, <2>1, RunTurnDoes DEF H!BeginTurn
  <2>3. pc' \in {"off", "backoff", "turn"}
    BY <1>9, RunTurnDoes DEF H!BeginTurn
  <2>4. refusals' = 1 => claude'.st = "refused"
    BY <1>9, <2>1, RunTurnDoes DEF H!BeginTurn
  <2>5. \A i \in Id : grown'[i] = "nothing"
    BY <1>9 DEF H!BeginTurn
  <2> QED
    BY <2>2, <2>3, <2>4, <2>5 DEF Mending
<1>10. CASE H!Reopens
  <2>1. CASE pc' = "off" /\ claude' = H!Killed(claude) /\ UNCHANGED <<file, grown>>
    BY <1>2, <1>10, <2>1 DEF H!Reopens, Mending
  <2>2. CASE pc' = "check" /\ H!Opens(sess.id, TRUE) /\ UNCHANGED <<claude, attempt, wording>>
    <3>1. H!Accepts(sess.id, sess.has)'
      BY <1>1, <2>2, OpensAccepted
    <3>2. refusals = 1 => \A i \in Id : grown'[i] = "nothing"
      BY <2>2 DEF H!Opens, H!Clears, Mending, H!TypeOK
    <3> QED
      BY <1>10, <2>2, <3>1, <3>2 DEF H!Reopens, Mending
  <2>3. CASE pc' = "off" /\ claude' = H!Killed(claude) /\ H!Clears(sess.id)
    <3>1. refusals = 1 => \A i \in Id : grown'[i] = "nothing"
      BY <2>3 DEF H!Clears, Mending, H!TypeOK
    <3> QED
      BY <1>2, <1>10, <2>3, <3>1 DEF H!Reopens, Mending
  <2> QED
    BY <1>10, <2>1, <2>2, <2>3 DEF H!Reopens, H!RunOver
<1>11. CASE H!Checks
  <2>1. H!Accepts(sess.id, sess.has) /\ claude = H!NoChild /\ UNCHANGED <<file, grown>>
    BY <1>11 DEF H!Checks, NobodyAtRest, Mending
  <2>2. CASE H!RunTurn(wording)
    BY <1>1, <1>11, <2>1, <2>2, MendsWith DEF H!Checks
  <2>3. CASE grown[sess.id] = "reply" /\ H!Returns(claude, sess) /\ UNCHANGED refusals
    BY <1>1, <2>1, <2>3 DEF H!Returns, Mending
  <2>4. CASE /\ grown[sess.id] = "partial"
             /\ pc' = "grace" /\ UNCHANGED <<claude, sess, attempt, wording, refusals>>
    <3>1. refusals = 0
      BY <1>1, <2>4 DEF Mending
    <3>2. H!Accepts(sess.id, sess.has)'
      BY <2>1, <2>4 DEF H!Accepts
    <3> QED
      BY <2>4, <3>1, <3>2 DEF Mending
  <2> QED
    BY <1>11, <2>2, <2>3, <2>4 DEF H!Checks
<1>12. CASE H!GraceEnds
  <2>1. H!Accepts(sess.id, sess.has) /\ claude = H!NoChild /\ UNCHANGED <<file, grown>>
    BY <1>12 DEF H!GraceEnds, NobodyAtRest, Mending
  <2>2. CASE H!RunTurn("again")
    BY <1>12, <2>1, <2>2, MendsWith DEF H!GraceEnds
  <2>3. CASE stop /\ H!RunOver(claude, sess) /\ UNCHANGED refusals
    BY <1>2, <2>1, <2>3 DEF H!RunOver, Mending
  <2> QED
    BY <1>12, <2>2, <2>3 DEF H!GraceEnds
<1>13. CASE H!OperatorStops
  <2>1. H!Accepts(sess.id, sess.has) => H!Accepts(sess.id, sess.has)'
    BY <1>1, <1>13 DEF H!OperatorStops, H!Accepts, Object
  <2> QED
    BY <1>2, <1>13, <2>1 DEF H!OperatorStops, Mending
<1> QED
  BY <1>4, <1>5, <1>6, <1>7, <1>8, <1>9, <1>10, <1>11, <1>12, <1>13 DEF H!Next

\* A recovery puts the prompt as it stands only if the transcript shows that it was
\* never taken.
LEMMA TakenWith ==
  ASSUME H!TypeOK, asked \in Nat, asked <= 1,
         NEW words \in {"ask", "again"}, H!RunTurn(words), UNCHANGED <<asked, file, grown>>,
         words = "ask" => asked = 0,
         asked = 1 => grown[sess.id] # "nothing" /\ file[sess.id] = "messages",
         claude = H!NoChild
  PROVE  TakenOnce'
<1>1. claude \in Child /\ sess \in Object
  BY DEF H!TypeOK, Child, Object
<1>2. CASE /\ claude' = H!Killed(claude) /\ pc' \in {"off", "backoff"}
           /\ sess' = [sess EXCEPT !.disposed = TRUE]
  BY <1>2, <1>1, NoChildIs, KilledKeeps DEF TakenOnce, Object
<1>3. CASE sess' = sess /\ claude'.id = sess.id /\ claude'.told = words
  BY <1>3 DEF TakenOnce
<1> QED
  BY <1>2, <1>3, RunTurnDoes

LEMMA TakenKept == H!TypeOK /\ NobodyAtRest /\ Taken /\ H!Next => Taken'
<1> SUFFICES ASSUME H!TypeOK, NobodyAtRest, Taken, H!Next PROVE Taken'
  OBVIOUS
<1>1. claude \in Child /\ sess \in Object /\ wording \in {"ask", "again"} /\ sess.id \in Id
  BY DEF H!TypeOK, Child, Object
<1>2. asked \in Nat /\ forked \in BOOLEAN
  BY DEF Taken
<1>3. (forked' = forked \/ H!TakesPrompt) /\ (asked' = asked \/ H!TakesPrompt \/ asked' = 0)
  BY DEF H!Next, H!Claude, H!WritesMetadata, H!Replies, H!PrintsResult, H!Closes,
     H!TimesOut, H!Launch, H!RunEnds, H!BeginTurn, 
         H!Reopens, H!Checks, H!GraceEnds, H!OperatorStops, H!seen
<1>4. asked' \in Nat /\ forked' \in BOOLEAN
  <2>1. CASE H!TakesPrompt
    BY <1>2, <2>1 DEF H!TakesPrompt
  <2> QED
    BY <1>2, <1>3, <2>1
<1> SUFFICES ASSUME ~forked' PROVE TakenOnce'
  BY <1>4 DEF Taken
<1>5. ~forked
  BY <1>3 DEF H!TakesPrompt
<1>6. TakenOnce
  BY <1>5 DEF Taken
<1>7. /\ H!Killed(claude).st = claude.st /\ H!Killed(claude).id = claude.id
      /\ H!Killed(claude).told = claude.told
      /\ claude = H!NoChild => H!Killed(claude) = H!NoChild
  BY <1>1, KilledKeeps
<1> USE DEF H!disk, H!loop, H!seen
<1>8. CASE H!WritesMetadata
  BY <1>1, <1>6, <1>8, NoChildIs DEF H!WritesMetadata, H!TypeOK, TakenOnce
<1>9. CASE H!TakesPrompt
  <2>1. PICK i \in Id : /\ claude' = [claude EXCEPT !.st = "busy", !.id = i]
                        /\ file' = [file EXCEPT ![i] = "messages"]
                        /\ grown' = [grown EXCEPT ![i] = "partial"]
                        /\ i = claude.id
    BY <1>9 DEF H!TakesPrompt
  <2>2. i = sess.id /\ sess' = sess /\ pc' = pc /\ claude.st = "fresh"
    BY <1>9, <1>6, <2>1, NoChildIs DEF TakenOnce, H!TakesPrompt
  <2>3. asked' <= 1
    BY <1>9, <1>1, <1>2, <1>6, <2>2 DEF TakenOnce, H!TakesPrompt, Child
  <2> QED
    BY <1>1, <2>1, <2>2, <2>3 DEF TakenOnce, H!TypeOK, Child
<1>10. CASE H!Replies
  BY <1>1, <1>6, <1>10, NoChildIs DEF H!Replies, H!TypeOK, TakenOnce, Child
<1>11. CASE H!PrintsResult
  BY <1>1, <1>6, <1>11, NoChildIs DEF H!PrintsResult, H!Up, TakenOnce, Child
<1>12. CASE H!Closes
  <2> DEFINE s == IF claude.result # "none"
                    THEN [sess EXCEPT !.has = TRUE, !.id = claude.id] ELSE sess
  <2>1. s \in Object /\ UNCHANGED <<file, grown, asked>> /\ claude # H!NoChild
    BY <1>1, <1>12 DEF Object, Child, H!Closes
  <2>2. s.id = sess.id /\ pc \notin {"between", "check", "grace"}
    BY <1>1, <1>6, <2>1 DEF NobodyAtRest, TakenOnce, Object
  <2>3. CASE claude' = H!NoChild /\ sess' = s /\ ((pc # "turn" /\ pc' = pc) \/ pc' = "between")
    BY <1>6, <2>2, <2>1, <2>3, NoChildIs DEF TakenOnce
  <2>4. CASE pc = "turn" /\ H!Throws(TRUE, H!NoChild, s)
    <3>1. claude' = H!NoChild /\ sess'.id = sess.id
      BY <2>2, <2>1, <2>4, NoChildIs, ThrowsDoes, KilledKeeps DEF Object
    <3> QED
      BY <1>6, <2>1, <2>4, <3>1, NoChildIs DEF TakenOnce
  <2> QED
    BY <1>12, <2>3, <2>4 DEF H!Closes, H!Returns
<1>13. CASE H!TimesOut
  BY <1>1, <1>6, <1>7, <1>13, ThrowsDoes DEF H!TimesOut, TakenOnce, Object
<1>14. CASE H!Launch
  BY <1>6, <1>14, NoChildIs DEF H!Launch, TakenOnce
<1>15. CASE H!RunEnds
  BY <1>1, <1>6, <1>7, <1>15 DEF H!RunEnds, H!RunOver, TakenOnce, Object
<1>16. CASE H!BeginTurn
  <2>1. asked' = 0 /\ file' = file /\ claude = H!NoChild
    BY <1>16 DEF H!BeginTurn
  <2>2. claude' # H!NoChild => claude'.id = sess'.id
    BY <1>1, <1>7, <1>16, <2>1, RunTurnDoes DEF H!BeginTurn
  <2> QED
    BY <2>1, <2>2 DEF TakenOnce
<1>17. CASE H!Reopens
  <2>1. claude = H!NoChild /\ claude' = H!NoChild /\ sess'.id = sess.id /\ asked' = asked
    BY <1>1, <1>7, <1>17 DEF H!Reopens, H!RunOver, H!Opens, Object
  <2>2. file[sess.id] = "messages" => UNCHANGED <<file, grown>>
    BY <1>1, <1>17 DEF H!Reopens, H!Opens, H!Clears, H!TypeOK
  <2>3. pc = "backoff"
    BY <1>17 DEF H!Reopens
  <2> QED
    BY <1>6, <2>1, <2>2, <2>3, NoChildIs DEF TakenOnce
<1>18. CASE H!Checks
  <2>1. claude = H!NoChild /\ UNCHANGED <<asked, file, grown>> /\ pc = "check"
    BY <1>18 DEF H!Checks, NobodyAtRest
  <2>2. CASE grown[sess.id] = "nothing" /\ H!RunTurn(wording)
    BY <1>1, <1>2, <1>6, <2>1, <2>2, TakenWith DEF TakenOnce
  <2>3. CASE claude' = claude /\ sess' = sess
    BY <1>6, <2>1, <2>3, NoChildIs DEF TakenOnce
  <2> QED
    BY <1>18, <2>2, <2>3 DEF H!Checks, H!Returns
<1>19. CASE H!GraceEnds
  <2>1. claude = H!NoChild /\ UNCHANGED <<asked, file, grown>> /\ pc = "grace"
    BY <1>19 DEF H!GraceEnds, NobodyAtRest
  <2>2. CASE H!RunTurn("again")
    BY <1>2, <1>6, <2>1, <2>2, TakenWith DEF TakenOnce
  <2>3. CASE H!RunOver(claude, sess)
    BY <1>1, <1>6, <1>7, <2>1, <2>3, NoChildIs DEF H!RunOver, TakenOnce, Object
  <2> QED
    BY <1>19, <2>2, <2>3 DEF H!GraceEnds
<1>20. CASE H!OperatorStops
  BY <1>1, <1>6, <1>7, <1>20 DEF H!OperatorStops, TakenOnce, Object
<1> QED
  BY <1>8, <1>9, <1>10, <1>11, <1>12, <1>13, <1>14, <1>15, <1>16, <1>17, <1>18, <1>19, <1>20
  DEF H!Next, H!Claude

LEMMA HeadlessInvKept == HeadlessInv /\ [EngineNext]_<<engine, vars, headless>> => HeadlessInv'
<1> SUFFICES ASSUME HeadlessInv, [EngineNext]_<<engine, vars, headless>> PROVE HeadlessInv'
  OBVIOUS
<1>1. CASE H!Next
  BY <1>1, HeadlessTypes, NobodyKept, StopDisposesKept, MendingKept, TakenKept
  DEF HeadlessInv
<1>2. CASE UNCHANGED headless
  BY <1>2
  DEF headless, HeadlessInv, H!TypeOK, NobodyAtRest, StopDisposes, Mending, Taken,
      TakenOnce, H!Accepts, H!NoChild
<1> QED
  BY <1>1, <1>2 DEF EngineNext

\* RefusalsMend, for any prompts and conversations: a plain start of a conversation
\* that has messages is refused, its recovery looks at the file first.
THEOREM RefusalsAreMended == EngineSpec => []RefusalsMend
<1>1. EngineInit => HeadlessInv
  BY HeadlessInit DEF EngineInit
<1>2. HeadlessInv => RefusalsMend
  BY DEF HeadlessInv, Mending, RefusalsMend, H!RefusalsMend
<1> QED
  BY <1>1, <1>2, HeadlessInvKept, PTL DEF EngineSpec

\* PromptTakenOnce: the check of the transcript, before the prompt is put again, finds
\* it where claude took it.
THEOREM HeadlessPromptsTakenOnce == EngineSpec => []PromptTakenOnce
<1>1. EngineInit => HeadlessInv
  BY HeadlessInit DEF EngineInit
<1>2. HeadlessInv => PromptTakenOnce
  BY DEF HeadlessInv, Taken, TakenOnce, PromptTakenOnce, H!PromptTakenOnce
<1> QED
  BY <1>1, <1>2, HeadlessInvKept, PTL DEF EngineSpec

\* StopSpawnsNothing: the flag is looked at after each backoff, and the object a stop
\* finds is disposed, so that runTurn() refuses.
THEOREM HeadlessStopIsFinal == EngineSpec => StopSpawnsNothing
<1>1. EngineInit => HeadlessInv
  BY HeadlessInit DEF EngineInit
<1>2. HeadlessInv /\ [EngineNext]_<<engine, vars, headless>> => [H!SpawnsNothing]_headless
  <2> SUFFICES ASSUME HeadlessInv, EngineNext PROVE [H!SpawnsNothing]_headless
    BY DEF headless
  <2>1. CASE H!Next
    BY <2>1, SpawnsAfterStop DEF HeadlessInv
  <2> QED
    BY <2>1 DEF EngineNext
<1> QED
  BY <1>1, <1>2, HeadlessInvKept, PTL DEF EngineSpec, StopSpawnsNothing

\* A session is handed to one engine and never to the other: what is proved of an
\* engine alone (OneServer and GrantedByOperator of OpenCode, and of Headless what is
\* proved above) holds where either may be chosen.
THEOREM EnginesAlone ==
  EngineSpec => Spec /\ H!Spec /\ OneServer /\ []GrantedByOperator
<1>1. EngineInit => Init /\ H!Init
  BY DEF EngineInit
<1>2. [EngineNext]_<<engine, vars, headless>> => [Next]_vars
  BY DEF EngineNext
<1>3. [EngineNext]_<<engine, vars, headless>> => [H!Next]_H!vars
  BY DEF EngineNext, headless, H!vars, H!loop, H!seen
<1> QED
  BY <1>1, <1>2, <1>3, OneServerAtATime, OperatorGrants, PTL DEF EngineSpec, Spec, H!Spec
==============================================================================
