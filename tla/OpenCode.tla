------------------------------ MODULE OpenCode ------------------------------
(***************************************************************************)
(* Runs of the opencode engine on the server they share: the manager that  *)
(* attaches to or spawns `opencode serve` (src/session/opencodeServer.ts), *)
(* the session with its blocking turn POST and the event stream that       *)
(* answers permission requests meanwhile (src/session/opencodeSession.ts), *)
(* the loop that drives it (src/opencodeOrchestrator.ts), and the          *)
(* supervisor's side of a run: stop, answers and timeouts of its cards.    *)
(*                                                                         *)
(* The opencode server is external: it may come up or not, die, ask for    *)
(* permissions in a turn, repeat an event, drop the event stream, and end  *)
(* a turn whose permission another client has answered.                    *)
(***************************************************************************)
EXTENDS Naturals, FiniteSets

CONSTANTS
  Run,          \* runs, one of each session
  Perm,         \* permission ids the server may use
  Proc,         \* server processes the manager may spawn
  Autonomous,   \* runs whose cards time out
  ByHand,       \* runs whose mode may be manual
  Local,        \* runs whose provider is local or acknowledged
  MaxTurns,     \* limits.maxTurns
  None

ASSUME OpenCodeAssumption ==
  /\ IsFiniteSet(Run) /\ IsFiniteSet(Perm) /\ IsFiniteSet(Proc)
  /\ Autonomous \subseteq Run /\ ByHand \subseteq Run /\ Local \subseteq Run
  /\ MaxTurns \in Nat
  /\ None \notin Run \cup Perm \cup Proc

VARIABLES
  url,        \* the manager's cached url is set
  ensuring,   \* where the shared ensure() is
  child,      \* the process the manager holds
  proc,       \* the processes it has spawned
  foreign,    \* a server of somebody else listens on the port
  run,        \* the runs
  perm        \* the permission requests

vars == <<url, ensuring, child, proc, foreign, run, perm>>
server == <<url, ensuring, child, proc, foreign>>

\* "exited": dead, its exit event not delivered yet.
ProcState == {"unborn", "booting", "serving", "exited", "gone"}

Phase == {"off", "ensure", "create", "top", "manual", "decide", "brain",
          "attention", "turn", "dispose", "ended"}

Status == {"idle", "running", "manual", "needs-input", "paused", "error",
           "stopped", "done"}

\* The event reader; "asking" while onPermission waits for the open gate.
Reader == {"none", "reading", "asking", "over"}

RunState ==
  [phase : Phase, status : Status, stop : BOOLEAN, turns : 0..MaxTurns,
   reader : Reader, gate : Perm \cup {None}, card : {"none", "gate", "question"}]

\* of: the run that was asked; sent: answers posted; seen: in `answered`;
\* approved: the operator clicked Approve on its card; granted: the server went
\* ahead on our answer; elsewhere: another client answered it.
PermState ==
  [of : Run \cup {None}, open : BOOLEAN, seen : BOOLEAN, sent : 0..2,
   approved : BOOLEAN, granted : BOOLEAN, elsewhere : BOOLEAN]

TypeOK ==
  /\ url \in BOOLEAN
  /\ ensuring \in {"no", "probing", "polling"}
  /\ child \in Proc \cup {None}
  /\ proc \in [Proc -> ProcState]
  /\ foreign \in BOOLEAN
  /\ run \in [Run -> RunState]
  /\ perm \in [Perm -> PermState]

Healthy == foreign \/ \E p \in Proc : proc[p] = "serving"

Init ==
  /\ url = FALSE
  /\ ensuring = "no"
  /\ child = None
  /\ proc = [p \in Proc |-> "unborn"]
  /\ foreign \in BOOLEAN
  /\ run = [r \in Run |-> [phase |-> "off", status |-> "idle", stop |-> FALSE,
                           turns |-> 0, reader |-> "none", gate |-> None,
                           card |-> "none"]]
  /\ perm = [p \in Perm |-> [of |-> None, open |-> FALSE, seen |-> FALSE, sent |-> 0,
                             approved |-> FALSE, granted |-> FALSE, elsewhere |-> FALSE]]

(***************************************************************************)
(* What an event makes of the supervisor's record m.                       *)
(***************************************************************************)
\* The stop event; its run tears the driver down next.
StopRun(m) ==
  [m EXCEPT !.phase = "dispose", !.status = IF m.stop THEN "stopped" ELSE "done"]

\* The error event.
Fail(m) ==
  [m EXCEPT !.phase = "dispose", !.status = IF m.stop THEN "stopped" ELSE "error"]

\* guards.check() and the turn POST.
Prompted(m) ==
  IF m.turns < MaxTurns THEN [m EXCEPT !.phase = "turn", !.turns = @ + 1]
  ELSE StopRun(m)

Unpark(m) == IF m.status = "needs-input" THEN [m EXCEPT !.status = "running"] ELSE m

\* A step of r that concerns nothing but its record.
Becomes(r, m) ==
  /\ run' = [run EXCEPT ![r] = m]
  /\ UNCHANGED <<server, perm>>

(***************************************************************************)
(* The server manager.                                                     *)
(***************************************************************************)
\* Everyone who awaits the shared promise goes on together.
Ensured == [r \in Run |->
  IF run[r].phase = "ensure" THEN [run[r] EXCEPT !.phase = "create"] ELSE run[r]]

\* The driver is not there yet: the run ends with its error event.
Refused(m) == [Fail(m) EXCEPT !.phase = "ended"]

Unavailable == [r \in Run |->
  IF run[r].phase = "ensure" THEN Refused(run[r]) ELSE run[r]]

Launched(m, phase) == [m EXCEPT !.phase = phase, !.status = "running"]

\* A mutant: every caller starts an ensure of its own.
EnsureAlone(r) ==
  /\ ~url
  /\ ensuring' = "probing"
  /\ run' = [run EXCEPT ![r] = Launched(@, "ensure")]
  /\ UNCHANGED <<url, child, proc, foreign, perm>>

\* ensure() of the first caller, or of one who finds it in flight.
Ensure(r) ==
  /\ ~url
  /\ ensuring' = IF ensuring = "no" THEN "probing" ELSE ensuring
  /\ run' = [run EXCEPT ![r] = Launched(@, "ensure")]
  /\ UNCHANGED <<url, child, proc, foreign, perm>>

\* The cached url is handed out as it is.
EnsureCached(r) ==
  /\ url
  /\ Becomes(r, Launched(run[r], "create"))

\* runOpenCodeSession() up to the base url.
Launch(r) ==
  /\ run[r].phase = "off"
  /\ IF r \in Local
       THEN Ensure(r) \/ EnsureCached(r)
       ELSE Becomes(r, Refused(run[r]))

Attach ==
  /\ ensuring \in {"probing", "polling"}
  /\ Healthy
  /\ url' = TRUE
  /\ ensuring' = "no"
  /\ run' = Ensured
  /\ UNCHANGED <<child, proc, foreign, perm>>

Spawn(p) ==
  /\ ensuring = "probing"
  /\ ~Healthy
  /\ proc[p] = "unborn"
  /\ proc' = [proc EXCEPT ![p] = "booting"]
  /\ child' = p
  /\ ensuring' = "polling"
  /\ UNCHANGED <<url, foreign, run, perm>>

\* The deadline: dispose() kills the child, and the promise rejects.
GiveUp ==
  /\ ensuring = "polling"
  /\ ~Healthy
  /\ proc' = IF child # None /\ proc[child] = "booting"
               THEN [proc EXCEPT ![child] = "exited"] ELSE proc
  /\ child' = None
  /\ url' = FALSE
  /\ ensuring' = "no"
  /\ run' = Unavailable
  /\ UNCHANGED <<foreign, perm>>

\* The exit event of a process: before a url is out, the child is forgotten.
ExitEvent(p) ==
  /\ proc[p] = "exited"
  /\ proc' = [proc EXCEPT ![p] = "gone"]
  /\ child' = IF url THEN child ELSE None
  /\ UNCHANGED <<url, ensuring, foreign, run, perm>>

\* External: a server comes up, on a free port; a server dies.
Boots(p) ==
  /\ proc[p] = "booting"
  /\ ~Healthy
  /\ proc' = [proc EXCEPT ![p] = "serving"]
  /\ UNCHANGED <<url, ensuring, child, foreign, run, perm>>

Dies(p) ==
  /\ proc[p] \in {"booting", "serving"}
  /\ proc' = [proc EXCEPT ![p] = "exited"]
  /\ UNCHANGED <<url, ensuring, child, foreign, run, perm>>

ForeignLeaves ==
  /\ foreign
  /\ foreign' = FALSE
  /\ UNCHANGED <<url, ensuring, child, proc, run, perm>>

(***************************************************************************)
(* The loop.                                                               *)
(***************************************************************************)
\* start(): the session is created and its event reader kicked off.
Create(r) ==
  /\ run[r].phase = "create"
  /\ Becomes(r, IF Healthy THEN [run[r] EXCEPT !.phase = "top", !.reader = "reading"]
                ELSE Fail(run[r]))

\* The top of the loop: stop, manual input, the goal as the first prompt, or
\* the brain.
Top(r) ==
  LET m == run[r]
  IN  /\ m.phase = "top"
      /\ \/ m.stop /\ Becomes(r, StopRun(m))
         \/ /\ ~m.stop
            /\ r \in ByHand
            /\ Becomes(r, [m EXCEPT !.phase = "manual",
                 !.status = IF m.status = "running" THEN "manual" ELSE m.status])
         \/ /\ ~m.stop
            /\ Becomes(r, IF m.turns = 0 THEN Prompted(m) ELSE [m EXCEPT !.phase = "decide"])

\* waitForInput() is answered by a message or by a switch to autopilot.
Message(r) ==
  /\ run[r].phase = "manual"
  /\ Becomes(r, Prompted([run[r] EXCEPT !.status = "running"]))

SwitchMode(r) ==
  /\ run[r].phase = "manual"
  /\ Becomes(r, [run[r] EXCEPT !.phase = "top", !.status = "running"])

\* The brain continues, stops, or escalates (so does the stuck guard).
Decide(r) ==
  LET m == run[r]
  IN  /\ m.phase = "decide"
      /\ \/ Becomes(r, Prompted(m))
         \/ Becomes(r, StopRun(m))
         \/ Becomes(r, [m EXCEPT !.phase = "attention", !.status = "needs-input",
                                 !.card = "question"])

\* The brain fails: it is waited for, or its answer was no decision.
BrainFails(r) ==
  /\ run[r].phase = "decide"
  /\ \/ Becomes(r, [run[r] EXCEPT !.phase = "brain", !.status = "paused"])
     \/ Becomes(r, Fail(run[r]))

BrainBack(r) ==
  LET m == run[r]
  IN  /\ m.phase = "brain"
      /\ ~m.stop
      /\ Becomes(r, [m EXCEPT !.phase = "top",
           !.status = IF m.status = "paused" THEN "running" ELSE m.status])

BrainStops(r) ==
  /\ run[r].phase = "brain"
  /\ run[r].stop
  /\ Becomes(r, StopRun(run[r]))

\* The question is answered, if its card shows; with a gate open the click
\* answers that instead.
Answered(m, stops) ==
  LET n == [Unpark(m) EXCEPT !.card = "none"]
  IN  IF stops THEN StopRun(n) ELSE Prompted(n)

AnswerQuestion(r) ==
  /\ run[r].phase = "attention"
  /\ run[r].gate = None
  /\ run[r].card = "question"
  /\ \E stops \in BOOLEAN : Becomes(r, Answered(run[r], stops))

QuestionTimesOut(r) ==
  /\ run[r].phase = "attention"
  /\ r \in Autonomous
  /\ run[r].card = "question"
  /\ Becomes(r, Answered(run[r], FALSE))

\* The turn POST returns when the server is done with the turn.
TurnReturns(r) ==
  /\ run[r].phase = "turn"
  /\ Healthy
  /\ \A p \in Perm : perm[p].of = r => ~perm[p].open
  /\ Becomes(r, [run[r] EXCEPT !.phase = "top"])

\* The POST fails: not ok, no JSON, or no server.
TurnFails(r) ==
  /\ run[r].phase = "turn"
  /\ Becomes(r, Fail(run[r]))

\* A mutant: the POST has no deadline of its own.
NoTurnTimeout(r) == FALSE /\ UNCHANGED vars

\* turnTimeoutMs aborts the POST.
TurnTimesOut(r) ==
  /\ run[r].phase = "turn"
  /\ Becomes(r, Fail(run[r]))

\* dispose() waits for the event reader, then launch().then().
Ends(r) ==
  /\ run[r].phase = "dispose"
  /\ run[r].reader # "asking"
  /\ Becomes(r, [run[r] EXCEPT !.phase = "ended",
       !.reader = IF run[r].reader = "none" THEN "none" ELSE "over"])

(***************************************************************************)
(* Permissions.                                                            *)
(***************************************************************************)
\* External: the server asks in the middle of a turn, one request at a time.
Asks(r, p) ==
  /\ run[r].phase = "turn"
  /\ Healthy
  /\ perm[p].of = None
  /\ \A q \in Perm : perm[q].of = r => ~perm[q].open
  /\ perm' = [perm EXCEPT ![p] = [@ EXCEPT !.of = r, !.open = TRUE]]
  /\ UNCHANGED <<server, run>>

\* External: another client of the server answers.
AnsweredElsewhere(p) ==
  /\ perm[p].open
  /\ perm' = [perm EXCEPT ![p] = [@ EXCEPT !.open = FALSE, !.elsewhere = TRUE]]
  /\ UNCHANGED <<server, run>>

GateOpened(m, p) ==
  [m EXCEPT !.reader = "asking", !.gate = p, !.card = "gate", !.status = "needs-input"]

\* A mutant: a repeated event opens a second gate.
ReadAgain(r, p) ==
  /\ run[r].reader = "reading"
  /\ run[r].phase \notin {"dispose", "ended"}
  /\ perm[p].of = r
  /\ run' = [run EXCEPT ![r] = GateOpened(@, p)]
  /\ perm' = [perm EXCEPT ![p] = [@ EXCEPT !.seen = TRUE]]
  /\ UNCHANGED server

\* The reader takes an event of its own session; a repeated one does nothing.
\* The gate opens whatever the loop is doing by now.
ReadPermission(r, p) ==
  /\ run[r].reader = "reading"
  /\ run[r].phase \notin {"dispose", "ended"}
  /\ perm[p].of = r
  /\ ~perm[p].seen
  /\ run' = [run EXCEPT ![r] = GateOpened(@, p)]
  /\ perm' = [perm EXCEPT ![p] = [@ EXCEPT !.seen = TRUE]]
  /\ UNCHANGED server

\* The gate of a run is resolved.
GateShut(m) ==
  [Unpark(m) EXCEPT !.gate = None, !.card = "none",
     !.reader = IF m.phase \in {"dispose", "ended"} THEN "over" ELSE "reading"]

\* The response is posted; without a server, or to a request nobody waits for
\* any more, it is lost.
Responded(q, approve, lands) ==
  [q EXCEPT !.sent = @ + 1, !.open = @ /\ ~lands, !.granted = @ \/ (lands /\ approve)]

\* What the operator said of the request.
Said(q, clicked) == [q EXCEPT !.approved = @ \/ clicked]

\* clicked is what the operator said of it, approve what is answered.
GateClosed(r, clicked, approve, m) ==
  /\ run' = [run EXCEPT ![r] = GateShut(m)]
  /\ perm' = [perm EXCEPT ![m.gate] =
                 Responded(Said(@, clicked), approve, Healthy /\ @.open)]
  /\ UNCHANGED server

\* The operator's click.  With a gate open the first option of whatever card
\* shows approves it, whether the card is the gate's own or a question raised
\* since, of which he has then said nothing about the request; a stop denies.
ResolveGate(r) ==
  LET m == run[r]
  IN  /\ m.gate # None
      /\ m.card # "none"
      /\ \/ GateClosed(r, m.card = "gate", TRUE, m)
         \/ GateClosed(r, FALSE, FALSE, m)
         \/ GateClosed(r, FALSE, FALSE, [m EXCEPT !.stop = TRUE])

\* A mutant: the timeout lets the request through.
GateTimesOutOpen(r) ==
  /\ r \in Autonomous
  /\ run[r].gate # None
  /\ run[r].card = "gate"
  /\ GateClosed(r, FALSE, TRUE, run[r])

\* An unanswered gate of an autonomous session is denied, as long as its card
\* is still the one that shows.
GateTimesOut(r) ==
  /\ r \in Autonomous
  /\ run[r].gate # None
  /\ run[r].card = "gate"
  /\ GateClosed(r, FALSE, FALSE, run[r])

\* External: the event stream ends early.  Nobody reopens it.
StreamEnds(r) ==
  /\ run[r].reader = "reading"
  /\ Becomes(r, [run[r] EXCEPT !.reader = "over"])

(***************************************************************************)
(* stop() of the supervisor.  It has no handle on this engine's driver: a  *)
(* turn in flight runs on.                                                 *)
(***************************************************************************)
Stop(r) ==
  LET m == [run[r] EXCEPT !.stop = TRUE]
  IN  \/ run[r].phase = "manual" /\ Becomes(r, StopRun(m))
      \/ /\ run[r].phase # "manual"
         /\ run[r].status = "needs-input"
         /\ run[r].gate # None
         /\ GateClosed(r, FALSE, FALSE, m)
      \/ /\ run[r].status = "needs-input"
         /\ run[r].gate = None
         /\ Becomes(r, Answered(m, TRUE))
      \/ /\ run[r].phase # "manual"
         /\ run[r].status \in {"running", "paused"}
         /\ Becomes(r, m)

ManagerSteps ==
  \/ Attach
  \/ GiveUp
  \/ ForeignLeaves
  \/ \E p \in Proc : Spawn(p) \/ ExitEvent(p) \/ Boots(p) \/ Dies(p)

LoopSteps(r) ==
  \/ Create(r) \/ Top(r) \/ Decide(r) \/ BrainFails(r) \/ BrainBack(r) \/ BrainStops(r)
  \/ QuestionTimesOut(r) \/ TurnReturns(r) \/ TurnFails(r) \/ TurnTimesOut(r) \/ Ends(r)

PermissionSteps(r) ==
  \/ GateTimesOut(r)
  \/ StreamEnds(r)
  \/ \E p \in Perm : Asks(r, p) \/ ReadPermission(r, p)

OperatorSteps(r) ==
  \/ Launch(r) \/ Message(r) \/ SwitchMode(r) \/ AnswerQuestion(r) \/ ResolveGate(r) \/ Stop(r)

Next ==
  \/ ManagerSteps
  \/ \E p \in Perm : AnsweredElsewhere(p)
  \/ \E r \in Run : LoopSteps(r) \/ PermissionSteps(r) \/ OperatorSteps(r)

Spec == Init /\ [][Next]_vars

\* The loop's own steps are taken, ensure() comes to an end, and timers fire.
Fairness ==
  /\ WF_vars(Attach \/ GiveUp \/ \E p \in Proc : Spawn(p))
  /\ \A r \in Run :
       /\ WF_vars(Create(r)) /\ WF_vars(Top(r)) /\ WF_vars(BrainStops(r)) /\ WF_vars(Ends(r))
       /\ WF_vars(Decide(r) \/ BrainFails(r))
       /\ WF_vars(TurnTimesOut(r)) /\ WF_vars(QuestionTimesOut(r)) /\ WF_vars(GateTimesOut(r))

FairSpec == Spec /\ Fairness

(***************************************************************************)
(* Properties.                                                             *)
(***************************************************************************)
\* However many runs ask for the server at once, no second one is spawned for
\* the port while the manager has one it may still get an answer from.
OneServer == [][\A p \in Proc : Spawn(p) => child = None]_vars

\* The server goes ahead on our answer only if the operator clicked Approve on
\* the card of that very request: no timeout, stop or retry answers for him,
\* and a click on a question that covers the card of a gate nobody waits for
\* any more reaches no request that is open.  Every request gets one response
\* however often its event comes.
GrantedByOperator ==
  \A p \in Perm : /\ perm[p].granted => perm[p].approved
                  /\ perm[p].sent <= 1

\* The run of an autonomous session that was told to stop ends, with the server
\* up or down, the stream read or lost, and whatever card is open.  (A request
\* answered elsewhere is the exception: its gate stays open behind the next
\* card, which takes its timeout away.)
StopEndsRun ==
  \A r \in Autonomous :
    run[r].stop ~> run[r].phase = "ended" \/ \E p \in Perm : perm[p].elsewhere

(***************************************************************************)
(* What the source says and the code does not do.                          *)
(***************************************************************************)
\* "Kill the server if we spawned it": the process we have is one we can kill.
\* Fails: the late exit event of a server that was given up forgets the next.
OwnServerHeld ==
  \A p \in Proc : proc[p] \in {"booting", "serving"} => child = p

\* "Ensure a healthy server": the url handed out is not that of a dead one.
\* Fails: nothing clears it when the server dies.
EnsureIsHealthy == [][\A r \in Run : EnsureCached(r) => Healthy]_vars
=============================================================================
