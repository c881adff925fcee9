------------------------------- MODULE Fleet -------------------------------
(***************************************************************************)
(* The fleet supervisor (src/server/supervisor.ts) together with the run   *)
(* it starts for a session (runSession in src/orchestrator.ts).            *)
(*                                                                         *)
(* The program is one JavaScript thread: an action is one synchronous      *)
(* stretch of code, from the callback, timer or resumed await that begins  *)
(* it to the next await, with the microtasks it leaves behind.  Between    *)
(* two actions anything another session, a timer or the operator does may  *)
(* come in.  Left out: prompts, replies and decisions (only which branch   *)
(* they make the code take), automations, pull requests and persistence.   *)
(***************************************************************************)
EXTENDS Naturals, FiniteSets, SequencesExt

CONSTANTS
  Session,      \* every session id that can occur
  InitLive,     \* the sessions of config.json
  InitDeps,     \* their dependsOn
  DepChoices,   \* the dependsOn lists an edit or a new session may carry
  Run,          \* runs of one session that may be alive together
  CapChoices,   \* values of maxConcurrent; Cardinality(Session) is no cap
  Modes,        \* modes a loop iteration may read, of "manual", "autopilot"
  Autonomous,   \* sessions of the "autonomous" persona
  MaxTurns,     \* limits.maxTurns
  MaxHeals,     \* reliability.autoHealMaxAttempts; 0 is autoHeal off
  DepthCap,     \* workflowDepthCap; 0 is off
  UsageGate     \* usageGuard.enabled: the /usage gate, else the daily budget

ASSUME SessionsAssumption ==
  /\ IsFiniteSet(Session)
  /\ InitLive \subseteq Session
  /\ InitDeps \in [Session -> SUBSET Session]
  /\ DepChoices \subseteq SUBSET Session
  /\ Autonomous \subseteq Session

ASSUME LimitsAssumption ==
  /\ CapChoices \subseteq Nat \ {0}
  /\ MaxTurns \in Nat
  /\ MaxHeals \in Nat
  /\ DepthCap \in Nat
  /\ UsageGate \in BOOLEAN
  /\ Modes \subseteq {"manual", "autopilot"}

\* What the supervisor keeps of a session (the Managed record).
VARIABLES
  presence,         \* not created yet, in the sessions map, or deleted
  deps,             \* config.dependsOn
  status,
  stopRequested,
  reviewRequired,
  timer,            \* its slot in resumeTimers: none, a resume or a heal
  healAttempts,
  paged             \* the operator knows of the failure: notified, or he
                    \* cancelled the pending restart himself

\* What it keeps of the fleet.
VARIABLES
  running,          \* ids that hold a slot
  queue,            \* ids waiting for one
  maxConcurrent,
  spent             \* lastUsage is a spent limit / today's budget is exceeded

\* Where each run is: the await it is suspended in, and its turn count.
VARIABLES
  phase,
  turns

configVars == <<presence, deps>>
slotVars   == <<running, queue, maxConcurrent>>
healVars   == <<healAttempts, paged>>
vars == <<presence, deps, status, stopRequested, reviewRequired, timer,
          healAttempts, paged, running, queue, maxConcurrent, spent,
          phase, turns>>

Active == {"running", "queued", "needs-input", "manual", "paused"}

Status == Active \cup {"idle", "blocked", "rate-limited", "stopped", "done", "error"}

Gates == {"bootGate", "turnGate"}

\* "killed": its driver was disposed under a boot or a turn.  "lost": its
\* resolver was overwritten by a later run.  "closing": the terminal event
\* is out, sess.dispose() is still awaited and the slot still held.
Phase == Gates \cup {"none", "boot", "usage", "decide", "brain", "attention",
                     "manual", "turn", "killed", "lost", "closing"}

Live(s) == presence[s] = "live"

HasFreeRun(s) == \E g \in Run : phase[s][g] = "none"

InPhase(s, P) == {g \in Run : phase[s][g] \in P}

(***************************************************************************)
(* Workflow dependencies.                                                  *)
(***************************************************************************)
\* A mutant: a stopped dependency counts as met.
UnmetIfAlive(st, s) == {d \in deps[s] : Live(d) /\ st[d] \notin {"done", "stopped"}}

UnmetIn(st, s) == {d \in deps[s] : Live(d) /\ st[d] # "done"}

\* s ends a chain of more than DepthCap steps.
OverDepth(s) ==
  /\ DepthCap > 0
  /\ \E chain \in [0..DepthCap -> Session] :
       /\ chain[0] = s
       /\ \A i \in 1..DepthCap : chain[i] \in deps[chain[i - 1]] /\ Live(chain[i])

\* A mutant: NormalDeps below with only a dependency on itself refused.
AnyDeps(s, D) == s \notin D /\ \A d \in D : Live(d)

\* D is a list s may be given: known sessions, none of which runs after s
\* (some set closed under dependsOn holds D and not s).
NormalDeps(s, D) ==
  /\ \A d \in D : Live(d)
  /\ \E C \in SUBSET Session :
       /\ D \subseteq C
       /\ s \notin C
       /\ \A c \in C : Live(c) => deps[c] \subseteq C

(***************************************************************************)
(* Launching, and filling free slots from the queue.                       *)
(***************************************************************************)
Booted(L, ph) ==
  [t \in Session |->
     IF t \in L THEN [ph[t] EXCEPT ![CHOOSE g \in Run : ph[t][g] = "none"] = "boot"]
                ELSE ph[t]]

\* A mutant: the slot is not taken.
FreeRide(L, inUse, st, ph, review, pages) ==
  /\ running' = inUse
  /\ status' = [t \in Session |-> IF t \in L THEN "running" ELSE st[t]]
  /\ phase' = Booted(L, ph)
  /\ stopRequested' = [t \in Session |-> t \notin L /\ stopRequested[t]]
  /\ reviewRequired' = [t \in Session |-> t \notin L /\ review[t]]
  /\ paged' = [t \in Session |-> t \notin L /\ pages[t]]

\* launch() for every session of L, from the slots in use and the statuses,
\* phases, review flags and pages the caller leaves.
Launch(L, inUse, st, ph, review, pages) ==
  /\ running' = inUse \cup L
  /\ status' = [t \in Session |-> IF t \in L THEN "running" ELSE st[t]]
  /\ phase' = Booted(L, ph)
  /\ stopRequested' = [t \in Session |-> t \notin L /\ stopRequested[t]]
  /\ reviewRequired' = [t \in Session |-> t \notin L /\ review[t]]
  /\ paged' = [t \in Session |-> t \notin L /\ pages[t]]

\* The sessions pump() launches when it takes the first n off the queue.
Picked(n, st) ==
  {s \in Session : Live(s) /\ st[s] = "queued" /\ \E i \in 1..n : queue[i] = s}

\* Mutants: nothing is pumped; the pump ignores the cap.
PumpsNothing(n, inUse, st, cap) == n = 0

PumpsAll(n, inUse, st, cap) == n = Len(queue)

\* pump() takes n: it stops at a full pool or an empty queue, not earlier.
PumpTakes(n, inUse, st, cap) ==
  /\ n \in 0..Len(queue)
  /\ n = Len(queue) \/ Cardinality(inUse \cup Picked(n, st)) >= cap
  /\ \A k \in 0..(n - 1) : Cardinality(inUse \cup Picked(k, st)) < cap

(***************************************************************************)
(* start(): whatever asks for it.                                          *)
(***************************************************************************)
CanStart(s) == Live(s) /\ status[s] \notin Active /\ HasFreeRun(s)

Parked(s, auto) == auto /\ UnmetIn(status, s) = {} /\ OverDepth(s)

Refused(s, auto, limit) == UnmetIn(status, s) # {} \/ Parked(s, auto) \/ limit

Enqueued(q, s) == IF s \in ToSet(q) THEN q ELSE Append(q, s)

\* `pages` is who will know of the failure if the request is refused.
StartRequest(s, auto, limit, pages) ==
  LET review == IF auto THEN reviewRequired ELSE [reviewRequired EXCEPT ![s] = FALSE]
  IN
  /\ healAttempts' = IF auto THEN healAttempts ELSE [healAttempts EXCEPT ![s] = 0]
  /\ \/ /\ Refused(s, auto, limit)
        /\ status' = [status EXCEPT ![s] =
                        IF UnmetIn(status, s) # {} \/ Parked(s, auto) THEN "blocked" ELSE @]
        /\ reviewRequired' = IF Parked(s, auto) THEN [review EXCEPT ![s] = TRUE] ELSE review
        /\ paged' = pages
        /\ UNCHANGED <<running, queue, phase, stopRequested>>
     \/ /\ ~Refused(s, auto, limit)
        /\ Cardinality(running) >= maxConcurrent
        /\ status' = [status EXCEPT ![s] = "queued"]
        /\ queue' = Enqueued(queue, s)
        /\ reviewRequired' = review
        /\ UNCHANGED <<running, phase, stopRequested, paged>>
     \/ /\ ~Refused(s, auto, limit)
        /\ Cardinality(running) < maxConcurrent
        /\ Launch({s}, running, status, phase, review, paged)
        /\ UNCHANGED queue
  /\ UNCHANGED <<presence, deps, maxConcurrent, turns>>

\* Start: the operator, Start all, a due schedule, an automation or "continue".
Start(s) ==
  /\ CanStart(s)
  /\ StartRequest(s, FALSE, spent, paged)
  /\ UNCHANGED <<timer, spent>>

\* A mutant: the wakeup keeps the spent reading it is about to re-check.
ResumeRefused(s) ==
  /\ timer[s] = "resume"
  /\ timer' = [timer EXCEPT ![s] = "none"]
  /\ UNCHANGED spent
  /\ IF Live(s) /\ status[s] = "rate-limited"
     THEN /\ CanStart(s)
          /\ StartRequest(s, FALSE, spent, paged)
     ELSE UNCHANGED <<presence, deps, status, stopRequested, reviewRequired,
                      healVars, slotVars, phase, turns>>

\* The wakeup scheduleResume() armed.
ResumeFires(s) ==
  /\ timer[s] = "resume"
  /\ timer' = [timer EXCEPT ![s] = "none"]
  /\ IF Live(s) /\ status[s] = "rate-limited"
     THEN /\ CanStart(s)
          /\ spent' = (spent /\ ~UsageGate)
          /\ StartRequest(s, FALSE, spent /\ ~UsageGate, paged)
     ELSE UNCHANGED <<presence, deps, status, stopRequested, reviewRequired,
                      healVars, slotVars, spent, phase, turns>>

\* A mutant: a refused restart is not reported.
HealRefusedSilently(s) ==
  /\ timer[s] = "heal"
  /\ timer' = [timer EXCEPT ![s] = "none"]
  /\ UNCHANGED spent
  /\ IF Live(s) /\ status[s] = "error"
     THEN /\ CanStart(s)
          /\ StartRequest(s, TRUE, spent, paged)
     ELSE UNCHANGED <<presence, deps, status, stopRequested, reviewRequired,
                      healVars, slotVars, phase, turns>>

\* The restart scheduleHeal() armed.  A refusal pages the operator.
HealFires(s) ==
  /\ timer[s] = "heal"
  /\ timer' = [timer EXCEPT ![s] = "none"]
  /\ UNCHANGED spent
  /\ IF Live(s) /\ status[s] = "error"
     THEN /\ CanStart(s)
          /\ StartRequest(s, TRUE, spent, [paged EXCEPT ![s] = TRUE])
     ELSE UNCHANGED <<presence, deps, status, stopRequested, reviewRequired,
                      healVars, slotVars, phase, turns>>

(***************************************************************************)
(* The run: events, and what each await resumes with.                      *)
(***************************************************************************)
\* Mutants: the budget, or the operator's request, is not looked at.
StopsOnRequest(s) == stopRequested[s]

StopsOnBudget(s) == ~UsageGate /\ spent

ShouldStop(s) == stopRequested[s] \/ (~UsageGate /\ spent)

Moves(s, g, p) == phase' = [phase EXCEPT ![s][g] = p]

\* onEvent "stop": it does not clobber a rate-limited status.
StopEvent(s, g, st, halted) ==
  /\ status' = [st EXCEPT ![s] = IF @ = "rate-limited" THEN @
                                 ELSE IF halted THEN "stopped" ELSE "done"]
  /\ Moves(s, g, "closing")
  /\ UNCHANGED turns

\* onEvent "error".
ErrorEvent(s, g) ==
  /\ status' = [status EXCEPT ![s] = IF stopRequested[s] THEN "stopped" ELSE "error"]
  /\ Moves(s, g, "closing")
  /\ UNCHANGED turns

\* A limit notice on the screen: rate_limited, then stop.
NoticeEvents(s, g) ==
  StopEvent(s, g, [status EXCEPT ![s] = "rate-limited"], stopRequested[s])

\* The run parks on a promise of the given kind.  One resolver slot per kind:
\* another run parked on it is lost.
Park(s, g, p, kind) ==
  phase' = [phase EXCEPT ![s] = [h \in Run |->
              IF h = g THEN p ELSE IF @[h] \in kind THEN "lost" ELSE @[h]]]

\* A prompt is pending: guards.check() (maxTurns, wall clock, ping-pong),
\* then runTurn, which a driver disposed by a stop refuses.
BeginTurn(s, g, st) ==
  \/ /\ turns[s][g] < MaxTurns
     /\ ~stopRequested[s]
     /\ status' = st
     /\ Moves(s, g, "turn")
     /\ turns' = [turns EXCEPT ![s][g] = @ + 1]
  \/ StopEvent(s, g, st, stopRequested[s])

\* The top of the loop: stop, deliver the seed prompt of a continued run (its
\* first iteration), wait for the operator, or ask the brain.
LoopTop(s, g, st) ==
  \/ /\ ShouldStop(s)
     /\ StopEvent(s, g, st, stopRequested[s])
  \/ /\ ~ShouldStop(s)
     /\ phase[s][g] \in {"boot", "usage"} /\ turns[s][g] = 0
     /\ BeginTurn(s, g, st)
  \/ /\ ~ShouldStop(s)
     /\ "manual" \in Modes
     /\ status' = [st EXCEPT ![s] = IF @ = "running" THEN "manual" ELSE @]
     /\ Park(s, g, "manual", {"manual"})
     /\ UNCHANGED turns
  \/ /\ ~ShouldStop(s)
     /\ "autopilot" \in Modes
     /\ status' = st
     /\ Moves(s, g, "decide")
     /\ UNCHANGED turns

RunFrame == UNCHANGED <<presence, deps, stopRequested, reviewRequired, paged, slotVars>>

\* A dangerous gate on the screen during the boot or a turn.
GateRaised(s, g) ==
  /\ phase[s][g] \in {"boot", "turn"}
  /\ status' = [status EXCEPT ![s] = "needs-input"]
  /\ Park(s, g, IF phase[s][g] = "boot" THEN "bootGate" ELSE "turnGate", Gates)
  /\ RunFrame /\ UNCHANGED <<timer, healAttempts, spent, turns>>

\* sess.start() returned: the first /usage check, or straight to the loop.
Booting(s, g) ==
  /\ phase[s][g] = "boot"
  /\ \/ /\ UsageGate
        /\ Moves(s, g, "usage")
        /\ UNCHANGED <<status, turns>>
     \/ /\ ~UsageGate
        /\ LoopTop(s, g, status)
     \/ ErrorEvent(s, g)
     \/ NoticeEvents(s, g)
  /\ RunFrame /\ UNCHANGED <<timer, healAttempts, spent>>

\* checkUsage(): unreadable, fine, or spent (limited, then stop).
UsageRead(s, g) ==
  /\ phase[s][g] = "usage"
  /\ RunFrame /\ UNCHANGED healAttempts
  /\ \/ /\ LoopTop(s, g, status)
        /\ spent' \in {spent, FALSE}
        /\ UNCHANGED timer
     \/ /\ StopEvent(s, g, [status EXCEPT ![s] = "rate-limited"], stopRequested[s])
        /\ spent' = TRUE
        /\ timer' = [timer EXCEPT ![s] = "resume"]

\* The brain answers: continue, stop, escalate, or a failure that is not transient.
BrainAnswers(s, g) ==
  /\ phase[s][g] = "decide"
  /\ \/ BeginTurn(s, g, status)
     \/ StopEvent(s, g, status, stopRequested[s])
     \/ /\ status' = [status EXCEPT ![s] = "needs-input"]
        /\ Park(s, g, "attention", {"attention"})
        /\ UNCHANGED turns
     \/ ErrorEvent(s, g)
  /\ RunFrame /\ UNCHANGED <<timer, healAttempts, spent>>

\* The local model is unreachable: waitForBrain() pauses the run, unless it is
\* to stop already.
BrainUnreachable(s, g) ==
  /\ phase[s][g] = "decide"
  /\ IF ShouldStop(s)
     THEN StopEvent(s, g, status, stopRequested[s])
     ELSE /\ status' = [status EXCEPT ![s] = "paused"]
          /\ Moves(s, g, "brain")
          /\ UNCHANGED turns
  /\ RunFrame /\ UNCHANGED <<timer, healAttempts, spent>>

\* A mutant: the wait for the brain never looks at shouldStop().
DeafWhilePaused(s, g) == FALSE

\* waitForBrain() polls: a stop ends the paused run, a healthy model resumes it.
BrainStops(s, g) ==
  /\ phase[s][g] = "brain"
  /\ ShouldStop(s)
  /\ StopEvent(s, g, status, stopRequested[s])
  /\ RunFrame /\ UNCHANGED <<timer, healAttempts, spent>>

BrainBack(s, g) ==
  /\ phase[s][g] = "brain"
  /\ LoopTop(s, g, [status EXCEPT ![s] = IF @ = "paused" THEN "running" ELSE @])
  /\ RunFrame /\ UNCHANGED <<timer, healAttempts, spent>>

\* A mutant: the first turn already refills the heal budget.
EagerRefill(s, g) ==
  /\ phase[s][g] = "turn"
  /\ healAttempts' = [healAttempts EXCEPT ![s] = 0]
  /\ \/ /\ UsageGate
        /\ Moves(s, g, "usage")
        /\ UNCHANGED <<status, turns>>
     \/ LoopTop(s, g, status)
  /\ RunFrame /\ UNCHANGED <<timer, spent>>

\* runTurnRecovered() returned: the turn event, then a /usage refresh or the
\* next iteration.
TurnDone(s, g) ==
  /\ phase[s][g] = "turn"
  /\ healAttempts' = IF turns[s][g] >= 2 THEN [healAttempts EXCEPT ![s] = 0] ELSE healAttempts
  /\ \/ /\ UsageGate
        /\ Moves(s, g, "usage")
        /\ UNCHANGED <<status, turns>>
     \/ LoopTop(s, g, status)
  /\ RunFrame /\ UNCHANGED <<timer, spent>>

\* runTurnRecovered() threw: recoveries exhausted or the error not recoverable.
TurnFails(s, g) ==
  /\ phase[s][g] = "turn"
  /\ \/ /\ ShouldStop(s)
        /\ StopEvent(s, g, status, stopRequested[s])
     \/ /\ ~ShouldStop(s)
        /\ ErrorEvent(s, g)
     \/ /\ ~ShouldStop(s)
        /\ NoticeEvents(s, g)
  /\ RunFrame /\ UNCHANGED <<timer, healAttempts, spent>>

\* The boot or turn whose driver a stop disposed comes back.
Killed(s, g) ==
  /\ phase[s][g] = "killed"
  /\ StopEvent(s, g, status, stopRequested[s])
  /\ RunFrame /\ UNCHANGED <<timer, healAttempts, spent>>

(***************************************************************************)
(* The operator answers a run that waits for him.                          *)
(***************************************************************************)
\* A mutant: the status stays needs-input.
StaysParked(s, st) == st

Unparked(s, st) == [st EXCEPT ![s] = IF @ = "needs-input" THEN "running" ELSE @]

AfterGate(p) == CASE p = "bootGate" -> "boot" [] p = "turnGate" -> "turn" [] OTHER -> p

OperatorFrame == UNCHANGED <<presence, deps, reviewRequired, healAttempts, slotVars, spent>>

\* Approve or deny: the turn goes on either way.  A deny may be the timeout of
\* the autonomous persona; "stop" denies and asks the run to stop.
GateAnswered(s, g, stop) ==
  /\ Live(s)
  /\ phase[s][g] \in Gates
  /\ status' = Unparked(s, status)
  /\ Moves(s, g, AfterGate(phase[s][g]))
  /\ stopRequested' = [stopRequested EXCEPT ![s] = @ \/ stop]
  /\ OperatorFrame /\ UNCHANGED <<timer, paged, turns>>

GateTimeout(s, g) == s \in Autonomous /\ GateAnswered(s, g, FALSE)

\* The gate's resolver is asked first, so an escalation waits behind a gate.
AttentionOpen(s, g) ==
  /\ Live(s)
  /\ phase[s][g] = "attention"
  /\ InPhase(s, Gates) = {}

\* An option or a custom prompt: the next turn.
AttentionAnswered(s, g) ==
  /\ AttentionOpen(s, g)
  /\ BeginTurn(s, g, Unparked(s, status))
  /\ OperatorFrame /\ UNCHANGED <<stopRequested, timer, paged>>

AttentionTimeout(s, g) == s \in Autonomous /\ AttentionAnswered(s, g)

\* The dashboard's Stop on an escalation: stopRequested stays as it is.
AttentionStopped(s, g) ==
  /\ AttentionOpen(s, g)
  /\ StopEvent(s, g, Unparked(s, status), stopRequested[s])
  /\ OperatorFrame /\ UNCHANGED <<stopRequested, timer, paged>>

\* sendMessage(): the message is the next turn.
ManualMessage(s, g) ==
  /\ Live(s)
  /\ phase[s][g] = "manual"
  /\ BeginTurn(s, g, [status EXCEPT ![s] = "running"])
  /\ OperatorFrame /\ UNCHANGED <<stopRequested, timer, paged>>

\* setMode("autopilot"): the loop goes round again.
ManualSwitch(s, g) ==
  /\ Live(s)
  /\ phase[s][g] = "manual"
  /\ LoopTop(s, g, [status EXCEPT ![s] = "running"])
  /\ OperatorFrame /\ UNCHANGED <<stopRequested, timer, paged>>

(***************************************************************************)
(* stop(): one action per branch, in the order of the code.  Each cancels  *)
(* the pending timer; stopAll() is a stop of every session, or StopBlocked.*)
(***************************************************************************)
Cancels(s) ==
  /\ Live(s)
  /\ timer' = [timer EXCEPT ![s] = "none"]
  /\ OperatorFrame

StopLimited(s) ==
  /\ Live(s) /\ status[s] = "rate-limited"
  /\ timer' = [timer EXCEPT ![s] = "none"]
  /\ status' = [status EXCEPT ![s] = "stopped"]
  /\ OperatorFrame /\ UNCHANGED <<stopRequested, paged, phase, turns>>

StopManual(s, g) ==
  /\ Cancels(s)
  /\ status[s] # "rate-limited"
  /\ phase[s][g] = "manual"
  /\ stopRequested' = [stopRequested EXCEPT ![s] = TRUE]
  /\ StopEvent(s, g, status, TRUE)
  /\ UNCHANGED paged

\* A mutant: the status goes back to idle, the queue keeps the id.
StopKeepsQueued(s) ==
  /\ Live(s) /\ status[s] = "queued" /\ InPhase(s, {"manual"}) = {}
  /\ timer' = [timer EXCEPT ![s] = "none"]
  /\ status' = [status EXCEPT ![s] = "idle"]
  /\ UNCHANGED <<presence, deps, stopRequested, reviewRequired, healVars,
                 slotVars, spent, phase, turns>>

StopQueued(s) ==
  /\ Live(s) /\ status[s] = "queued" /\ InPhase(s, {"manual"}) = {}
  /\ timer' = [timer EXCEPT ![s] = "none"]
  /\ \/ /\ s \notin ToSet(queue)
        /\ UNCHANGED queue
     \/ \E i \in DOMAIN queue :
          /\ queue[i] = s /\ \A j \in 1..(i - 1) : queue[j] # s
          /\ queue' = RemoveAt(queue, i)
  /\ status' = [status EXCEPT ![s] = "idle"]
  /\ UNCHANGED <<presence, deps, stopRequested, reviewRequired, healVars,
                 running, maxConcurrent, spent, phase, turns>>

StopAtGate(s, g) ==
  /\ status[s] = "needs-input"
  /\ InPhase(s, {"manual"}) = {}
  /\ phase[s][g] \in Gates
  /\ Cancels(s)
  /\ status' = Unparked(s, status)
  /\ Moves(s, g, AfterGate(phase[s][g]))
  /\ stopRequested' = [stopRequested EXCEPT ![s] = TRUE]
  /\ UNCHANGED <<paged, turns>>

StopAtAttention(s, g) ==
  /\ status[s] = "needs-input"
  /\ InPhase(s, {"manual"} \cup Gates) = {}
  /\ phase[s][g] = "attention"
  /\ Cancels(s)
  /\ stopRequested' = [stopRequested EXCEPT ![s] = TRUE]
  /\ StopEvent(s, g, Unparked(s, status), TRUE)
  /\ UNCHANGED paged

\* A running or brain-paused session: ask, and dispose the driver.
StopActive(s) ==
  /\ status[s] \in {"running", "paused"}
  /\ InPhase(s, {"manual"}) = {}
  /\ Cancels(s)
  /\ stopRequested' = [stopRequested EXCEPT ![s] = TRUE]
  /\ phase' = [phase EXCEPT ![s] = [g \in Run |->
                 IF @[g] \in {"boot", "turn"} THEN "killed" ELSE @[g]]]
  /\ UNCHANGED <<status, paged, turns>>

\* Nothing runs: only the timer goes.
StopInactive(s) ==
  /\ status[s] \in {"idle", "blocked", "stopped", "done", "error"}
  /\ InPhase(s, {"manual"}) = {}
  /\ Cancels(s)
  /\ paged' = [paged EXCEPT ![s] = @ \/ (status[s] = "error" /\ timer[s] = "heal")]
  /\ UNCHANGED <<status, stopRequested, phase, turns>>

\* stopAll() drops a blocked session back to idle.
StopBlocked(s) ==
  /\ Live(s) /\ status[s] = "blocked"
  /\ status' = [status EXCEPT ![s] = "idle"]
  /\ reviewRequired' = [reviewRequired EXCEPT ![s] = FALSE]
  /\ UNCHANGED <<presence, deps, stopRequested, timer, healVars, slotVars,
                 spent, phase, turns>>

(***************************************************************************)
(* Editing the fleet.                                                      *)
(***************************************************************************)
AddSession(s, D) ==
  /\ presence[s] = "new"
  /\ NormalDeps(s, D)
  /\ presence' = [presence EXCEPT ![s] = "live"]
  /\ deps' = [deps EXCEPT ![s] = D]
  /\ UNCHANGED <<status, stopRequested, reviewRequired, timer, healVars,
                 slotVars, spent, phase, turns>>

\* updateSession() with a dependsOn patch: a blocked session is looked at again.
UpdateDeps(s, D) ==
  /\ Live(s)
  /\ NormalDeps(s, D)
  /\ deps' = [deps EXCEPT ![s] = D]
  /\ status' = [status EXCEPT ![s] =
                  IF @ = "blocked" /\ \A d \in D : status[d] = "done" THEN "idle" ELSE @]
  /\ UNCHANGED <<presence, stopRequested, reviewRequired, timer, healVars,
                 slotVars, spent, phase, turns>>

\* A run parked on a gate is denied, one parked on an escalation is stopped;
\* one waiting for manual input, or on the brain, is left as it is.
RemoveSession(s) ==
  /\ Live(s) /\ status[s] # "running"
  /\ presence' = [presence EXCEPT ![s] = "removed"]
  /\ timer' = [timer EXCEPT ![s] = "none"]
  /\ stopRequested' = [stopRequested EXCEPT ![s] = TRUE]
  /\ status' = IF InPhase(s, {"attention"}) # {} THEN [status EXCEPT ![s] = "stopped"]
               ELSE IF InPhase(s, Gates) # {} THEN Unparked(s, status)
               ELSE status
  /\ phase' = [phase EXCEPT ![s] = [g \in Run |->
                 IF @[g] = "attention" THEN "closing" ELSE AfterGate(@[g])]]
  /\ UNCHANGED <<deps, reviewRequired, healVars, slotVars, spent, turns>>

SetMaxConcurrent(cap) ==
  /\ maxConcurrent' = cap
  /\ \E n \in 0..Len(queue) :
       /\ PumpTakes(n, running, status, cap)
       /\ queue' = SubSeq(queue, n + 1, Len(queue))
       /\ Launch(Picked(n, status), running, status, phase, reviewRequired, paged)
  /\ UNCHANGED <<presence, deps, timer, healAttempts, spent, turns>>

\* The daily budget: spent by any run's turns and minutes, back at midnight or
\* by an edit of its limits.
BudgetMoves ==
  /\ ~UsageGate
  /\ spent' = ~spent
  /\ UNCHANGED <<presence, deps, status, stopRequested, reviewRequired, timer,
                 healVars, slotVars, phase, turns>>

(***************************************************************************)
(* The run's promise settles: the .then() of launch().                     *)
(***************************************************************************)

\* A mutant: nobody is promoted.
NonePromoted(st) == {}

\* promoteReady(), on the statuses pump() leaves.
Promotable(st) ==
  {t \in Session : /\ Live(t) /\ st[t] = "blocked" /\ ~reviewRequired[t]
                   /\ UnmetIn(st, t) = {}}

\* Of the promoted sessions, `now` launch and the others wait: no slot is left
\* for these, and one was for the last of those.
Splits(now, go, inUse) ==
  /\ now \subseteq go
  /\ now = go \/ Cardinality(inUse \cup now) >= maxConcurrent
  /\ now # {} => \E t \in now : Cardinality(inUse \cup (now \ {t})) < maxConcurrent

\* An error heals itself or pages the operator.
Settles(s, failed, restartable) ==
  /\ healAttempts' = [healAttempts EXCEPT ![s] = IF failed /\ restartable THEN @ + 1 ELSE @]
  /\ timer' = [timer EXCEPT ![s] = IF failed /\ restartable THEN "heal" ELSE @]

\* A mutant: the number of attempts is not bounded.
HealsForever(s) == ~stopRequested[s]

CanHeal(s) == ~stopRequested[s] /\ healAttempts[s] < MaxHeals

\* The run's slot goes back, pump() takes n off the queue and promoteReady()
\* launches `now` of the sessions this end makes ready.
EndOf(s, g, n, now, restartable) ==
  LET ended  == [status EXCEPT ![s] = IF @ = "running" THEN "done" ELSE @]
      kept   == running \ {s}
      failed == ended[s] = "error"
      picked == Picked(n, ended)
      ready  == IF ended[s] = "done" THEN Promotable(ended) ELSE {}
      deep   == {t \in ready : OverDepth(t)}
      wait   == (ready \ deep) \ now
      rest   == SubSeq(queue, n + 1, Len(queue))
      left   == [t \in Session |->
                   IF t \in wait THEN IF spent THEN "idle" ELSE "queued" ELSE ended[t]]
  IN
  /\ PumpTakes(n, kept, ended, maxConcurrent)
  /\ IF spent THEN now = {} ELSE Splits(now, ready \ deep, kept \cup picked)
  /\ Launch(picked \cup now, kept, left, [phase EXCEPT ![s][g] = "none"],
            [t \in Session |-> reviewRequired[t] \/ t \in deep],
            [paged EXCEPT ![s] = @ \/ (failed /\ ~restartable)])
  /\ \E tail \in SetToSeqs(IF spent THEN {} ELSE wait \ ToSet(rest)) :
       queue' = rest \o tail
  /\ Settles(s, failed, restartable)

RunEnded(s, g) ==
  /\ phase[s][g] = "closing"
  /\ turns' = [turns EXCEPT ![s][g] = 0]
  /\ \E n \in 0..Len(queue), now \in SUBSET Session, restartable \in {FALSE, CanHeal(s)} :
       EndOf(s, g, n, now, restartable)
  /\ UNCHANGED <<presence, deps, maxConcurrent, spent>>

\* The process dies and comes back: the constructor, on what config.json holds.
Restart ==
  /\ status' = [s \in Session |-> "idle"]
  /\ stopRequested' = [s \in Session |-> FALSE]
  /\ reviewRequired' = [s \in Session |-> FALSE]
  /\ timer' = [s \in Session |-> "none"]
  /\ healAttempts' = [s \in Session |-> 0]
  /\ paged' = [s \in Session |-> FALSE]
  /\ running' = {}
  /\ queue' = <<>>
  /\ spent' \in (IF UsageGate THEN {FALSE} ELSE {spent})
  /\ phase' = [s \in Session |-> [g \in Run |-> "none"]]
  /\ turns' = [s \in Session |-> [g \in Run |-> 0]]
  /\ UNCHANGED <<presence, deps, maxConcurrent>>

Init ==
  /\ presence = [s \in Session |-> IF s \in InitLive THEN "live" ELSE "new"]
  /\ deps = InitDeps
  /\ status = [s \in Session |-> "idle"]
  /\ stopRequested = [s \in Session |-> FALSE]
  /\ reviewRequired = [s \in Session |-> FALSE]
  /\ timer = [s \in Session |-> "none"]
  /\ healAttempts = [s \in Session |-> 0]
  /\ paged = [s \in Session |-> FALSE]
  /\ running = {}
  /\ queue = <<>>
  /\ maxConcurrent \in CapChoices
  /\ spent = FALSE
  /\ phase = [s \in Session |-> [g \in Run |-> "none"]]
  /\ turns = [s \in Session |-> [g \in Run |-> 0]]

RunStep(s, g) ==
  \/ GateRaised(s, g)
  \/ Booting(s, g)
  \/ UsageRead(s, g)
  \/ BrainAnswers(s, g)
  \/ BrainUnreachable(s, g)
  \/ BrainStops(s, g)
  \/ BrainBack(s, g)
  \/ TurnDone(s, g)
  \/ TurnFails(s, g)
  \/ Killed(s, g)
  \/ RunEnded(s, g)

Answer(s, g) ==
  \/ \E stop \in BOOLEAN : GateAnswered(s, g, stop)
  \/ GateTimeout(s, g)
  \/ AttentionAnswered(s, g)
  \/ AttentionTimeout(s, g)
  \/ AttentionStopped(s, g)
  \/ ManualMessage(s, g)
  \/ ManualSwitch(s, g)

Stop(s) ==
  \/ StopLimited(s)
  \/ \E g \in Run : StopManual(s, g) \/ StopAtGate(s, g) \/ StopAtAttention(s, g)
  \/ StopQueued(s)
  \/ StopActive(s)
  \/ StopInactive(s)
  \/ StopBlocked(s)

Edit(s) ==
  \/ \E D \in DepChoices : AddSession(s, D) \/ UpdateDeps(s, D)
  \/ RemoveSession(s)

Next ==
  \/ \E s \in Session :
       \/ Start(s)
       \/ ResumeFires(s)
       \/ HealFires(s)
       \/ \E g \in Run : RunStep(s, g) \/ Answer(s, g)
       \/ Stop(s)
       \/ Edit(s)
  \/ \E cap \in CapChoices : SetMaxConcurrent(cap)
  \/ BudgetMoves
  \/ Restart

Spec == Init /\ [][Next]_vars

(***************************************************************************)
(* Fairness.  A driver call, a /usage read and a dispose come back or time *)
(* out; the loop's polls and timers fire; the brain, asked for ever,       *)
(* answers, and a boot or turn that meets gate after gate ends.  Nothing   *)
(* is asked of the operator but the timeouts of an autonomous session, and *)
(* nothing of a brain that is down: that is BrainRecovers.                 *)
(***************************************************************************)
Fairness ==
  \A s \in Session :
    /\ WF_vars(ResumeFires(s)) /\ WF_vars(HealFires(s))
    /\ \A g \in Run :
         /\ SF_vars(Booting(s, g))
         /\ SF_vars(TurnDone(s, g) \/ TurnFails(s, g))
         /\ SF_vars(BrainAnswers(s, g))
         /\ WF_vars(UsageRead(s, g))
         /\ WF_vars(BrainStops(s, g))
         /\ WF_vars(Killed(s, g))
         /\ WF_vars(RunEnded(s, g))
         /\ WF_vars(GateTimeout(s, g)) /\ WF_vars(AttentionTimeout(s, g))

BrainRecovers == \A s \in Session, g \in Run : WF_vars(BrainBack(s, g))

FairSpec == Spec /\ Fairness

(***************************************************************************)
(* What must hold.                                                         *)
(***************************************************************************)
TypeOK ==
  /\ presence \in [Session -> {"new", "live", "removed"}]
  /\ deps \in [Session -> SUBSET Session]
  /\ status \in [Session -> Status]
  /\ stopRequested \in [Session -> BOOLEAN]
  /\ reviewRequired \in [Session -> BOOLEAN]
  /\ timer \in [Session -> {"none", "resume", "heal"}]
  /\ healAttempts \in [Session -> 0..MaxHeals]
  /\ paged \in [Session -> BOOLEAN]
  /\ running \in SUBSET Session
  /\ queue \in Seq(Session)
  /\ maxConcurrent \in CapChoices
  /\ spent \in BOOLEAN
  /\ phase \in [Session -> [Run -> Phase]]
  /\ turns \in [Session -> [Run -> 0..MaxTurns]]

Alive(s) == InPhase(s, Phase \ {"none"})

\* The running set that bounds concurrency is exactly the sessions with a run
\* alive, teardown included, and each of them has one: no run without a slot,
\* no slot leaked by a run that is gone.
SlotAccounting ==
  \A s \in Session :
    /\ s \in running <=> Alive(s) # {}
    /\ \A g, h \in Alive(s) : g = h

\* No session waits in the queue while a slot is free: every path that frees
\* a slot or raises the cap pumps.
NoIdleSlot ==
  (\E s \in Session : Live(s) /\ status[s] = "queued")
    => Cardinality(running) >= maxConcurrent

\* The queue and the statuses agree: a live session shows "queued" exactly
\* when it is in the queue, nothing is queued twice, and no slot is idle.
QueueSound ==
  /\ \A s \in Session : Live(s) => (status[s] = "queued" <=> s \in ToSet(queue))
  /\ \A i, j \in DOMAIN queue : queue[i] = queue[j] => i = j
  /\ NoIdleSlot

\* The status on the card is what the run is doing, so that the guards of
\* start(), stop() and removeSession(), which read only the status, are about
\* the run: no active status without a run behind it, no run behind a status
\* that lets start() through except during teardown.
Shows(st, p) ==
  \/ st = "running" /\ p \in {"boot", "usage", "decide", "turn", "killed"}
  \/ st = "paused" /\ p = "brain"
  \/ st = "manual" /\ p = "manual"
  \/ st = "needs-input" /\ p \in Gates \cup {"attention"}
  \/ st \in {"rate-limited", "stopped", "done", "error"} /\ p = "closing"

StatusMatchesRun ==
  \A s \in Session :
    /\ \A g \in Alive(s) : Shows(status[s], phase[s][g])
    /\ status[s] \in {"running", "paused", "manual", "needs-input"} => Alive(s) # {}

\* A failed session is never silently dead: once its run is gone, a restart is
\* pending or the operator knows.
ErrorNeverSilent ==
  \A s \in Session :
    Live(s) /\ status[s] = "error" /\ Alive(s) = {} => timer[s] = "heal" \/ paged[s]

\* Among any live sessions there is one that runs after none of them: nobody
\* waits in a circle.
Acyclic ==
  \A C \in SUBSET Session :
    C # {} /\ (\A c \in C : Live(c)) => \E c \in C : deps[c] \cap C = {}

\* Sessions blocked on their dependencies wait for one outside their own number
\* that is not done (a removed one aside): no order of finishing, editing and
\* restarting leaves one behind, or lets them wait for each other.
BlockedForAReason ==
  \A B \in SUBSET Session :
    B # {} /\ (\A s \in B : Live(s) /\ status[s] = "blocked" /\ ~reviewRequired[s]) =>
      \E s \in B : \E d \in deps[s] \ B :
        \/ presence[d] = "removed"
        \/ status[d] # "done"
        \/ Alive(d) # {}

\* A session paused on a spent limit keeps its wakeup for as long as it is
\* paused: nothing takes the shared timer slot and leaves it rate-limited.
LimitPauseKeepsWakeup ==
  [][\A s \in Session :
       /\ timer[s] = "resume" /\ timer'[s] # "resume"
       /\ status[s] = "rate-limited" /\ presence'[s] = "live"
       => status'[s] # "rate-limited"]_vars

\* Whatever asks for a start, a session takes a slot or a place in the queue
\* only when every dependency it has is done.
WorkflowOrder ==
  [][\A s \in Session :
       status[s] \notin Active /\ status'[s] \in {"running", "queued"}
         => \A d \in deps[s] : Live(d) => status[d] = "done"]_vars

\* Where a run that is to stop may come from p: nowhere, to its end, or on with
\* what it was at.  A gate denied lets its turn go on, to a further gate perhaps;
\* and a decision in flight may turn out to be a question.
StoppedGoes(p, q) ==
  \/ q = p
  \/ q \in {"none", "usage", "killed", "closing", "lost"}
  \/ p \in Gates /\ q = AfterGate(p)
  \/ p \in {"boot", "turn"} /\ q \in Gates
  \/ p = "decide" /\ q = "attention"

\* A stop request is prompt: the run it finds begins no further turn, decision,
\* wait for a message or wait for the brain, and parks only on the gates of the
\* boot or turn it is in and on the question its decision in flight may bring
\* (see StoppedRunNeverAsks), until the next launch withdraws the request.
StopIsPrompt ==
  [][\A s \in Session, g \in Run :
       stopRequested[s] =>
         \/ StoppedGoes(phase[s][g], phase'[s][g])
         \/ phase'[s][g] = "boot" /\ ~stopRequested'[s]]_vars

\* The slot pool promises bounded, first-come first-served admission.
Waiting == {s \in Session : Live(s) /\ status[s] = "queued"}

Ahead(q, a, b) == \E i, j \in DOMAIN q : i < j /\ q[i] = a /\ q[j] = b

Before == {p \in Waiting \X Waiting : Ahead(queue, p[1], p[2])}

Pool == INSTANCE SlotPool WITH Client <- Session, CapChoices <- CapChoices, on <- running,
                               waiting <- Waiting, before <- Before, cap <- maxConcurrent

ImplementsSlotPool == Pool!Spec

\* A deleted session's run is still alive and holds its slot.
Orphaned == \E s \in Session : presence[s] = "removed" /\ Alive(s) # {}

\* No one waits in the queue for ever: the slots ahead are given back, by the
\* bound on turns and the timeouts of parked runs, and handed on in order.
\* (A slot an orphaned run never gives back is the one exception: see
\* RemovedNeverParks.)
QueueDrains ==
  BrainRecovers => \A s \in Session :
    Live(s) /\ status[s] = "queued" ~> ~(Live(s) /\ status[s] = "queued") \/ Orphaned

\* A run asked to stop ends, wherever the request finds it.
StopEndsRun ==
  \A s \in Session :
    Live(s) /\ stopRequested[s] /\ Alive(s) # {}
      ~> ~stopRequested[s] \/ Alive(s) = {} \/ ~Live(s)

\* Self-heal is bounded: a session that fails again and again pages the
\* operator again and again, unless a run got past its first turn or someone
\* started it anew in between.
HealBudgetBounds ==
  \A s \in Session :
    []<>(status[s] = "error") =>
      \/ []<>(paged[s] \/ ~Live(s))
      \/ []<><<\E g \in Run : TurnDone(s, g) /\ turns[s][g] >= 2>>_vars
      \/ []<><<Start(s) \/ ResumeFires(s) \/ Restart>>_vars

(***************************************************************************)
(* What a comment or a document says and the code does not do.             *)
(***************************************************************************)

\* maxConcurrent bounds simultaneous runs (those in teardown not counted).
\* Fails: a start during the teardown of a session's previous run launches a
\* second one, whose slot the first one's end then gives away.
RunsWithinCap ==
  Cardinality({r \in Session \X Run : phase[r[1]][r[2]] \notin {"none", "closing"}})
    <= maxConcurrent

\* The run of a deleted session tears down: it is not left waiting for an
\* answer nobody can give.
RemovedNeverParks ==
  \A s \in Session :
    presence[s] = "removed" => InPhase(s, Gates \cup {"attention", "manual"}) = {}

\* "Stop every session", those waiting on a decision too: "an active one is torn
\* down".  Fails: a stop that comes while the brain decides is forgotten by the
\* escalation that comes of it, and the run waits for an answer after the stop.
StoppedRunNeverAsks ==
  [][\A s \in Session, g \in Run :
       stopRequested[s] /\ phase[s][g] = "decide" => phase'[s][g] # "attention"]_vars

\* An operator stop sticks: no auto-resume is armed for the run it stopped.
StopCancelsWakeup ==
  \A s \in Session : Live(s) /\ stopRequested[s] => timer[s] # "resume"

\* A session is held until every session it depends on has finished, in the
\* queue too.
QueueKeepsGate ==
  [][\A s \in Session :
       status[s] = "queued" /\ status'[s] = "running" => UnmetIn(status, s) = {}]_vars

\* An error the operator was paged for, since a restart cannot fix it or the
\* attempts are used up, is not restarted by a timer.
PagedErrorsStay ==
  [][\A s \in Session : HealFires(s) /\ paged[s] => status'[s] # "running"]_vars
============================================================================
