---------------------------- MODULE Automations ----------------------------
(***************************************************************************)
(* The reactive layer of the supervisor: rules that start, stop, switch or *)
(* message a session when another (or the same) one is done, fails, stops, *)
(* meets a limit or needs the operator (src/policy/automation.ts, and      *)
(* runAutomations() with the operations it calls in                        *)
(* src/server/supervisor.ts).                                              *)
(*                                                                         *)
(* An event fires its rules inside the step that raises it: the plan is    *)
(* made from the session as it is, and its actions are run one after the   *)
(* other.  Each hop is a step of its own, so a cascade of rules is bounded *)
(* by the generation a run carries (autoGen), not by a call stack.         *)
(*                                                                         *)
(* Left out, because Fleet has them: slots and the queue, the window in    *)
(* which a run is still disposing its driver, the review of deep steps.    *)
(***************************************************************************)
EXTENDS Naturals, FiniteSets, SequencesExt

CONSTANTS
  Session,
  StartMode,     \* startMode of each session in config.json
  Autonomous,    \* sessions whose questions time out
  Scheduled,     \* sessions with a schedule
  HandDriven,    \* sessions whose mode the operator may move
  Metered,       \* sessions whose driver reads /usage and the limit notice
  AutoHeal,      \* reliability.autoHeal
  Deps,          \* dependsOn of each session
  Rules,         \* the automation rules, in order
  Cap,           \* automationChainCap
  MaxTurns       \* limits.maxTurns of each session

Mode == {"manual", "autopilot"}

Event == {"done", "error", "stopped", "needs-input", "rate-limited"}

\* "gone" is a session deleted since the rule was written.
Target == Session \cup {"$self", "gone"}

\* As saveAutomation() checks them: setMode has a mode, the others have none.
Action ==
  [kind : {"start", "stop", "sendMessage", "notify", "webhook"}, target : Target, mode : {""}]
    \cup [kind : {"setMode"}, target : Target, mode : Mode]

Rule ==
  [enabled : BOOLEAN, on : SUBSET Event, match : SUBSET Session, modes : SUBSET Mode,
   actions : Seq(Action)]

ASSUME AutomationsAssumption ==
  /\ IsFiniteSet(Session)
  /\ StartMode \in [Session -> Mode]
  /\ Autonomous \subseteq Session
  /\ Scheduled \subseteq Session
  /\ HandDriven \subseteq Session
  /\ Metered \subseteq Session
  /\ AutoHeal \in BOOLEAN
  /\ Deps \in [Session -> SUBSET Session]
  /\ Rules \in Seq(Rule)
  /\ Cap \in Nat \ {0}
  /\ MaxTurns \in [Session -> Nat]

VARIABLES
  fleet,     \* the Managed record of each session
  spent      \* a limit or the budget makes start() refuse

vars == <<fleet, spent>>

Active == {"running", "manual", "needs-input"}

Status == Active \cup {"idle", "blocked", "done", "stopped", "error", "rate-limited"}

\* Which resolver of the run is set: resolveUserInput, resolveAttention.
Resolver == {"none", "input", "decision"}

\* What the session's slot of resumeTimers is armed for.
Timer == {"none", "heal", "resume"}

Managed ==
  [status : Status, startMode : Mode, mode : Mode, gen : 0..Cap, stop : BOOLEAN,
   resolver : Resolver, turns : Nat, timer : Timer]

TypeOK ==
  /\ fleet \in [Session -> Managed]
  /\ \A s \in Session : fleet[s].turns <= MaxTurns[s] + 1
  /\ spent \in BOOLEAN

(***************************************************************************)
(* start(), stop(), setMode(), sendMessage() on the records f.             *)
(***************************************************************************)
Unmet(f, t) == {d \in Deps[t] : f[d].status # "done"}

Launched(m) ==
  [m EXCEPT !.status = "running", !.stop = FALSE, !.turns = 0, !.mode = m.startMode]

StartedUnless(refused, f, t, gen) ==
  LET m == [f[t] EXCEPT !.gen = gen]
  IN  IF f[t].status \in Active THEN f[t]
      ELSE IF Unmet(f, t) # {} THEN [m EXCEPT !.status = "blocked"]
      ELSE IF refused THEN m
      ELSE Launched(m)

\* A mutant: every start is a root.
StartedAsRoot(f, t, gen) == StartedUnless(spent, f, t, 0)

Started(f, t, gen) == StartedUnless(spent, f, t, gen)

\* A mutant: the resolver of a run that waits for input is dropped, not called.
StoppedDeaf(m) ==
  LET c == [m EXCEPT !.timer = "none"]
  IN  CASE m.status = "rate-limited" -> [c EXCEPT !.status = "stopped"]
        [] m.resolver = "input" -> [c EXCEPT !.resolver = "none"]
        [] m.resolver = "decision" ->
             [c EXCEPT !.stop = TRUE, !.resolver = "none", !.status = "running"]
        [] m.status = "running" -> [c EXCEPT !.stop = TRUE]
        [] OTHER -> c

Stopped(m) ==
  LET c == [m EXCEPT !.timer = "none"]
  IN  CASE m.status = "rate-limited" -> [c EXCEPT !.status = "stopped"]
        [] m.resolver = "input" -> [c EXCEPT !.stop = TRUE, !.resolver = "none"]
        [] m.resolver = "decision" ->
             [c EXCEPT !.stop = TRUE, !.resolver = "none", !.status = "running"]
        [] m.status = "running" -> [c EXCEPT !.stop = TRUE]
        [] OTHER -> c

Woken(m) == [m EXCEPT !.resolver = "none", !.status = "running"]

ModeSet(m, mode) ==
  IF m.mode # mode /\ mode = "autopilot" /\ m.resolver = "input"
    THEN Woken([m EXCEPT !.mode = mode])
    ELSE [m EXCEPT !.mode = mode]

\* The turn a message or an answer leads to: the guard counts it first.
Counted(m) == [m EXCEPT !.turns = @ + 1]

MessageSent(m) == IF m.resolver = "input" THEN Counted(Woken(m)) ELSE m

(***************************************************************************)
(* planAutomations(): the actions an event of s calls for.                 *)
(***************************************************************************)
RuleApplies(rule, event, s, m) ==
  /\ rule.enabled
  /\ rule.on = {} \/ event \in rule.on
  /\ s \in rule.match
  /\ m.mode \in rule.modes

\* "$self" resolved.
Resolved(a, s) == IF a.target = "$self" THEN [a EXCEPT !.target = s] ELSE a

\* A mutant: a session may start itself.
AddsWithSelf(plan, a, s) == IF Contains(plan, a) THEN plan ELSE Append(plan, a)

\* Each action once, and no session is started by its own event.
Adds(plan, a, s) ==
  IF Contains(plan, a) \/ (a.kind = "start" /\ a.target = s) THEN plan
  ELSE Append(plan, a)

\* In the order of the rules and of their actions.
Planned(event, s, m) ==
  FoldLeft(LAMBDA plan, rule :
             IF RuleApplies(rule, event, s, m)
               THEN FoldLeft(LAMBDA p, a : Adds(p, Resolved(a, s), s), plan, rule.actions)
               ELSE plan,
           <<>>, Rules)

(***************************************************************************)
(* runAutomations().                                                       *)
(***************************************************************************)
\* One action of generation gen; notify and webhook leave the fleet alone.
Performed(f, a, gen) ==
  LET t == a.target
      m == [f[t] EXCEPT !.gen = gen]
      acted == CASE a.kind = "start" -> Started(f, t, gen)
                 [] a.kind = "stop" -> Stopped(m)
                 [] a.kind = "setMode" -> ModeSet(m, a.mode)
                 [] a.kind = "sendMessage" ->
                      IF m.resolver = "input" THEN MessageSent(m) ELSE f[t]
  IN  IF a.kind \in {"notify", "webhook"} \/ t \notin Session
        THEN f
        ELSE [f EXCEPT ![t] = acted]

OverCap(gen) == gen > Cap

Fired(f, s, event) ==
  LET gen == f[s].gen + 1
  IN  IF OverCap(gen) THEN f
      ELSE FoldLeft(LAMBDA g, a : Performed(g, a, gen), f, Planned(event, s, f[s]))

\* What the code keeps of an ended run until the next launch resets it, and
\* nothing reads meanwhile, is reset at once.
Settled(f) ==
  [t \in Session |->
     IF f[t].status \in Active THEN f[t]
     ELSE [f[t] EXCEPT !.gen = 0, !.stop = FALSE, !.turns = 0, !.mode = f[t].startMode]]

(***************************************************************************)
(* The run of a session.                                                   *)
(***************************************************************************)
\* The loop top in manual mode.
WaitsForInput(s) ==
  /\ fleet[s].status = "running"
  /\ ~fleet[s].stop
  /\ fleet[s].mode = "manual"
  /\ fleet[s].turns <= MaxTurns[s]
  /\ fleet' = [fleet EXCEPT ![s].status = "manual", ![s].resolver = "input"]
  /\ UNCHANGED spent

\* The brain continues.  (Its call is one step with the loop top.)
TakesTurn(s) ==
  /\ fleet[s].status = "running"
  /\ ~fleet[s].stop
  /\ fleet[s].mode = "autopilot"
  /\ fleet[s].turns < MaxTurns[s]
  /\ fleet' = [fleet EXCEPT ![s] = Counted(@)]
  /\ UNCHANGED spent

\* The brain escalates: the turn its answer leads to is counted already.  The
\* rules run after the status has changed and before the resolver is set.
Asks(s) ==
  /\ fleet[s].status = "running"
  /\ ~fleet[s].stop
  /\ fleet[s].mode = "autopilot"
  /\ fleet[s].turns <= MaxTurns[s]
  /\ LET asked == [fleet EXCEPT ![s] = [Counted(@) EXCEPT !.status = "needs-input"]]
     IN  fleet' = Settled([Fired(asked, s, "needs-input") EXCEPT ![s].resolver = "decision"])
  /\ UNCHANGED spent

\* promoteReady(): every step whose dependencies are done.
Promoted(f) ==
  [t \in Session |->
     IF f[t].status = "blocked" /\ Unmet(f, t) = {}
       THEN Started([f EXCEPT ![t].status = "idle"], t, 0)
       ELSE f[t]]

\* launch().then(): the run ends as `how`; "healing" is an error that arms a
\* restart instead of firing the rules (Fleet counts the attempts).
Ended(f, s, how) ==
  LET status == IF how = "healing" THEN "error" ELSE how
      g == [f EXCEPT ![s].status = status, ![s].resolver = "none"]
  IN  CASE how = "done" -> Fired(Promoted(g), s, "done")
        [] how = "healing" -> [g EXCEPT ![s].timer = "heal"]
        [] how \in {"error", "stopped"} -> Fired(g, s, how)

\* A run that was told to stop ends as stopped wherever it is; any other ends
\* in a turn, between turns or on a guard.
RunEnds(s) ==
  /\ \/ fleet[s].status = "running"
     \/ fleet[s].status = "manual" /\ fleet[s].resolver = "none"
  /\ \E how \in IF fleet[s].stop THEN {"stopped"}
               ELSE {"done", "error"} \cup (IF AutoHeal THEN {"healing"} ELSE {}) :
       fleet' = Settled(Ended(fleet, s, how))
  /\ UNCHANGED spent

\* A /usage reading arms the wake-up; a notice on the screen leaves the timer
\* as it is.
LimitHit(m, wakes) ==
  [m EXCEPT !.status = "rate-limited", !.timer = IF wakes THEN "resume" ELSE m.timer]

\* The rules run in the middle of the run.  Its stop event leaves the pause
\* alone, and nothing more is announced; but a rule may have stopped it.
Limited(s, wakes) ==
  LET f == Fired([fleet EXCEPT ![s] = LimitHit(fleet[s], wakes)], s, "rate-limited")
  IN  IF f[s].status = "rate-limited" THEN f
      ELSE Ended(f, s, IF f[s].stop THEN "stopped" ELSE "done")

\* A limit ends the run.  The reading (LimitMoves is what made it spent) may be
\* under way when the run is told to stop; a turn that meets the notice is not.
LimitMet(s) ==
  /\ s \in Metered
  /\ fleet[s].status = "running"
  /\ \/ spent /\ fleet' = Settled(Limited(s, TRUE))
     \/ ~fleet[s].stop /\ fleet' = Settled(Limited(s, FALSE))
  /\ UNCHANGED spent

\* The wake-up of a limit pause drops the reading, which start() would refuse.
ResumeFires(s) ==
  /\ fleet[s].timer = "resume"
  /\ LET cleared == [fleet EXCEPT ![s].timer = "none"]
     IN  IF fleet[s].status = "rate-limited"
           THEN /\ fleet' = [cleared EXCEPT ![s] = StartedUnless(FALSE, cleared, s, 0)]
                /\ spent' = FALSE
           ELSE fleet' = cleared /\ UNCHANGED spent

\* A restart that is refused pages the operator, and fires the error's rules.
HealFires(s) ==
  /\ fleet[s].timer = "heal"
  /\ LET cleared == [fleet EXCEPT ![s].timer = "none"]
         f == [cleared EXCEPT ![s] = Started(cleared, s, 0)]
     IN  fleet' = IF fleet[s].status # "error" THEN cleared
                  ELSE IF f[s].status = "running" THEN f
                  ELSE Settled(Fired(f, s, "error"))
  /\ UNCHANGED spent

ScheduleFires(s) ==
  /\ s \in Scheduled
  /\ fleet[s].status \notin Active \cup {"blocked"}
  /\ fleet' = [fleet EXCEPT ![s] = Started(fleet, s, 0)]
  /\ UNCHANGED spent

\* An unanswered question of an autonomous session answers itself.
AttentionTimesOut(s) ==
  /\ s \in Autonomous
  /\ fleet[s].resolver = "decision"
  /\ fleet' = [fleet EXCEPT ![s] = Woken(@)]
  /\ UNCHANGED spent

(***************************************************************************)
(* The operator, and the limits.                                           *)
(***************************************************************************)
OperatorStarts(s) ==
  /\ fleet[s].status \notin Active
  /\ fleet' = [fleet EXCEPT ![s] = Started(fleet, s, 0)]
  /\ UNCHANGED spent

OperatorStops(s) ==
  /\ fleet' = [fleet EXCEPT ![s] = Stopped(@)]
  /\ UNCHANGED spent

OperatorAnswers(s) ==
  /\ fleet[s].resolver = "decision"
  /\ fleet' = [fleet EXCEPT ![s] = Woken(@)]
  /\ UNCHANGED spent

OperatorSends(s) ==
  /\ fleet[s].resolver = "input"
  /\ fleet' = [fleet EXCEPT ![s] = MessageSent(@)]
  /\ UNCHANGED spent

OperatorSwitches(s, mode) ==
  /\ fleet' = Settled([fleet EXCEPT ![s] = ModeSet(@, mode)])
  /\ UNCHANGED spent

\* updateSession() with a startMode: the mode moves, nobody is woken.
OperatorEdits(s, mode) ==
  /\ fleet' = [fleet EXCEPT ![s].startMode = mode, ![s].mode = mode]
  /\ UNCHANGED spent

LimitMoves == spent' = ~spent /\ UNCHANGED fleet

Init ==
  /\ fleet = [s \in Session |->
                [status |-> "idle", startMode |-> StartMode[s], mode |-> StartMode[s],
                 gen |-> 0, stop |-> FALSE, resolver |-> "none", turns |-> 0,
                 timer |-> "none"]]
  /\ spent = FALSE

RunSteps(s) ==
  \/ WaitsForInput(s)
  \/ TakesTurn(s)
  \/ Asks(s)
  \/ RunEnds(s)
  \/ LimitMet(s)
  \/ ResumeFires(s)
  \/ HealFires(s)
  \/ ScheduleFires(s)
  \/ AttentionTimesOut(s)

OperatorSteps(s) ==
  \/ OperatorStarts(s)
  \/ OperatorStops(s)
  \/ OperatorAnswers(s)
  \/ OperatorSends(s)
  \/ /\ s \in HandDriven
     /\ \E mode \in Mode : OperatorSwitches(s, mode) \/ OperatorEdits(s, mode)

Next == LimitMoves \/ \E s \in Session : RunSteps(s) \/ OperatorSteps(s)

Spec == Init /\ [][Next]_vars

\* No run keeps running for ever: its turn limit ends it at the latest.
FairSpec == Spec /\ \A s \in Session : []<>(fleet[s].status # "running")

(***************************************************************************)
(* Properties.                                                             *)
(***************************************************************************)
\* A run that begins outside the chain of rules: by the operator, a schedule
\* or a restart, alone; or by promotion, as the last dependency is done.
RootStart == \E s \in Session :
  /\ fleet[s].status \notin Active
  /\ fleet'[s].status = "running"
  /\ \/ fleet[s].status = "blocked"
     \/ \A t \in Session \ {s} : fleet'[t].status = fleet[t].status

\* A run taken in hand: it will wait for input, and a switch back costs no turn.
TakenInHand ==
  \E s \in Session :
    /\ fleet[s].status \in Active
    /\ fleet[s].mode = "autopilot" /\ fleet'[s].mode = "manual"

\* A cascade of rules comes to rest: runs that start, stop and message each
\* other for ever do so only because runs are begun anew outside the chain, or
\* are taken in hand again and again.
CascadesEnd ==
  \/ <>[](\A s \in Session : fleet[s].status # "running")
  \/ []<><<RootStart \/ TakenInHand>>_vars

\* Whatever rules do to a run in the middle of its events, one that waits can
\* be answered, or has been told to stop and will end.
NobodyWaitsUnheard ==
  \A s \in Session :
    fleet[s].status \in {"manual", "needs-input"} => fleet[s].resolver # "none" \/ fleet[s].stop

\* A run that was told to stop ends before its session runs again, whatever
\* the rules of its own end or of another session's do.
StopIsKept ==
  [][\A s \in Session :
       fleet[s].stop => fleet'[s].stop \/ fleet'[s].status \notin Active]_vars

\* src/policy/automation.ts keeps `stop $self`: stopping yourself is terminal.
\* A session whose question fires a rule that stops it is told to stop.
StopRuleStops ==
  [][\A s \in Session :
       /\ Asks(s)
       /\ ~OverCap(fleet[s].gen + 1)
       /\ \E i \in DOMAIN Planned("needs-input", s, fleet[s]) :
            LET a == Planned("needs-input", s, fleet[s])[i]
            IN  a.kind = "stop" /\ a.target = s
       => fleet'[s].stop]_vars

\* src/server/supervisor.ts:1873, of a session paused on a limit: "cancel the
\* resume and mark it stopped".  A rule that stops it at its own limit lets the
\* stop event that follows call the run done, and releases what waits for it.
LimitedIsNotDone ==
  [][\A s \in Session : LimitMet(s) => fleet'[s].status # "done"]_vars
=============================================================================
