# AGI Orchestrator: specifications and proofs

AGI Orchestrator is a daemon that drives a fleet of coding-agent sessions: it
starts a driver per session, feeds it prompts a local model (the *brain*) decides
on, pauses for the operator where a human decision is wanted, respects usage
limits and budgets, restarts what fails and chains sessions into workflows. This
directory holds TLA+ specifications of the parts of it where order, failure and
concurrency decide whether it works, the TLC configurations that check them and
the proofs that TLAPS checks. Paths below are relative to the repository.

## 1. The system

One Node.js process, one JavaScript thread. Everything that happens is a callback:
a resumed `await`, a timer, a WebSocket message, a child process's event. Between
two awaits nothing can intervene; *at* an await anything can. That is what the
models' actions are: one synchronous stretch of code each.

| component | state it keeps | operations | talks to |
|---|---|---|---|
| supervisor (`src/server/supervisor.ts`) | the `sessions` map (status, flags, resolvers), `running`, `queue`, one timer per session, `lastUsage` | start, stop, Start/Stop all, answer, send, set mode, add, edit, remove, wakeups, self-heal, promotion | run loops (calls, hooks, events), server, notifier, recorder |
| run loop (`src/orchestrator.ts`) | where the run is, `Guards`, the driver | boot, /usage check, brain, turn with recovery, compaction, teardown | driver, brain, transcript, supervisor's hooks |
| guards and policies (`src/policy/`) | turn counter, recent prompts; otherwise pure | limits, stuck detection, budget, schedule windows, quiet hours, automation plans, workflow depth | supervisor, run loop |
| engines (`src/session/`, `src/opencodeOrchestrator.ts`) | a terminal, a child process per turn, or a shared server | start, run a turn, dispose | the agent |
| brain (`src/brain/`) | none | decide, summarise, triage | a local model over HTTP |
| attached sessions (`src/attach/`) | sessions the operator runs himself, with guards | register, handle a stop hook, detach | hook script, brain, transcript |
| history (`src/db/`) | SQLite tables, the open run row of each session | record events | supervisor's event stream |
| learning (`src/learning/`) | profile versions | mine, draft, evaluate, promote | history, brain |
| server (`src/server/index.ts` and siblings) | connected clients, failed-login counters | HTTP and WebSocket requests | supervisor |
| configuration (`src/config.ts`) | the file, a chain of pending writes | load, save | supervisor, server |
| notifier, git and PRs, registry, transcript, dashboard | none that outlives a call | requests, shell commands | outside |

What makes it hard, and the properties that would make each part correct:

* **supervisor and run loop.** The supervisor guards its operations by a session's
  *status*; the run behind the status is an asynchronous function that gets to know
  of a stop, an answer or a deletion only where it looks. Slots, queue, statuses,
  timers and the run must stay consistent over every interleaving of the operator,
  the timers, the run's own events and restarts. Properties: slot accounting, no
  idle slot, order of admission, a status that tells what the run does, no silent
  error, wakeups that are kept, dependencies respected, prompt and effective stops.
* **workflow and automations.** Cycles, depth caps, promotion of what waited.
* **engines.** A turn's deadline against a late answer; a shared server's
  start-up against its exit; injecting a prompt once.
* **attached sessions.** A hook handler that awaits twice between reading the
  session and counting the turn, and a hook that stops waiting for it meanwhile.
* **history and configuration.** What the recorder maps a session to when a statement
  fails; chained atomic writes against crashes.
* **dashboard and access gate.** A reconnect loop whose own attempts block the address
  that it then asks about.
* **pure policies.** Windows that wrap midnight and clocks that change, counters at
  their limits.

## 2. The modules

    SlotPool          what the supervisor promises about slots: bounded, first
                      come first served admission            (abstract)
      ^ refined by
    Fleet             supervisor + run loop
      |- FleetMC            instances for TLC
      |- FleetBudget        Fleet, counting the turns begun on a spent budget
      |    `- FleetBudgetMC      instance for TLC
      `- FleetProofs        types; slots and statuses match the runs
           `- FleetSafetyProofs  the other safety properties, the refinement
                                 (with FleetBudget)

    TurnRecovery      one session's turns: run loop + terminal driver + transcript,
      |               against the claude process
      `- TurnProofs          types, no prompt twice, stops are final, resumes accepted,
                             no prompt lost, no answer of another turn

    Attach            the Stop hook, the daemon's handlers, the guards
      `- AttachProofs        types, turn limit, one injection, ping-pong

    OpenCode          the shared opencode server, its sessions, their loop
      |
      |  Headless            claude -p, a child per turn, and its recovery
      |   |
      `--- EnginesMC         a session is handed to one of the two engines
             `- EnginesProofs  one server, nothing granted unapproved; refusals
                               mended, prompts taken once, stops final

    Automations       rules that start, stop, switch and message sessions
      |- AutomationsMC       instance for TLC
      `- AutomationsProofs   plans, types, waiters that are heard, stops that are kept

    Persistence       config.json and the history database
      `- PersistenceProofs   the file is whole, turns belong to their run

    Dispatch          the access gate against the dashboard's login and socket

    WallClock         schedules, quiet hours, daily budget, request window
      |- WallClockMC         instances for TLC
      `- WallClockProofs     schedules, quiet hours, the limiter's window

`Fleet` sees a turn as one step that succeeds, fails or meets a gate. `TurnRecovery` is
that step opened up: what it takes to end a turn, and what may be said of its answer.
The other modules each open up something `Fleet` takes as one step or as a choice: the
reactions to an event (`Automations`), the save after an edit and the rows of a run
(`Persistence`), another engine's run with its server (`OpenCode`), the limit reading
and the schedule's start (`WallClock`). They are modules of their own because they share
little with it: a session's record in `Automations` leaves out slots and queue, which no
rule looks at, and so on. `Attach` and `Dispatch` are beside the fleet in the code too.

### Fleet

A variable of `Fleet` is a field of the code:

| variable | code |
|---|---|
| `presence`, `deps` | membership of `Supervisor.sessions`, `config.dependsOn` |
| `status`, `stopRequested`, `reviewRequired`, `healAttempts` | the `Managed` record |
| `timer` | the session's entry of `resumeTimers`, which a limit wakeup and a heal restart share |
| `running`, `queue`, `maxConcurrent` | the same |
| `spent` | `lastUsage` is a spent limit (`UsageGate`), or today's budget is exceeded |
| `phase` | the await each run of the session is suspended in |
| `turns` | `Guards.turnCount` of the run |
| `paged` | whether the operator knows of the failure (the notification of `scheduleHeal`) |

and an action is a handler: `Start`, `ResumeFires`, `HealFires` (all through
`StartRequest`, the body of `start()`), one action for what each await of the run
resumes with (`Booting`, `UsageRead`, `BrainAnswers`, `BrainUnreachable`,
`BrainStops`, `BrainBack`, `TurnDone`, `TurnFails`, `Killed`, `GateRaised`,
`RunEnded`), one per answer of the operator, one per branch of `stop()`, the edits
of the fleet, `SetMaxConcurrent`, and `Restart`: the process dies at any point and
the constructor rebuilds from the configuration.

`RunEnded` is the `.then()` of `launch()`: the slot goes back, `pump()` takes
sessions off the queue, `promoteReady()` starts the dependents this end makes
ready, and an error arms a restart or pages the operator, all in one step as in
the code. Its disjuncts are nondeterministic where the code's order of iteration
would decide (which of several ready dependents gets the last slot).

What is abstracted: prompts, replies and the wording of decisions; which errors
`reliability.ts` calls restartable (a choice); wall clock and ping-pong guards (a choice in
`BeginTurn`); recovery and compaction inside a turn (a turn succeeds, fails, or meets a
dangerous gate: `TurnRecovery` has the recovery); the mode, which the loop reads at its top
(a choice from `Modes`); ids, which are fresh; pull requests; rules and persistence, which
have modules of their own. `stopAll()` and `startAll()` are sequences of `Stop` and `Start`.

`Run` is the set of labels for runs of one session that may be alive together. The
status guard of `start()` lets a start through once the terminal event is out,
while the driver is still being disposed; with two labels the model does that, and
run `teardown` shows what follows. With one label the starts wait for the disposal:
that is the assumption under which the other properties are checked and proved, and
a run that starts in that window is exactly what breaks them.

`FleetBudget` is `Fleet` with one history variable: `overrun` counts the turns each run has
begun since the daily budget was last reached. The code reads the budget at the top of the
loop only, and any run of the fleet may spend the rest between that reading and the turn it
leads to, in which the brain may be down, the operator be asked or the run be parked by hand.
`BudgetStopsRun` says that this gap is worth one turn and no more, on any path; it needs two
turns per run to be wrong, which is why its run has them.

### SlotPool

Four variables: who holds a slot, who waits, who came before whom, the cap. `Admits` is
what happens whenever there is room: the first of those who wait are let on, then some of
those who come now, up to the cap and not short of it. `ImplementsSlotPool` maps the
sessions that are queued and exist to the waiting ones (`Waiting`), their places in the
queue to the order (`Before`): entries of deleted sessions, which the code leaves in the
queue until the pump drops them, do not show. Every step of the supervisor is then somebody
asking, leaving or returning a slot, a resize, a reset or a stutter.

### TurnRecovery

Half of the module is external: claude itself, of which the code sees a screen and the
size and last entries of a transcript file. `Boots`, `TakesPrompt`, `Works`, `Replies`,
`AutoContinues` and `Exits` are what it may do, gathered from what the code's comments say
they have seen it do: exit at any moment, swallow an Enter or react to it late, write text
ahead of a tool call, and, resumed, take up an interrupted turn by itself.

| variable | code |
|---|---|
| `log` | the transcript: each entry keeps the turn it belongs to and whether it is metadata, a prompt (`ask`, or `again` in the reconcile wrapper), a tool call, text ahead of one, or a final reply; a size is a length |
| `proc`, `box`, `entered` | the claude process, its input box, an Enter it has not reacted to |
| `habits` | what this claude may be found to do |
| `pc` | the await the run is suspended in |
| `turn`, `attempt`, `wording`, `offset` | the locals of `runTurnRecovered()`: `attemptPrompt` is `wording` |
| `tries`, `since` | the locals of `inject()` and `runTurn()` |
| `stop`, `answers` | `stopRequested`, the `TurnResult` of each turn |

`Spawn` is `start()` with its two ids and the quarantine; `Types`, `SubmitSeen`,
`SubmitAgain`, `SubmitFails` are `inject()` with the verification; `TurnReady` and
`WaitFails` the ends of `waitForReady()`; `Respawns`, `Triages` and the `Grace` actions the
recovery. `Throws` is the catch: which errors are recoverable is a choice, except that
claude's exit always is. Leaving a turn or an attempt sets its locals to their initial
values, so that states differ only in what the code still holds.

Time is abstracted: a deadline may pass at any moment, and a screen is recognised as settled
only if it is. The rung of the wait that trusts a transcript after three quiet minutes is
taken at its word (claude is then idle), and `dispose()` is taken to end the process, which
it waits for at most 1.5 seconds. Gates, menus, surveys and slash commands are left out.

`AskedOnce`, `ResumeAccepted`, `StopIsNotRecovered` and `TurnEnds` hold of every claude the
model allows. `NeverLost` and `OwnAnswer` need one thing of it, `CleanBefore`: a resumed
claude takes its interrupted turn up before its screen has settled, and the turns before
the one in question returned their final replies. Without it they fail: the
growth that the late work causes is read as the submission of the next prompt, which may still
be in the input box; the older turn's reply is then returned as its answer, although
a comment in `runTurn()` rules that out. The model shows it; whether claude is ever that
late is not for the code to say, so no run is kept for it.

### Attach

| variable | code |
|---|---|
| `attached`, `regs` | the entry of `AttachManager`'s map; each `register()` makes a new object |
| `guards`, `driven` | the `Guards` of each object, its `turns` |
| `handler` | where each `handle()` is suspended, with the object it captured |
| `waiting`, `claude`, `continuing` | the hook claude runs, what claude does, `stop_hook_active` |
| `injected`, `sent` | history: prompts injected since the operator's last one, and per registration |

`HookPosts` is the hook's request and `handle()` up to its first await; `TranscriptRead` is
the second one; `HandlerFails`, `BrainStops` and `BrainContinues` end a handler.
`Checked` is `Guards.check()`, with the order it counts, tests and records in.
`HookTimesOut` is the deadline of `stop-hook.mjs`: claude stops, and the handler goes on with
nobody waiting. The operator may detach, register again or restart the daemon at any moment.

### OpenCode

| variable | code |
|---|---|
| `url`, `ensuring`, `child` | `OpenCodeServerManager`: the cached url, the shared promise, the child |
| `proc`, `foreign` | external: the processes spawned, a server somebody else runs on the port |
| `run` | where a run's loop is suspended, the supervisor's record of it, its event reader, its open gate and the card that shows |
| `perm` | external half: who was asked, whether it still waits; the session's half: in `answered`, how many responses were posted |

`Ensure`, `EnsureCached`, `Attach`, `Spawn`, `GiveUp` and `ExitEvent` are the manager. The loop
(`Create` ... `Ends`) and the event reader (`ReadPermission`, `StreamEnds`) of a run are
two threads of one session, which `dispose()` joins; `ResolveGate`, `GateTimesOut`, `Stop`,
`AnswerQuestion` are the supervisor's side. The server may come up, die, repeat an event,
drop the stream, or let another client answer. What the operator said of a request is kept
apart from the reply it got: `approved` is his click on the gate's own card (`Said`),
`granted` the reply that let the server go ahead (`Responded`), so that a timeout, a stop or
a click on a question that covers the card would show as a grant without approval. The
message of a click names no request: one made on an older snapshot of the dashboard reaches
whatever gate is open when it arrives, which the model, whose operator sees the card of the
moment, leaves out. `OwnServerHeld` and `EnsureIsHealthy` state
what the source says of the manager and what does not hold of it (section 3).

### Headless

| variable | code |
|---|---|
| `child` | external half: what the `claude -p` has done; the driver's half: its `child`, the conversation it was given |
| `file`, `grown` | the transcripts: none, without a message, with some; what they hold beyond `offset` |
| `sess` | the `HeadlessClaudeSession` of the run: `id`, `hasConversation`, `disposed` |
| `kept` | `claudeSessionId` of the supervisor's record, which a continue or a heal resumes |
| `pc`, `turn`, `attempt`, `wording`, `stop` | as in `TurnRecovery` |

`Opens` is the constructor with `onSession()` and `start()`, `RunTurn` the spawn, `Closes` and
`TimesOut` the two ends of a turn that race, `Reopens`, `Checks` and `GraceEnds` the same
`runTurnRecovered()` that `TurnRecovery` has against a terminal: here nobody goes on working
through a respawn, but each turn is a start of its own that claude may refuse. A killed
child is taken to be dead when the backoff of at least five seconds is over. `EnginesMC`
is the dispatch of `runner.ts`: the engine is chosen at the start, and the two
share nothing.

### Automations

One record per session: status, both modes, `autoGen`, the stop flag, which resolver its run
waits on, the turn counter, a timer. `Fired` is `runAutomations()`: `Planned` (the plan
`planAutomations()` makes of the event: two nested folds, over the rules and over the
actions of one that applies, whose step `Adds` drops repetitions and starts of oneself), the
chain cap, and `Performed` for each action in turn, through the same operators the
operator's actions use. The events are raised inside the steps that raise them in the code:
`RunEnds` promotes what waited and then fires the rules of the end, or arms a restart and
fires none; `Asks` fires those of a question when the status shows it and the resolver is
not set yet. `LimitMet` is a limit met by a run of a `Metered` session, from a /usage
reading (which arms the wake-up) or from claude's notice (which does not): the rules fire in
the middle of the run, and its own stop event comes after them, so a rule that stops the
session there makes it leave the pause. `ResumeFires` is the wake-up; it drops the reading
`start()` would refuse for, and shares the session's one timer with the heal. Rules are
values, of the shape `Rule` that `saveAutomation()` lets through: the instance gives them. A
message's text, a webhook's address and a rule's id are left out, so two actions the code
tells apart by them are one here.

### Persistence

The configuration is a version and a set of session ids. `Persist` captures both at the
time of the call, as `persist()` does, and appends to the chain; `BeginWrite`, `Rename` and
`WriteFails` are the one save in hand. `RecordStart`, `RecordTurn`, `RecordDecision` and
`RecordEnd` are `Recorder.record()` with its two maps; a statement that throws ends the
handling of its event only, so `LoseStart` leaves the maps as they are and `RecordEnd` may
skip `cleanup()`. `by` and `as` are history: the run that really made the row. `Crash`
may come between any two steps, `Boot` loads what it left.

### Dispatch

The server half is `Gate`: the answer a request gets, and what it leaves of the address's
failures. The client half is the status of `auth.svelte.ts`, the probe under way, and the
chains of `ws.svelte.ts`: a socket with the reconnects that follow it. `Becomes` runs the
effect that connects when the status becomes `authed`; `OnClose` retries twice and then asks
whether the token is stale; `RecheckAnswered` acts on the answer. The server may restart
with another token or none, somebody else behind the address may fail, the network may cut.
Failures leave the window one at a time (`FailuresExpire`), each at its own age, so a full
window frees places one by one. `crowded` is history: since the window was last empty a
failure came from elsewhere than the reconnects of the loop, or the network lost a refusal.

### WallClock

An hour of the local clock is a tick and one day may be longer or shorter by one. `At` is the
`Date` constructor on such a day; `LastDailyBoundary`, `IsDue`, `InQuietHours`, `Exceeded`
are the policies, `Poll`, `Hit`, `Launch`, `Turn`, `RunEnds` and `RunFails` the steps that
read the clock or count. `served` and `made` are history: the requests let through in the
last window, the turns made today. `Fresh` is the loop of `#roll` that drops a prefix: what
is left begins at `FirstAfter`. `QuietDays` is the choices of days that quiet hours are
tried with; the empty one is every day.

## 3. What the runs check

| run | instance | checks |
|---|---|---|
| limits | 2 sessions in a chain, one added later, 1 or 2 slots, /usage gate, both modes, 2 turns, 1 heal, depth cap 1 | types, `SlotAccounting`, `QueueSound`, `StatusMatchesRun`, `ErrorNeverSilent`, `LimitPauseKeepsWakeup`, `WorkflowOrder`, `StopIsPrompt` |
| chain | 3 sessions, 1 slot, daily budget, 2 turns, one session added later | `BlockedForAReason`, `BudgetStopsRun`, `ImplementsSlotPool` |
| live | 2 autonomous sessions, 1 slot, daily budget, 1 heal, a brain that may stay down | `QueueDrains`, `StopEndsRun`, `HealBudgetBounds` |
| turn | 2 prompts, any number of starts, one tool call or preamble per prompt, 3 Enters, 2 recoveries | `AskedOnce`, `NeverLost`, `OwnAnswer`, `ResumeAccepted`, `StopIsNotRecovered`, `TurnEnds` |
| automations | 3 sessions whose rules form a loop: one behind a dependency, one first in manual mode, one on a schedule and metered; chain cap 2 | `NobodyWaitsUnheard`, `StopIsKept`, `CascadesEnd` |
| attach | 2 handlers, 2 prompts, 2 registrations, turn limit 2, ping-pong threshold 2 | `DrivesWithinLimits`, `OneInjectionPerPrompt`, `NeverPingPong` |
| engines | opencode: 3 runs (autonomous, by hand, refused provider), 2 processes, 1 permission, 1 turn; headless claude: 3 prompts, 3 conversations | `OneServer`, `GrantedByOperator`, `StopEndsRun`; `RefusalsMend`, `PromptTakenOnce`, `StopSpawnsNothing` |
| persistence | 2 sessions, 2 saves, 2 runs, 2 rows | `FileIsASave`, `SavesLand`, `TurnsBelong` |
| dispatch | 2 tokens and none, 12 failures to a block (the default), 2 chains | `RightTokenConnects`, `StaleTokenGivesUp` |
| clock | 3 days of 6 hours, clocks going back, forward or neither on the second, 4 schedules, 2 hits in 3 ticks, 2 turns a day | `DueAtBoundaries`, `SilentByTheWallClock`, `WindowHolds` |
| teardown, day_cap | one each | a sentence of a comment that the code does not keep |

The bounds. Sessions interact through the slots, the queue, the dependencies and
the shared limit reading only, pairwise: two sessions and one slot give every
contention, three in a chain give promotion past a session that is itself waiting,
and a queue of length two. `MaxTurns = 2` is the least with a first and a later
turn, which the heal budget tells apart; `MaxHeals` of 1 and 2 reaches the last
attempt. Caps 1 and 2 of two sessions cover a full pool and a cap nobody reaches,
and `SetMaxConcurrent` moves between them. Deadlock is checked: an operator can
always do something, so the system never stops.

The two guards on spending exclude each other: `limits` has the /usage gate, `chain` and
`live` the daily budget. The properties of `live` hold with `UsageGate = TRUE` as well (45,736
states): the reading is one more await that comes back, and a pause frees its slot as an
error does.

In `turn`, a second prompt is what an earlier turn's leftovers can be confused with; a third
adds nothing to confuse that the second does not. The numbers of Enters and recoveries are
the code's. One entry of work per prompt is enough to tell partial work from none and from a
finished turn. `Habits` gives preambles and late continuation to two claudes, not to one,
which keeps the run under a minute. The model stops when both prompts are used up and claude
is down: deadlock is not checked there. `NeverLost` looks at the step in which a turn returns:
that its prompt is in the transcript then is what the run could have known.

The bounds of the other runs:

* `automations`: one metered session has every way into and out of a pause, and its rules
  start another and stop itself there; a loop of two sessions with a third to be stopped and
  switched is the least with every kind of action and with a rule that meets its own
  session; a cap of 2 is one hop more than a loop needs to come back to a session.
* `attach`: two handlers are the ones of a turn and of the next; a second registration is
  what a captured object can be confused with; with two prompts and thresholds of 2 a window
  has equal and different ones.
* `engines`: two runs contend for the server, and a second process is what a late exit event
  can be confused with. One permission is repeated, answered elsewhere or left open; the
  proof has any number. A server process is spawned once, so the system stops when they are
  used up: deadlock is not checked. Run `r2` may be taken by hand. On headless claude the
  third prompt is what shows that a start afresh is refused once in each run (`RefusalsMend`
  counts within a run), and the other conversations are those a resumed claude may go on in.
* `persistence`: the second save is the one a failed first must not stop; the second run of
  a session is the one whose rows an earlier one could take. The bounds end the behaviours:
  deadlock is not checked.
* `dispatch`: 12 failures are the code's default. The number matters: with 8 or fewer the
  client's own attempts keep the window full (see below), with 9 or more the re-check of a
  lone client is not limited. Two chains are what a second login leaves.
* `clock`: a day of 6 has hours before, at and after the change, and windows that wrap
  midnight; the third day shows that the change is over. The code's windows are intervals of
  ticks whatever the unit. The policies share nothing but the clock and are explored one at
  a time (constraint `OneAtATime`).

### Fairness

`Fleet`'s `FairSpec` assumes of the code what its timeouts give: a driver call, a /usage read
and a disposal come back or time out; timers and polls fire; the brain, asked again
and again, answers. Strong fairness is on the actions another action can disable
in between (a gate raised in a boot or a turn). Of the operator nothing is assumed,
only the timeouts of the `autonomous` persona. `BrainRecovers` is the premise of
`QueueDrains` only: while the local model is down a paused run
keeps its slot, by design (`waitForBrain` has no time limit).

In `TurnRecovery` the only assumption is that an await of the run that is inside a turn comes
back, which its own deadline sees to; of claude nothing is assumed. `Attach` and `Headless` are
checked for safety only. In `OpenCode` the
loop's own steps are taken, `ensure()` comes to an end by its deadline, and the timers of
the turn and of autonomous cards fire; nothing is assumed of the server or the operator. In
`Automations` no run is running for ever, since every turn is counted towards a limit.
In `Persistence` the chain of saves goes on while the process lives. In `Dispatch` the
events of a socket, answers, timers and the window's time come; the network, other clients
and the operator are free. `WallClock` has no liveness.

### Where the code and its documentation disagree

Two runs are kept that TLC must find violated, with the quoted line in `PROJECT.json`:

* **teardown** (`RunsWithinCap`). A start in the window between the terminal event and the end of
  `dispose()` makes a second run of the session under one slot. When the first one
  settles it gives that slot away, and the cap is exceeded.
* **day_cap** (`DayIsCapped`). `endRun()` is told a run's turns only when it ends well; a run that
  ends in an error, or that a crash cuts off, leaves a row with none, so the day's budget
  has them still to spend.

The modules state others as properties that do not hold, each with its comment; a
configuration that lists one shows the behaviour:

* `Fleet!RemovedNeverParks`: `removeSession()` denies an open gate but does not dispose the
  driver; the run goes on and can park where no handler finds it, with its slot.
* `Fleet!StopCancelsWakeup`: a stop during the /usage read does not cancel it; the reading
  may then put the session back to `rate-limited` and arm an auto-resume.
* `Fleet!QueueKeepsGate`: `pump()` does not look at dependencies again, so a session queued
  when they were done is launched beside a dependency that was started again.
* `Fleet!PagedErrorsStay`: a manual start leaves an earlier heal timer armed; if the new run
  fails with an error that must not be healed, the old timer restarts it.
* `Fleet!StoppedRunNeverAsks`: a stop inside the brain call is followed, when the decision is
  to escalate, by a question that parks the run, although `stopAll()` says that an active
  session is torn down. `StopIsPrompt` names that as the one question a stopped run may raise.
* `TurnRecovery!FinalAnswer`: after a respawn the recovery believes a transcript that ends in
  text. The wait of an undisturbed turn does not, for a reason it spells out: claude writes
  text ahead of a tool call as an entry of its own. A crash in that gap makes the preamble
  the answer.
* `TurnRecovery!RestartAccepted`: a session with a UUID id that has a conversation cannot be
  started afresh: only a continue or a heal passes `--resume`, and claude refuses a known id
  otherwise. The dashboard's sessions have such ids, and the wakeup of a limit pause is a
  plain start.
* `OpenCode!OwnServerHeld`: the exit event of a server that was given up arrives late and
  forgets the next one, which nobody can kill then. `OpenCode!EnsureIsHealthy`: nothing
  clears the cached url when the server dies.
* `Headless!ContinuesLatest`: a driver follows claude into another conversation when a result
  line names one, but the supervisor asked for the id when the driver was made; a continue
  or a heal goes on from the conversation before.
* `Automations!StopRuleStops`: a rule that stops its own session when it has a question runs
  before `resolveAttention` is set: `stop()` finds neither a resolver nor a running session,
  and does nothing.
* `Automations!LimitedIsNotDone`: a rule that stops its own session at a limit makes it
  `stopped` as `stop()` says, and the run's stop event that follows, which would have left a
  pause alone, makes it `done`: its dependents are promoted and the rules for `done` fire.
* `Dispatch!StaleTokenStops`: when others behind the address have filled the window with
  failures that are spaced out, the reconnect of a client with a stale token takes each place
  that one of them leaves; the re-check an instant later is limited, which reads as
  unreachable, and the loop goes on although nobody else fails any more. A comment in
  `ws.svelte.ts` says that the probe after three failures stops it. `StaleTokenGivesUp`
  excepts a window that was `crowded` and has not been empty since.

Behaviours met on the way that no property states:

* **Fleet.** A step parked for review whose start is then refused by a limit stays `blocked`
  with nothing to wait for; `removeSession()` of a dependency does not release what is
  blocked on it; a promotion refused by a limit leaves the session `idle`; claude's own
  limit notice pauses a session without a wakeup; the dashboard's Stop on an escalation
  records the run as `done`.
* **Automations.** Promotion, heals and limit wakeups start with generation 0, so a chain
  that passes through one is not capped (`CascadesEnd` counts those as begun anew). A rule's
  start counts as a person's: it clears the review and refills the heals. A firing is
  recorded as `ok` though `start()` may have refused. Setting `startMode` of a parked manual
  session leaves it parked.
* **Attach.** `turns` of the view counts answers whose hook had given up. A detach while a
  handler is under way still lets it inject one prompt.
* **OpenCode.** A stop denies the open gate, and the next permission parks the run again. It
  has no handle on a turn in flight. A question that opens behind a gate takes its card and
  with it its timeout. The stream is never reopened. The turn's timer is cleared once the
  response's headers are there.
* **Headless.** When claude goes on in another conversation and fails before it says so, the
  recovery reads the transcript of the old one and puts the whole prompt again, which its
  comment rules out (`PromptTakenOnce` excepts it). A plain start of a session whose id has
  a conversation costs a refusal and a recovery attempt in each run.
* **Persistence.** With `DoubleFaults` (a start that fails to be recorded after an end that
  did) `TurnsBelong` fails: the turns of the run go to the run before. Removing the last
  session saves a file that `loadConfig()` refuses. A crash leaves rows `running`. A save
  that failed is not tried again.
* **Dispatch.** With `MaxFailures` of 8 or less a lone client's own attempts keep its
  address blocked, and `StaleTokenGivesUp` fails; the default is larger. A refused call and
  a new login while a timer is pending open a second socket. Signing out leaves the socket
  open.
* **WallClock.** `LastDailyBoundary` goes back 24 hours from today's boundary, which on the
  days the clocks change misses yesterday's by an hour: a start too many or one missed.
  Quiet hours over the change end an hour off. A run begun before midnight is charged to the
  day it began.

## 4. What is proved

For every value of the constants that the assumptions of `Fleet` allow (any finite
set of sessions, any caps, limits and dependency edits):

* `TypeCorrect`: `Spec => []TypeOK`. `TypeOK` is inductive. The proof has a lemma per
  operator that several actions use (`Launch`, `StartRequest`, `LoopTop`, ...) and
  one step per action. It is more than typing where counters are concerned: attempts
  and turns never pass their limits.
* `SlotsMatchRuns` and `StatusesMatchRuns`: with one run label, `SlotAccounting` and
  `StatusMatchesRun` hold.
  Neither is inductive alone: a status says nothing of the slot and a slot nothing of
  the status. The inductive invariant `OneRun` says what the status, the phase and the
  slot of *each* session may be together, and is disturbed only by steps on that
  session, by `pump()` and by promotion; `LaunchAgrees` does the last two once for all
  actions that launch.
* `StopsArePrompt`, for runs that overlap too. Each lemma says of one action which phase its
  run comes to (`MayCome`), and that other runs stay where they were or are lost.
* `BudgetsStopRuns`, of `FleetBudget`, for runs that overlap too: `OverrunOnce` says that a run
  which has its one turn behind it is not choosing another. It is kept because a turn begins
  only out of a phase that has its prompt, or with budget left (`TurnsRise`), and because a
  run comes to such a phase only by the top of the loop, which tests the budget (`MayCome`
  again, which is why the two share their lemmas).
* `ErrorsAreHeard`, `LimitPausesKeepWakeup`, `WorkflowsInOrder` and `QueueIsSound`
  (`QueueSound` with `NoIdleSlot`), with one run label. Each adds to `OneRun` what it
  needs: `Heard` is the property read off the one run, and knows that a session to come
  is idle; `GateOnly`, that a wakeup comes from the /usage gate alone; `Lined` and `Full`,
  that nobody is in the queue before it exists and that waiting means a full pool.
  `pump()` is the only place that takes from the queue, and every action that frees a
  slot, raises the cap or queues a session ends with it or finds the pool full.
* `FleetImplementsSlotPool`: every behaviour of `Fleet` with one run label is one of
  `SlotPool`. `Lined` says that the sessions waiting are in the queue once each, so their
  places order them (`QueueOrders`); `Full`, that a start that is let on at once overtakes
  nobody. The lemmas on `SubSeq`, `\o` and `RemoveAt` say that whoever stays in the queue
  stays in order. There is one lemma per kind of step: `RequestPool`, `EndPool` (which
  admits from the queue and then the dependents the end brings), `ResizePool`, `StopPool`
  and `EditPool`.
* `NobodyWaitsInACircle`: `Acyclic`, that among any live sessions one runs after none of the
  others, is kept by every step. `normalizeDeps()` walks the graph from the proposed
  dependencies and refuses if it comes back to the session; in the model, they lie in a set
  closed under `dependsOn` without it (`NormalDeps`). A circle through the session would
  leave that set or have lain inside it before (`EditsCloseNoCircle`). That the
  dependencies saved before the first start are not circular is a hypothesis: nothing reads
  them against a circle when the supervisor comes up.
* `BlockedWaitForSomething`: `BlockedForAReason` with one run label, no depth cap and
  dependencies that start without a circle. Each blocked session has something that holds
  it up (`HeldUp`); of several, the one that runs after none of the others is held up by
  somebody else. The cap is the exception the code makes: a parked step whose start is
  then refused by a limit stays blocked with nothing to wait for (section 3).

For every value of the constants of `TurnRecovery` (any number of prompts, any amount of
work per prompt, any set of habits, UUID ids or not):

* `TurnTypeCorrect`: types alone are not inductive, because claude writes for the prompt it
  took last: `Base` adds that a transcript is its metadata, a prompt, and then anything
  (`LogShape`), and that a working claude has taken one.
* `PromptsAreAskedOnce`. A prompt is in three places on its way: in the run's hands, in the
  input box, in the transcript. `OnceEach` says that no prompt is in the last two twice,
  together; `TypedOnce`, that where the run is about to type the prompt as it stands, it is
  in neither. The second is where the recovery's check of the transcript's size earns its
  keep: what is not longer than at the turn's beginning does not hold the turn's prompt, and
  a respawn empties the box.
* `StopIsFinal`, from `Stopped`: after a stop claude is down and the box is empty.
* `ResumesAreAccepted`: `Spawn` with an id refuses nothing, because it moves a transcript
  without messages out of the way.
* `AnswersAreOwn` and `PromptsAreNotLost`, from `AnswerInv`, which assumes nothing once a turn
  went wrong and otherwise says what is true between turns (`Quiet`: claude has nothing to
  do and nothing to take up), in a turn (`OfTurn`: what came since it began is of this turn
  and starts with its prompt), while the prompt is not typed (`Calm`), and once it is
  (`Sent`: growth means that the prompt was taken, and a settled claude has replied). A turn
  that returns its reply leads back to `Quiet`, whichever of the three ways it returned.
  The condition that no claude is late enters in one place: `AutoContinues` would break `Quiet`
  and `Calm`.

For every value of the constants of `Attach` (any handlers, prompts, limits):

* `TypeCorrect`, with `Captured`: a handler that is under way holds an object of the map.
* `DrivesLimited`, from `DrivesCounted`: what was injected is shown, what is shown was counted,
  and a count past the limit comes with a refusal. It holds of each object, so handlers
  that overlap, or whose registration is gone, do not disturb it.
* `InjectsOnce`, from `AskedOnce`: a hook waits only in a turn the operator began, so the one
  that may block the stop is never in a turn a hook has caused.
* `PingPongStops` is an action property: `CheckedVaries` says of `Checked` that it lets a prompt
  through only if the recorded ones, at their full length, are not all equal.

For every value of the constants of `OpenCode`, `Headless` and `EnginesMC`:

* `OneServerAtATime`, from `ServerInv`: the manager holds a child only while it polls for it or
  has handed out its url, and an `ensure()` that is under way has no url yet.
* `OperatorGrants`, from `GateInv`: the gate a run has open is for a request of its own
  whose event was taken once and which has no response yet. Two gates for a request, or a
  second response, would need its event twice. `CardInv`, that a request which is still open
  belongs to a run that is in its turn or ending, and whose gate shows its card, is why a
  click on another card reaches no open request.
* `EnginesAlone`: a behaviour of the composition is one of `OpenCode` and one of `Headless`,
  of which one stands still, so what is proved of either holds of a session on any engine.
* `RefusalsAreMended`, `HeadlessPromptsTakenOnce` and `HeadlessStopIsFinal`, from `HeadlessInv`.
  `RefusalsMend` counts refusals and needs to know when one is possible: `Mending` says that
  what a recovery is about to spawn is accepted (`Accepts` of the conversation in the session
  object, against the files), and that a refused child has written nothing, so the check of
  the transcript sends the recovery round rather than to an answer. `Taken` ties the count
  of prompts taken to the transcript: once the prompt was taken, the file of the
  conversation has grown, which is what `Checks` looks at before it asks again. It holds
  until claude goes on in another conversation (`forked`), and no longer then.
  `StopDisposes` and `NobodyAtRest` are the stop: an object that is disposed spawns nothing,
  and the run brings no other.

For every value of the constants of `Persistence`:

* `FileIsWhole`, from `SaveInv`: the saves in the chain ascend, all newer than the file, none
  newer than the configuration.
* `TurnsFiled`, under `~DoubleFaults`, from `HistoryInv`: what the maps hold of a session *in
  its loop* is the run that is really in hand. Outside the loop a map may be stale, which
  is why the assumption is needed: only a start that is recorded, or finds no stale entry,
  makes it true again.

For every fleet, workflow and list of rules that the assumption of `Automations` allows:

* `PlannedExactly`: what an event plans is exactly what the rules that apply ask for, each
  action once, but for a start of the session itself. `Planned` is a fold over the rules
  around a fold over a rule's actions, and the claim is about what the folds compute. It is
  proved by induction over the elements folded so far: the library's induction theorems
  cannot be used here, since they take an operator, but its well-foundedness of `<` speaks of
  sets. `SetInduction` is made of that, `FoldGoes` of `SetInduction` and of what the fold's
  recursive function is on subsets of `1..n` (`FoldExists`, `FoldOf`): the value after k
  elements is in a set `X[k]` if each step goes from `X[k]` to `X[k + 1]`.
* `AutomationsInvariant`, and from it `AutomationsTypes` and `WaitersAreHeard`. The invariant is
  `Sound` of each session: each resolver belongs to one status, only a run is told to
  stop, and who waits is heard. It does not hold in the middle of an event, where a session
  already shows `needs-input` and has no resolver yet; `EventFleet` says what holds there, and
  that the rules of an event leave its own session as they found it, or stopped at its limit
  (`Follows`, `AroundEvent`). Every operation a rule
  may do keeps `EventFleet`, so its run, a fold again, does; `Settled` and the resolver that
  is set at the end bring `Sound` back.
* `StopsAreKept`, an action property, from the same lemmas: `EventFleet` carries the stops
  from the fleet before the event.

For days of any length, any schedules, any clock change and any windows (`WallClock`):

* `SchedulesAreDue`: `IsDue` looks at one boundary, the last one; the property at all days'.
  The lemmas on the calendar (`MidnightGrows`, `AtGrows`, `DayOfAt`) say that days follow each
  other and that a time of day lies in its own, on the day of the change too. What is left
  is that yesterday's boundary is 24 hours before today's, which is the exception `Skewed`.
* `QuietByTheWallClock` by the same lemmas: of the windows that may hold `now` only those of
  today and yesterday are open, and each is as long as its hours on a clock say.
* `WindowsHold`, from `LimiterInv`: the hits kept are in order and not in the future.
  `FreshTwice` (dropping a prefix now and another later is dropping the later one),
  `FreshKeepsAll` and `FreshDropsAll` say of `#roll` that the lazy pruning changes nothing;
  `SweptKeepsFresh` says it of the sweep, because its horizon is the longer of the two
  windows. That dropping a prefix is dropping whatever is old rests on the order.

Checked by TLC only: every liveness property, since liveness under fairness and `ENABLED` are
out of the prover's reach. They are `QueueDrains`, `StopEndsRun` and `HealBudgetBounds` of
`Fleet`, `TurnEnds`, `CascadesEnd`, `StopEndsRun` of `OpenCode`, `SavesLand`, and both of
`Dispatch`, which therefore has no theorem. The invariants and action properties of the
passing runs are all theorems. Types and stops are proved for any run labels; the other
theorems of `Fleet` have one label as their hypothesis, as the runs do: with two, the window
of `teardown` is open.

## 5. What is not modelled, and what is left to do

Worth adding, in this order:

1. **Learning** (`src/learning/`): a draft is made over several model calls from the version
   that was active when it began, while an operator may approve, reject or revert.
2. **The rungs of the terminal's wait** that `TurnRecovery` leaves out (survey, menu, triage),
   compaction, and the one-shot seeds of `continueSession()`.
3. **Workflow depth**: the recursive chain depth against the definition `Fleet` uses.

Left out for good, because no order of events decides whether they work:

* prompts and parsing around a model call (`src/brain/`), the text analysis of learning;
* recognition of screen text, the stuck detector's fingerprint and the estimate of a
  context's fill: what follows from their verdicts is a choice in `Fleet`, `TurnRecovery` and
  `OpenCode`;
* pure tables and matchers: which errors are restartable, /usage verdicts, notification
  routing, catalogs;
* fire-and-forget requests and shell commands: notifier, webhooks, git and pull
  requests, the template registry;
* reads: transcripts of other engines, discovery of sessions, analytics and health;
* the dashboard's components, more than a third of the code: they render the snapshots
  the server pushes and send clicks, which are the operator's actions in the models. Its
  login and its socket, the part with state and order, are in `Dispatch`;
* the daemon's start-up, generated schemas, tests.
