---------------------------- MODULE TurnRecovery ----------------------------
(***************************************************************************)
(* The turns of one session of the terminal engine: runTurnRecovered() of  *)
(* src/orchestrator.ts, and start(), runTurn(), inject() and               *)
(* waitForReady() of src/session/claudeSession.ts, against the claude      *)
(* process, which reads keystrokes from a terminal and appends what it     *)
(* does to a transcript file.                                              *)
(*                                                                         *)
(* The driver sees the process through its screen, which it may not        *)
(* recognise, and through the transcript's size and last entries.  Left    *)
(* out: gates (Fleet has them), menus and surveys, slash commands, and how *)
(* long anything takes: a deadline may pass at any moment.                 *)
(***************************************************************************)
EXTENDS Naturals, SequencesExt

CONSTANTS
  Turns,        \* prompts the session is given, over all its runs
  MaxWork,      \* tool calls and preambles claude writes for one prompt
  UuidId,       \* the session's id is a UUID, so every run has the same transcript
  Habits        \* what claude may be found to do, one set of habits per behaviour:
                \* "preambles" (it writes text before a tool call), "late" (resumed,
                \* it takes its interrupted turn up even after its screen settled)

ASSUME TurnsAssumption ==
  /\ Turns \in Nat \ {0}
  /\ MaxWork \in Nat
  /\ UuidId \in BOOLEAN
  /\ Habits \subseteq SUBSET {"preambles", "late"}

MaxRecoveries == 2

SubmitRetries == 3

VARIABLES
  log,          \* the transcript, one entry per line
  proc,         \* the claude process
  box,          \* prompts typed into its input box and not submitted
  entered,      \* an Enter it has not reacted to; it may never do so
  habits        \* the member of Habits that applies

VARIABLES
  pc,           \* the await the run is suspended in; "off" is no run
  turn,         \* the prompt being delivered
  attempt,      \* of runTurnRecovered
  wording,      \* attemptPrompt: the prompt itself, or the reconcile wrapper
  tries,        \* Enters sent by inject
  offset,       \* transcript size when the turn began
  since,        \* transcript size when this attempt's prompt was typed
  stop,         \* the operator asked the run to stop
  answers       \* what each turn returned

claudeVars == <<log, proc, box, entered>>
turnVars   == <<turn, attempt, wording, tries, offset, since>>
vars == <<log, proc, box, entered, habits, pc, turn, attempt, wording, tries, offset,
          since, stop, answers>>

Prompt == [of : 1..Turns, kind : {"ask", "again"}]

Entry == Prompt \cup [of : 1..Turns, kind : {"tool", "text", "reply"}]
                \cup {[of |-> 0, kind |-> "meta"]}

Proc == {"none", "booting", "idle", "busy", "exited", "refused"}

\* A turn that has not returned, and one that returned without text.
Open == [of |-> 0, kind |-> "open"]

Silent == [of |-> 0, kind |-> "silent"]

InTurn == {"type", "submit", "wait", "backoff", "reboot", "triage", "grace"}

Up == proc \in {"booting", "idle", "busy"}

(***************************************************************************)
(* What the transcript reader makes of the file.                           *)
(***************************************************************************)
IsMessage(e) == e.kind # "meta"

\* A preamble reads like a final reply: text, and no tool call.
IsText(e) == e.kind \in {"text", "reply"}

Resumable(l) == \E i \in DOMAIN l : IsMessage(l[i])

\* The last message is text.
TurnEnded(l) == Resumable(l) /\ IsText(l[SelectLastInSeq(l, IsMessage)])

\* The last text after byte offset n, or Silent.
TextAfter(n) ==
  LET at == SelectLastInSubSeq(log, n + 1, Len(log), IsText)
  IN  IF at = 0 THEN Silent ELSE log[at]

(***************************************************************************)
(* The claude process: its code is not ours.                               *)
(***************************************************************************)
\* A resumed conversation may take its interrupted turn up by itself.
Interrupted == Resumable(log) /\ ~TurnEnded(log)

\* The turn it works for: that of the last prompt it took.
WorksFor == log[SelectLastInSeq(log, LAMBDA e : e.kind \in {"ask", "again"})].of

\* A fresh transcript begins with the same metadata each time.
Boots ==
  /\ proc = "booting"
  /\ \/ proc' = "idle"
     \/ Interrupted /\ proc' = "busy"
  /\ log' = IF log = <<>> THEN <<[of |-> 0, kind |-> "meta"]>> ELSE log
  /\ UNCHANGED <<box, entered, pc, turnVars, stop, answers>>

\* It reacts to the Enter.  What is in the box joins a turn under way.
TakesPrompt ==
  /\ proc \in {"idle", "busy"}
  /\ entered /\ box # <<>>
  /\ log' = log \o box
  /\ proc' = "busy"
  /\ box' = <<>> /\ entered' = FALSE
  /\ UNCHANGED <<pc, turnVars, stop, answers>>

Works ==
  /\ proc = "busy"
  /\ Len(SelectSeq(log, LAMBDA e : e.of = WorksFor /\ e.kind \in {"tool", "text"})) < MaxWork
  /\ \E kind \in (IF "preambles" \in habits THEN {"tool", "text"} ELSE {"tool"}) :
       log' = Append(log, [of |-> WorksFor, kind |-> kind])
  /\ UNCHANGED <<proc, box, entered, pc, turnVars, stop, answers>>

Replies ==
  /\ proc = "busy"
  /\ log' = Append(log, [of |-> WorksFor, kind |-> "reply"])
  /\ proc' = "idle"
  /\ UNCHANGED <<box, entered, pc, turnVars, stop, answers>>

\* ... while it boots, or once its screen has settled.
AutoContinues ==
  /\ "late" \in habits
  /\ proc = "idle"
  /\ Interrupted
  /\ proc' = "busy"
  /\ UNCHANGED <<log, box, entered, pc, turnVars, stop, answers>>

Exits ==
  /\ Up
  /\ proc' = "exited"
  /\ box' = <<>> /\ entered' = FALSE
  /\ UNCHANGED <<log, pc, turnVars, stop, answers>>

(***************************************************************************)
(* Starting and ending claude.                                             *)
(***************************************************************************)
Kill == proc' = "none" /\ box' = <<>> /\ entered' = FALSE

\* A mutant: a transcript without a message is left where it is.
SpawnsOverLeftover(l, resumeId) ==
  LET canResume == resumeId /\ Resumable(l)
  IN
  /\ log' = l
  /\ proc' = IF canResume \/ l = <<>> THEN "booting" ELSE "refused"
  /\ box' = <<>> /\ entered' = FALSE

\* start(), on transcript l: --resume it if it holds a message, else mint the
\* id with --session-id, after moving a transcript without messages away.
\* claude refuses an id that has a file and --session-id.
Spawn(l, resumeId) ==
  LET canResume == resumeId /\ Resumable(l)
      kept      == IF Resumable(l) THEN l ELSE <<>>
  IN
  /\ log' = kept
  /\ proc' = IF canResume \/ kept = <<>> THEN "booting" ELSE "refused"
  /\ box' = <<>> /\ entered' = FALSE

\* launch(): a heal or a continue passes the conversation's id, a plain start
\* does not; without a UUID id it gets a conversation of its own.
Launch(resumeId) ==
  /\ pc = "off"
  /\ turn < Turns
  /\ Spawn(IF resumeId \/ UuidId THEN log ELSE <<>>, resumeId)
  /\ pc' = IF resumeId THEN "resume" ELSE "boot"
  /\ stop' = FALSE
  /\ UNCHANGED <<turnVars, answers>>

\* The run's first start() returned, or threw.
Launched ==
  /\ pc \in {"boot", "resume"}
  /\ proc = "idle"
  /\ pc' = "between"
  /\ UNCHANGED <<claudeVars, turnVars, stop, answers>>

LaunchFails ==
  /\ pc \in {"boot", "resume"}
  /\ Kill
  /\ pc' = "off"
  /\ UNCHANGED <<log, turnVars, stop, answers>>

\* Between two turns: the run ends, by a stop or because it is done.
RunEnds ==
  /\ pc = "between"
  /\ Kill
  /\ pc' = "off"
  /\ UNCHANGED <<log, turnVars, stop, answers>>

\* stop(): the flag, and dispose() of the current driver.
OperatorStops ==
  /\ pc # "off" /\ ~stop
  /\ stop' = TRUE
  /\ proc' = IF Up THEN "exited" ELSE proc
  /\ box' = <<>> /\ entered' = FALSE
  /\ UNCHANGED <<log, pc, turnVars, answers>>

(***************************************************************************)
(* A turn.                                                                 *)
(***************************************************************************)
\* The loop has a prompt: runTurnRecovered() notes the transcript's size.  A
\* stop since the top of the loop is not looked at.
BeginTurn ==
  /\ pc = "between"
  /\ turn < Turns
  /\ pc' = "type"
  /\ turn' = turn + 1
  /\ attempt' = 0 /\ wording' = "ask" /\ tries' = 0
  /\ offset' = Len(log) /\ since' = Len(log)
  /\ UNCHANGED <<claudeVars, stop, answers>>

\* The locals of an attempt, and of a turn, end with it.
AttemptOver == tries' = 0 /\ since' = 0

TurnOver == AttemptOver /\ attempt' = 0 /\ wording' = "ask" /\ offset' = 0

\* A mutant: a failed attempt does not count.
ThrowsUncounted(recoverable) ==
  /\ Kill
  /\ IF stop \/ ~recoverable
     THEN pc' = "off" /\ TurnOver
     ELSE pc' = "backoff" /\ AttemptOver /\ UNCHANGED <<attempt, wording, offset>>
  /\ UNCHANGED <<log, turn, stop, answers>>

\* The catch of runTurnRecovered(): a stop is surfaced, another attempt begins
\* with dispose(), or the run ends (and disposes).
Throws(recoverable) ==
  /\ Kill
  /\ IF stop \/ ~recoverable \/ attempt >= MaxRecoveries
     THEN pc' = "off" /\ TurnOver
     ELSE pc' = "backoff" /\ attempt' = attempt + 1 /\ AttemptOver
          /\ UNCHANGED <<wording, offset>>
  /\ UNCHANGED <<log, turn, stop, answers>>

\* The turn returns: to the loop.
Returns(answer) ==
  /\ answers' = [answers EXCEPT ![turn] = answer]
  /\ pc' = "between"
  /\ TurnOver
  /\ UNCHANGED <<claudeVars, turn, stop>>

\* A mutant: the reply is looked for in the whole transcript.
TypesUnanchored ==
  /\ pc = "type"
  /\ Up
  /\ since' = 0
  /\ box' = Append(box, [of |-> turn, kind |-> wording])
  /\ entered' = TRUE
  /\ tries' = 1
  /\ pc' = "submit"
  /\ UNCHANGED <<log, proc, turn, attempt, wording, offset, stop, answers>>

\* runTurn(): the reply is looked for after the prompt is typed; inject() pastes
\* it and presses Enter.
Types ==
  /\ pc = "type"
  /\ Up
  /\ since' = Len(log)
  /\ box' = Append(box, [of |-> turn, kind |-> wording])
  /\ entered' = TRUE
  /\ tries' = 1
  /\ pc' = "submit"
  /\ UNCHANGED <<log, proc, turn, attempt, wording, offset, stop, answers>>

NotRunning ==
  /\ pc = "type"
  /\ ~Up
  /\ Throws(TRUE)

\* inject() polls: claude is gone, or the transcript has grown, or the screen
\* shows it working.
SubmitSeen ==
  /\ pc = "submit"
  /\ ~Up \/ Len(log) > since \/ proc = "busy"
  /\ pc' = "wait"
  /\ tries' = 0
  /\ UNCHANGED <<claudeVars, turn, attempt, wording, offset, since, stop, answers>>

SubmitAgain ==
  /\ pc = "submit"
  /\ Up /\ Len(log) <= since
  /\ tries < SubmitRetries
  /\ tries' = tries + 1
  /\ entered' = TRUE
  /\ UNCHANGED <<log, proc, box, pc, turn, attempt, wording, offset, since, stop, answers>>

SubmitFails ==
  /\ pc = "submit"
  /\ Up /\ Len(log) <= since
  /\ tries = SubmitRetries
  /\ Throws(TRUE)

\* waitForReady(): the screen has settled and the transcript has grown, or the
\* transcript says so after a long quiet.
TurnReady ==
  /\ pc = "wait"
  /\ proc = "idle"
  /\ Len(log) > since
  /\ Returns(TextAfter(since))

\* claude is gone, or the screen froze, or the deadline passed; or a notice on
\* the screen (usage limit, authentication) that no respawn helps against.
WaitFails ==
  /\ pc = "wait"
  /\ \E recoverable \in BOOLEAN : (~Up => recoverable) /\ Throws(recoverable)

(***************************************************************************)
(* Recovery.                                                               *)
(***************************************************************************)
\* A mutant: the stop is not looked at after the backoff.
RespawnsAnyway ==
  /\ pc = "backoff"
  /\ Spawn(log, TRUE)
  /\ pc' = "reboot"
  /\ UNCHANGED <<turnVars, stop, answers>>

\* After the backoff: a stop, or a fresh driver on the same conversation.
Respawns ==
  /\ pc = "backoff"
  /\ IF stop
     THEN pc' = "off" /\ TurnOver /\ UNCHANGED claudeVars
     ELSE pc' = "reboot" /\ Spawn(log, TRUE)
          /\ UNCHANGED <<attempt, wording, tries, offset, since>>
  /\ UNCHANGED <<turn, stop, answers>>

Rebooted ==
  /\ pc = "reboot"
  /\ proc = "idle"
  /\ pc' = "triage"
  /\ UNCHANGED <<claudeVars, turnVars, stop, answers>>

RebootFails ==
  /\ pc = "reboot"
  /\ \E recoverable \in BOOLEAN : (~Up => recoverable) /\ Throws(recoverable)

\* A mutant: the prompt is typed again whatever the transcript says.
RetriesBlindly ==
  /\ pc = "triage"
  /\ pc' = "type"
  /\ UNCHANGED <<claudeVars, turnVars, stop, answers>>

\* A mutant: what the transcript held before the turn counts as its activity.
TriagesUnanchored ==
  /\ pc = "triage"
  /\ \/ /\ TurnEnded(log)
        /\ Returns(TextAfter(0))
     \/ /\ ~TurnEnded(log)
        /\ pc' = "grace"
        /\ UNCHANGED <<claudeVars, turnVars, stop, answers>>

\* The transcript since the turn began: nothing (the prompt is typed again as
\* it was), the final reply, or a part of the work.
Triages ==
  /\ pc = "triage"
  /\ \/ /\ Len(log) <= offset
        /\ pc' = "type"
        /\ UNCHANGED <<claudeVars, turnVars, stop, answers>>
     \/ /\ Len(log) > offset
        /\ TurnEnded(log) /\ TextAfter(offset) # Silent
        /\ Returns(TextAfter(offset))
     \/ /\ Len(log) > offset
        /\ ~(TurnEnded(log) /\ TextAfter(offset) # Silent)
        /\ pc' = "grace"
        /\ UNCHANGED <<claudeVars, turnVars, stop, answers>>

\* The grace window, every five seconds: a stop, or the resumed turn ended.
GraceStops ==
  /\ pc = "grace"
  /\ stop
  /\ Kill
  /\ pc' = "off"
  /\ TurnOver
  /\ UNCHANGED <<log, turn, stop, answers>>

GraceReturns ==
  /\ pc = "grace"
  /\ ~stop
  /\ TurnEnded(log) /\ TextAfter(offset) # Silent
  /\ Returns(TextAfter(offset))

\* It stayed quiet, or its time is up, or it ended without a word: the prompt
\* is sent in the wrapper that asks to reconcile first.
GraceOver ==
  /\ pc = "grace"
  /\ wording' = "again"
  /\ pc' = "type"
  /\ UNCHANGED <<claudeVars, turn, attempt, tries, offset, since, stop, answers>>

Init ==
  /\ log = <<>> /\ proc = "none" /\ box = <<>> /\ entered = FALSE
  /\ habits \in Habits
  /\ pc = "off"
  /\ turn = 0 /\ attempt = 0 /\ wording = "ask" /\ tries = 0
  /\ offset = 0 /\ since = 0
  /\ stop = FALSE
  /\ answers = [t \in 1..Turns |-> Open]

Claude == Boots \/ TakesPrompt \/ Works \/ Replies \/ AutoContinues \/ Exits

TurnStep ==
  \/ Types \/ NotRunning
  \/ SubmitSeen \/ SubmitAgain \/ SubmitFails
  \/ TurnReady \/ WaitFails
  \/ Respawns \/ Rebooted \/ RebootFails
  \/ Triages \/ GraceStops \/ GraceReturns \/ GraceOver

Step ==
  \/ Claude
  \/ \E resumeId \in BOOLEAN : Launch(resumeId)
  \/ Launched \/ LaunchFails \/ RunEnds
  \/ OperatorStops
  \/ BeginTurn
  \/ TurnStep

Next == Step /\ UNCHANGED habits

Spec == Init /\ [][Next]_vars

\* Every wait of a turn has a deadline of its own, so a turn under way moves.
FairSpec == Spec /\ WF_vars(TurnStep /\ UNCHANGED habits)

(***************************************************************************)
(* What must hold.                                                         *)
(***************************************************************************)
TypeOK ==
  /\ log \in Seq(Entry)
  /\ proc \in Proc
  /\ box \in Seq(Prompt)
  /\ entered \in BOOLEAN
  /\ habits \in Habits
  /\ pc \in InTurn \cup {"off", "boot", "resume", "between"}
  /\ turn \in 0..Turns
  /\ attempt \in 0..MaxRecoveries
  /\ wording \in {"ask", "again"}
  /\ tries \in 0..SubmitRetries
  /\ offset \in Nat /\ since \in Nat
  /\ stop \in BOOLEAN
  /\ answers \in [1..Turns -> Entry \cup {Open, Silent}]

\* A prompt is executed as it stands at most once, however often its turn is
\* attempted: once claude has taken it, it is only sent in the wrapper that asks
\* what is already done.
AskedOnce ==
  \A i, j \in DOMAIN log :
    log[i].kind = "ask" /\ log[j].kind = "ask" /\ log[i].of = log[j].of => i = j

\* claude has nothing but t to work for: every turn before t returned its final
\* reply, and a resumed claude is waited for until it has caught up.
CleanBefore(t) ==
  "late" \notin habits /\ \A u \in 1..(t - 1) : answers[u] = [of |-> u, kind |-> "reply"]

\* No prompt is silently lost: when a turn returns, claude has taken its prompt.
NeverLost ==
  [][\A t \in 1..Turns :
       answers'[t] # answers[t] /\ CleanBefore(t) =>
         \E i \in DOMAIN log : log[i] \in Prompt /\ log[i].of = t]_vars

\* The reply to one prompt is never returned as the answer to a later one.
OwnAnswer ==
  \A t \in 1..Turns :
    answers[t] # Open /\ CleanBefore(t) => answers[t] \in Entry /\ answers[t].of = t

\* A respawn, a heal or a continue is never refused for the state its
\* predecessor left the transcript in.
ResumeAccepted == proc = "refused" => pc = "boot"

\* An operator stop is never recovered: after it no claude is spawned and
\* nothing more is typed, until a new start.
StopIsNotRecovered ==
  [][stop /\ stop' =>
       /\ proc' = "booting" => proc = "booting"
       /\ box' # <<>> => box' = box]_vars

\* Every turn comes to an end, with an answer or with the end of the run.
TurnEnds == pc \in InTurn ~> pc \notin InTurn

\* What is returned as a turn's answer is the final reply, not a preamble of
\* work that is still going on or was cut short.
FinalAnswer == \A t \in 1..Turns : answers[t] \in Entry => answers[t].kind = "reply"

\* A session that ran before can be started again: by the operator, a schedule,
\* or the wakeup of a limit pause.
RestartAccepted == proc # "refused"
=============================================================================
