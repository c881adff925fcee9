------------------------------- MODULE Headless -------------------------------
(***************************************************************************)
(* The turns of one session of the claude-headless engine: one short-lived *)
(* `claude -p` per turn (src/session/headlessSession.ts), its deadline     *)
(* against its close event, and the recovery of a failed turn              *)
(* (runTurnRecovered() of src/orchestrator.ts) with another child.         *)
(*                                                                         *)
(* External: claude.  It refuses --resume without a message on file and    *)
(* --session-id with a file; it may exit at any moment with any code, work *)
(* on after a kill, end without a result line or with an error, and, where *)
(* Forks, go on in a new conversation.  A killed child is dead when the    *)
(* backoff is over.                                                        *)
(***************************************************************************)
EXTENDS Naturals, FiniteSets

CONSTANTS
  Id,           \* conversation ids
  OwnId,        \* the id in the session's configuration
  Prompts,      \* prompts given to the session, over all its runs
  Forks         \* a resumed claude may answer in another conversation

MaxRecoveries == 2

VARIABLES
  file,         \* the transcripts on disk
  grown,        \* what they hold beyond their size at the turn's beginning
  child,        \* the claude -p
  sess,         \* the session object: its id, hasConversation, disposed
  kept,         \* the supervisor's claudeSessionId
  pc,           \* the await the run is suspended in; "off" is no run
  turn, attempt, wording, stop

\* History: how often claude took this turn's prompt as it stands, how many
\* children of a run it has refused in a row, whether it has gone on elsewhere.
VARIABLES asked, refusals, forked

disk == <<file, grown>>
loop == <<turn, attempt, wording, stop>>
seen == <<asked, refusals, forked>>
vars == <<file, grown, child, sess, kept, pc, loop, seen>>

NoChild ==
  [st |-> "none", id |-> OwnId, told |-> "ask", result |-> "none", killed |-> FALSE]

TypeOK ==
  /\ file \in [Id -> {"none", "meta", "messages"}]
  /\ grown \in [Id -> {"nothing", "partial", "reply"}]
  /\ child \in [st : {"none", "refused", "fresh", "busy", "replied"}, id : Id,
                told : {"ask", "again"}, result : {"none", "ok", "error"}, killed : BOOLEAN]
  /\ sess \in [id : Id, has : BOOLEAN, disposed : BOOLEAN]
  /\ kept \in Id
  /\ pc \in {"off", "between", "turn", "backoff", "check", "grace"}
  /\ turn \in 0..Prompts /\ attempt \in 0..MaxRecoveries
  /\ wording \in {"ask", "again"} /\ stop \in BOOLEAN

Init ==
  /\ file = [i \in Id |-> "none"] /\ grown = [i \in Id |-> "nothing"]
  /\ child = NoChild
  /\ sess = [id |-> OwnId, has |-> FALSE, disposed |-> TRUE] /\ kept = OwnId
  /\ pc = "off" /\ turn = 0 /\ attempt = 0 /\ wording = "ask" /\ stop = FALSE
  /\ asked = 0 /\ refusals = 0 /\ forked = FALSE

(***************************************************************************)
(* claude -p: its code is not ours.                                        *)
(***************************************************************************)
Up == child.st \in {"fresh", "busy", "replied"}

\* It opens the conversation's file, and writes what is no message.
WritesMetadata ==
  /\ child.st = "fresh"
  /\ grown' = [grown EXCEPT ![child.id] = "partial"]
  /\ file' = [file EXCEPT ![child.id] = IF @ = "none" THEN "meta" ELSE @]
  /\ UNCHANGED <<child, sess, kept, pc, loop, seen>>

\* It takes the prompt from stdin, in this conversation or, resumed, in a new one.
TakesPrompt ==
  /\ child.st = "fresh"
  /\ \E i \in Id :
       /\ i = child.id \/ (Forks /\ file[child.id] = "messages" /\ file[i] = "none")
       /\ child' = [child EXCEPT !.st = "busy", !.id = i]
       /\ file' = [file EXCEPT ![i] = "messages"]
       /\ grown' = [grown EXCEPT ![i] = "partial"]
       /\ forked' = (forked \/ i # child.id)
  /\ asked' = asked + (IF child.told = "ask" THEN 1 ELSE 0)
  /\ UNCHANGED <<sess, kept, pc, loop, refusals>>

Replies ==
  /\ child.st = "busy"
  /\ child' = [child EXCEPT !.st = "replied"]
  /\ grown' = [grown EXCEPT ![child.id] = "reply"]
  /\ UNCHANGED <<file, sess, kept, pc, loop, seen>>

PrintsResult ==
  /\ Up /\ child.result = "none"
  /\ \/ child.st = "replied" /\ child' = [child EXCEPT !.result = "ok"]
     \/ child' = [child EXCEPT !.result = "error"]
  /\ UNCHANGED <<disk, sess, kept, pc, loop, seen>>

(***************************************************************************)
(* A turn ends, or fails.                                                  *)
(***************************************************************************)
Killed(c) == IF c = NoChild THEN c ELSE [c EXCEPT !.killed = TRUE]

\* The turn is over for the loop, however.
TurnOver == attempt' = 0 /\ wording' = "ask"

\* dispose(), at the end of the run.
RunOver(c, s) ==
  /\ pc' = "off"
  /\ child' = Killed(c)
  /\ sess' = [s EXCEPT !.disposed = TRUE]
  /\ TurnOver

Returns(c, s) ==
  /\ pc' = "between"
  /\ child' = c /\ sess' = s
  /\ TurnOver

\* The catch of runTurnRecovered(): a stop is surfaced, another attempt begins
\* with dispose(), or the run ends.
Throws(recoverable, c, s) ==
  IF stop \/ ~recoverable \/ attempt >= MaxRecoveries
  THEN RunOver(c, s)
  ELSE /\ pc' = "backoff" /\ attempt' = attempt + 1
       /\ child' = Killed(c) /\ sess' = [s EXCEPT !.disposed = TRUE]
       /\ UNCHANGED wording

\* The close event.  A result line says which conversation goes on; a turn that
\* timed out is settled already.
Closes ==
  /\ child # NoChild
  /\ \E ok \in IF child.st = "refused" THEN {FALSE} ELSE BOOLEAN :
       LET told == child.result # "none"
           s    == IF told THEN [sess EXCEPT !.has = TRUE, !.id = child.id] ELSE sess
       IN  IF pc # "turn"
           THEN child' = NoChild /\ sess' = s /\ UNCHANGED <<pc, attempt, wording>>
           ELSE IF ok /\ child.result # "error"
                THEN Returns(NoChild, s)
                ELSE Throws(TRUE, NoChild, s)
  /\ UNCHANGED <<disk, kept, turn, stop, seen>>

TimesOut ==
  /\ pc = "turn"
  /\ Throws(TRUE, child, sess)
  /\ UNCHANGED <<disk, kept, turn, stop, seen>>

(***************************************************************************)
(* Starting a child.                                                       *)
(***************************************************************************)
Accepts(id, resume) == file[id] = IF resume THEN "messages" ELSE "none"

\* A mutant: the child is spawned for a session that was disposed.
RunsDisposed(words) ==
  /\ pc' = "turn"
  /\ child' = [NoChild EXCEPT !.st = IF Accepts(sess.id, sess.has) THEN "fresh" ELSE "refused",
                              !.id = sess.id, !.told = words]
  /\ refusals' = IF Accepts(sess.id, sess.has) THEN 0 ELSE refusals + 1
  /\ wording' = words
  /\ UNCHANGED <<sess, attempt>>

\* runTurn(): refused when disposed; the spawn itself may fail.
RunTurn(words) ==
  \/ /\ sess.disposed
     /\ Throws(TRUE, child, sess)
     /\ UNCHANGED refusals
  \/ /\ ~sess.disposed
     /\ Throws(FALSE, child, sess)
     /\ UNCHANGED refusals
  \/ /\ ~sess.disposed
     /\ pc' = "turn"
     /\ child' = [NoChild EXCEPT !.st = IF Accepts(sess.id, sess.has) THEN "fresh" ELSE "refused",
                                 !.id = sess.id, !.told = words]
     /\ refusals' = IF Accepts(sess.id, sess.has) THEN 0 ELSE refusals + 1
     /\ wording' = words
     /\ UNCHANGED <<sess, attempt>>

\* Mutants: a resume id is taken for a conversation; a leftover stays in the way.
OpensTrusting(id, resume) ==
  /\ sess' = [id |-> id, has |-> resume, disposed |-> FALSE] /\ kept' = id
  /\ UNCHANGED disk

OpensOverLeftover(id, resume) ==
  /\ sess' = [id |-> id, has |-> resume /\ file[id] = "messages", disposed |-> FALSE] /\ kept' = id
  /\ UNCHANGED disk

\* start() moves a file without messages out of the way of the id.
Clears(id) ==
  LET clear == file[id] = "meta"
  IN  /\ file' = [file EXCEPT ![id] = IF clear THEN "none" ELSE @]
      /\ grown' = [grown EXCEPT ![id] = IF clear THEN "nothing" ELSE @]

\* The constructor, onSession() and start(): only what has a message on file is
\* resumed.
Opens(id, resume) ==
  /\ sess' = [id |-> id, has |-> resume /\ file[id] = "messages", disposed |-> FALSE]
  /\ kept' = id
  /\ Clears(id)

\* A run: a heal or a continue resumes the conversation, a plain start does not.
Launch ==
  /\ pc = "off" /\ child = NoChild
  /\ turn < Prompts
  /\ Opens(kept, TRUE) \/ Opens(OwnId, FALSE)
  /\ pc' = "between" /\ stop' = FALSE /\ refusals' = 0
  /\ UNCHANGED <<child, turn, attempt, wording, asked, forked>>

\* Between two turns the run ends, by a stop or because it is done.
RunEnds ==
  /\ pc = "between"
  /\ RunOver(child, sess)
  /\ UNCHANGED <<disk, kept, turn, stop, seen>>

\* The transcript's size is noted.  A stop since the top of the loop is not
\* looked at.
BeginTurn ==
  /\ pc = "between" /\ child = NoChild
  /\ turn < Prompts
  /\ turn' = turn + 1
  /\ grown' = [i \in Id |-> "nothing"]
  /\ asked' = 0
  /\ RunTurn("ask")
  /\ UNCHANGED <<file, kept, stop, forked>>

(***************************************************************************)
(* Recovery.                                                               *)
(***************************************************************************)
\* A mutant: the stop is not looked at after the backoff.
RespawnsAnyway ==
  /\ pc = "backoff" /\ child = NoChild
  /\ pc' = "check" /\ Opens(sess.id, TRUE) /\ UNCHANGED <<child, attempt, wording>>
  /\ UNCHANGED <<turn, stop, seen>>

\* After the backoff: the same conversation, or the project is gone.
Reopens ==
  /\ pc = "backoff" /\ child = NoChild
  /\ \/ stop /\ RunOver(child, sess) /\ UNCHANGED <<disk, kept>>
     \/ /\ ~stop
        /\ pc' = "check" /\ Opens(sess.id, TRUE) /\ UNCHANGED <<child, attempt, wording>>
     \/ ~stop /\ RunOver(child, sess) /\ kept' = sess.id /\ Clears(sess.id)
  /\ UNCHANGED <<turn, stop, seen>>

\* A mutant: the transcript is not consulted.
AsksAgain ==
  /\ pc = "check"
  /\ RunTurn(wording)
  /\ UNCHANGED <<disk, kept, turn, stop, asked, forked>>

\* What the transcript says of the attempt that failed: the turn is done, work
\* is under way, or claude never began.
Checks ==
  /\ pc = "check"
  /\ \/ grown[sess.id] = "reply" /\ Returns(child, sess) /\ UNCHANGED refusals
     \/ /\ grown[sess.id] = "partial"
        /\ pc' = "grace" /\ UNCHANGED <<child, sess, attempt, wording, refusals>>
     \/ grown[sess.id] = "nothing" /\ RunTurn(wording)
  /\ UNCHANGED <<disk, kept, turn, stop, asked, forked>>

\* Nobody is left to finish the work: a stop ends the wait, or the quiet does.
GraceEnds ==
  /\ pc = "grace"
  /\ \/ stop /\ RunOver(child, sess) /\ UNCHANGED refusals
     \/ RunTurn("again")
  /\ UNCHANGED <<disk, kept, turn, stop, asked, forked>>

\* stop(): the flag, and dispose() of the session object there is.
OperatorStops ==
  /\ pc # "off" /\ ~stop
  /\ stop' = TRUE
  /\ sess' = [sess EXCEPT !.disposed = TRUE]
  /\ child' = Killed(child)
  /\ UNCHANGED <<disk, kept, pc, turn, attempt, wording, seen>>

Claude == WritesMetadata \/ TakesPrompt \/ Replies \/ PrintsResult

Next ==
  \/ Claude \/ Closes \/ TimesOut
  \/ Launch \/ RunEnds \/ BeginTurn
  \/ Reopens \/ Checks \/ GraceEnds
  \/ OperatorStops

Spec == Init /\ [][Next]_vars

(***************************************************************************)
(* Properties.                                                             *)
(***************************************************************************)
\* Whatever a crash, a kill, a restart or an earlier turn left on disk and in
\* the session object, in a run a child that claude refuses is followed by one it
\* takes.
RefusalsMend == refusals <= 1

\* However a turn fails and however often it is recovered, claude is not given
\* the prompt as it stands a second time once it has taken it.  (Where claude
\* went on in another conversation before it said so, the check of the
\* transcript looks at the wrong one.)
PromptTakenOnce == asked > 1 => forked

\* No child is spawned for a run that was told to stop, whichever await the
\* stop finds the turn in.
SpawnsNothing == stop /\ stop' /\ child = NoChild => child' = NoChild

StopSpawnsNothing == [][SpawnsNothing]_vars

(***************************************************************************)
(* What the source says and the code does not do.                          *)
(***************************************************************************)
\* "Remember the conversation id so the session can be continued later": what a
\* run goes on from is where the last one stopped.  Fails where claude answers in
\* another conversation: the driver follows it, and onSession() is not called again.
ContinuesLatest == pc = "off" => kept = sess.id
=============================================================================
