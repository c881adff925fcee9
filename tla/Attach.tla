------------------------------- MODULE Attach -------------------------------
(***************************************************************************)
(* Hook-attach mode: one claude the operator started by hand, the Stop     *)
(* hook it runs at the end of a turn (hook/stop-hook.mjs) and the daemon's *)
(* AttachManager (src/attach/attachManager.ts) with its Guards.            *)
(*                                                                         *)
(* A handler of the daemon reads the transcript and asks the brain, so it  *)
(* is suspended twice.  The hook that posted it gives up after 30 seconds  *)
(* and lets claude stop; the handler then goes on with nobody waiting, and *)
(* a hook of a later turn may start another beside it.  Sessions share     *)
(* nothing but the limits, so one is enough.                               *)
(***************************************************************************)
EXTENDS Naturals, Sequences, SequencesExt

CONSTANTS
  Handler,      \* handlers that may be under way together
  Prompt,       \* prompts the brain may choose (up to what norm() ignores)
  MaxRegs,      \* registrations in a behaviour
  MaxTurns,     \* limits.maxTurns
  PingPong      \* limits.pingPongThreshold

ASSUME AttachAssumption ==
  /\ MaxRegs \in Nat
  /\ MaxTurns \in Nat
  /\ PingPong \in Nat \ {0}
  /\ "none" \notin Handler

VARIABLES
  attached,     \* the registration the map holds, 0 for none
  regs,         \* registrations so far: the n-th is an object of its own
  guards,       \* Guards of each registration: turns, recentPrompts, and
                \* whether maxWallClockMin has passed
  driven,       \* AttachedSession.turns
  handler,      \* where each handler is, and the registration it captured
  waiting,      \* the handler claude's Stop hook waits for, or none
  claude,       \* "idle", "working", or "stopping": its hook is running
  continuing,   \* stop_hook_active: this turn is a hook's doing
  injected,     \* prompts injected since the operator's last one
  sent          \* prompts injected for each registration

vars == <<attached, regs, guards, driven, handler, waiting, claude,
          continuing, injected, sent>>

Reg == 1..MaxRegs

None == "none"

Free == [step |-> "none", reg |-> 0]

FreshGuards == [turns |-> 0, recent |-> <<>>, expired |-> FALSE]

TypeOK ==
  /\ attached \in Reg \cup {0}
  /\ regs \in 0..MaxRegs
  /\ guards \in [Reg -> [turns : 0..MaxTurns + 1, recent : Seq(Prompt), expired : BOOLEAN]]
  /\ driven \in [Reg -> Nat]
  /\ handler \in [Handler -> [step : {"none", "reads", "asks"}, reg : Reg \cup {0}]]
  /\ waiting \in Handler \cup {None}
  /\ claude \in {"idle", "working", "stopping"}
  /\ continuing \in BOOLEAN
  /\ injected \in Nat
  /\ sent \in [Reg -> Nat]

(***************************************************************************)
(* Guards.check(): the directive, and what it leaves of the guards.        *)
(***************************************************************************)
\* turns + 1, counted no further than a turn past the limit.
Counted(turns) == IF turns > MaxTurns THEN turns ELSE turns + 1

\* The last PingPong prompts once p is recorded.
Recorded(g, p) ==
  LET all == Append(g.recent, p)
  IN  IF Len(all) > PingPong THEN Tail(all) ELSE all

\* A mutant: the test looks at the prompts before this one is recorded.
CheckedBefore(g, p) ==
  LET turns == Counted(g.turns)
      spent == turns > MaxTurns \/ g.expired
      stuck == Len(g.recent) >= PingPong /\ \A i \in DOMAIN g.recent : g.recent[i] = p
  IN  [stop |-> spent \/ stuck,
       guards |-> [g EXCEPT !.turns = turns,
                            !.recent = IF spent THEN @ ELSE Recorded(g, p)]]

\* A mutant: the turn is not counted.
CheckedUncounted(g, p) ==
  LET spent == g.turns >= MaxTurns \/ g.expired
      recent == Recorded(g, p)
      stuck == Len(recent) >= PingPong /\ \A i \in DOMAIN recent : recent[i] = p
  IN  [stop |-> spent \/ stuck,
       guards |-> [g EXCEPT !.recent = IF spent THEN @ ELSE recent]]

Checked(g, p) ==
  LET turns == Counted(g.turns)
      spent == turns > MaxTurns \/ g.expired
      recent == Recorded(g, p)
      stuck == Len(recent) >= PingPong /\ \A i \in DOMAIN recent : recent[i] = p
  IN  [stop |-> spent \/ stuck,
       guards |-> [g EXCEPT !.turns = turns,
                            !.recent = IF spent THEN @ ELSE recent]]

(***************************************************************************)
(* The operator.                                                           *)
(***************************************************************************)
\* register(): a new object, with fresh guards, replaces any earlier one.
Register ==
  /\ regs < MaxRegs
  /\ regs' = regs + 1
  /\ attached' = regs + 1
  /\ UNCHANGED <<guards, driven, handler, waiting, claude, continuing,
                 injected, sent>>

\* unregister(): handlers under way keep the object they captured.
Unregister ==
  /\ attached # 0
  /\ attached' = 0
  /\ UNCHANGED <<regs, guards, driven, handler, waiting, claude,
                 continuing, injected, sent>>

TimePasses(r) ==
  /\ r <= regs
  /\ ~guards[r].expired
  /\ guards' = [guards EXCEPT ![r].expired = TRUE]
  /\ UNCHANGED <<attached, regs, driven, handler, waiting, claude,
                 continuing, injected, sent>>

OperatorPrompts ==
  /\ claude = "idle"
  /\ claude' = "working"
  /\ continuing' = FALSE
  /\ injected' = 0
  /\ UNCHANGED <<attached, regs, guards, driven, handler, waiting, sent>>

(***************************************************************************)
(* The hook.                                                               *)
(***************************************************************************)
\* Both the hook and handle() leave a turn alone that a hook has caused.
\* A mutant: neither does.
LetsItStopNever == FALSE

LetsItStop == continuing

\* A turn ends and nothing is asked: the loop guard, a session that is not
\* attached, or a daemon that is not there.
EndsAlone ==
  /\ claude = "working"
  /\ claude' = "idle"
  /\ UNCHANGED <<attached, regs, guards, driven, handler, waiting,
                 continuing, injected, sent>>

\* The hook posts and handle() runs to its first await.
HookPosts(h) ==
  /\ claude = "working"
  /\ ~LetsItStop
  /\ attached # 0
  /\ handler[h] = Free
  /\ handler' = [handler EXCEPT ![h] = [step |-> "reads", reg |-> attached]]
  /\ waiting' = h
  /\ claude' = "stopping"
  /\ UNCHANGED <<attached, regs, guards, driven, continuing, injected, sent>>

\* The 30 seconds are over: claude stops, the handler is not told.
HookTimesOut ==
  /\ waiting # None
  /\ waiting' = None
  /\ claude' = "idle"
  /\ UNCHANGED <<attached, regs, guards, driven, handler, continuing, injected, sent>>

(***************************************************************************)
(* handle(), after its awaits.                                             *)
(***************************************************************************)
TranscriptRead(h) ==
  /\ handler[h].step = "reads"
  /\ handler' = [handler EXCEPT ![h].step = "asks"]
  /\ UNCHANGED <<attached, regs, guards, driven, waiting, claude,
                 continuing, injected, sent>>

\* The handler is done and its answer is stop.
AnswersStop(h) ==
  /\ handler' = [handler EXCEPT ![h] = Free]
  /\ IF waiting = h
       THEN waiting' = None /\ claude' = "idle"
       ELSE UNCHANGED <<waiting, claude>>
  /\ UNCHANGED <<attached, regs, continuing, injected, sent>>

\* The handler is done and its answer is to continue: the hook, if it still
\* waits, blocks the stop and claude goes on with the prompt.
AnswersContinue(h) ==
  /\ handler' = [handler EXCEPT ![h] = Free]
  /\ IF waiting = h
       THEN /\ waiting' = None
            /\ claude' = "working"
            /\ continuing' = TRUE
            /\ injected' = injected + 1
            /\ sent' = [sent EXCEPT ![handler[h].reg] = @ + 1]
       ELSE UNCHANGED <<waiting, claude, continuing, injected, sent>>
  /\ UNCHANGED <<attached, regs>>

\* readLastMessage() throws: stop.
HandlerFails(h) ==
  /\ handler[h].step = "reads"
  /\ AnswersStop(h)
  /\ UNCHANGED <<guards, driven>>

\* The brain throws, stops, escalates, or continues without a prompt.  (What
\* the dashboard shows of the decision is left out.)
BrainStops(h) ==
  /\ handler[h].step = "asks"
  /\ AnswersStop(h)
  /\ UNCHANGED <<guards, driven>>

BrainContinues(h, p) ==
  LET r == handler[h].reg
      check == Checked(guards[r], p)
  IN  /\ handler[h].step = "asks"
      /\ guards' = [guards EXCEPT ![r] = check.guards]
      /\ \/ /\ check.stop
            /\ AnswersStop(h)
            /\ UNCHANGED driven
         \/ /\ ~check.stop
            /\ AnswersContinue(h)
            /\ driven' = [driven EXCEPT ![r] = @ + 1]

\* The daemon restarts: attachments and handlers live in memory only, and a
\* hook that waits sees its connection close.
Restart ==
  /\ attached' = 0
  /\ handler' = [h \in Handler |-> Free]
  /\ waiting' = None
  /\ claude' = IF claude = "stopping" THEN "idle" ELSE claude
  /\ UNCHANGED <<regs, guards, driven, continuing, injected, sent>>

Init ==
  /\ attached = 0
  /\ regs = 0
  /\ guards = [r \in Reg |-> FreshGuards]
  /\ driven = [r \in Reg |-> 0]
  /\ handler = [h \in Handler |-> Free]
  /\ waiting = None
  /\ claude = "idle"
  /\ continuing = FALSE
  /\ injected = 0
  /\ sent = [r \in Reg |-> 0]

Next ==
  \/ Register
  \/ Unregister
  \/ \E r \in Reg : TimePasses(r)
  \/ OperatorPrompts
  \/ EndsAlone
  \/ HookTimesOut
  \/ Restart
  \/ \E h \in Handler :
       \/ HookPosts(h)
       \/ TranscriptRead(h)
       \/ HandlerFails(h)
       \/ BrainStops(h)
       \/ \E p \in Prompt : BrainContinues(h, p)

Spec == Init /\ [][Next]_vars

(***************************************************************************)
(* Properties.                                                             *)
(***************************************************************************)
\* However handlers overlap, and whoever has given up waiting for them, no
\* registration has more prompts injected than maxTurns or than the turns
\* the dashboard shows for it.
DrivesWithinLimits ==
  \A r \in Reg : sent[r] <= driven[r] /\ driven[r] <= MaxTurns

\* Per prompt of the operator, claude is sent back to work at most once: a
\* late handler, or one of an earlier turn, never adds a second time.
OneInjectionPerPrompt == injected <= 1

\* PingPong equal prompts in a row are never let through: when a prompt is
\* accepted, the ones recorded before it show another among the last.
NeverPingPong ==
  [][\A r \in Reg :
       driven'[r] > driven[r] /\ Len(guards'[r].recent) >= PingPong
         => \E i \in DOMAIN guards'[r].recent :
              guards'[r].recent[i] # Last(guards'[r].recent)]_vars
=============================================================================
