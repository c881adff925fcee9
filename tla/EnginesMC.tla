------------------------------ MODULE EnginesMC ------------------------------
(***************************************************************************)
(* The engines a session may run on besides the terminal, for TLC.         *)
(* runAgentSession() (src/runner.ts) hands a session to one driver and     *)
(* never to another: the engine is chosen in the initial state.            *)
(***************************************************************************)
EXTENDS OpenCode

CONSTANTS Id, OwnId, Prompts, Forks

ASSUME HeadlessAssumption ==
  /\ IsFiniteSet(Id) /\ OwnId \in Id
  /\ Prompts \in Nat
  /\ Forks \in BOOLEAN

VARIABLES engine, claude, file, grown, sess, kept, pc, turn, attempt, wording, stop,
          asked, refusals, forked

headless == <<claude, file, grown, sess, kept, pc, turn, attempt, wording, stop,
              asked, refusals, forked>>

H == INSTANCE Headless WITH child <- claude

EngineInit ==
  /\ engine \in {"opencode", "claude-headless"}
  /\ Init
  /\ H!Init

EngineNext ==
  \/ engine = "opencode" /\ Next /\ UNCHANGED <<engine, headless>>
  \/ engine = "claude-headless" /\ H!Next /\ UNCHANGED <<engine, vars>>

EngineSpec == EngineInit /\ [][EngineNext]_<<engine, vars, headless>> /\ Fairness

\* Headless!RefusalsMend: in a run, a child that claude refuses is followed by one it
\* takes.
RefusalsMend == H!RefusalsMend

\* Headless!PromptTakenOnce: claude is not given a prompt it has taken a second
\* time, unless it went on in another conversation unsaid.
PromptTakenOnce == H!PromptTakenOnce

\* Headless!StopSpawnsNothing: no child is spawned for a run told to stop.
StopSpawnsNothing == [][H!SpawnsNothing]_headless
============================================================================
