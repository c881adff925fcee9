---------------------------- MODULE Persistence ----------------------------
(***************************************************************************)
(* What outlives the process: config.json, written through a chain of      *)
(* saves (src/config.ts, persist() of src/server/supervisor.ts), and the   *)
(* history of runs and turns that the recorder feeds from the events of a  *)
(* run (src/db/recorder.ts, src/db/store.ts).  The process may crash       *)
(* between any two steps, a write of the file or of the database may fail. *)
(*                                                                         *)
(* The content of a configuration is its session ids and a version; rows   *)
(* that are only ever added and read (events, prompts, diffs) are left     *)
(* out, their failing write is not.  turns[i].by and runs[i].as name the   *)
(* run that really made the row: the code does not know them.              *)
(***************************************************************************)
EXTENDS Naturals, Sequences

CONSTANTS
  Session,
  InitLive,      \* sessions of the first config.json
  DoubleFaults,  \* a start may fail to be recorded after an end that did
  MaxVersion,    \* bound: changes of the configuration
  MaxRuns,       \* bound: rows of runs
  MaxRows,       \* bound: rows of turns and decisions
  Broken         \* a file that does not parse

ASSUME PersistenceAssumption ==
  /\ InitLive \subseteq Session /\ InitLive # {}
  /\ DoubleFaults \in BOOLEAN
  /\ MaxVersion \in Nat
  /\ MaxRuns \in Nat
  /\ MaxRows \in Nat

VARIABLES
  up,        \* the process runs
  live,      \* the sessions of the supervisor
  version,   \* changes of the configuration so far
  chain,     \* writeChain: the saves not yet begun, and the one in hand
  writer,    \* where the save in hand is
  file,      \* config.json
  loop,      \* sessions whose run is in its loop
  begun,     \* runs begun by each session
  runBySession,
  lastTurnBySession,
  runs,
  turns,
  decisions,
  restored   \* the last rollback: whose tree, to the snapshot of which turn

vars == <<up, live, version, chain, writer, file, loop, begun, runBySession,
          lastTurnBySession, runs, turns, decisions, restored>>

config == <<live, version, chain, writer, file>>
recorder == <<runBySession, lastTurnBySession>>
rows == <<runs, turns, decisions>>
history == <<loop, begun, recorder, rows, restored>>

Snapshot == [sessions : SUBSET Session, version : 0..MaxVersion]

Init ==
  /\ up = TRUE
  /\ live = InitLive
  /\ version = 0
  /\ chain = <<>>
  /\ writer = "idle"
  /\ file = [sessions |-> InitLive, version |-> 0]
  /\ loop = {}
  /\ begun = [s \in Session |-> 0]
  /\ runBySession = [s \in Session |-> 0]
  /\ lastTurnBySession = [s \in Session |-> 0]
  /\ runs = <<>>
  /\ turns = <<>>
  /\ decisions = <<>>
  /\ restored = <<>>

(***************************************************************************)
(* config.json.                                                            *)
(***************************************************************************)
\* persist(): what is saved is the configuration at the time of the call.
Persist(sessions) ==
  /\ version < MaxVersion
  /\ version' = version + 1
  /\ live' = sessions
  /\ chain' = Append(chain, [sessions |-> sessions, version |-> version + 1])
  /\ UNCHANGED <<writer, file>>

AddSession(s) ==
  /\ up
  /\ s \notin live
  /\ Persist(live \cup {s})
  /\ UNCHANGED <<up, history>>

RemoveSession(s) ==
  /\ up
  /\ s \in live
  /\ s \notin loop
  /\ Persist(live \ {s})
  /\ UNCHANGED <<up, history>>

\* An edit, or a new conversation id.
EditSession ==
  /\ up
  /\ Persist(live)
  /\ UNCHANGED <<up, history>>

\* A mutant: a save is written over config.json itself.
BeginWriteInPlace ==
  /\ up
  /\ writer = "idle"
  /\ chain # <<>>
  /\ writer' = "writing"
  /\ file' = Broken
  /\ UNCHANGED <<up, live, version, chain, history>>

\* writeFile() of config.json.tmp, which no one reads.
BeginWrite ==
  /\ up
  /\ writer = "idle"
  /\ chain # <<>>
  /\ writer' = "writing"
  /\ UNCHANGED <<up, live, version, chain, file, history>>

Rename ==
  /\ up
  /\ writer = "writing"
  /\ writer' = "idle"
  /\ file' = Head(chain)
  /\ chain' = Tail(chain)
  /\ UNCHANGED <<up, live, version, history>>

\* A mutant: a failed save ends the chain.
PoisonsChain ==
  /\ up
  /\ writer = "writing"
  /\ writer' = "poisoned"
  /\ chain' = Tail(chain)
  /\ UNCHANGED <<up, live, version, file, history>>

\* A save fails: the next one runs all the same.
WriteFails ==
  /\ up
  /\ writer = "writing"
  /\ writer' = "idle"
  /\ chain' = Tail(chain)
  /\ UNCHANGED <<up, live, version, file, history>>

(***************************************************************************)
(* The process.                                                            *)
(***************************************************************************)
Crash ==
  /\ up
  /\ up' = FALSE
  /\ live' = {}
  /\ chain' = <<>>
  /\ writer' = "idle"
  /\ loop' = {}
  /\ runBySession' = [s \in Session |-> 0]
  /\ lastTurnBySession' = [s \in Session |-> 0]
  /\ UNCHANGED <<version, file, begun, rows, restored>>

\* loadConfig() refuses a file it cannot parse, and one without sessions.
Boot ==
  /\ ~up
  /\ file # Broken
  /\ file.sessions # {}
  /\ up' = TRUE
  /\ live' = file.sessions
  /\ version' = file.version
  /\ UNCHANGED <<chain, writer, file, history>>

(***************************************************************************)
(* Recorder.record(), one event of a run at a time.  A statement that      *)
(* throws ends the handling of its event, and of its event only.           *)
(***************************************************************************)
\* A mutant: the run a session had is kept.
KeepsRun(s) ==
  /\ up /\ s \in live \ loop
  /\ Len(runs) < MaxRuns
  /\ loop' = loop \cup {s}
  /\ begun' = [begun EXCEPT ![s] = @ + 1]
  /\ runs' = Append(runs, [as |-> <<s, begun'[s]>>, open |-> TRUE])
  /\ runBySession' = [runBySession EXCEPT ![s] = IF @ = 0 THEN Len(runs') ELSE @]
  /\ lastTurnBySession' = [lastTurnBySession EXCEPT ![s] = 0]
  /\ UNCHANGED <<up, config, turns, decisions, restored>>

RecordStart(s) ==
  /\ up /\ s \in live \ loop
  /\ Len(runs) < MaxRuns
  /\ loop' = loop \cup {s}
  /\ begun' = [begun EXCEPT ![s] = @ + 1]
  /\ runs' = Append(runs, [as |-> <<s, begun'[s]>>, open |-> TRUE])
  /\ runBySession' = [runBySession EXCEPT ![s] = Len(runs')]
  /\ lastTurnBySession' = [lastTurnBySession EXCEPT ![s] = 0]
  /\ UNCHANGED <<up, config, turns, decisions, restored>>

\* Nothing of this run is recorded, unless the run before it is still mapped.
LoseStart(s) ==
  /\ DoubleFaults \/ runBySession[s] = 0
  /\ up /\ s \in live \ loop
  /\ begun[s] < MaxRuns
  /\ loop' = loop \cup {s}
  /\ begun' = [begun EXCEPT ![s] = @ + 1]
  /\ UNCHANGED <<up, config, recorder, rows, restored>>

\* The row of a turn carries the snapshot of the tree after it.
RecordTurn(s) ==
  /\ s \in loop
  /\ runBySession[s] # 0
  /\ Len(turns) + Len(decisions) < MaxRows
  /\ turns' = Append(turns, [run |-> runBySession[s], by |-> <<s, begun[s]>>])
  /\ lastTurnBySession' = [lastTurnBySession EXCEPT ![s] = Len(turns')]
  /\ UNCHANGED <<up, config, loop, begun, runBySession, runs, decisions, restored>>

\* A decision hangs on the last turn that was recorded; before the first turn
\* of its run it is dropped.
RecordDecision(s) ==
  /\ s \in loop
  /\ lastTurnBySession[s] # 0
  /\ Len(turns) + Len(decisions) < MaxRows
  /\ decisions' = Append(decisions, [turn |-> lastTurnBySession[s], by |-> <<s, begun[s]>>])
  /\ UNCHANGED <<up, config, loop, begun, recorder, runs, turns, restored>>

\* cleanup(), or its absence when a statement before it has thrown.
Cleaned(s, cleaned) ==
  IF cleaned
    THEN /\ runBySession' = [runBySession EXCEPT ![s] = 0]
         /\ lastTurnBySession' = [lastTurnBySession EXCEPT ![s] = 0]
    ELSE UNCHANGED recorder

\* The stop or error event: endRun() first, the event row, then cleanup().
RecordEnd(s) ==
  /\ s \in loop
  /\ loop' = loop \ {s}
  /\ \/ /\ runBySession[s] # 0
        /\ runs' = [runs EXCEPT ![runBySession[s]].open = FALSE]
        /\ \E cleaned \in BOOLEAN : Cleaned(s, cleaned)
     \/ /\ runBySession[s] # 0
        /\ UNCHANGED runs
        /\ Cleaned(s, FALSE)
     \/ /\ runBySession[s] = 0
        /\ UNCHANGED runs
        /\ Cleaned(s, TRUE)
  /\ UNCHANGED <<up, config, begun, turns, decisions, restored>>

\* rollback(): only to a snapshot recorded for a run of this session.
Rollback(s, i) ==
  /\ up /\ s \in live \ loop
  /\ runs[turns[i].run].as[1] = s
  /\ restored' = <<s, i>>
  /\ UNCHANGED <<up, config, loop, begun, recorder, rows>>

ConfigSteps ==
  \/ EditSession
  \/ BeginWrite
  \/ Rename
  \/ WriteFails
  \/ \E s \in Session : AddSession(s) \/ RemoveSession(s)

HistorySteps(s) ==
  \/ RecordStart(s)
  \/ LoseStart(s)
  \/ RecordTurn(s)
  \/ RecordDecision(s)
  \/ RecordEnd(s)
  \/ \E i \in DOMAIN turns : Rollback(s, i)

Next == ConfigSteps \/ Crash \/ Boot \/ \E s \in Session : HistorySteps(s)

Spec == Init /\ [][Next]_vars

\* The chain of saves goes on as long as the process does.
FairSpec == Spec /\ WF_vars(BeginWrite) /\ WF_vars(Rename)

(***************************************************************************)
(* Properties.                                                             *)
(***************************************************************************)
TypeOK ==
  /\ up \in BOOLEAN
  /\ live \subseteq Session
  /\ version \in 0..MaxVersion
  /\ chain \in Seq(Snapshot)
  /\ writer \in {"idle", "writing"}
  /\ file \in Snapshot \cup {Broken}
  /\ loop \subseteq Session
  /\ begun \in [Session -> Nat]
  /\ runBySession \in [Session -> 0..Len(runs)]
  /\ lastTurnBySession \in [Session -> 0..Len(turns)]
  /\ runs \in Seq([as : Session \X Nat, open : BOOLEAN])
  /\ turns \in Seq([run : 1..Len(runs), by : Session \X Nat])
  /\ decisions \in Seq([turn : 1..Len(turns), by : Session \X Nat])
  /\ restored \in {<<>>} \cup Session \X (1..Len(turns))

\* Wherever the process dies, config.json is one whole save, and none that is
\* still to be written is older than it.
FileIsASave ==
  /\ file \in Snapshot
  /\ \A i \in DOMAIN chain : file.version < chain[i].version

\* Every save in the chain has its turn, with those before it done or failed:
\* it is the last one asked for that config.json ends up with.
SavesLand == up /\ chain # <<>> ~> ~up \/ chain = <<>>

\* The history tells whose turn was whose, over failing statements, crashes and
\* restarts, and a rollback takes a session back to a state of its own making.
TurnsBelong ==
  /\ \A i \in DOMAIN turns : runs[turns[i].run].as = turns[i].by
  /\ \A i \in DOMAIN decisions : turns[decisions[i].turn].by = decisions[i].by
  /\ restored # <<>> => turns[restored[2]].by[1] = restored[1]
=============================================================================
