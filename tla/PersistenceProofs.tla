------------------------- MODULE PersistenceProofs -------------------------
(***************************************************************************)
(* Theorems about Persistence: for every number of sessions, saves, runs   *)
(* and rows, and wherever the process crashes.                             *)
(***************************************************************************)
EXTENDS Persistence, SequenceTheorems, TLAPS

(***************************************************************************)
(* config.json.                                                            *)
(***************************************************************************)
ConfigTyped ==
  /\ up \in BOOLEAN
  /\ live \subseteq Session
  /\ version \in 0..MaxVersion
  /\ chain \in Seq(Snapshot)
  /\ file \in Snapshot

\* The saves in the chain are newer than config.json, each newer than those
\* before it, and none is newer than the configuration.
ChainAscends ==
  /\ file.version <= version
  /\ \A i \in DOMAIN chain : file.version < chain[i].version /\ chain[i].version <= version
  /\ \A i, j \in DOMAIN chain : i < j => chain[i].version < chain[j].version

SaveInv ==
  /\ ConfigTyped
  /\ ChainAscends
  /\ writer = "writing" => chain # <<>>
  /\ ~up => chain = <<>>

LEMMA SaveInit == Init => SaveInv
<1> SUFFICES ASSUME Init PROVE SaveInv
  OBVIOUS
<1>1. MaxVersion \in Nat /\ InitLive \subseteq Session
  BY PersistenceAssumption
<1>2. chain \in Seq(Snapshot) /\ DOMAIN chain = {}
  BY EmptySeq DEF Init
<1>3. file \in Snapshot /\ file.version = 0 /\ version = 0
  BY <1>1 DEF Init, Snapshot
<1>4. ConfigTyped
  BY <1>1, <1>2, <1>3 DEF Init, ConfigTyped
<1>5. ChainAscends
  BY <1>2, <1>3 DEF ChainAscends
<1> QED
  BY <1>4, <1>5 DEF Init, SaveInv

LEMMA PersistKeeps ==
  ASSUME SaveInv, up, NEW sessions \in SUBSET Session, Persist(sessions), UNCHANGED up
  PROVE  SaveInv'
<1> DEFINE save == [sessions |-> sessions, version |-> version + 1]
<1> USE DEF SaveInv, ConfigTyped
<1>1. MaxVersion \in Nat
  BY PersistenceAssumption
<1>2. version' = version + 1 /\ version' \in 0..MaxVersion /\ version \in Nat
  BY <1>1 DEF Persist
<1>3. save \in Snapshot /\ save.version = version'
  BY <1>2 DEF Snapshot
<1> HIDE DEF save
<1>4. chain' = Append(chain, save)
  BY Zenon DEF Persist, save
<1>5. /\ chain' \in Seq(Snapshot)
      /\ Len(chain') = Len(chain) + 1
      /\ \A i \in 1..Len(chain) : chain'[i] = chain[i]
      /\ chain'[Len(chain) + 1] = save
  BY <1>3, <1>4, AppendProperties
<1>6. /\ Len(chain) \in Nat
      /\ DOMAIN chain = 1..Len(chain)
      /\ DOMAIN chain' = 1..Len(chain) + 1
  BY <1>5, LenProperties
<1>7. file' = file /\ writer' = writer /\ live' \subseteq Session
  BY DEF Persist
<1>8. file.version \in Nat /\ \A i \in DOMAIN chain : chain[i].version \in Nat
  <2>1. \A i \in DOMAIN chain : chain[i] \in Snapshot
    BY <1>6, ElementOfSeq
  <2>2. \A v \in Snapshot : v.version \in Nat
    BY <1>1 DEF Snapshot
  <2> QED
    BY <2>1, <2>2
<1>9. ChainAscends'
  <2>1. file'.version <= version'
    BY <1>2, <1>7, <1>8 DEF ChainAscends
  <2>2. \A i \in DOMAIN chain' :
          file'.version < chain'[i].version /\ chain'[i].version <= version'
    <3> SUFFICES ASSUME NEW i \in 1..Len(chain) + 1
                 PROVE  file.version < chain'[i].version /\ chain'[i].version <= version'
      BY <1>6, <1>7
    <3>1. CASE i = Len(chain) + 1
      BY <1>2, <1>3, <1>5, <1>8, <3>1 DEF ChainAscends
    <3>2. CASE i # Len(chain) + 1
      <4>1. i \in DOMAIN chain /\ chain'[i] = chain[i]
        BY <1>5, <1>6, <3>2
      <4>2. file.version < chain[i].version /\ chain[i].version <= version
        BY <4>1 DEF ChainAscends
      <4> QED
        BY <1>2, <1>8, <4>1, <4>2
    <3> QED
      BY <3>1, <3>2
  <2>3. \A i, j \in DOMAIN chain' : i < j => chain'[i].version < chain'[j].version
    <3> SUFFICES ASSUME NEW i \in 1..Len(chain) + 1, NEW j \in 1..Len(chain) + 1, i < j
                 PROVE  chain'[i].version < chain'[j].version
      BY <1>6
    <3>1. i \in DOMAIN chain /\ chain'[i] = chain[i]
      BY <1>5, <1>6
    <3>2. CASE j = Len(chain) + 1
      <4>1. chain[i].version <= version
        BY <3>1 DEF ChainAscends
      <4>2. chain'[j].version = version + 1
        BY <1>2, <1>3, <1>5, <3>2
      <4> QED
        BY <1>2, <1>8, <3>1, <4>1, <4>2
    <3>3. CASE j # Len(chain) + 1
      <4>1. j \in DOMAIN chain /\ chain'[j] = chain[j]
        BY <1>5, <1>6, <3>3
      <4> QED
        BY <3>1, <4>1 DEF ChainAscends
    <3> QED
      BY <3>2, <3>3
  <2> QED
    BY <2>1, <2>2, <2>3 DEF ChainAscends
<1>10. chain' # <<>>
  BY <1>5, <1>6, EmptySeq
<1> QED
  BY <1>2, <1>5, <1>7, <1>9, <1>10

\* The save in hand is done, or has failed.
LEMMA TailKeeps ==
  ASSUME SaveInv, up, writer = "writing", UNCHANGED <<up, live, version>>,
         writer' = "idle", chain' = Tail(chain), file' = Head(chain) \/ file' = file
  PROVE  SaveInv'
<1> USE DEF SaveInv, ConfigTyped
<1>1. chain \in Seq(Snapshot) /\ chain # <<>>
  OBVIOUS
<1>2. /\ Head(chain) \in Snapshot /\ Head(chain) = chain[1]
      /\ Tail(chain) \in Seq(Snapshot)
      /\ Len(Tail(chain)) = Len(chain) - 1
      /\ \A i \in 1..Len(Tail(chain)) : Tail(chain)[i] = chain[i + 1]
  BY <1>1, HeadTailProperties
<1>3. /\ Len(chain) \in Nat \ {0}
      /\ DOMAIN chain = 1..Len(chain)
      /\ DOMAIN Tail(chain) = 1..Len(chain) - 1
  BY <1>1, <1>2, LenProperties, EmptySeq
<1>4. \A i \in DOMAIN chain' : i + 1 \in DOMAIN chain /\ chain'[i] = chain[i + 1]
  BY <1>2, <1>3
<1>5. 1 \in DOMAIN chain /\ \A i \in DOMAIN chain' : 1 < i + 1
  BY <1>3
<1>6. file'.version <= version'
  BY <1>2, <1>5 DEF ChainAscends
<1>7. \A i \in DOMAIN chain' :
        file'.version < chain'[i].version /\ chain'[i].version <= version'
  BY <1>2, <1>4, <1>5 DEF ChainAscends
<1>8. \A i, j \in DOMAIN chain' : i < j => chain'[i].version < chain'[j].version
  <2> SUFFICES ASSUME NEW i \in DOMAIN chain', NEW j \in DOMAIN chain', i < j
               PROVE  chain'[i].version < chain'[j].version
    OBVIOUS
  <2>1. i + 1 < j + 1
    BY <1>3
  <2> QED
    BY <1>4, <2>1 DEF ChainAscends
<1> QED
  BY <1>2, <1>6, <1>7, <1>8 DEF ChainAscends

LEMMA SaveKept == SaveInv /\ [Next]_vars => SaveInv'
<1> SUFFICES ASSUME SaveInv, [Next]_vars PROVE SaveInv'
  OBVIOUS
<1>1. CASE UNCHANGED <<up, config>>
  BY <1>1 DEF config, SaveInv, ConfigTyped, ChainAscends
<1>2. ASSUME NEW s \in Session, AddSession(s) \/ RemoveSession(s) PROVE SaveInv'
  <2>1. PICK sessions \in SUBSET Session : Persist(sessions)
    BY <1>2 DEF AddSession, RemoveSession, SaveInv, ConfigTyped
  <2> QED
    BY <1>2, <2>1, PersistKeeps DEF AddSession, RemoveSession
<1>3. CASE EditSession
  BY <1>3, PersistKeeps DEF EditSession, SaveInv, ConfigTyped
<1>4. CASE BeginWrite
  BY <1>4 DEF BeginWrite, SaveInv, ConfigTyped, ChainAscends
<1>5. CASE Rename
  BY <1>5, TailKeeps DEF Rename
<1>6. CASE WriteFails
  BY <1>6, TailKeeps DEF WriteFails
<1>7. CASE Crash
  <2>1. chain' \in Seq(Snapshot) /\ DOMAIN chain' = {}
    BY <1>7, EmptySeq DEF Crash
  <2> QED
    BY <1>7, <2>1 DEF Crash, SaveInv, ConfigTyped, ChainAscends
<1>8. CASE Boot
  <2>1. /\ file.sessions \subseteq Session
        /\ file.version \in 0..MaxVersion
        /\ file.version <= file.version
    BY PersistenceAssumption DEF SaveInv, ConfigTyped, Snapshot
  <2>2. chain = <<>> /\ DOMAIN chain = {}
    BY <1>8, EmptySeq DEF Boot, SaveInv
  <2> QED
    BY <1>8, <2>1, <2>2 DEF Boot, SaveInv, ConfigTyped, ChainAscends
<1>9. ASSUME NEW s \in Session, HistorySteps(s) PROVE UNCHANGED <<up, config>>
  BY <1>9 DEF HistorySteps, RecordStart, LoseStart, RecordTurn, RecordDecision, RecordEnd,
              Rollback
<1> QED
  BY <1>1, <1>2, <1>3, <1>4, <1>5, <1>6, <1>7, <1>8, <1>9 DEF Next, ConfigSteps, vars, config

\* Wherever the process dies, config.json is one whole save, and older than
\* whatever is still to be written.
THEOREM FileIsWhole == Spec => []FileIsASave
<1>1. SaveInv => FileIsASave
  BY DEF SaveInv, ConfigTyped, ChainAscends, FileIsASave
<1> QED
  BY <1>1, SaveInit, SaveKept, PTL DEF Spec

(***************************************************************************)
(* The history.                                                            *)
(***************************************************************************)
RunRow == [as : Session \X Nat, open : BOOLEAN]

HistoryTyped ==
  /\ loop \subseteq Session
  /\ begun \in [Session -> Nat]
  /\ runs \in Seq(RunRow)
  /\ runBySession \in [Session -> 0..Len(runs)]
  /\ lastTurnBySession \in [Session -> 0..Len(turns)]
  /\ turns \in Seq([run : 1..Len(runs), by : Session \X Nat])
  /\ decisions \in Seq([turn : 1..Len(turns), by : Session \X Nat])
  /\ restored \in {<<>>} \cup Session \X (1..Len(turns))

\* What the recorder maps a session in its loop to is the run that is really
\* in hand; a session is mapped to a turn only beside a run.
MapsOwnRun ==
  /\ \A s \in loop :
       /\ runBySession[s] # 0 => runs[runBySession[s]].as = <<s, begun[s]>>
       /\ lastTurnBySession[s] # 0 => turns[lastTurnBySession[s]].by = <<s, begun[s]>>
  /\ \A s \in Session : lastTurnBySession[s] # 0 => runBySession[s] # 0

HistoryInv == HistoryTyped /\ MapsOwnRun /\ TurnsBelong

LEMMA HistoryInit == Init => HistoryInv
<1> SUFFICES ASSUME Init PROVE HistoryInv
  OBVIOUS
<1>1. /\ runs = <<>> /\ turns = <<>> /\ decisions = <<>> /\ loop = {} /\ restored = <<>>
      /\ \A s \in Session : runBySession[s] = 0 /\ lastTurnBySession[s] = 0
  BY DEF Init
<1>2. \A S : <<>> \in Seq(S)
  OBVIOUS
<1>3. Len(<<>>) = 0 /\ DOMAIN <<>> = {}
  BY EmptySeq
<1>4. HistoryTyped
  <2>1. begun \in [Session -> Nat]
    BY DEF Init
  <2>2. runBySession \in [Session -> 0..0] /\ lastTurnBySession \in [Session -> 0..0]
    BY DEF Init
  <2> QED
    BY <1>1, <1>2, <1>3, <2>1, <2>2 DEF HistoryTyped
<1> QED
  BY <1>1, <1>3, <1>4 DEF HistoryInv, MapsOwnRun, TurnsBelong

\* A row that is appended leaves the others where they are.
LEMMA AppendRow ==
  ASSUME NEW S, NEW rows0 \in Seq(S), NEW T, S \subseteq T, NEW row \in T
  PROVE  /\ Append(rows0, row) \in Seq(T)
         /\ Len(Append(rows0, row)) = Len(rows0) + 1
         /\ Len(rows0) \in Nat
         /\ DOMAIN rows0 = 1..Len(rows0)
         /\ DOMAIN Append(rows0, row) = 1..Len(rows0) + 1
         /\ \A i \in 1..Len(rows0) : Append(rows0, row)[i] = rows0[i]
         /\ Append(rows0, row)[Len(rows0) + 1] = row
<1>1. rows0 \in Seq(T)
  BY SeqDef
<1>2. /\ Append(rows0, row) \in Seq(T)
      /\ Len(Append(rows0, row)) = Len(rows0) + 1
      /\ \A i \in 1..Len(rows0) : Append(rows0, row)[i] = rows0[i]
      /\ Append(rows0, row)[Len(rows0) + 1] = row
  BY <1>1, AppendProperties
<1> QED
  BY <1>1, <1>2, LenProperties

LEMMA RowsWiden ==
  ASSUME NEW S, NEW T, S \subseteq T, NEW rows0 \in Seq(S)
  PROVE  rows0 \in Seq(T)
BY SeqDef

LEMMA RowTypes ==
  ASSUME HistoryTyped
  PROVE  /\ \A i \in DOMAIN runs : runs[i] \in RunRow
         /\ \A i \in DOMAIN turns :
              turns[i] \in [run : 1..Len(runs), by : Session \X Nat]
         /\ \A i \in DOMAIN decisions :
              decisions[i] \in [turn : 1..Len(turns), by : Session \X Nat]
         /\ DOMAIN runs = 1..Len(runs) /\ Len(runs) \in Nat
         /\ DOMAIN turns = 1..Len(turns) /\ Len(turns) \in Nat
BY ElementOfSeq, LenProperties DEF HistoryTyped

LEMMA StartKeeps ==
  ASSUME HistoryInv, NEW s \in Session, RecordStart(s) PROVE HistoryInv'
<1> USE DEF HistoryInv
<1> DEFINE row == [as |-> <<s, begun'[s]>>, open |-> TRUE]
<1>1. begun' = [begun EXCEPT ![s] = @ + 1]
  BY DEF RecordStart
<1>2. begun'[s] \in Nat /\ begun' \in [Session -> Nat]
  BY <1>1 DEF HistoryTyped
<1>3. row \in RunRow
  BY <1>2 DEF RunRow
<1>4. row.as = <<s, begun'[s]>>
  OBVIOUS
<1>5. runs' = Append(runs, row)
  BY Zenon DEF RecordStart
<1> HIDE DEF row
<1>6. /\ runs' \in Seq(RunRow)
      /\ Len(runs') = Len(runs) + 1
      /\ Len(runs) \in Nat
      /\ \A i \in 1..Len(runs) : runs'[i] = runs[i]
      /\ runs'[Len(runs')] = row
  BY <1>3, <1>5, AppendRow DEF HistoryTyped
<1>7. /\ runBySession' = [runBySession EXCEPT ![s] = Len(runs')]
      /\ lastTurnBySession' = [lastTurnBySession EXCEPT ![s] = 0]
      /\ loop' = loop \cup {s}
      /\ UNCHANGED <<turns, decisions, restored>>
  BY DEF RecordStart
<1>8. HistoryTyped'
  <2>1. runBySession' \in [Session -> 0..Len(runs')]
    BY <1>6, <1>7 DEF HistoryTyped
  <2>2. lastTurnBySession' \in [Session -> 0..Len(turns')]
    BY <1>7, RowTypes DEF HistoryTyped
  <2>3. 1..Len(runs) \subseteq 1..Len(runs')
    BY <1>6
  <2> DEFINE Old == [run : 1..Len(runs), by : Session \X Nat]
             New == [run : 1..Len(runs'), by : Session \X Nat]
  <2>4. Old \subseteq New
    BY <2>3
  <2>5. turns \in Seq(Old)
    BY DEF HistoryTyped
  <2>6. turns \in Seq(New)
    <3> HIDE DEF Old, New
    <3> QED
      BY <2>4, <2>5, RowsWiden
  <2> QED
    BY <1>2, <1>6, <1>7, <2>1, <2>2, <2>6 DEF HistoryTyped
<1>9. MapsOwnRun'
  <2>1. /\ runBySession'[s] = Len(runs') /\ lastTurnBySession'[s] = 0
        /\ \A q \in Session \ {s} : /\ runBySession'[q] = runBySession[q]
                                    /\ lastTurnBySession'[q] = lastTurnBySession[q]
                                    /\ begun'[q] = begun[q]
    BY <1>1, <1>7 DEF HistoryTyped
  <2>2. Len(runs') # 0 /\ runs'[runBySession'[s]].as = <<s, begun'[s]>>
    BY <1>4, <1>6, <2>1
  <2>3. ASSUME NEW q \in loop \ {s}, runBySession[q] # 0
        PROVE  runs'[runBySession[q]] = runs[runBySession[q]]
    <3>1. runBySession[q] \in 1..Len(runs)
      BY <2>3, <1>6 DEF HistoryTyped
    <3> QED
      BY <1>6, <3>1
  <2>4. ASSUME NEW q \in loop \ {s}
        PROVE  /\ runBySession'[q] # 0 => runs'[runBySession'[q]].as = <<q, begun'[q]>>
               /\ lastTurnBySession'[q] # 0
                    => turns[lastTurnBySession'[q]].by = <<q, begun'[q]>>
    <3>1. q \in Session \ {s}
      BY DEF HistoryTyped
    <3>2. /\ runBySession'[q] = runBySession[q]
          /\ lastTurnBySession'[q] = lastTurnBySession[q]
          /\ begun'[q] = begun[q]
      BY <2>1, <3>1
    <3>3. /\ runBySession[q] # 0 => runs[runBySession[q]].as = <<q, begun[q]>>
          /\ lastTurnBySession[q] # 0 => turns[lastTurnBySession[q]].by = <<q, begun[q]>>
      BY <2>4 DEF MapsOwnRun
    <3> QED
      BY <2>3, <2>4, <3>2, <3>3
  <2>5. \A q \in Session : lastTurnBySession'[q] # 0 => runBySession'[q] # 0
    BY <2>1, <2>2 DEF MapsOwnRun
  <2> QED
    BY <1>7, <2>1, <2>2, <2>4, <2>5 DEF MapsOwnRun
<1>10. TurnsBelong'
  <2>1. \A i \in DOMAIN turns : runs'[turns[i].run] = runs[turns[i].run]
    BY <1>6, RowTypes
  <2> QED
    BY <1>7, <2>1 DEF TurnsBelong
<1> QED
  BY <1>8, <1>9, <1>10

LEMMA LoseKeeps ==
  ASSUME HistoryInv, ~DoubleFaults, NEW s \in Session, LoseStart(s) PROVE HistoryInv'
<1> USE DEF HistoryInv
<1>1. /\ runBySession[s] = 0
      /\ lastTurnBySession[s] = 0
      /\ loop' = loop \cup {s}
      /\ begun' = [begun EXCEPT ![s] = @ + 1]
      /\ UNCHANGED <<recorder, rows, restored>>
  BY DEF LoseStart, MapsOwnRun
<1>2. begun' \in [Session -> Nat] /\ \A q \in Session \ {s} : begun'[q] = begun[q]
  <2>1. begun[s] + 1 \in Nat
    BY DEF HistoryTyped
  <2> QED
    BY <1>1, <2>1 DEF HistoryTyped
<1>3. HistoryTyped'
  BY <1>1, <1>2 DEF HistoryTyped, recorder, rows
<1>4. MapsOwnRun'
  BY <1>1, <1>2 DEF MapsOwnRun, HistoryTyped, recorder, rows
<1>5. TurnsBelong'
  BY <1>1 DEF TurnsBelong, rows
<1> QED
  BY <1>3, <1>4, <1>5

LEMMA TurnKeeps ==
  ASSUME HistoryInv, NEW s \in Session, RecordTurn(s) PROVE HistoryInv'
<1> USE DEF HistoryInv
<1> DEFINE row == [run |-> runBySession[s], by |-> <<s, begun[s]>>]
           Row == [run : 1..Len(runs), by : Session \X Nat]
<1>1. Len(runs) \in Nat /\ Len(turns) \in Nat /\ begun[s] \in Nat
  BY RowTypes DEF HistoryTyped
<1>2. runBySession[s] \in 1..Len(runs)
  BY <1>1 DEF RecordTurn, HistoryTyped
<1>3. row \in Row /\ row.run = runBySession[s] /\ row.by = <<s, begun[s]>>
  BY <1>1, <1>2
<1>4. turns \in Seq(Row)
  BY DEF HistoryTyped
<1>5. turns' = Append(turns, row)
  BY Zenon DEF RecordTurn
<1>6. /\ lastTurnBySession' = [lastTurnBySession EXCEPT ![s] = Len(turns')]
      /\ s \in loop
      /\ UNCHANGED <<loop, begun, runBySession, runs, decisions, restored>>
  BY DEF RecordTurn
<1> HIDE DEF row, Row
<1>7. /\ turns' \in Seq(Row)
      /\ Len(turns') = Len(turns) + 1
      /\ DOMAIN turns' = 1..Len(turns) + 1
      /\ \A i \in 1..Len(turns) : turns'[i] = turns[i]
      /\ turns'[Len(turns')] = row
  BY <1>3, <1>4, <1>5, AppendRow
<1>8. 1..Len(turns) \subseteq 1..Len(turns') /\ 0..Len(turns) \subseteq 0..Len(turns')
  BY <1>1, <1>7
<1>9. HistoryTyped'
  <2>1. lastTurnBySession' \in [Session -> 0..Len(turns')]
    BY <1>1, <1>6, <1>7, <1>8 DEF HistoryTyped
  <2> DEFINE Old == [turn : 1..Len(turns), by : Session \X Nat]
             New == [turn : 1..Len(turns'), by : Session \X Nat]
  <2>2. Old \subseteq New
    BY <1>8
  <2>3. decisions \in Seq(Old)
    BY DEF HistoryTyped
  <2>4. decisions \in Seq(New)
    <3> HIDE DEF Old, New
    <3> QED
      BY <2>2, <2>3, RowsWiden
  <2>5. restored \in {<<>>} \cup Session \X (1..Len(turns'))
    BY <1>8 DEF HistoryTyped
  <2>6. turns' \in Seq([run : 1..Len(runs'), by : Session \X Nat])
    BY <1>6, <1>7 DEF Row
  <2> QED
    BY <1>6, <2>1, <2>4, <2>5, <2>6 DEF HistoryTyped
<1>10. MapsOwnRun'
  <2>1. /\ lastTurnBySession'[s] = Len(turns')
        /\ \A q \in Session \ {s} : lastTurnBySession'[q] = lastTurnBySession[q]
    BY <1>6 DEF HistoryTyped
  <2>2. turns'[lastTurnBySession'[s]].by = <<s, begun[s]>>
    BY <1>3, <1>7, <2>1
  <2>3. runBySession[s] # 0
    BY DEF RecordTurn
  <2>4. ASSUME NEW q \in loop \ {s}, lastTurnBySession[q] # 0
        PROVE  turns'[lastTurnBySession[q]].by = <<q, begun[q]>>
    <3>1. lastTurnBySession[q] \in 1..Len(turns)
      BY <1>1, <2>4 DEF HistoryTyped
    <3> QED
      BY <1>7, <2>4, <3>1 DEF MapsOwnRun
  <2>5. \A q \in loop : q # s => q \in Session \ {s}
    BY DEF HistoryTyped
  <2>6. \A q \in Session : lastTurnBySession'[q] # 0 => runBySession[q] # 0
    BY <2>1, <2>3 DEF MapsOwnRun
  <2>7. ASSUME NEW q \in loop, lastTurnBySession'[q] # 0
        PROVE  turns'[lastTurnBySession'[q]].by = <<q, begun[q]>>
    BY <2>1, <2>2, <2>4, <2>5, <2>7
  <2> QED
    BY <1>6, <2>6, <2>7 DEF MapsOwnRun
<1>11. TurnsBelong'
  <2>1. \A i \in DOMAIN turns' : runs[turns'[i].run].as = turns'[i].by
    <3> SUFFICES ASSUME NEW i \in 1..Len(turns) + 1
                 PROVE  runs[turns'[i].run].as = turns'[i].by
      BY <1>7
    <3>1. CASE i = Len(turns) + 1
      <4>1. turns'[i] = row
        BY <1>7, <3>1
      <4>2. runs[runBySession[s]].as = <<s, begun[s]>>
        BY <1>6 DEF MapsOwnRun, RecordTurn
      <4> QED
        BY <1>3, <4>1, <4>2
    <3>2. CASE i # Len(turns) + 1
      <4>1. i \in DOMAIN turns /\ turns'[i] = turns[i]
        BY <1>1, <1>7, <3>2, RowTypes
      <4> QED
        BY <4>1 DEF TurnsBelong
    <3> QED
      BY <3>1, <3>2
  <2>2. \A i \in DOMAIN decisions : turns'[decisions[i].turn].by = decisions[i].by
    <3> SUFFICES ASSUME NEW i \in DOMAIN decisions
                 PROVE  turns'[decisions[i].turn].by = decisions[i].by
      OBVIOUS
    <3>1. decisions[i].turn \in 1..Len(turns)
      BY RowTypes
    <3> QED
      BY <1>7, <3>1 DEF TurnsBelong
  <2>3. restored # <<>> => turns'[restored[2]].by[1] = restored[1]
    <3> SUFFICES ASSUME restored # <<>> PROVE turns'[restored[2]].by[1] = restored[1]
      OBVIOUS
    <3>1. restored \in Session \X (1..Len(turns))
      BY DEF HistoryTyped
    <3>2. restored[2] \in 1..Len(turns)
      BY <3>1
    <3> QED
      BY <1>7, <3>2 DEF TurnsBelong
  <2> QED
    BY <1>6, <2>1, <2>2, <2>3 DEF TurnsBelong
<1> QED
  BY <1>9, <1>10, <1>11

LEMMA DecisionKeeps ==
  ASSUME HistoryInv, NEW s \in Session, RecordDecision(s) PROVE HistoryInv'
<1> USE DEF HistoryInv
<1> DEFINE row == [turn |-> lastTurnBySession[s], by |-> <<s, begun[s]>>]
           Row == [turn : 1..Len(turns), by : Session \X Nat]
<1>1. Len(turns) \in Nat /\ begun[s] \in Nat
  BY RowTypes DEF HistoryTyped
<1>2. lastTurnBySession[s] \in 1..Len(turns)
  BY <1>1 DEF RecordDecision, HistoryTyped
<1>3. row \in Row /\ row.turn = lastTurnBySession[s] /\ row.by = <<s, begun[s]>>
  BY <1>1, <1>2
<1>4. decisions \in Seq(Row)
  BY DEF HistoryTyped
<1>5. decisions' = Append(decisions, row)
  BY Zenon DEF RecordDecision
<1>6. s \in loop /\ UNCHANGED <<loop, begun, recorder, runs, turns, restored>>
  BY DEF RecordDecision
<1> HIDE DEF row, Row
<1>7. /\ decisions' \in Seq(Row)
      /\ Len(decisions) \in Nat
      /\ DOMAIN decisions = 1..Len(decisions)
      /\ DOMAIN decisions' = 1..Len(decisions) + 1
      /\ \A i \in 1..Len(decisions) : decisions'[i] = decisions[i]
      /\ decisions'[Len(decisions) + 1] = row
  BY <1>3, <1>4, <1>5, AppendRow
<1>8. decisions' \in Seq([turn : 1..Len(turns'), by : Session \X Nat])
  BY <1>6, <1>7 DEF Row
<1>9. HistoryTyped'
  BY <1>6, <1>8 DEF HistoryTyped, recorder
<1>10. MapsOwnRun'
  BY <1>6 DEF MapsOwnRun, recorder
<1>11. ASSUME NEW i \in 1..Len(decisions) + 1
       PROVE  turns[decisions'[i].turn].by = decisions'[i].by
  <2>1. CASE i = Len(decisions) + 1
    <3>1. decisions'[i] = row
      BY <1>7, <2>1
    <3>2. turns[lastTurnBySession[s]].by = <<s, begun[s]>>
      BY <1>6 DEF MapsOwnRun, RecordDecision
    <3> QED
      BY <1>3, <3>1, <3>2
  <2>2. CASE i # Len(decisions) + 1
    <3>1. i \in DOMAIN decisions /\ decisions'[i] = decisions[i]
      BY <1>7, <2>2
    <3> QED
      BY <3>1 DEF TurnsBelong
  <2> QED
    BY <2>1, <2>2
<1>12. TurnsBelong'
  BY <1>6, <1>7, <1>11 DEF TurnsBelong
<1> QED
  BY <1>9, <1>10, <1>12

\* A session is mapped to what it was or, run and turn together, to nothing.
LEMMA CleanedEffect ==
  ASSUME HistoryTyped, NEW s \in Session, NEW c \in BOOLEAN, Cleaned(s, c)
  PROVE  /\ runBySession' \in [Session -> 0..Len(runs)]
         /\ lastTurnBySession' \in [Session -> 0..Len(turns)]
         /\ \A q \in Session : \/ /\ runBySession'[q] = runBySession[q]
                                  /\ lastTurnBySession'[q] = lastTurnBySession[q]
                               \/ runBySession'[q] = 0 /\ lastTurnBySession'[q] = 0
<1>1. 0 \in 0..Len(runs) /\ 0 \in 0..Len(turns)
  BY RowTypes
<1>2. CASE c
  BY <1>1, <1>2 DEF Cleaned, HistoryTyped
<1>3. CASE ~c
  BY <1>3 DEF Cleaned, HistoryTyped, recorder
<1> QED
  BY <1>2, <1>3

LEMMA EndKeeps ==
  ASSUME HistoryInv, NEW s \in Session, RecordEnd(s) PROVE HistoryInv'
<1> USE DEF HistoryInv
<1>1. /\ loop' = loop \ {s}
      /\ UNCHANGED <<begun, turns, decisions, restored>>
  BY DEF RecordEnd
<1>2. PICK c \in BOOLEAN : Cleaned(s, c)
  BY DEF RecordEnd
<1>3. /\ runBySession' \in [Session -> 0..Len(runs)]
      /\ lastTurnBySession' \in [Session -> 0..Len(turns)]
      /\ \A q \in Session : \/ /\ runBySession'[q] = runBySession[q]
                               /\ lastTurnBySession'[q] = lastTurnBySession[q]
                            \/ runBySession'[q] = 0 /\ lastTurnBySession'[q] = 0
  BY <1>2, CleanedEffect
<1>4. /\ runs' \in Seq(RunRow)
      /\ Len(runs') = Len(runs)
      /\ \A i \in 1..Len(runs) : runs'[i].as = runs[i].as
  <2>1. CASE UNCHANGED runs
    BY <2>1 DEF HistoryTyped
  <2>2. CASE /\ runBySession[s] # 0
             /\ runs' = [runs EXCEPT ![runBySession[s]].open = FALSE]
    <3> DEFINE i0 == runBySession[s]
               row == [runs[i0] EXCEPT !.open = FALSE]
    <3>1. i0 \in 1..Len(runs) /\ Len(runs) \in Nat
      BY <2>2, RowTypes DEF HistoryTyped
    <3>2. runs[i0] \in RunRow
      BY <3>1, RowTypes
    <3>3. row \in RunRow /\ row.as = runs[i0].as
      BY <3>2 DEF RunRow
    <3> HIDE DEF row
    <3>4. runs' = [runs EXCEPT ![i0] = row]
      BY <2>2, Zenon DEF row
    <3>5. runs \in [1..Len(runs) -> RunRow]
      BY LenProperties DEF HistoryTyped
    <3>6. runs' \in [1..Len(runs) -> RunRow]
      BY <3>3, <3>4, <3>5
    <3>7. runs' \in Seq(RunRow) /\ Len(runs') = Len(runs)
      BY <3>1, <3>6, IsASeq, LenProperties
    <3> QED
      BY <3>1, <3>3, <3>4, <3>5, <3>7
  <2> QED
    BY <2>1, <2>2 DEF RecordEnd
<1>5. HistoryTyped'
  BY <1>1, <1>3, <1>4 DEF HistoryTyped
<1>6. MapsOwnRun'
  <2>1. ASSUME NEW q \in loop', runBySession'[q] # 0
        PROVE  runs'[runBySession'[q]].as = <<q, begun[q]>>
    <3>1. q \in loop /\ q \in Session
      BY <1>1 DEF HistoryTyped
    <3>2. runBySession'[q] = runBySession[q]
      BY <1>3, <2>1, <3>1
    <3>3. runBySession[q] \in 1..Len(runs)
      BY <2>1, <3>1, <3>2, RowTypes DEF HistoryTyped
    <3> QED
      BY <1>4, <2>1, <3>1, <3>2, <3>3 DEF MapsOwnRun
  <2>2. ASSUME NEW q \in loop', lastTurnBySession'[q] # 0
        PROVE  turns[lastTurnBySession'[q]].by = <<q, begun[q]>>
    <3>1. q \in loop /\ q \in Session
      BY <1>1 DEF HistoryTyped
    <3> QED
      BY <1>3, <2>2, <3>1 DEF MapsOwnRun
  <2>3. \A q \in Session : lastTurnBySession'[q] # 0 => runBySession'[q] # 0
    BY <1>3 DEF MapsOwnRun
  <2> QED
    BY <1>1, <2>1, <2>2, <2>3 DEF MapsOwnRun
<1>7. TurnsBelong'
  <2>1. \A i \in DOMAIN turns : runs'[turns[i].run].as = runs[turns[i].run].as
    BY <1>4, RowTypes
  <2> QED
    BY <1>1, <2>1 DEF TurnsBelong
<1> QED
  BY <1>5, <1>6, <1>7

LEMMA RollbackKeeps ==
  ASSUME HistoryInv, NEW s \in Session, NEW i \in DOMAIN turns, Rollback(s, i)
  PROVE  HistoryInv'
<1> USE DEF HistoryInv
<1>1. /\ restored' = <<s, i>>
      /\ runs[turns[i].run].as[1] = s
      /\ UNCHANGED <<loop, begun, recorder, rows>>
  BY DEF Rollback
<1>2. i \in 1..Len(turns)
  BY RowTypes
<1>3. turns[i].by[1] = s
  BY <1>1 DEF TurnsBelong
<1>4. HistoryTyped'
  BY <1>1, <1>2 DEF HistoryTyped, recorder, rows
<1>5. MapsOwnRun'
  BY <1>1 DEF MapsOwnRun, recorder, rows
<1>6. TurnsBelong'
  BY <1>1, <1>3 DEF TurnsBelong, rows
<1> QED
  BY <1>4, <1>5, <1>6

LEMMA CrashKeeps == HistoryInv /\ Crash => HistoryInv'
<1> SUFFICES ASSUME HistoryInv, Crash PROVE HistoryInv'
  OBVIOUS
<1> USE DEF HistoryInv
<1>1. /\ loop' = {}
      /\ runBySession' = [s \in Session |-> 0]
      /\ lastTurnBySession' = [s \in Session |-> 0]
      /\ UNCHANGED <<begun, rows, restored>>
  BY DEF Crash
<1>2. 0 \in 0..Len(runs) /\ 0 \in 0..Len(turns)
  BY RowTypes
<1>3. HistoryTyped'
  BY <1>1, <1>2 DEF HistoryTyped, rows
<1>4. MapsOwnRun'
  BY <1>1 DEF MapsOwnRun
<1>5. TurnsBelong'
  BY <1>1 DEF TurnsBelong, rows
<1> QED
  BY <1>3, <1>4, <1>5

LEMMA HistoryKept == ~DoubleFaults /\ HistoryInv /\ [Next]_vars => HistoryInv'
<1> SUFFICES ASSUME ~DoubleFaults, HistoryInv, [Next]_vars PROVE HistoryInv'
  OBVIOUS
<1>1. CASE UNCHANGED history
  BY <1>1 DEF HistoryInv, HistoryTyped, MapsOwnRun, TurnsBelong, history, recorder, rows
<1>2. CASE ConfigSteps \/ Boot
  BY <1>1, <1>2 DEF ConfigSteps, Boot, EditSession, BeginWrite, Rename, WriteFails,
                    AddSession, RemoveSession
<1>3. CASE Crash
  BY <1>3, CrashKeeps
<1>4. ASSUME NEW s \in Session, HistorySteps(s) PROVE HistoryInv'
  BY <1>4, StartKeeps, LoseKeeps, TurnKeeps, DecisionKeeps, EndKeeps, RollbackKeeps
  DEF HistorySteps
<1>5. UNCHANGED vars => UNCHANGED history
  BY DEF vars, history, recorder, rows
<1> QED
  BY <1>1, <1>2, <1>3, <1>4, <1>5 DEF Next

\* As long as no start goes unrecorded after an end that was, turns, decisions
\* and rollbacks belong to the session they are filed under.
THEOREM TurnsFiled ==
  ASSUME ~DoubleFaults
  PROVE  Spec => []TurnsBelong
<1>1. HistoryInv => TurnsBelong
  BY DEF HistoryInv
<1>2. HistoryInv /\ [Next]_vars => HistoryInv'
  BY HistoryKept
<1> QED
  BY <1>1, <1>2, HistoryInit, PTL DEF Spec
=============================================================================
