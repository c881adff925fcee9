----------------------------- MODULE TurnProofs -----------------------------
(***************************************************************************)
(* Theorems about the turns of a session, for any number of prompts, any   *)
(* amount of work and any claude the module allows.                        *)
(***************************************************************************)
EXTENDS TurnRecovery, TLAPS, SequenceTheorems, WellFoundedInduction

\* A transcript begins with its metadata, then comes a prompt.
LogShape ==
  /\ \A i \in DOMAIN log : log[i].kind = "meta" <=> i = 1
  /\ Len(log) >= 2 => log[2] \in Prompt
  /\ proc \in {"idle", "busy"} => Len(log) >= 1
  /\ proc = "busy" => Len(log) >= 2

(***************************************************************************)
(* Sequences.                                                              *)
(***************************************************************************)
\* A set of numbers of a range has a largest.
LEMMA MaxIsIn ==
  ASSUME NEW n \in Nat, NEW I \in SUBSET (1..n), I # {}
  PROVE  Max(I) \in I /\ \A i \in I : Max(I) >= i
<1> DEFINE T == {n - i : i \in I}
<1>1. T \subseteq Nat /\ T # {}
  <2>1. \A i \in I : n - i \in Nat
    OBVIOUS
  <2>2. PICK i \in I : TRUE
    OBVIOUS
  <2>3. n - i \in T
    OBVIOUS
  <2> QED
    BY <2>1, <2>3
<1>2. PICK x \in T : \A y \in T : ~(<<y, x>> \in OpToRel(<, Nat))
  BY <1>1, WFMin, NatLessThanWellFounded
<1>3. \A y \in T : ~(y < x)
  BY <1>1, <1>2 DEF OpToRel
<1>4. PICK i \in I : x = n - i
  OBVIOUS
<1>5. \A j \in I : i >= j
  <2> TAKE j \in I
  <2>1. ~(n - j < n - i)
    BY <1>3, <1>4
  <2> QED
    BY <2>1
<1> QED
  BY <1>5 DEF Max

LEMMA LogAppend ==
  ASSUME log \in Seq(Entry), NEW e \in Entry, log' = Append(log, e)
  PROVE  /\ log' \in Seq(Entry)
         /\ Len(log) \in Nat
         /\ Len(log') = Len(log) + 1
         /\ DOMAIN log = 1..Len(log)
         /\ DOMAIN log' = 1..(Len(log) + 1)
         /\ \A i \in DOMAIN log : log'[i] = log[i]
         /\ log'[Len(log) + 1] = e
<1>1. log' \in Seq(Entry)
  BY AppendProperties
<1> QED
  BY <1>1, AppendProperties, LenProperties

LEMMA LogConcat ==
  ASSUME log \in Seq(Entry), box \in Seq(Prompt), log' = log \o box
  PROVE  /\ log' \in Seq(Entry)
         /\ Len(log) \in Nat /\ Len(box) \in Nat
         /\ Len(log') = Len(log) + Len(box)
         /\ DOMAIN log = 1..Len(log) /\ DOMAIN box = 1..Len(box)
         /\ DOMAIN log' = 1..(Len(log) + Len(box))
         /\ \A i \in DOMAIN log : log'[i] = log[i]
         /\ \A i \in DOMAIN log' : i > Len(log) =>
              i - Len(log) \in DOMAIN box /\ log'[i] = box[i - Len(log)]
<1>1. box \in Seq(Entry)
  BY SeqMonotonic DEF Entry
<1>2. log' \in Seq(Entry) /\ Len(log') = Len(log) + Len(box)
  BY <1>1, ConcatProperties
<1>3. Len(log) \in Nat /\ Len(box) \in Nat
  BY <1>1, LenProperties
<1>4. DOMAIN log = 1..Len(log) /\ DOMAIN box = 1..Len(box) /\ DOMAIN log' = 1..Len(log')
  BY <1>1, <1>2, LenProperties
<1>5. \A i \in 1..(Len(log) + Len(box)) :
        log'[i] = IF i <= Len(log) THEN log[i] ELSE box[i - Len(log)]
  BY <1>1, ConcatProperties
<1> QED
  BY <1>2, <1>3, <1>4, <1>5

(***************************************************************************)
(* What the reader and claude find in the transcript is there.             *)
(***************************************************************************)
LEMMA TextAfterType ==
  ASSUME TypeOK, NEW n \in Nat
  PROVE  TextAfter(n) \in Entry \cup {Silent}
<1> DEFINE I == {i \in (n + 1)..Len(log) : IsText(log[i])}
<1>1. Len(log) \in Nat /\ \A i \in 1..Len(log) : log[i] \in Entry
  BY LenProperties, ElementOfSeq DEF TypeOK
<1>2. I \subseteq 1..Len(log)
  BY <1>1
<1>3. I # {} => Max(I) \in I
  BY <1>1, <1>2, MaxIsIn
<1>4. TextAfter(n) = LET at == IF I # {} THEN Max(I) ELSE 0
                     IN  IF at = 0 THEN Silent ELSE log[at]
  BY DEF TextAfter, SelectLastInSubSeq
<1> HIDE DEF I
<1> QED
  BY <1>1, <1>2, <1>3, <1>4

LEMMA WorksForType ==
  ASSUME TypeOK, LogShape, proc = "busy"
  PROVE  WorksFor \in 1..Turns
<1> DEFINE I == {i \in 1..Len(log) : log[i].kind \in {"ask", "again"}}
<1>1. Len(log) \in Nat /\ Len(log) >= 2 /\ \A i \in 1..Len(log) : log[i] \in Entry
  BY LenProperties, ElementOfSeq DEF TypeOK, LogShape
<1>2. 2 \in I
  BY <1>1 DEF LogShape, Prompt
<1>3. Max(I) \in I
  BY <1>1, <1>2, MaxIsIn
<1>4. WorksFor = log[Max(I)].of
  BY <1>2 DEF WorksFor, SelectLastInSeq
<1>5. \A e \in Entry : e.kind \in {"ask", "again"} => e.of \in 1..Turns
  BY DEF Entry, Prompt
<1> HIDE DEF I
<1> QED
  BY <1>1, <1>3, <1>4, <1>5 DEF I
(***************************************************************************)
(* Types.  They need the shape of the transcript: what claude writes is    *)
(* for a prompt it has taken.                                              *)
(***************************************************************************)
Base == TypeOK /\ LogShape /\ (pc \in InTurn => turn >= 1)

USE DEF MaxRecoveries, SubmitRetries, InTurn

LEMMA Empties ==
  /\ <<>> \in Seq(Entry) /\ <<>> \in Seq(Prompt)
  /\ Len(<<>>) = 0
  /\ \A i \in DOMAIN <<>> : FALSE
BY EmptySeq, LenProperties

LEMMA LogTypes ==
  ASSUME TypeOK
  PROVE  /\ log \in Seq(Entry)
         /\ Len(log) \in Nat
         /\ DOMAIN log = 1..Len(log)
         /\ \A i \in 1..Len(log) : log[i] \in Entry
         /\ box \in Seq(Prompt)
         /\ Len(box) \in Nat
         /\ DOMAIN box = 1..Len(box)
         /\ \A i \in 1..Len(box) : box[i] \in Prompt
BY LenProperties, ElementOfSeq DEF TypeOK

\* A conversation without messages is at most its metadata.
LEMMA Unresumable ==
  ASSUME TypeOK, LogShape, ~Resumable(log)
  PROVE  Len(log) \in {0, 1}
<1>1. ~(Len(log) >= 2)
  BY LogTypes DEF LogShape, Resumable, IsMessage
<1> QED
  BY <1>1, LogTypes

LEMMA ResumableIs ==
  ASSUME TypeOK, LogShape, Resumable(log)
  PROVE  Len(log) >= 2
BY LogTypes DEF LogShape, Resumable, IsMessage

\* What start() leaves of the transcript, and what it makes of claude.
LEMMA SpawnIs ==
  ASSUME TypeOK, LogShape, NEW l \in {log, <<>>}, NEW resumeId \in BOOLEAN, Spawn(l, resumeId)
  PROVE  /\ log' = log \/ log' = <<>>
         /\ l = log => log' = log \/ Len(log) \in {0, 1}
         /\ proc' \in {"booting", "refused"}
         /\ box' = <<>> /\ entered' = FALSE
<1>1. l = log => log' = log \/ Len(log) \in {0, 1}
  BY Unresumable DEF Spawn
<1>2. log' = log \/ log' = <<>>
  BY DEF Spawn
<1> QED
  BY <1>1, <1>2 DEF Spawn

LEMMA ShapeKept ==
  ASSUME LogShape, UNCHANGED log,
         proc' \in {"none", "booting", "exited", "refused", proc}
  PROVE  LogShape'
BY DEF LogShape

LEMMA ShapeEmpty ==
  ASSUME log' = <<>>, proc' \in {"none", "booting", "exited", "refused"}
  PROVE  LogShape'
BY Empties DEF LogShape

LEMMA ShapeAppended ==
  ASSUME TypeOK, LogShape, Len(log) >= 2,
         NEW e \in Entry, e.kind # "meta", log' = Append(log, e)
  PROVE  LogShape'
<1>1. log \in Seq(Entry)
  BY DEF TypeOK
<1> QED
  BY <1>1, LogAppend DEF LogShape

LEMMA PromptIs ==
  \A e \in Prompt : e \in Entry /\ e.kind # "meta" /\ e.of \in 1..Turns
                    /\ e.kind \in {"ask", "again"}
BY DEF Prompt, Entry

LEMMA ShapeTaken ==
  ASSUME TypeOK, LogShape, Len(log) >= 1, log' = log \o box
  PROVE  LogShape' \/ box = <<>>
<1> SUFFICES ASSUME box # <<>> PROVE LogShape'
  OBVIOUS
<1>1. log \in Seq(Entry) /\ box \in Seq(Prompt)
  BY DEF TypeOK
<1>2. Len(box) >= 1
  BY <1>1, EmptySeq
<1>3. \A i \in DOMAIN log' : log'[i].kind = "meta" <=> i = 1
  <2>1. \A i \in DOMAIN log : log'[i].kind = "meta" <=> i = 1
    BY <1>1, LogConcat DEF LogShape
  <2>2. \A i \in DOMAIN log' : i > Len(log) => log'[i].kind # "meta" /\ i # 1
    BY <1>1, LogConcat, LogTypes, PromptIs
  <2> QED
    BY <2>1, <2>2, <1>1, LogConcat
<1>4. Len(log') >= 2
  BY <1>1, <1>2, LogConcat
<1>5. log'[2] \in Prompt
  <2>1. CASE Len(log) >= 2
    BY <2>1, <1>1, LogConcat DEF LogShape
  <2>2. CASE Len(log) = 1
    BY <2>2, <1>1, <1>4, LogConcat, LogTypes
  <2> QED
    BY <2>1, <2>2, <1>1, LogConcat
<1> QED
  BY <1>3, <1>4, <1>5 DEF LogShape

LEMMA BaseInit == Init => Base
<1> SUFFICES ASSUME Init PROVE Base
  OBVIOUS
<1>1. LogShape
  BY Empties DEF Init, LogShape
<1>2. answers \in [1..Turns -> Entry \cup {Open, Silent}]
  BY DEF Init
<1>3. log \in Seq(Entry) /\ box \in Seq(Prompt)
  BY Empties DEF Init
<1>4. /\ turn \in 0..Turns /\ attempt \in 0..MaxRecoveries /\ tries \in 0..SubmitRetries
      /\ offset \in Nat /\ since \in Nat
  BY TurnsAssumption DEF Init
<1>5. TypeOK
  BY <1>2, <1>3, <1>4 DEF Init, TypeOK, Proc
<1> QED
  BY <1>1, <1>5 DEF Init, Base

LEMMA ClaudeBase ==
  ASSUME Base, Claude, UNCHANGED habits
  PROVE  Base'
<1> USE DEF Base
<1>1. CASE Boots
  <2>1. CASE log = <<>>
    <3>1. [of |-> 0, kind |-> "meta"] \in Entry
      BY DEF Entry
    <3>2. log' = <<[of |-> 0, kind |-> "meta"]>> /\ log' \in Seq(Entry)
      BY <1>1, <2>1, <3>1 DEF Boots
    <3>3. proc' = "idle"
      BY <1>1, <2>1, ResumableIs, Empties DEF Boots, Interrupted
    <3>4. LogShape'
      BY <3>2, <3>3 DEF LogShape
    <3> QED
      BY <1>1, <3>2, <3>3, <3>4 DEF Boots, TypeOK, Proc, turnVars
  <2>2. CASE log # <<>>
    <3>1. log' = log
      BY <1>1, <2>2 DEF Boots
    <3>2. Len(log) >= 1
      BY <2>2, EmptySeq, LogTypes
    <3>3. proc' = "busy" => Len(log) >= 2
      BY <1>1, ResumableIs DEF Boots, Interrupted
    <3>4. LogShape'
      BY <3>1, <3>2, <3>3 DEF LogShape
    <3> QED
      BY <1>1, <3>1, <3>4 DEF Boots, TypeOK, Proc, turnVars
  <2> QED
    BY <2>1, <2>2
<1>2. CASE TakesPrompt
  <2>1. log' \in Seq(Entry)
    BY <1>2, LogTypes, LogConcat DEF TakesPrompt
  <2>2. LogShape'
    BY <1>2, ShapeTaken DEF TakesPrompt, LogShape
  <2> QED
    BY <1>2, <2>1, <2>2, Empties DEF TakesPrompt, TypeOK, Proc, turnVars
<1>3. ASSUME proc = "busy", NEW kind \in {"tool", "text", "reply"}, proc' \in {"busy", "idle"},
             log' = Append(log, [of |-> WorksFor, kind |-> kind]),
             UNCHANGED <<box, entered, pc, turnVars, stop, answers>>
      PROVE  Base'
  <2>1. [of |-> WorksFor, kind |-> kind] \in Entry
    BY <1>3, WorksForType DEF Entry
  <2>2. log' \in Seq(Entry)
    BY <1>3, <2>1, LogTypes, LogAppend
  <2>3. LogShape'
    BY <1>3, <2>1, ShapeAppended DEF LogShape
  <2> QED
    BY <1>3, <2>2, <2>3 DEF TypeOK, Proc, turnVars
<1>4. CASE Works
  BY <1>3, <1>4 DEF Works
<1>5. CASE Replies
  BY <1>3, <1>5 DEF Replies
<1>6. CASE AutoContinues
  <2>1. LogShape'
    BY <1>6, ResumableIs DEF AutoContinues, Interrupted, LogShape
  <2> QED
    BY <1>6, <2>1 DEF AutoContinues, TypeOK, Proc, turnVars
<1>7. CASE Exits
  <2>1. LogShape'
    BY <1>7, ShapeKept DEF Exits
  <2> QED
    BY <1>7, <2>1, Empties DEF Exits, TypeOK, Proc, turnVars
<1> QED
  BY <1>1, <1>2, <1>4, <1>5, <1>6, <1>7 DEF Claude

LEMMA SpawnBase ==
  ASSUME TypeOK, LogShape, NEW l \in {log, <<>>}, NEW resumeId \in BOOLEAN, Spawn(l, resumeId)
  PROVE  LogShape' /\ log' \in Seq(Entry) /\ proc' \in Proc /\ box' \in Seq(Prompt)
         /\ entered' \in BOOLEAN
<1>1. LogShape'
  BY SpawnIs, ShapeKept, ShapeEmpty
<1> QED
  BY <1>1, SpawnIs, Empties DEF TypeOK, Proc

LEMMA KillBase ==
  ASSUME TypeOK, LogShape, Kill, UNCHANGED log
  PROVE  LogShape' /\ log' \in Seq(Entry) /\ proc' \in Proc /\ box' \in Seq(Prompt)
         /\ entered' \in BOOLEAN
<1>1. LogShape'
  BY ShapeKept DEF Kill
<1> QED
  BY <1>1, Empties DEF Kill, TypeOK, Proc

LEMMA ThrowsBase ==
  ASSUME Base, pc \in InTurn, NEW recoverable \in BOOLEAN, Throws(recoverable), UNCHANGED habits
  PROVE  Base'
<1>1. Kill /\ UNCHANGED log
  BY DEF Throws
<1> QED
  BY <1>1, KillBase DEF Base, Throws, TurnOver, AttemptOver, TypeOK

LEMMA ReturnsBase ==
  ASSUME Base, pc \in InTurn, NEW n \in Nat, Returns(TextAfter(n)), UNCHANGED habits
  PROVE  Base'
<1>1. LogShape'
  BY ShapeKept DEF Base, Returns, claudeVars
<1>2. answers' \in [1..Turns -> Entry \cup {Open, Silent}]
  BY TextAfterType DEF Base, Returns, TypeOK
<1> QED
  BY <1>1, <1>2 DEF Base, Returns, TurnOver, AttemptOver, TypeOK, claudeVars

LEMMA RunBase ==
  ASSUME Base, UNCHANGED habits,
         \/ \E resumeId \in BOOLEAN : Launch(resumeId)
         \/ Launched \/ LaunchFails \/ RunEnds \/ OperatorStops \/ BeginTurn
  PROVE  Base'
<1> USE DEF Base
<1>1. ASSUME NEW resumeId \in BOOLEAN, Launch(resumeId)
      PROVE  Base'
  <2>1. \E l \in {log, <<>>} : Spawn(l, resumeId)
    BY <1>1 DEF Launch
  <2> QED
    BY <1>1, <2>1, SpawnBase DEF Launch, TypeOK, turnVars
<1>2. CASE Launched
  <2>1. LogShape'
    BY <1>2, ShapeKept DEF Launched, claudeVars
  <2> QED
    BY <1>2, <2>1 DEF Launched, TypeOK, turnVars, claudeVars
<1>3. CASE LaunchFails
  BY <1>3, KillBase DEF LaunchFails, TypeOK, turnVars
<1>4. CASE RunEnds
  BY <1>4, KillBase DEF RunEnds, TypeOK, turnVars
<1>5. CASE OperatorStops
  <2>1. LogShape'
    BY <1>5, ShapeKept DEF OperatorStops
  <2> QED
    BY <1>5, <2>1, Empties DEF OperatorStops, TypeOK, Proc, turnVars
<1>6. CASE BeginTurn
  <2>1. LogShape'
    BY <1>6, ShapeKept DEF BeginTurn, claudeVars
  <2> QED
    BY <1>6, <2>1, LogTypes, TurnsAssumption DEF BeginTurn, TypeOK, claudeVars
<1> QED
  BY <1>1, <1>2, <1>3, <1>4, <1>5, <1>6

LEMMA TurnBase ==
  ASSUME Base, UNCHANGED habits, TurnStep
  PROVE  Base'
<1> USE DEF Base
<1>1. CASE Types
  <2>1. LogShape'
    BY <1>1, ShapeKept DEF Types
  <2>2. [of |-> turn, kind |-> wording] \in Prompt
    BY <1>1 DEF Types, TypeOK, Prompt
  <2>3. box' \in Seq(Prompt)
    BY <1>1, <2>2, AppendProperties DEF Types, TypeOK
  <2> QED
    BY <1>1, <2>1, <2>3, LogTypes DEF Types, TypeOK
<1>2. CASE NotRunning \/ SubmitFails
  BY <1>2, ThrowsBase DEF NotRunning, SubmitFails
<1>3. CASE WaitFails \/ RebootFails
  BY <1>3, ThrowsBase DEF WaitFails, RebootFails
<1>4. CASE SubmitSeen \/ SubmitAgain
  <2>1. LogShape'
    BY <1>4, ShapeKept DEF SubmitSeen, SubmitAgain, claudeVars
  <2>2. CASE SubmitSeen
    BY <2>1, <2>2 DEF SubmitSeen, TypeOK, claudeVars
  <2>3. CASE SubmitAgain
    BY <2>1, <2>3 DEF SubmitAgain, TypeOK
  <2> QED
    BY <1>4, <2>2, <2>3
<1>5. CASE TurnReady \/ GraceReturns
  BY <1>5, ReturnsBase DEF TurnReady, GraceReturns, TypeOK
<1>6. CASE Respawns
  <2>1. CASE stop
    <3>1. LogShape'
      BY <1>6, <2>1, ShapeKept DEF Respawns, claudeVars
    <3> QED
      BY <1>6, <2>1, <3>1 DEF Respawns, TurnOver, AttemptOver, TypeOK, claudeVars
  <2>2. CASE ~stop
    <3>1. Spawn(log, TRUE)
      BY <1>6, <2>2 DEF Respawns
    <3> QED
      BY <1>6, <2>2, <3>1, SpawnBase DEF Respawns, TypeOK
  <2> QED
    BY <2>1, <2>2
<1>7. CASE Rebooted \/ GraceOver
  <2>1. LogShape'
    BY <1>7, ShapeKept DEF Rebooted, GraceOver, claudeVars
  <2> QED
    BY <1>7, <2>1 DEF Rebooted, GraceOver, TypeOK, claudeVars, turnVars
<1>8. CASE Triages
  <2>1. CASE UNCHANGED <<claudeVars, turnVars, stop, answers>> /\ pc' \in {"type", "grace"}
    <3>1. LogShape'
      BY <2>1, ShapeKept DEF claudeVars
    <3> QED
      BY <1>8, <2>1, <3>1 DEF Triages, TypeOK, claudeVars, turnVars
  <2>2. CASE Returns(TextAfter(offset))
    BY <1>8, <2>2, ReturnsBase DEF Triages, TypeOK
  <2> QED
    BY <1>8, <2>1, <2>2 DEF Triages
<1>9. CASE GraceStops
  BY <1>9, KillBase DEF GraceStops, TurnOver, AttemptOver, TypeOK
<1> QED
  BY <1>1, <1>2, <1>3, <1>4, <1>5, <1>6, <1>7, <1>8, <1>9 DEF TurnStep

LEMMA StutterBase ==
  ASSUME Base, UNCHANGED vars
  PROVE  Base'
BY DEF Base, TypeOK, LogShape, vars

LEMMA BaseInvariant == Spec => []Base
<1>1. Base /\ [Next]_vars => Base'
  BY ClaudeBase, RunBase, TurnBase, StutterBase DEF Next, Step
<1> QED
  BY <1>1, BaseInit, PTL DEF Spec

\* Every reachable state is well typed: no turn is attempted more than twice
\* again, no Enter is sent more than three times, and what the reader returns
\* as an answer is an entry of the transcript.
THEOREM TurnTypeCorrect == Spec => []TypeOK
BY BaseInvariant, PTL DEF Base

(***************************************************************************)
(* A prompt is asked once.                                                 *)
(***************************************************************************)
Asks(e, t) == e.kind = "ask" /\ e.of = t

\* The same prompt as it stands, twice.
Twice(e, f) == e.kind = "ask" /\ f.kind = "ask" /\ e.of = f.of

\* A prompt is in the transcript or in the input box, once; none is ahead of
\* its turn.
OnceEach ==
  /\ \A i, j \in DOMAIN log : Twice(log[i], log[j]) => i = j
  /\ \A i, j \in DOMAIN box : Twice(box[i], box[j]) => i = j
  /\ \A i \in DOMAIN log : \A j \in DOMAIN box : ~Twice(log[i], box[j])
  /\ \A i \in DOMAIN log : log[i].kind = "ask" => log[i].of <= turn
  /\ \A j \in DOMAIN box : box[j].kind = "ask" => box[j].of <= turn

\* Where a prompt may be typed as it stands, it was never typed before; while
\* that is to be found out, it is after the turn's offset or nowhere.
TypedOnce ==
  /\ pc \in InTurn => offset <= Len(log) \/ offset <= 1
  /\ pc \in InTurn => \A i \in DOMAIN log : Asks(log[i], turn) => i > offset
  /\ pc \in {"backoff", "reboot", "triage", "grace"} => box = <<>>
  /\ pc = "type" /\ wording = "ask" =>
       /\ \A i \in DOMAIN log : ~Asks(log[i], turn)
       /\ \A j \in DOMAIN box : ~Asks(box[j], turn)

AskedInv == Base /\ OnceEach /\ TypedOnce

\* Something leaves the transcript or the box.
LEMMA OnceShrinks ==
  ASSUME Base, OnceEach, log' \in {log, <<>>}, box' \in {box, <<>>},
         turn' \in Nat, turn' >= turn
  PROVE  OnceEach'
<1>1. turn \in Nat
  BY TurnsAssumption DEF Base, TypeOK
<1>2. \A i \in DOMAIN log' : log' = log
  BY Empties
<1>3. \A i \in DOMAIN box' : box' = box
  BY Empties
<1>4. \A i \in DOMAIN log : log[i].kind = "ask" => log[i].of \in Nat
  BY LogTypes DEF Base, Entry, Prompt
<1>5. \A i \in DOMAIN box : box[i].of \in Nat
  BY LogTypes, PromptIs DEF Base
<1> QED
  BY <1>1, <1>2, <1>3, <1>4, <1>5 DEF OnceEach

\* claude writes something else than a prompt.
LEMMA OnceWrites ==
  ASSUME Base, OnceEach, NEW e \in Entry, e.kind # "ask", log' = Append(log, e),
         UNCHANGED <<box, turn>>
  PROVE  OnceEach'
<1>1. log \in Seq(Entry)
  BY DEF Base, TypeOK
<1>2. \A i \in DOMAIN log' : log'[i].kind = "ask" => i \in DOMAIN log /\ log'[i] = log[i]
  BY <1>1, LogAppend
<1> QED
  BY <1>2 DEF OnceEach, Twice

\* claude takes what is in the box.
LEMMA OnceTakes ==
  ASSUME Base, OnceEach, log' = log \o box, box' = <<>>, UNCHANGED turn
  PROVE  OnceEach'
<1>1. log \in Seq(Entry) /\ box \in Seq(Prompt)
  BY DEF Base, TypeOK
<1>2. Len(log) \in Nat /\ Len(box) \in Nat
      /\ DOMAIN log = 1..Len(log) /\ DOMAIN box = 1..Len(box)
      /\ DOMAIN log' = 1..(Len(log) + Len(box))
  BY <1>1, LogConcat
<1>3. \A i \in DOMAIN log' :
        \/ i \in DOMAIN log /\ log'[i] = log[i]
        \/ i - Len(log) \in DOMAIN box /\ log'[i] = box[i - Len(log)]
  BY <1>1, <1>2, LogConcat
<1>4. \A i, j \in DOMAIN log' : Twice(log'[i], log'[j]) => i = j
  <2> TAKE i, j \in DOMAIN log'
  <2> HAVE Twice(log'[i], log'[j])
  <2>1. CASE i \in DOMAIN log /\ log'[i] = log[i] /\ j \in DOMAIN log /\ log'[j] = log[j]
    BY <2>1 DEF OnceEach
  <2>2. CASE /\ i - Len(log) \in DOMAIN box /\ log'[i] = box[i - Len(log)]
             /\ j - Len(log) \in DOMAIN box /\ log'[j] = box[j - Len(log)]
    <3>1. i - Len(log) = j - Len(log)
      BY <2>2 DEF OnceEach
    <3> QED
      BY <3>1, <1>2
  <2>3. CASE /\ i \in DOMAIN log /\ log'[i] = log[i]
             /\ j - Len(log) \in DOMAIN box /\ log'[j] = box[j - Len(log)]
    BY <2>3 DEF OnceEach
  <2>4. CASE /\ j \in DOMAIN log /\ log'[j] = log[j]
             /\ i - Len(log) \in DOMAIN box /\ log'[i] = box[i - Len(log)]
    BY <2>4 DEF OnceEach, Twice
  <2> QED
    BY <1>3, <2>1, <2>2, <2>3, <2>4
<1>5. \A i \in DOMAIN log' : log'[i].kind = "ask" => log'[i].of <= turn
  BY <1>3 DEF OnceEach
<1> QED
  BY <1>4, <1>5, Empties DEF OnceEach

\* A prompt is typed.
LEMMA OnceTypes ==
  ASSUME Base, OnceEach, NEW kind \in {"ask", "again"}, turn \in 1..Turns,
         box' = Append(box, [of |-> turn, kind |-> kind]), UNCHANGED <<log, turn>>,
         kind = "ask" =>
           /\ \A i \in DOMAIN log : ~Asks(log[i], turn)
           /\ \A j \in DOMAIN box : ~Asks(box[j], turn)
  PROVE  OnceEach'
<1> DEFINE p == [of |-> turn, kind |-> kind]
<1>1. p \in Prompt /\ box \in Seq(Prompt)
  BY DEF Prompt, Base, TypeOK
<1>2. /\ Len(box) \in Nat /\ DOMAIN box = 1..Len(box)
      /\ DOMAIN box' = 1..(Len(box) + 1)
      /\ \A j \in DOMAIN box : box'[j] = box[j]
      /\ box'[Len(box) + 1] = p
  BY <1>1, AppendProperties, LenProperties
<1>3. \A j \in DOMAIN box' :
        \/ j \in DOMAIN box /\ box'[j] = box[j]
        \/ j = Len(box) + 1 /\ box'[j] = p
  <2> HIDE DEF p
  <2> QED
    BY <1>2
<1>4. \A i \in DOMAIN log : ~Twice(log[i], p) /\ ~Twice(p, log[i])
  BY DEF Twice, Asks
<1>5. \A j \in DOMAIN box : ~Twice(box[j], p) /\ ~Twice(p, box[j])
  BY DEF Twice, Asks
<1>6. turn <= turn
  BY DEF Base, TypeOK
<1>7. p.of = turn
  OBVIOUS
<1> HIDE DEF p
<1>8. \A i, j \in DOMAIN box' : Twice(box'[i], box'[j]) => i = j
  BY <1>3, <1>5 DEF OnceEach
<1>9. \A i \in DOMAIN log : \A j \in DOMAIN box' : ~Twice(log[i], box'[j])
  BY <1>3, <1>4 DEF OnceEach
<1>10. \A j \in DOMAIN box' : box'[j].kind = "ask" => box'[j].of <= turn
  BY <1>3, <1>6, <1>7 DEF OnceEach
<1> QED
  BY <1>8, <1>9, <1>10 DEF OnceEach

\* Outside a turn there is nothing to say.
LEMMA TypedOutside ==
  ASSUME pc' \notin InTurn
  PROVE  TypedOnce'
BY DEF TypedOnce

\* The transcript stays, and so do the turn and its offset.
LEMMA TypedStays ==
  ASSUME TypedOnce, pc \in InTurn, UNCHANGED <<log, turn, offset>>,
         pc' \in {"backoff", "reboot", "triage", "grace"} => box' = <<>>,
         pc' = "type" => wording' = "again"
  PROVE  TypedOnce'
BY DEF TypedOnce

\* claude goes on while the run waits.
LEMMA TypedWaits ==
  ASSUME Base, TypedOnce, UNCHANGED <<pc, turn, wording, offset>>,
         log' \in Seq(Entry), Len(log') >= Len(log),
         \A i \in DOMAIN log' : log'[i].kind = "ask" =>
           \/ i \in DOMAIN log /\ log'[i] = log[i]
           \/ i > Len(log) /\ Len(log) >= 1
              /\ \E j \in DOMAIN box : log'[i] = box[j],
         box' \in {box, <<>>}
  PROVE  TypedOnce'
<1>1. /\ offset \in Nat /\ turn \in Nat
      /\ Len(log) \in Nat /\ Len(log') \in Nat /\ DOMAIN log' = 1..Len(log')
  BY TurnsAssumption, LogTypes, LenProperties DEF Base, TypeOK
<1>2. pc \in InTurn => offset <= Len(log') \/ offset <= 1
  BY <1>1 DEF TypedOnce
<1>3. pc \in InTurn => \A i \in DOMAIN log' : Asks(log'[i], turn) => i > offset
  <2> SUFFICES ASSUME pc \in InTurn, NEW i \in DOMAIN log', Asks(log'[i], turn)
               PROVE  i > offset
    OBVIOUS
  <2>1. CASE i \in DOMAIN log /\ log'[i] = log[i]
    BY <2>1 DEF TypedOnce
  <2>2. CASE i > Len(log) /\ Len(log) >= 1 /\ i \in Nat
    BY <1>1, <2>2 DEF TypedOnce
  <2>3. i \in Nat
    BY <1>1
  <2> QED
    BY <2>1, <2>2, <2>3 DEF Asks
<1>4. \A j \in DOMAIN box' : box' = box
  BY Empties
<1>5. pc = "type" /\ wording = "ask" =>
        /\ \A i \in DOMAIN log' : ~Asks(log'[i], turn)
        /\ \A j \in DOMAIN box' : ~Asks(box'[j], turn)
  BY <1>4 DEF TypedOnce, Asks
<1> QED
  BY <1>2, <1>3, <1>5 DEF TypedOnce

LEMMA ClaudeAsks ==
  ASSUME AskedInv, Claude, UNCHANGED habits
  PROVE  OnceEach' /\ TypedOnce'
<1> USE DEF AskedInv
<1>1. Len(log) \in Nat /\ log \in Seq(Entry) /\ box \in Seq(Prompt) /\ turn \in Nat
  BY LogTypes, TurnsAssumption DEF Base, TypeOK
<1>2. ASSUME UNCHANGED <<log, pc, turnVars>>, box' \in {box, <<>>}
      PROVE  OnceEach' /\ TypedOnce'
  <2>1. OnceEach'
    BY <1>1, <1>2, OnceShrinks DEF turnVars
  <2>2. TypedOnce'
    BY <1>1, <1>2, TypedWaits DEF turnVars
  <2> QED
    BY <2>1, <2>2
<1>3. ASSUME NEW e \in Entry, e.kind # "ask", log' = Append(log, e),
             UNCHANGED <<pc, turnVars, box>>
      PROVE  OnceEach' /\ TypedOnce'
  <2>1. OnceEach'
    BY <1>3, OnceWrites DEF turnVars
  <2>2. /\ log' \in Seq(Entry) /\ Len(log') >= Len(log)
        /\ \A i \in DOMAIN log' : log'[i].kind = "ask" => i \in DOMAIN log /\ log'[i] = log[i]
    BY <1>1, <1>3, LogAppend
  <2>3. TypedOnce'
    BY <1>1, <1>3, <2>2, TypedWaits DEF turnVars
  <2> QED
    BY <2>1, <2>3
<1>4. CASE Boots
  <2>1. CASE log = <<>>
    <3>1. [of |-> 0, kind |-> "meta"] \in Entry
      BY DEF Entry
    <3>2. log' = Append(log, [of |-> 0, kind |-> "meta"])
      BY <1>4, <2>1 DEF Boots
    <3> QED
      BY <1>3, <1>4, <3>1, <3>2 DEF Boots
  <2>2. CASE log # <<>>
    BY <1>2, <1>4, <2>2 DEF Boots
  <2> QED
    BY <2>1, <2>2
<1>5. CASE TakesPrompt
  <2>1. Len(log) >= 1
    BY <1>5 DEF TakesPrompt, Base, LogShape
  <2>2. OnceEach'
    BY <1>5, OnceTakes DEF TakesPrompt, turnVars
  <2>3. /\ log' \in Seq(Entry) /\ Len(log') >= Len(log)
        /\ \A i \in DOMAIN log' :
             \/ i \in DOMAIN log /\ log'[i] = log[i]
             \/ i > Len(log) /\ \E j \in DOMAIN box : log'[i] = box[j]
    BY <1>1, <1>5, LogConcat DEF TakesPrompt
  <2>4. TypedOnce'
    BY <1>1, <1>5, <2>1, <2>3, TypedWaits DEF TakesPrompt, turnVars
  <2> QED
    BY <2>2, <2>4
<1>6. CASE Works
  <2>1. PICK kind \in {"tool", "text"} : log' = Append(log, [of |-> WorksFor, kind |-> kind])
    BY <1>6 DEF Works
  <2>2. [of |-> WorksFor, kind |-> kind] \in Entry
    BY <1>6, WorksForType DEF Works, Base, Entry
  <2> QED
    BY <1>3, <1>6, <2>1, <2>2 DEF Works
<1>7. CASE Replies
  <2>1. [of |-> WorksFor, kind |-> "reply"] \in Entry
    BY <1>7, WorksForType DEF Replies, Base, Entry
  <2> QED
    BY <1>3, <1>7, <2>1 DEF Replies
<1>8. CASE AutoContinues
  BY <1>2, <1>8 DEF AutoContinues
<1>9. CASE Exits
  BY <1>2, <1>9 DEF Exits
<1> QED
  BY <1>4, <1>5, <1>6, <1>7, <1>8, <1>9 DEF Claude

LEMMA ThrowsAsks ==
  ASSUME AskedInv, pc \in InTurn, NEW recoverable \in BOOLEAN, Throws(recoverable)
  PROVE  OnceEach' /\ TypedOnce'
<1>1. turn \in Nat /\ turn >= turn
  BY TurnsAssumption DEF AskedInv, Base, TypeOK
<1>2. OnceEach'
  BY <1>1, OnceShrinks DEF AskedInv, Throws, Kill
<1>3. CASE pc' = "off"
  BY <1>2, <1>3, TypedOutside
<1>4. CASE pc' = "backoff" /\ UNCHANGED offset
  BY <1>2, <1>4, TypedStays DEF AskedInv, Throws, Kill
<1> QED
  BY <1>3, <1>4 DEF Throws

LEMMA ReturnsAsks ==
  ASSUME AskedInv, NEW answer, Returns(answer)
  PROVE  OnceEach' /\ TypedOnce'
<1>1. turn \in Nat /\ turn >= turn
  BY TurnsAssumption DEF AskedInv, Base, TypeOK
<1>2. OnceEach'
  BY <1>1, OnceShrinks DEF AskedInv, Returns, claudeVars
<1> QED
  BY <1>2, TypedOutside DEF Returns

LEMMA RunAsks ==
  ASSUME AskedInv,
         \/ \E resumeId \in BOOLEAN : Launch(resumeId)
         \/ Launched \/ LaunchFails \/ RunEnds \/ OperatorStops \/ BeginTurn
  PROVE  OnceEach' /\ TypedOnce'
<1> USE DEF AskedInv
<1>1. turn \in Nat /\ turn >= turn
  BY TurnsAssumption DEF Base, TypeOK
<1>2. ASSUME NEW resumeId \in BOOLEAN, Launch(resumeId)
      PROVE  OnceEach' /\ TypedOnce'
  <2>1. \E l \in {log, <<>>} : Spawn(l, resumeId)
    BY <1>2 DEF Launch
  <2>2. log' \in {log, <<>>} /\ box' \in {box, <<>>}
    BY <2>1, SpawnIs DEF Base
  <2>3. OnceEach'
    BY <1>1, <1>2, <2>2, OnceShrinks DEF Launch, turnVars
  <2> QED
    BY <1>2, <2>3, TypedOutside DEF Launch
<1>3. CASE Launched \/ LaunchFails \/ RunEnds
  <2>1. log' = log /\ box' \in {box, <<>>} /\ turn' = turn /\ pc' \notin InTurn
    BY <1>3 DEF Launched, LaunchFails, RunEnds, Kill, claudeVars, turnVars
  <2> QED
    BY <1>1, <2>1, OnceShrinks, TypedOutside
<1>4. CASE OperatorStops
  <2>1. UNCHANGED <<log, pc, turnVars>> /\ box' = <<>>
    BY <1>4 DEF OperatorStops
  <2>2. OnceEach'
    BY <1>1, <2>1, OnceShrinks DEF turnVars
  <2>3. TypedOnce'
    BY <2>1, Empties DEF TypedOnce, turnVars
  <2> QED
    BY <2>2, <2>3
<1>5. CASE BeginTurn
  <2>1. /\ UNCHANGED <<log, box>> /\ turn' = turn + 1 /\ offset' = Len(log)
        /\ pc' = "type" /\ Len(log) \in Nat
    BY <1>5, LogTypes DEF BeginTurn, claudeVars, Base
  <2>2. OnceEach'
    BY <1>1, <2>1, OnceShrinks
  <2>3. \A i \in DOMAIN log : ~Asks(log[i], turn + 1)
    BY <1>1 DEF OnceEach, Asks
  <2>4. \A j \in DOMAIN box : ~Asks(box[j], turn + 1)
    BY <1>1 DEF OnceEach, Asks
  <2>5. TypedOnce'
    BY <2>1, <2>3, <2>4 DEF TypedOnce
  <2> QED
    BY <2>2, <2>5
<1> QED
  BY <1>2, <1>3, <1>4, <1>5

LEMMA TurnAsks ==
  ASSUME AskedInv, TurnStep
  PROVE  OnceEach' /\ TypedOnce'
<1> USE DEF AskedInv
<1>1. turn \in Nat /\ turn >= turn /\ offset \in Nat
  BY TurnsAssumption DEF Base, TypeOK
<1>2. CASE Types
  <2>1. turn \in 1..Turns /\ wording \in {"ask", "again"}
    BY <1>2 DEF Types, Base, TypeOK
  <2>2. OnceEach'
    BY <1>2, <2>1, OnceTypes DEF Types, TypedOnce
  <2>3. TypedOnce'
    BY <1>2, TypedStays DEF Types
  <2> QED
    BY <2>2, <2>3
<1>3. CASE NotRunning \/ SubmitFails \/ WaitFails \/ RebootFails
  BY <1>3, ThrowsAsks DEF NotRunning, SubmitFails, WaitFails, RebootFails
<1>4. CASE TurnReady \/ GraceReturns
  BY <1>4, ReturnsAsks DEF TurnReady, GraceReturns
<1>5. CASE SubmitSeen \/ SubmitAgain \/ Rebooted \/ GraceOver
  <2>1. /\ UNCHANGED <<log, box, turn, offset>> /\ pc \in InTurn
        /\ \/ pc' \in {"wait", "submit"}
           \/ pc' = "triage" /\ pc = "reboot"
           \/ pc' = "type" /\ wording' = "again"
    BY <1>5 DEF SubmitSeen, SubmitAgain, Rebooted, GraceOver, claudeVars, turnVars
  <2>2. OnceEach'
    BY <1>1, <2>1, OnceShrinks
  <2>3. TypedOnce'
    BY <2>1, TypedStays DEF TypedOnce
  <2> QED
    BY <2>2, <2>3
<1>6. CASE Respawns
  <2>1. CASE stop
    <3>1. OnceEach'
      BY <1>1, <1>6, <2>1, OnceShrinks DEF Respawns, claudeVars
    <3> QED
      BY <1>6, <2>1, <3>1, TypedOutside DEF Respawns
  <2>2. CASE ~stop
    <3>1. Spawn(log, TRUE) /\ pc = "backoff" /\ pc' = "reboot" /\ UNCHANGED <<turn, offset>>
      BY <1>6, <2>2 DEF Respawns
    <3>2. box' = <<>> /\ (log' = log \/ (log' = <<>> /\ Len(log) \in {0, 1}))
      BY <3>1, SpawnIs DEF Base
    <3>3. OnceEach'
      BY <1>1, <3>1, <3>2, OnceShrinks
    <3>4. CASE log' = log
      BY <3>1, <3>2, <3>3, <3>4, TypedStays
    <3>5. CASE log' = <<>> /\ Len(log) \in {0, 1}
      <4>1. offset <= Len(log) \/ offset <= 1
        BY <3>1 DEF TypedOnce
      <4>2. offset <= 1
        BY <1>1, <3>5, <4>1
      <4> QED
        BY <3>1, <3>2, <3>3, <3>5, <4>2, Empties DEF TypedOnce
    <3> QED
      BY <3>2, <3>3, <3>4, <3>5
  <2> QED
    BY <2>1, <2>2
<1>7. CASE Triages
  <2>1. CASE UNCHANGED <<claudeVars, turnVars>>
    <3>1. UNCHANGED <<log, box, turn, offset, wording>>
      BY <2>1 DEF claudeVars, turnVars
    <3>2. OnceEach'
      BY <1>1, <3>1, OnceShrinks
    <3>3. CASE pc' = "grace"
      BY <1>7, <3>1, <3>2, <3>3, TypedStays DEF Triages, TypedOnce
    <3>4. CASE pc' = "type" /\ Len(log) <= offset
      <4>1. DOMAIN log = 1..Len(log) /\ Len(log) \in Nat /\ box = <<>>
        BY <1>7, LogTypes DEF Triages, TypedOnce, Base
      <4>2. \A i \in DOMAIN log : ~Asks(log[i], turn)
        BY <1>1, <1>7, <3>4, <4>1 DEF Triages, TypedOnce
      <4>3. TypedOnce'
        BY <1>7, <3>1, <3>4, <4>1, <4>2, Empties DEF Triages, TypedOnce
      <4> QED
        BY <3>2, <4>3
    <3>5. CASE pc' = "between"
      BY <3>2, <3>5, TypedOutside
    <3> QED
      BY <1>7, <3>2, <3>3, <3>4, <3>5 DEF Triages, Returns
  <2>2. CASE Returns(TextAfter(offset))
    BY <2>2, ReturnsAsks
  <2> QED
    BY <1>7, <2>1, <2>2 DEF Triages
<1>8. CASE GraceStops
  <2>1. OnceEach'
    BY <1>1, <1>8, OnceShrinks DEF GraceStops, Kill
  <2> QED
    BY <1>8, <2>1, TypedOutside DEF GraceStops
<1> QED
  BY <1>2, <1>3, <1>4, <1>5, <1>6, <1>7, <1>8 DEF TurnStep

LEMMA AskedInvariant == Spec => []AskedInv
<1>1. Init => AskedInv
  BY BaseInit, Empties DEF Init, AskedInv, OnceEach, TypedOnce
<1>2. AskedInv /\ [Next]_vars => AskedInv'
  <2> SUFFICES ASSUME AskedInv, [Next]_vars PROVE AskedInv'
    OBVIOUS
  <2>1. Base'
    BY ClaudeBase, RunBase, TurnBase, StutterBase DEF AskedInv, Next, Step
  <2>2. CASE Next
    BY <2>1, <2>2, ClaudeAsks, RunAsks, TurnAsks DEF AskedInv, Next, Step
  <2>3. CASE UNCHANGED vars
    BY <2>1, <2>3 DEF AskedInv, OnceEach, TypedOnce, vars
  <2> QED
    BY <2>2, <2>3
<1> QED
  BY <1>1, <1>2, PTL DEF Spec

\* However often turns are attempted, and whatever becomes of claude, a prompt is
\* in the transcript as it stands at most once: recovery never makes claude do
\* twice what it was asked once.
THEOREM PromptsAreAskedOnce == Spec => []AskedOnce
<1>1. AskedInv => AskedOnce
  BY DEF AskedInv, OnceEach, AskedOnce, Twice
<1> QED
  BY <1>1, AskedInvariant, PTL

(***************************************************************************)
(* A stop is final.                                                        *)
(***************************************************************************)
\* After a stop the process is down and stays down.
Stopped == stop => ~Up /\ box = <<>>

LEMMA StoppedInvariant == Spec => []Stopped
<1>1. Init => Stopped
  BY DEF Init, Stopped, Up
<1>2. Stopped /\ [Next]_vars => Stopped'
  <2> SUFFICES ASSUME Stopped, [Next]_vars PROVE Stopped'
    OBVIOUS
  <2> USE DEF Stopped, Up
  <2>1. CASE Claude
    BY <2>1 DEF Claude, Boots, TakesPrompt, Works, Replies, AutoContinues, Exits
  <2>2. ASSUME NEW resumeId \in BOOLEAN, Launch(resumeId) PROVE Stopped'
    BY <2>2 DEF Launch
  <2>3. CASE Launched \/ LaunchFails \/ RunEnds \/ BeginTurn
    BY <2>3 DEF Launched, LaunchFails, RunEnds, BeginTurn, Kill, claudeVars
  <2>4. CASE OperatorStops
    BY <2>4 DEF OperatorStops
  <2>5. CASE TurnStep
    <3>1. ASSUME NEW recoverable, Throws(recoverable) PROVE Stopped'
      BY <3>1 DEF Throws, Kill
    <3>2. ASSUME NEW answer, Returns(answer) PROVE Stopped'
      BY <3>2 DEF Returns, claudeVars
    <3> QED
      BY <2>5, <3>1, <3>2 DEF TurnStep, Types, NotRunning, SubmitSeen, SubmitAgain,
           SubmitFails, TurnReady, WaitFails, Respawns, Rebooted, RebootFails, Triages,
           GraceStops, GraceReturns, GraceOver, Kill, claudeVars
  <2>6. CASE UNCHANGED vars
    BY <2>6 DEF vars
  <2> QED
    BY <2>1, <2>2, <2>3, <2>4, <2>5, <2>6 DEF Next, Step
<1> QED
  BY <1>1, <1>2, PTL DEF Spec

\* After an operator stop no claude is spawned and nothing is typed: neither the
\* backoff, nor the respawn, nor the grace window brings a stopped session back.
THEOREM StopIsFinal == Spec => StopIsNotRecovered
<1>1. Stopped' => [stop /\ stop' =>
        /\ proc' = "booting" => proc = "booting"
        /\ box' # <<>> => box' = box]_vars
  BY DEF Stopped, Up
<1> QED
  BY <1>1, StoppedInvariant, PTL DEF StopIsNotRecovered

\* Whatever a crash leaves of the transcript, a respawn, a heal or a continue is
\* accepted.
THEOREM ResumesAreAccepted == Spec => []ResumeAccepted
<1>1. Init => ResumeAccepted
  BY DEF Init, ResumeAccepted
<1>2. ResumeAccepted /\ [Next]_vars => ResumeAccepted'
  <2> SUFFICES ASSUME ResumeAccepted, [Next]_vars PROVE ResumeAccepted'
    OBVIOUS
  <2> USE DEF ResumeAccepted
  <2>1. CASE Claude
    BY <2>1 DEF Claude, Boots, TakesPrompt, Works, Replies, AutoContinues, Exits
  <2>2. ASSUME NEW resumeId \in BOOLEAN, Launch(resumeId) PROVE ResumeAccepted'
    <3>1. CASE resumeId
      BY <2>2, <3>1, Empties DEF Launch, Spawn
    <3>2. CASE ~resumeId
      BY <2>2, <3>2 DEF Launch
    <3> QED
      BY <3>1, <3>2
  <2>3. CASE Launched \/ LaunchFails \/ RunEnds \/ BeginTurn \/ OperatorStops
    BY <2>3 DEF Launched, LaunchFails, RunEnds, BeginTurn, OperatorStops, Kill, Up, claudeVars
  <2>4. CASE TurnStep
    <3>1. ASSUME NEW recoverable, Throws(recoverable) PROVE ResumeAccepted'
      BY <3>1 DEF Throws, Kill
    <3>2. ASSUME pc # "boot", UNCHANGED proc PROVE ResumeAccepted'
      BY <3>2
    <3>3. CASE Respawns
      BY <2>4, <3>3 DEF Respawns, Spawn, claudeVars
    <3> QED
      BY <2>4, <3>1, <3>2, <3>3 DEF TurnStep, Types, NotRunning, SubmitSeen, SubmitAgain,
           SubmitFails, TurnReady, WaitFails, Rebooted, RebootFails, Triages,
           GraceStops, GraceReturns, GraceOver, Kill, Returns, claudeVars
  <2>5. CASE UNCHANGED vars
    BY <2>5 DEF vars
  <2> QED
    BY <2>1, <2>2, <2>3, <2>4, <2>5 DEF Next, Step
<1> QED
  BY <1>1, <1>2, PTL DEF Spec

(***************************************************************************)
(* No prompt is lost and no turn returns the answer of another, for any    *)
(* number of prompts, given a claude that takes interrupted work up while  *)
(* it boots and not after (CleanBefore).                                   *)
(***************************************************************************)
USE DEF InTurn

Reply(t) == [of |-> t, kind |-> "reply"]

\* A conversation that ends in the middle of a turn.
Cut(l) == Len(l) >= 2 /\ ~IsText(l[Len(l)])

\* Every turn before this one, or this one too, returned its final reply.
Before == "late" \notin habits /\ \A u \in 1..(turn - 1) : answers[u] = Reply(u)

AllReplied == Before /\ (turn = 0 \/ answers[turn] = Reply(turn))

NotYet ==
  /\ \A t \in 1..Turns : t > turn => answers[t] = Open
  /\ pc \in InTurn => answers[turn] = Open
  /\ pc \in {"type", "submit", "wait", "backoff", "triage", "grace", "between"} =>
       proc # "booting"

\* Between turns claude has nothing to do.
Quiet ==
  AllReplied /\ pc \notin InTurn => box = <<>> /\ proc # "busy" /\ ~Cut(log)

\* In a turn, what came since it began is of this turn, and starts with its prompt.
OfTurn ==
  Before /\ pc \in InTurn =>
    /\ \A i \in DOMAIN log : i > offset /\ i > 1 => log[i].of = turn
    /\ \A j \in DOMAIN box : box[j].of = turn
    /\ proc = "busy" \/ Cut(log) => Len(log) > offset /\ Len(log) >= 2
    /\ Len(log) > offset /\ Len(log) >= 2 =>
         \E k \in DOMAIN log : k > offset /\ log[k] \in Prompt /\ log[k].of = turn

\* While the prompt is not typed, claude does nothing.
Calm ==
  Before /\ pc \in {"type", "backoff", "triage", "grace"} => proc # "busy" /\ box = <<>>

\* Once it is, what claude writes is what it makes of it.
Sent ==
  Before /\ pc \in {"submit", "wait"} =>
    /\ since >= 1 /\ since >= offset /\ Len(log) >= since
    /\ Len(log) = since => proc # "busy"
    /\ Len(log) > since => box = <<>> /\ (proc = "idle" => log[Len(log)].kind = "reply")

AnswerParts == NotYet /\ Quiet /\ OfTurn /\ Calm /\ Sent /\ OwnAnswer

AnswerInv == AskedInv /\ AnswerParts

(***************************************************************************)
(* What the reader finds.                                                  *)
(***************************************************************************)
\* The last text, if there is one.
LEMMA TextAfterIs ==
  ASSUME TypeOK, NEW n \in Nat
  PROVE  /\ TextAfter(n) # Silent =>
              \E i \in DOMAIN log : i > n /\ IsText(log[i]) /\ TextAfter(n) = log[i]
         /\ Len(log) > n /\ IsText(log[Len(log)]) => TextAfter(n) = log[Len(log)]
<1> DEFINE I == {i \in (n + 1)..Len(log) : IsText(log[i])}
<1>1. Len(log) \in Nat /\ DOMAIN log = 1..Len(log)
  BY LogTypes
<1>2. I \subseteq 1..Len(log)
  BY <1>1
<1>3. I # {} => Max(I) \in I /\ \A i \in I : Max(I) >= i
  BY <1>1, <1>2, MaxIsIn
<1>4. TextAfter(n) = LET at == IF I # {} THEN Max(I) ELSE 0
                     IN  IF at = 0 THEN Silent ELSE log[at]
  BY DEF TextAfter, SelectLastInSubSeq
<1>5. TextAfter(n) = IF I # {} THEN log[Max(I)] ELSE Silent
  <2> HIDE DEF I
  <2>1. I # {} => Max(I) # 0
    BY <1>1, <1>2, <1>3
  <2> QED
    BY <1>4, <2>1
<1>6. ASSUME Len(log) > n, IsText(log[Len(log)])
      PROVE  TextAfter(n) = log[Len(log)]
  <2>1. Len(log) \in I
    BY <1>1, <1>6
  <2>2. Max(I) = Len(log)
    BY <1>1, <1>2, <1>3, <2>1
  <2> QED
    BY <1>5, <2>1, <2>2
<1>7. ASSUME TextAfter(n) # Silent
      PROVE  \E i \in DOMAIN log : i > n /\ IsText(log[i]) /\ TextAfter(n) = log[i]
  <2>1. I # {} /\ TextAfter(n) = log[Max(I)]
    BY <1>5, <1>7
  <2>2. Max(I) \in I
    BY <1>3, <2>1
  <2>3. Max(I) \in DOMAIN log /\ Max(I) > n /\ IsText(log[Max(I)])
    BY <1>1, <2>2
  <2> HIDE DEF I
  <2> QED
    BY <2>1, <2>3
<1> QED
  BY <1>6, <1>7

\* Of a conversation with messages, the last entry is the last message.
LEMMA InterruptedIs ==
  ASSUME TypeOK, LogShape
  PROVE  /\ Interrupted <=> Cut(log)
         /\ TurnEnded(log) => ~Cut(log)
<1> DEFINE I == {i \in 1..Len(log) : IsMessage(log[i])}
<1>1. Len(log) \in Nat /\ DOMAIN log = 1..Len(log)
  BY LogTypes
<1>2. \A i \in 1..Len(log) : IsMessage(log[i]) <=> i # 1
  BY <1>1 DEF LogShape, IsMessage
<1>3. Resumable(log) <=> Len(log) >= 2
  BY <1>1, <1>2 DEF Resumable
<1>4. ASSUME Len(log) >= 2
      PROVE  TurnEnded(log) <=> IsText(log[Len(log)])
  <2>1. Len(log) \in I
    BY <1>1, <1>2, <1>4
  <2>2. Max(I) = Len(log)
    <3>1. I \subseteq 1..Len(log)
      OBVIOUS
    <3>2. Max(I) \in I /\ Max(I) >= Len(log)
      BY <1>1, <2>1, <3>1, MaxIsIn
    <3> QED
      BY <1>1, <3>1, <3>2
  <2>3. SelectLastInSeq(log, IsMessage) = Len(log)
    BY <2>1, <2>2 DEF SelectLastInSeq
  <2> QED
    BY <1>3, <1>4, <2>3 DEF TurnEnded
<1> QED
  BY <1>3, <1>4 DEF Interrupted, Cut, TurnEnded

\* Within a turn claude works for that turn.
LEMMA WorksForTurn ==
  ASSUME AnswerInv, Before, pc \in InTurn, proc = "busy"
  PROVE  WorksFor = turn
<1> DEFINE I == {i \in 1..Len(log) : log[i].kind \in {"ask", "again"}}
<1>1. Base
  BY DEF AnswerInv, AskedInv
<1>2. Len(log) \in Nat /\ DOMAIN log = 1..Len(log)
  BY <1>1, LogTypes DEF Base
<1>3. PICK k \in DOMAIN log : k > offset /\ log[k] \in Prompt
  BY DEF AnswerInv, AnswerParts, OfTurn
<1>4. k \in I
  BY <1>2, <1>3, PromptIs
<1>5. Max(I) \in I /\ Max(I) >= k
  BY <1>2, <1>4, MaxIsIn
<1>6. WorksFor = log[Max(I)].of
  BY <1>4 DEF WorksFor, SelectLastInSeq
<1>7. Max(I) > offset /\ Max(I) \in DOMAIN log
  BY <1>1, <1>2, <1>3, <1>5 DEF Base, TypeOK
<1>8. Max(I) # 1
  BY <1>1, <1>2, <1>5 DEF Base, LogShape
<1> QED
  BY <1>2, <1>6, <1>7, <1>8 DEF AnswerInv, AnswerParts, OfTurn
(***************************************************************************)
(* Each step keeps the parts.                                              *)
(***************************************************************************)
LEMMA AnswerTypes ==
  ASSUME AnswerInv
  PROVE  /\ TypeOK /\ LogShape /\ Base /\ TypedOnce
         /\ NotYet /\ Quiet /\ OfTurn /\ Calm /\ Sent /\ OwnAnswer
         /\ turn \in 0..Turns /\ turn \in Nat /\ offset \in Nat /\ since \in Nat
         /\ Len(log) \in Nat /\ DOMAIN log = 1..Len(log)
         /\ Len(box) \in Nat /\ DOMAIN box = 1..Len(box)
         /\ (pc \in InTurn => turn \in 1..Turns)
BY LogTypes, TurnsAssumption DEF AnswerInv, AnswerParts, AskedInv, Base, TypeOK

LEMMA CutEmpty == ~Cut(<<>>)
BY Empties DEF Cut

\* No turn returns.
LEMMA AnswersKept ==
  ASSUME AnswerInv, UNCHANGED <<answers, habits>>
  PROVE  OwnAnswer'
BY AnswerTypes DEF OwnAnswer, CleanBefore

LEMMA BeforeKept ==
  ASSUME UNCHANGED <<answers, habits, turn>>
  PROVE  (Before' <=> Before) /\ (AllReplied' <=> AllReplied)
BY DEF Before, AllReplied

LEMMA OutsideTurn ==
  ASSUME pc' \notin InTurn
  PROVE  OfTurn' /\ Calm' /\ Sent'
<1>1. OfTurn'
  BY DEF OfTurn
<1>2. Calm'
  BY DEF Calm
<1>3. Sent'
  BY DEF Sent
<1> QED
  BY <1>1, <1>2, <1>3

\* The run ends in the middle of a turn.
LEMMA TurnLeft ==
  ASSUME AnswerInv, pc \in InTurn, pc' = "off", UNCHANGED <<answers, habits, turn>>
  PROVE  AnswerParts'
<1>1. answers[turn] = Open /\ turn # 0
  BY AnswerTypes DEF NotYet
<1>2. ~AllReplied'
  BY <1>1, BeforeKept DEF AllReplied, Reply, Open
<1>3. NotYet'
  BY AnswerTypes DEF NotYet
<1>4. Quiet'
  BY <1>2 DEF Quiet
<1> QED
  BY <1>3, <1>4, AnswersKept, OutsideTurn DEF AnswerParts

\* The turn returns what it found.
LEMMA TurnReturned ==
  ASSUME AnswerInv, pc \in InTurn, proc # "booting", NEW answer \in Entry \cup {Silent},
         Returns(answer), UNCHANGED habits,
         Before => /\ answer \in Entry /\ answer.of = turn
                   /\ box = <<>> /\ proc # "busy" /\ ~Cut(log)
  PROVE  AnswerParts'
<1>1. /\ pc' = "between" /\ UNCHANGED <<log, box, proc, turn>>
      /\ answers' = [answers EXCEPT ![turn] = answer]
      /\ answers \in [1..Turns -> Entry \cup {Open, Silent}]
      /\ turn \in 1..Turns /\ NotYet /\ OwnAnswer
  BY AnswerTypes DEF Returns, claudeVars, TypeOK
<1>2. answers'[turn] = answer /\ \A t \in 1..Turns \ {turn} : answers'[t] = answers[t]
  BY <1>1
<1>3. \A u \in 1..(turn - 1) : u \in 1..Turns \ {turn} /\ answers'[u] = answers[u]
  BY <1>1, <1>2, TurnsAssumption
<1>4. Before' <=> Before
  BY <1>1, <1>3 DEF Before
<1>5. NotYet'
  <2>1. \A t \in 1..Turns : t > turn => answers'[t] = Open
    BY <1>1, <1>2 DEF NotYet
  <2> QED
    BY <1>1, <2>1 DEF NotYet
<1>6. Quiet'
  BY <1>1, <1>4 DEF Quiet, AllReplied
<1>7. OwnAnswer'
  <2> SUFFICES ASSUME NEW t \in 1..Turns, answers'[t] # Open, CleanBefore(t)'
               PROVE  answers'[t] \in Entry /\ answers'[t].of = t
    BY DEF OwnAnswer
  <2>1. CASE t = turn
    <3>1. Before
      BY <1>3, <2>1 DEF CleanBefore, Before, Reply
    <3> QED
      BY <1>2, <2>1, <3>1
  <2>2. CASE t < turn
    <3>1. \A u \in 1..(t - 1) : u \in 1..(turn - 1)
      BY <1>1, <2>2
    <3>2. CleanBefore(t)
      BY <1>3, <3>1 DEF CleanBefore
    <3> QED
      BY <1>1, <1>2, <2>2, <3>2 DEF OwnAnswer
  <2>3. CASE t > turn
    BY <1>1, <1>2, <2>3 DEF NotYet
  <2> QED
    BY <1>1, <2>1, <2>2, <2>3
<1> QED
  BY <1>1, <1>5, <1>6, <1>7, OutsideTurn DEF AnswerParts

LEMMA BootAnswers ==
  ASSUME AnswerInv, Boots, UNCHANGED habits
  PROVE  AnswerParts'
<1> USE AnswerTypes
<1>1. UNCHANGED <<pc, turn, offset, since, box, answers>> /\ proc' \in {"idle", "busy"}
  BY DEF Boots, turnVars
<1>2. pc \notin {"type", "submit", "wait", "backoff", "triage", "grace", "between"}
  BY DEF NotYet, Boots
<1>3. NotYet' /\ OwnAnswer' /\ (Before' <=> Before) /\ (AllReplied' <=> AllReplied)
  BY <1>1, AnswersKept, BeforeKept DEF NotYet
<1>4. proc' = "busy" => Cut(log)
  BY InterruptedIs DEF Boots
<1>5. CASE log = <<>>
  <2>1. log' = <<[of |-> 0, kind |-> "meta"]>> /\ proc' = "idle"
    BY <1>4, <1>5, CutEmpty DEF Boots
  <2>2. Len(log') = 1 /\ DOMAIN log' = 1..1 /\ ~Cut(log')
    BY <2>1 DEF Cut
  <2>3. Quiet' /\ OfTurn'
    BY <1>1, <1>3, <2>1, <2>2 DEF Quiet, OfTurn
  <2> QED
    BY <1>1, <1>2, <1>3, <2>3 DEF AnswerParts, Calm, Sent
<1>6. CASE log # <<>>
  <2>1. log' = log
    BY <1>6 DEF Boots
  <2>2. Quiet' /\ OfTurn'
    BY <1>1, <1>3, <1>4, <2>1 DEF Quiet, OfTurn
  <2> QED
    BY <1>1, <1>2, <1>3, <2>2 DEF AnswerParts, Calm, Sent
<1> QED
  BY <1>5, <1>6

LEMMA TakeAnswers ==
  ASSUME AnswerInv, TakesPrompt, UNCHANGED habits
  PROVE  AnswerParts'
<1> USE AnswerTypes
<1>1. /\ UNCHANGED <<pc, turn, offset, since, answers>>
      /\ proc' = "busy" /\ box # <<>> /\ box' = <<>> /\ log' = log \o box
  BY DEF TakesPrompt, turnVars
<1>2. NotYet' /\ OwnAnswer' /\ (Before' <=> Before) /\ (AllReplied' <=> AllReplied)
  BY <1>1, AnswersKept, BeforeKept DEF NotYet
<1>3. Quiet'
  BY <1>1, <1>2 DEF Quiet
<1>4. ASSUME Before, pc \in InTurn
      PROVE  pc \in {"submit", "wait"} /\ Len(log) = since /\ since >= 1 /\ since >= offset
  <2>1. pc \notin {"type", "backoff", "reboot", "triage", "grace"}
    BY <1>1, <1>4 DEF Calm, TypedOnce
  <2>2. pc \in {"submit", "wait"}
    BY <1>4, <2>1
  <2> QED
    BY <1>1, <1>4, <2>2 DEF Sent
<1>5. log \in Seq(Entry) /\ box \in Seq(Prompt) /\ Len(box) >= 1
  BY <1>1, EmptySeq DEF TypeOK
<1>6. /\ Len(log') = Len(log) + Len(box) /\ DOMAIN log' = 1..(Len(log) + Len(box))
      /\ \A i \in DOMAIN log : log'[i] = log[i]
      /\ \A i \in DOMAIN log' : i > Len(log) =>
           i - Len(log) \in DOMAIN box /\ log'[i] = box[i - Len(log)]
  BY <1>1, <1>5, LogConcat
<1>7. OfTurn'
  <2> SUFFICES ASSUME Before, pc \in InTurn
               PROVE  /\ \A i \in DOMAIN log' : i > offset /\ i > 1 => log'[i].of = turn
                      /\ Len(log') > offset /\ Len(log') >= 2
                      /\ \E k \in DOMAIN log' : k > offset /\ log'[k] \in Prompt
                                                /\ log'[k].of = turn
    BY <1>1, <1>2, Empties DEF OfTurn
  <2>1. ASSUME NEW i \in DOMAIN log', i > offset, i > 1
        PROVE  log'[i].of = turn
    <3>1. CASE i > Len(log)
      BY <1>6, <2>1, <3>1 DEF OfTurn
    <3>2. CASE ~(i > Len(log))
      <4>1. i \in DOMAIN log
        BY <1>6, <2>1, <3>2
      <4> QED
        BY <1>6, <2>1, <4>1 DEF OfTurn
    <3> QED
      BY <3>1, <3>2
  <2>2. Len(log') > offset /\ Len(log') >= 2
    BY <1>4, <1>5, <1>6
  <2>3. Len(log) + 1 \in DOMAIN log' /\ Len(log) + 1 > offset /\ Len(log) + 1 > 1
    BY <1>4, <1>5, <1>6
  <2>4. log'[Len(log) + 1] \in Prompt
    BY <1>6, <2>3, LogTypes
  <2> QED
    BY <2>1, <2>2, <2>3, <2>4
<1>8. Calm'
  BY <1>1, <1>2, <1>4 DEF Calm
<1>9. Sent'
  BY <1>1, <1>2, <1>4, <1>5, <1>6 DEF Sent
<1> QED
  BY <1>2, <1>3, <1>7, <1>8, <1>9 DEF AnswerParts

LEMMA WriteAnswers ==
  ASSUME AnswerInv, proc = "busy", NEW kind \in {"tool", "text", "reply"},
         log' = Append(log, [of |-> WorksFor, kind |-> kind]),
         proc' \in {"busy", "idle"}, proc' = "idle" => kind = "reply",
         UNCHANGED <<pc, turnVars, box, answers, habits>>
  PROVE  AnswerParts'
<1> USE AnswerTypes
<1> DEFINE e == [of |-> WorksFor, kind |-> kind]
<1>1. UNCHANGED <<pc, turn, offset, since, answers>>
  BY DEF turnVars
<1>2. NotYet' /\ OwnAnswer' /\ (Before' <=> Before) /\ (AllReplied' <=> AllReplied)
  BY <1>1, AnswersKept, BeforeKept DEF NotYet
<1>3. Quiet'
  BY <1>1, <1>2 DEF Quiet
<1>4. e \in Entry /\ e.kind = kind /\ log \in Seq(Entry)
  BY WorksForType DEF Entry, TypeOK
<1>5. /\ Len(log') = Len(log) + 1 /\ DOMAIN log' = 1..(Len(log) + 1)
      /\ \A i \in DOMAIN log : log'[i] = log[i]
      /\ log'[Len(log) + 1] = e
  BY <1>4, LogAppend
<1>6. Before /\ pc \in InTurn => e.of = turn
  BY WorksForTurn
<1> HIDE DEF e
<1>7. OfTurn'
  <2> SUFFICES ASSUME Before, pc \in InTurn
               PROVE  /\ \A i \in DOMAIN log' : i > offset /\ i > 1 => log'[i].of = turn
                      /\ \A j \in DOMAIN box : box[j].of = turn
                      /\ Len(log') > offset /\ Len(log') >= 2
                      /\ \E k \in DOMAIN log' : k > offset /\ log'[k] \in Prompt
                                                /\ log'[k].of = turn
    BY <1>1, <1>2 DEF OfTurn
  <2>1. ASSUME NEW i \in DOMAIN log', i > offset, i > 1
        PROVE  log'[i].of = turn
    <3>1. CASE i = Len(log) + 1
      BY <1>5, <1>6, <3>1
    <3>2. CASE i # Len(log) + 1
      <4>1. i \in DOMAIN log
        BY <1>5, <2>1, <3>2
      <4> QED
        BY <1>5, <2>1, <4>1 DEF OfTurn
    <3> QED
      BY <3>1, <3>2
  <2>2. Len(log) > offset /\ Len(log) >= 2 /\ \A j \in DOMAIN box : box[j].of = turn
    BY DEF OfTurn
  <2>3. PICK k \in DOMAIN log : k > offset /\ log[k] \in Prompt /\ log[k].of = turn
    BY <2>2 DEF OfTurn
  <2> QED
    BY <1>5, <2>1, <2>2, <2>3
<1>8. Calm'
  BY <1>1, <1>2 DEF Calm
<1>9. Sent'
  <2> SUFFICES ASSUME Before, pc \in {"submit", "wait"}
               PROVE  /\ since >= 1 /\ since >= offset /\ Len(log') > since
                      /\ box = <<>> /\ (proc' = "idle" => log'[Len(log')].kind = "reply")
    BY <1>1, <1>2, <1>5 DEF Sent
  <2>1. Len(log) > since
    BY DEF Sent
  <2> QED
    BY <1>4, <1>5, <2>1 DEF Sent
<1> QED
  BY <1>2, <1>3, <1>7, <1>8, <1>9 DEF AnswerParts
\* Nothing but the process ends.
LEMMA GoneAnswers ==
  ASSUME AnswerInv, UNCHANGED <<log, pc, turn, offset, since, answers, habits>>,
         box' = <<>>, proc' \in {"none", "exited", "refused"}
  PROVE  AnswerParts'
<1> USE AnswerTypes
<1>1. (Before' <=> Before) /\ (AllReplied' <=> AllReplied) /\ OwnAnswer'
  BY AnswersKept, BeforeKept
<1>2. NotYet'
  BY DEF NotYet
<1>3. Quiet'
  BY <1>1 DEF Quiet, Cut
<1>4. OfTurn'
  BY <1>1, Empties DEF OfTurn, Cut
<1>5. Calm' /\ Sent'
  BY <1>1 DEF Calm, Sent
<1> QED
  BY <1>1, <1>2, <1>3, <1>4, <1>5 DEF AnswerParts

LEMMA ClaudeAnswers ==
  ASSUME AnswerInv, Claude, UNCHANGED habits
  PROVE  AnswerParts'
<1>1. CASE Boots
  BY <1>1, BootAnswers
<1>2. CASE TakesPrompt
  BY <1>2, TakeAnswers
<1>3. CASE Works
  <2>1. PICK kind \in {"tool", "text"} : log' = Append(log, [of |-> WorksFor, kind |-> kind])
    BY <1>3 DEF Works
  <2> QED
    BY <1>3, <2>1, WriteAnswers DEF Works
<1>4. CASE Replies
  BY <1>4, WriteAnswers DEF Replies
<1>5. CASE AutoContinues
  <2>1. UNCHANGED <<pc, turn, answers>> /\ proc' = "busy" /\ "late" \in habits
    BY <1>5 DEF AutoContinues, turnVars
  <2>2. NotYet' /\ OwnAnswer' /\ ~Before' /\ ~AllReplied'
    BY <2>1, AnswerTypes, AnswersKept DEF NotYet, Before, AllReplied
  <2> QED
    BY <2>2 DEF AnswerParts, Quiet, OfTurn, Calm, Sent
<1>6. CASE Exits
  BY <1>6, GoneAnswers DEF Exits, turnVars
<1> QED
  BY <1>1, <1>2, <1>3, <1>4, <1>5, <1>6 DEF Claude

\* Between runs, and between turns.
LEMMA RunAnswers ==
  ASSUME AnswerInv, UNCHANGED habits,
         \/ \E resumeId \in BOOLEAN : Launch(resumeId)
         \/ Launched \/ LaunchFails \/ RunEnds \/ OperatorStops \/ BeginTurn
  PROVE  AnswerParts'
<1> USE AnswerTypes
<1>1. ASSUME pc \notin InTurn, pc' \notin InTurn, UNCHANGED <<turn, answers>>,
             box' = <<>> \/ UNCHANGED box, proc' # "busy" \/ UNCHANGED proc,
             log' = <<>> \/ UNCHANGED log, pc' = "between" => proc' # "booting"
      PROVE  AnswerParts'
  <2>1. OwnAnswer' /\ (AllReplied' <=> AllReplied)
    BY <1>1, AnswersKept, BeforeKept
  <2>2. NotYet'
    BY <1>1 DEF NotYet
  <2>3. ~Cut(log) => ~Cut(log')
    BY <1>1, CutEmpty
  <2>4. Quiet'
    BY <1>1, <2>1, <2>3 DEF Quiet, Cut
  <2> QED
    BY <1>1, <2>1, <2>2, <2>4, OutsideTurn DEF AnswerParts
<1>2. ASSUME NEW resumeId \in BOOLEAN, Launch(resumeId)
      PROVE  AnswerParts'
  <2>1. \E l \in {log, <<>>} : Spawn(l, resumeId)
    BY <1>2 DEF Launch
  <2>2. (log' = <<>> \/ log' = log) /\ proc' # "busy" /\ box' = <<>>
    BY <2>1, SpawnIs
  <2> QED
    BY <1>1, <1>2, <2>2 DEF Launch, turnVars
<1>3. CASE Launched
  BY <1>1, <1>3 DEF Launched, claudeVars, turnVars
<1>4. CASE LaunchFails \/ RunEnds
  BY <1>1, <1>4 DEF LaunchFails, RunEnds, Kill, turnVars
<1>5. CASE OperatorStops
  <2>1. proc' \in {"none", "exited", "refused"}
    BY <1>5 DEF OperatorStops, Up, TypeOK, Proc
  <2> QED
    BY <1>5, <2>1, GoneAnswers DEF OperatorStops, turnVars
<1>6. CASE BeginTurn
  <2>1. /\ UNCHANGED <<log, box, proc, answers>> /\ turn' = turn + 1 /\ pc' = "type"
        /\ pc = "between" /\ turn + 1 \in 1..Turns /\ offset' = Len(log)
    BY <1>6, TurnsAssumption DEF BeginTurn, claudeVars
  <2>2. Before' => AllReplied
    <3>1. turn' - 1 = turn
      BY <2>1
    <3> QED
      BY <2>1, <3>1 DEF Before, AllReplied
  <2>3. Before' => box = <<>> /\ proc # "busy" /\ ~Cut(log)
    BY <2>1, <2>2 DEF Quiet
  <2>4. OwnAnswer'
    BY <2>1, AnswersKept
  <2>5. NotYet'
    BY <2>1, TurnsAssumption DEF NotYet
  <2>6. Quiet' /\ Sent'
    BY <2>1 DEF Quiet, Sent
  <2>7. Calm'
    BY <2>1, <2>3 DEF Calm
  <2>8. OfTurn'
    BY <2>1, <2>3, Empties DEF OfTurn, Cut
  <2> QED
    BY <2>4, <2>5, <2>6, <2>7, <2>8 DEF AnswerParts
<1> QED
  BY <1>2, <1>3, <1>4, <1>5, <1>6

\* The attempt failed: the turn goes on or is over.
LEMMA ThrowsAnswers ==
  ASSUME AnswerInv, pc \in InTurn, NEW recoverable \in BOOLEAN, Throws(recoverable),
         UNCHANGED habits
  PROVE  AnswerParts'
<1> USE AnswerTypes
<1>1. /\ UNCHANGED <<log, turn, answers>> /\ proc' = "none" /\ box' = <<>>
      /\ pc' = "off" \/ (pc' = "backoff" /\ offset' = offset)
  BY DEF Throws, Kill
<1>2. CASE pc' = "off"
  BY <1>1, <1>2, TurnLeft
<1>3. CASE pc' = "backoff" /\ offset' = offset
  <2>1. OwnAnswer' /\ (Before' <=> Before)
    BY <1>1, AnswersKept, BeforeKept
  <2>2. NotYet' /\ Quiet' /\ Sent' /\ Calm'
    BY <1>1, <1>3 DEF NotYet, Quiet, Sent, Calm
  <2>3. OfTurn'
    BY <1>1, <1>3, <2>1, Empties DEF OfTurn, Cut
  <2> QED
    BY <2>1, <2>2, <2>3 DEF AnswerParts
<1> QED
  BY <1>1, <1>2, <1>3

\* The turn goes on, and neither claude nor the transcript is touched.
LEMMA TurnGoesOn ==
  ASSUME AnswerInv, pc \in InTurn, pc' \in InTurn,
         UNCHANGED <<log, box, proc, turn, offset, answers, habits>>,
         pc' # "reboot" => proc # "booting",
         Before /\ pc' \in {"type", "backoff", "triage", "grace"} =>
           proc # "busy" /\ box = <<>>,
         Before /\ pc' \in {"submit", "wait"} => pc \in {"submit", "wait"} /\ UNCHANGED since
  PROVE  AnswerParts'
<1> USE AnswerTypes
<1>1. OwnAnswer' /\ (Before' <=> Before)
  BY AnswersKept, BeforeKept
<1>2. NotYet' /\ Quiet'
  BY DEF NotYet, Quiet
<1>3. OfTurn' /\ Calm'
  BY <1>1 DEF OfTurn, Cut, Calm
<1>4. Sent'
  BY <1>1 DEF Sent
<1> QED
  BY <1>1, <1>2, <1>3, <1>4 DEF AnswerParts

\* The reconciliation finds the final reply: it is of this turn.
LEMMA FoundAnswers ==
  ASSUME AnswerInv, pc \in {"triage", "grace"}, TurnEnded(log), TextAfter(offset) # Silent,
         Returns(TextAfter(offset)), UNCHANGED habits
  PROVE  AnswerParts'
<1> USE AnswerTypes
<1>1. PICK i \in DOMAIN log : i > offset /\ IsText(log[i]) /\ TextAfter(offset) = log[i]
  BY TextAfterIs
<1>2. i # 1 /\ log[i] \in Entry /\ i \in Nat
  BY <1>1, LogTypes DEF LogShape, IsText
<1>3. Before => log[i].of = turn
  BY <1>1, <1>2 DEF OfTurn
<1>4. ~Cut(log)
  BY InterruptedIs
<1>5. Before => box = <<>> /\ proc # "busy"
  BY DEF Calm
<1>6. proc # "booting"
  BY DEF NotYet
<1> QED
  BY <1>1, <1>2, <1>3, <1>4, <1>5, <1>6, TurnReturned

\* The prompt is typed.
LEMMA TypesAnswers ==
  ASSUME AnswerInv, Types, UNCHANGED habits
  PROVE  AnswerParts'
<1> USE AnswerTypes
<1> DEFINE p == [of |-> turn, kind |-> wording]
<1>1. /\ UNCHANGED <<log, proc, turn, offset, answers>> /\ pc = "type" /\ pc' = "submit"
      /\ box' = Append(box, p) /\ since' = Len(log) /\ proc \in {"idle", "busy"}
  BY DEF Types, Up, NotYet
<1>2. OwnAnswer' /\ (Before' <=> Before)
  BY <1>1, AnswersKept, BeforeKept
<1>3. NotYet' /\ Quiet' /\ Calm'
  BY <1>1 DEF NotYet, Quiet, Calm
<1>4. \A j \in DOMAIN box' : box'[j] = p \/ (j \in DOMAIN box /\ box'[j] = box[j])
  <2>1. p \in Prompt /\ box \in Seq(Prompt)
    BY <1>1 DEF TypeOK, Prompt
  <2> HIDE DEF p
  <2> QED
    BY <1>1, <2>1, AppendProperties
<1>5. p.of = turn
  OBVIOUS
<1> HIDE DEF p
<1>6. OfTurn'
  BY <1>1, <1>2, <1>4, <1>5 DEF OfTurn, Cut
<1>7. Len(log) >= 1 /\ Len(log) >= offset
  BY <1>1 DEF LogShape, TypedOnce
<1>8. Sent'
  BY <1>1, <1>2, <1>7 DEF Sent, Calm
<1> QED
  BY <1>2, <1>3, <1>6, <1>8 DEF AnswerParts

\* claude settled after the prompt: what it wrote last is the reply.
LEMMA ReadyAnswers ==
  ASSUME AnswerInv, TurnReady, UNCHANGED habits
  PROVE  AnswerParts'
<1> USE AnswerTypes
<1>1. pc = "wait" /\ proc = "idle" /\ Len(log) > since /\ Returns(TextAfter(since))
  BY DEF TurnReady
<1>2. TextAfter(since) \in Entry \cup {Silent}
  BY TextAfterType
<1>3. ASSUME Before
      PROVE  /\ TextAfter(since) \in Entry /\ TextAfter(since).of = turn
             /\ box = <<>> /\ proc # "busy" /\ ~Cut(log)
  <2>1. log[Len(log)].kind = "reply" /\ box = <<>> /\ since >= 1 /\ since >= offset
    BY <1>1, <1>3 DEF Sent
  <2>2. TextAfter(since) = log[Len(log)] /\ ~Cut(log)
    BY <1>1, <2>1, TextAfterIs DEF IsText, Cut
  <2>3. Len(log) \in DOMAIN log /\ Len(log) > offset /\ Len(log) > 1
    BY <1>1, <2>1
  <2>4. log[Len(log)].of = turn /\ log[Len(log)] \in Entry
    BY <1>1, <1>3, <2>3, LogTypes DEF OfTurn
  <2> QED
    BY <1>1, <2>1, <2>2, <2>4
<1> QED
  BY <1>1, <1>2, <1>3, TurnReturned

LEMMA TurnAnswers ==
  ASSUME AnswerInv, TurnStep, UNCHANGED habits
  PROVE  AnswerParts'
<1> USE AnswerTypes
<1>1. CASE Types
  BY <1>1, TypesAnswers
<1>2. CASE NotRunning \/ SubmitFails \/ WaitFails \/ RebootFails
  BY <1>2, ThrowsAnswers DEF NotRunning, SubmitFails, WaitFails, RebootFails
<1>3. CASE SubmitSeen \/ SubmitAgain
  BY <1>3, TurnGoesOn DEF SubmitSeen, SubmitAgain, claudeVars, NotYet
<1>4. CASE TurnReady
  BY <1>4, ReadyAnswers
<1>5. CASE Respawns
  <2>1. CASE stop
    BY <1>5, <2>1, TurnLeft DEF Respawns
  <2>2. CASE ~stop
    <3>1. /\ Spawn(log, TRUE) /\ pc = "backoff" /\ pc' = "reboot"
          /\ UNCHANGED <<turn, offset, answers>>
      BY <1>5, <2>2 DEF Respawns
    <3>2. box' = <<>> /\ proc' # "busy" /\ (log' = log \/ log' = <<>>)
      BY <3>1, SpawnIs
    <3>3. OwnAnswer' /\ (Before' <=> Before)
      BY <3>1, AnswersKept, BeforeKept
    <3>4. NotYet' /\ Quiet' /\ Sent' /\ Calm'
      BY <3>1 DEF NotYet, Quiet, Sent, Calm
    <3>5. OfTurn'
      BY <3>1, <3>2, <3>3, Empties DEF OfTurn, Cut
    <3> QED
      BY <3>3, <3>4, <3>5 DEF AnswerParts
  <2> QED
    BY <2>1, <2>2
<1>6. CASE Rebooted
  BY <1>6, TurnGoesOn DEF Rebooted, claudeVars, turnVars, TypedOnce
<1>7. CASE Triages
  <2>1. CASE UNCHANGED <<claudeVars, turnVars, stop, answers>> /\ pc' \in {"type", "grace"}
    BY <1>7, <2>1, TurnGoesOn DEF Triages, claudeVars, turnVars, NotYet, Calm
  <2>2. CASE TurnEnded(log) /\ TextAfter(offset) # Silent /\ Returns(TextAfter(offset))
    BY <1>7, <2>2, FoundAnswers DEF Triages
  <2> QED
    BY <1>7, <2>1, <2>2 DEF Triages
<1>8. CASE GraceStops
  BY <1>8, TurnLeft DEF GraceStops
<1>9. CASE GraceReturns
  BY <1>9, FoundAnswers DEF GraceReturns
<1>10. CASE GraceOver
  BY <1>10, TurnGoesOn DEF GraceOver, claudeVars, NotYet, Calm
<1> QED
  BY <1>1, <1>2, <1>3, <1>4, <1>5, <1>6, <1>7, <1>8, <1>9, <1>10 DEF TurnStep

(***************************************************************************)
(* The theorems.                                                           *)
(***************************************************************************)
LEMMA AnswerInvariant == Spec => []AnswerInv
<1>1. Init => AnswerParts
  <2> SUFFICES ASSUME Init PROVE AnswerParts
    OBVIOUS
  <2>1. pc = "off" /\ proc = "none" /\ box = <<>> /\ log = <<>>
        /\ \A t \in 1..Turns : answers[t] = Open
    BY DEF Init
  <2>2. OfTurn /\ Calm /\ Sent
    BY <2>1 DEF OfTurn, Calm, Sent
  <2> QED
    BY <2>1, <2>2, CutEmpty DEF AnswerParts, NotYet, Quiet, OwnAnswer, Cut
<1>2. AskedInv /\ AskedInv' /\ AnswerParts /\ [Next]_vars => AnswerParts'
  <2> SUFFICES ASSUME AnswerInv, [Next]_vars PROVE AnswerParts'
    BY DEF AnswerInv
  <2>1. CASE Next
    BY <2>1, ClaudeAnswers, RunAnswers, TurnAnswers DEF Next, Step
  <2>2. CASE UNCHANGED vars
    <3>1. UNCHANGED <<log, proc, box, pc, turn, offset, since, answers, habits>>
      BY <2>2 DEF vars
    <3>2. OwnAnswer' /\ (Before' <=> Before) /\ (AllReplied' <=> AllReplied)
      BY <3>1, AnswersKept, BeforeKept
    <3>3. NotYet' /\ Quiet'
      BY <3>1, <3>2, AnswerTypes DEF NotYet, Quiet, Cut
    <3>4. OfTurn' /\ Calm' /\ Sent'
      BY <3>1, <3>2, AnswerTypes DEF OfTurn, Cut, Calm, Sent
    <3> QED
      BY <3>2, <3>3, <3>4 DEF AnswerParts
  <2> QED
    BY <2>1, <2>2
<1> QED
  BY <1>1, <1>2, AskedInvariant, PTL DEF Spec, AnswerInv

\* As long as every turn got its final reply and a resumed claude is waited for
\* until it has caught up, no turn returns what another turn was answered,
\* whatever crashes and however often the prompt was sent.
THEOREM AnswersAreOwn == Spec => []OwnAnswer
<1>1. AnswerInv => OwnAnswer
  BY DEF AnswerInv, AnswerParts
<1> QED
  BY <1>1, AnswerInvariant, PTL

\* Under the same conditions, a turn that returns has put its prompt to claude.
THEOREM PromptsAreNotLost == Spec => NeverLost
<1> DEFINE Kept ==
      \A t \in 1..Turns : answers'[t] # answers[t] /\ CleanBefore(t) =>
        \E i \in DOMAIN log : log[i] \in Prompt /\ log[i].of = t
<1>1. ASSUME AnswerInv, NEW n \in Nat, pc \in InTurn, Returns(TextAfter(n)),
             Before => Len(log) > offset /\ Len(log) >= 2
      PROVE  Kept
  <2> SUFFICES ASSUME NEW t \in 1..Turns, answers'[t] # answers[t], CleanBefore(t)
               PROVE  \E i \in DOMAIN log : log[i] \in Prompt /\ log[i].of = t
    OBVIOUS
  <2>1. t = turn
    BY <1>1, AnswerTypes DEF Returns, TypeOK
  <2>2. Before
    BY <2>1 DEF CleanBefore, Before, Reply
  <2> QED
    BY <1>1, <2>1, <2>2, AnswerTypes DEF OfTurn
<1>2. ASSUME AnswerInv, pc \in {"triage", "grace"}, TextAfter(offset) # Silent,
             Returns(TextAfter(offset))
      PROVE  Kept
  <2>1. PICK i \in DOMAIN log : i > offset /\ IsText(log[i])
    BY <1>2, AnswerTypes, TextAfterIs
  <2>2. i # 1 /\ i \in 1..Len(log)
    BY <1>2, <2>1, AnswerTypes DEF LogShape, IsText
  <2>3. Len(log) > offset /\ Len(log) >= 2
    BY <1>2, <2>1, <2>2, AnswerTypes
  <2> QED
    BY <1>1, <1>2, <2>3, AnswerTypes
<1>3. ASSUME AnswerInv, TurnReady
      PROVE  Kept
  <2>1. Before => Len(log) > offset /\ Len(log) >= 2
    BY <1>3, AnswerTypes DEF TurnReady, Sent
  <2> QED
    BY <1>1, <1>3, <2>1, AnswerTypes DEF TurnReady
<1>4. ASSUME UNCHANGED answers
      PROVE  Kept
  BY <1>4
<1> HIDE DEF Kept
<1>5. AnswerInv /\ [Next]_vars => Kept
  <2> SUFFICES ASSUME AnswerInv, [Next]_vars PROVE Kept
    OBVIOUS
  <2>1. CASE Claude
    BY <1>4, <2>1 DEF Claude, Boots, TakesPrompt, Works, Replies, AutoContinues, Exits
  <2>2. ASSUME NEW resumeId \in BOOLEAN, Launch(resumeId)
        PROVE  Kept
    BY <1>4, <2>2 DEF Launch
  <2>3. CASE Launched \/ LaunchFails \/ RunEnds \/ OperatorStops \/ BeginTurn
    BY <1>4, <2>3 DEF Launched, LaunchFails, RunEnds, OperatorStops, BeginTurn
  <2>4. CASE TurnStep
    <3>1. ASSUME NEW recoverable, Throws(recoverable)
          PROVE  Kept
      BY <1>4, <3>1 DEF Throws
    <3>2. CASE Types \/ SubmitSeen \/ SubmitAgain \/ Respawns \/ Rebooted \/ GraceStops
               \/ GraceOver
      BY <1>4, <3>2 DEF Types, SubmitSeen, SubmitAgain, Respawns, Rebooted, GraceStops,
                        GraceOver
    <3>3. CASE NotRunning \/ SubmitFails \/ WaitFails \/ RebootFails
      BY <3>1, <3>3 DEF NotRunning, SubmitFails, WaitFails, RebootFails
    <3>4. CASE TurnReady
      BY <1>3, <3>4
    <3>5. CASE GraceReturns \/ Triages
      BY <1>2, <1>4, <3>5 DEF GraceReturns, Triages
    <3> QED
      BY <2>4, <3>2, <3>3, <3>4, <3>5 DEF TurnStep
  <2>5. CASE UNCHANGED vars
    BY <1>4, <2>5 DEF vars
  <2> QED
    BY <2>1, <2>2, <2>3, <2>4, <2>5 DEF Next, Step
<1>6. AnswerInv /\ [Next]_vars => [Kept]_vars
  BY <1>5
<1> QED
  BY <1>6, AnswerInvariant, PTL DEF Spec, NeverLost, Kept

=============================================================================
