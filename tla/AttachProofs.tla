---------------------------- MODULE AttachProofs ----------------------------
(***************************************************************************)
(* Theorems about Attach, for every number of handlers, prompts,           *)
(* registrations and limits.                                               *)
(***************************************************************************)
EXTENDS Attach, SequenceTheorems, TLAPS

GuardState == [turns : 0..MaxTurns + 1, recent : Seq(Prompt), expired : BOOLEAN]

Step == {"none", "reads", "asks"}

HandlerState == [step : Step, reg : Reg \cup {0}]

(***************************************************************************)
(* The operators of a check.                                               *)
(***************************************************************************)
LEMMA RecordedTypes ==
  ASSUME NEW g \in GuardState, NEW p \in Prompt
  PROVE  /\ Recorded(g, p) \in Seq(Prompt)
         /\ Recorded(g, p) # <<>>
         /\ Last(Recorded(g, p)) = p
<1> DEFINE all == Append(g.recent, p)
<1>1. g.recent \in Seq(Prompt)
  BY DEF GuardState
<1>2. /\ all \in Seq(Prompt)
      /\ Len(all) = Len(g.recent) + 1
      /\ all[Len(all)] = p
  BY <1>1, AppendProperties
<1>3. Len(g.recent) \in Nat /\ PingPong \in Nat \ {0}
  BY <1>1, LenProperties, AttachAssumption
<1>4. CASE Len(all) > PingPong
  <2>1. Recorded(g, p) = Tail(all)
    BY <1>4 DEF Recorded
  <2>2. all # <<>>
    BY <1>2, <1>3, EmptySeq
  <2>3. /\ Tail(all) \in Seq(Prompt)
        /\ Len(Tail(all)) = Len(all) - 1
        /\ \A i \in 1..Len(Tail(all)) : Tail(all)[i] = all[i + 1]
    BY <1>2, <2>2, HeadTailProperties
  <2>4. Len(Tail(all)) \in 1..Len(Tail(all)) /\ Len(Tail(all)) + 1 = Len(all)
    BY <1>2, <1>3, <1>4, <2>3
  <2>5. Tail(all)[Len(Tail(all))] = p
    BY <1>2, <2>3, <2>4
  <2>6. Tail(all) # <<>>
    BY <2>4, EmptySeq
  <2> QED
    BY <2>1, <2>3, <2>5, <2>6 DEF Last
<1>5. CASE ~(Len(all) > PingPong)
  <2>1. Recorded(g, p) = all
    BY <1>5 DEF Recorded
  <2>2. all # <<>>
    BY <1>2, <1>3, EmptySeq
  <2> QED
    BY <1>2, <2>1, <2>2 DEF Last
<1> QED
  BY <1>4, <1>5

LEMMA CheckedTypes ==
  ASSUME NEW g \in GuardState, NEW p \in Prompt
  PROVE  /\ Checked(g, p).guards \in GuardState
         /\ g.turns <= Checked(g, p).guards.turns
         /\ ~Checked(g, p).stop => /\ Checked(g, p).guards.turns = g.turns + 1
                                   /\ g.turns < MaxTurns
<1>1. /\ g.turns \in 0..MaxTurns + 1
      /\ g.recent \in Seq(Prompt)
      /\ g.expired \in BOOLEAN
  BY DEF GuardState
<1>2. MaxTurns \in Nat
  BY AttachAssumption
<1>3. /\ Counted(g.turns) \in 0..MaxTurns + 1
      /\ g.turns <= Counted(g.turns)
      /\ Counted(g.turns) <= MaxTurns => Counted(g.turns) = g.turns + 1
  BY <1>1, <1>2 DEF Counted
<1>4. Recorded(g, p) \in Seq(Prompt)
  BY RecordedTypes
<1>5. Checked(g, p).guards \in GuardState
  BY <1>1, <1>3, <1>4 DEF Checked, GuardState
<1>6. Checked(g, p).guards.turns = Counted(g.turns)
  BY DEF Checked, GuardState
<1>7. ~Checked(g, p).stop => ~(Counted(g.turns) > MaxTurns)
  BY DEF Checked
<1> QED
  BY <1>1, <1>2, <1>3, <1>5, <1>6, <1>7

\* A prompt that passes the check is the last one recorded, and the recorded
\* ones are not as many as PingPong copies of it.
LEMMA CheckedVaries ==
  ASSUME NEW g \in GuardState, NEW p \in Prompt, ~Checked(g, p).stop
  PROVE  LET recent == Checked(g, p).guards.recent
         IN  Len(recent) >= PingPong => \E i \in DOMAIN recent : recent[i] # Last(recent)
<1>1. Checked(g, p).guards.recent = Recorded(g, p)
  BY DEF Checked, GuardState
<1>2. Len(Recorded(g, p)) >= PingPong
        => \E i \in DOMAIN Recorded(g, p) : Recorded(g, p)[i] # p
  BY DEF Checked
<1>3. Last(Recorded(g, p)) = p
  BY RecordedTypes
<1> QED
  BY <1>1, <1>2, <1>3

(***************************************************************************)
(* Type correctness.                                                       *)
(***************************************************************************)
USE DEF GuardState, Step, HandlerState

LEMMA InitTypes == Init => TypeOK
<1> SUFFICES ASSUME Init PROVE TypeOK
  OBVIOUS
<1>1. MaxRegs \in Nat /\ MaxTurns \in Nat
  BY AttachAssumption
<1>2. FreshGuards \in GuardState
  BY <1>1, EmptySeq DEF FreshGuards
<1>3. guards \in [Reg -> GuardState]
  BY <1>2 DEF Init
<1>4. handler \in [Handler -> HandlerState]
  BY DEF Init, Free
<1>5. attached \in Reg \cup {0} /\ regs \in 0..MaxRegs /\ injected \in Nat
  BY <1>1 DEF Init
<1>6. driven \in [Reg -> Nat] /\ sent \in [Reg -> Nat]
  BY DEF Init
<1> QED
  BY <1>3, <1>4, <1>5, <1>6 DEF Init, TypeOK

\* A handler that is under way holds a registration.
Captured == \A h \in Handler : handler[h].step # "none" => handler[h].reg \in Reg

LEMMA CountUp ==
  ASSUME NEW f \in [Reg -> Nat], NEW r \in Reg
  PROVE  [f EXCEPT ![r] = @ + 1] \in [Reg -> Nat]
<1>1. f[r] \in Nat
  OBVIOUS
<1>2. f[r] + 1 \in Nat
  BY <1>1
<1> QED
  BY <1>2, Zenon

LEMMA StopTypes ==
  ASSUME TypeOK, NEW h \in Handler, AnswersStop(h)
  PROVE  /\ handler' \in [Handler -> HandlerState]
         /\ waiting' \in Handler \cup {None}
         /\ claude' \in {"idle", "working", "stopping"}
         /\ UNCHANGED <<attached, regs, continuing, injected, sent>>
<1>1. Free \in HandlerState
  BY DEF Free
<1> QED
  BY <1>1 DEF AnswersStop, TypeOK

LEMMA ContinueTypes ==
  ASSUME TypeOK, NEW h \in Handler, handler[h].reg \in Reg, AnswersContinue(h)
  PROVE  /\ handler' \in [Handler -> HandlerState]
         /\ waiting' \in Handler \cup {None}
         /\ claude' \in {"idle", "working", "stopping"}
         /\ continuing' \in BOOLEAN
         /\ injected' \in Nat
         /\ sent' \in [Reg -> Nat]
         /\ UNCHANGED <<attached, regs>>
<1>1. Free \in HandlerState
  BY DEF Free
<1>2. handler' \in [Handler -> HandlerState]
  BY <1>1 DEF AnswersContinue, TypeOK
<1>3. [sent EXCEPT ![handler[h].reg] = @ + 1] \in [Reg -> Nat]
  BY CountUp DEF TypeOK
<1>4. sent' \in [Reg -> Nat]
  BY <1>3, Zenon DEF AnswersContinue, TypeOK
<1>5. injected' \in Nat
  BY DEF AnswersContinue, TypeOK
<1> QED
  BY <1>2, <1>4, <1>5 DEF AnswersContinue, TypeOK

LEMMA BrainContinuesTypes ==
  ASSUME TypeOK, Captured, NEW h \in Handler, NEW p \in Prompt, BrainContinues(h, p)
  PROVE  TypeOK'
<1> DEFINE r == handler[h].reg
           check == Checked(guards[r], p)
<1>1. r \in Reg
  BY DEF BrainContinues, Captured
<1>2. guards[r] \in GuardState
  BY <1>1 DEF TypeOK
<1>3. check.guards \in GuardState
  BY <1>2, CheckedTypes
<1>4. guards' = [guards EXCEPT ![r] = check.guards]
  BY DEF BrainContinues
<1>5. guards' \in [Reg -> GuardState]
  BY <1>1, <1>3, <1>4 DEF TypeOK
<1>6. CASE AnswersStop(h) /\ UNCHANGED driven
  BY <1>5, <1>6, StopTypes DEF TypeOK
<1>7. CASE AnswersContinue(h) /\ driven' = [driven EXCEPT ![r] = @ + 1]
  <2>1. [driven EXCEPT ![r] = @ + 1] \in [Reg -> Nat]
    BY <1>1, CountUp DEF TypeOK
  <2> QED
    BY <1>1, <1>5, <1>7, <2>1, ContinueTypes DEF TypeOK
<1>8. \/ AnswersStop(h) /\ UNCHANGED driven
      \/ AnswersContinue(h) /\ driven' = [driven EXCEPT ![r] = @ + 1]
  BY Zenon DEF BrainContinues
<1> QED
  BY <1>6, <1>7, <1>8

LEMMA TypesKept == TypeOK /\ Captured /\ [Next]_vars => TypeOK'
<1> SUFFICES ASSUME TypeOK, Captured, [Next]_vars PROVE TypeOK'
  OBVIOUS
<1>1. CASE Register
  <2>1. regs \in Nat /\ regs < MaxRegs /\ MaxRegs \in Nat
    BY <1>1, AttachAssumption DEF Register, TypeOK
  <2>2. regs + 1 \in 0..MaxRegs /\ regs + 1 \in Reg
    BY <2>1 DEF Reg
  <2>3. regs' \in 0..MaxRegs /\ attached' \in Reg \cup {0}
    BY <1>1, <2>2 DEF Register
  <2> QED
    BY <1>1, <2>3 DEF Register, TypeOK
<1>2. CASE Unregister
  BY <1>2 DEF Unregister, TypeOK
<1>3. ASSUME NEW r \in Reg, TimePasses(r) PROVE TypeOK'
  <2>1. guards[r] \in GuardState
    BY DEF TypeOK
  <2>2. [guards[r] EXCEPT !.expired = TRUE] \in GuardState
    BY <2>1
  <2>3. guards' = [guards EXCEPT ![r] = [guards[r] EXCEPT !.expired = TRUE]]
    BY <1>3, Zenon DEF TimePasses
  <2>4. guards' \in [Reg -> GuardState]
    BY <2>2, <2>3 DEF TypeOK
  <2> QED
    BY <1>3, <2>4 DEF TimePasses, TypeOK
<1>4. CASE OperatorPrompts
  BY <1>4 DEF OperatorPrompts, TypeOK
<1>5. CASE EndsAlone
  BY <1>5 DEF EndsAlone, TypeOK
<1>6. CASE HookTimesOut
  BY <1>6 DEF HookTimesOut, TypeOK
<1>7. CASE Restart
  <2>1. handler' \in [Handler -> HandlerState]
    BY <1>7 DEF Restart, Free
  <2> QED
    BY <1>7, <2>1 DEF Restart, TypeOK
<1>8. ASSUME NEW h \in Handler, HookPosts(h) PROVE TypeOK'
  <2>1. handler' \in [Handler -> HandlerState]
    BY <1>8 DEF HookPosts, TypeOK
  <2> QED
    BY <1>8, <2>1 DEF HookPosts, TypeOK
<1>9. ASSUME NEW h \in Handler, TranscriptRead(h) PROVE TypeOK'
  <2>1. handler' \in [Handler -> HandlerState]
    BY <1>9 DEF TranscriptRead, TypeOK
  <2> QED
    BY <1>9, <2>1 DEF TranscriptRead, TypeOK
<1>10. ASSUME NEW h \in Handler, HandlerFails(h) \/ BrainStops(h) PROVE TypeOK'
  <2>1. AnswersStop(h) /\ UNCHANGED <<guards, driven>>
    BY <1>10 DEF HandlerFails, BrainStops
  <2> QED
    BY <2>1, StopTypes DEF TypeOK
<1>11. ASSUME NEW h \in Handler, NEW p \in Prompt, BrainContinues(h, p) PROVE TypeOK'
  BY <1>11, BrainContinuesTypes
<1>12. CASE UNCHANGED vars
  BY <1>12 DEF vars, TypeOK
<1> QED
  BY <1>1, <1>2, <1>3, <1>4, <1>5, <1>6, <1>7, <1>8, <1>9, <1>10, <1>11, <1>12 DEF Next

LEMMA CapturedKept == TypeOK /\ Captured /\ [Next]_vars => Captured'
<1> SUFFICES ASSUME TypeOK, Captured, [Next]_vars PROVE Captured'
  OBVIOUS
<1>1. CASE UNCHANGED handler
  BY <1>1 DEF Captured
<1>2. CASE Restart
  BY <1>2 DEF Restart, Captured, Free
<1>3. ASSUME NEW h \in Handler, HookPosts(h) PROVE Captured'
  <2>1. attached \in Reg
    BY <1>3 DEF HookPosts, TypeOK
  <2> QED
    BY <1>3, <2>1 DEF HookPosts, Captured, TypeOK
<1>4. ASSUME NEW h \in Handler, TranscriptRead(h) PROVE Captured'
  BY <1>4 DEF TranscriptRead, Captured, TypeOK
<1>5. ASSUME NEW h \in Handler, handler' = [handler EXCEPT ![h] = Free] PROVE Captured'
  BY <1>5 DEF Captured, Free, TypeOK
<1>6. ASSUME NEW h \in Handler, HandlerFails(h) \/ BrainStops(h)
      PROVE  handler' = [handler EXCEPT ![h] = Free]
  BY <1>6 DEF HandlerFails, BrainStops, AnswersStop
<1>7. ASSUME NEW h \in Handler, NEW p \in Prompt, BrainContinues(h, p)
      PROVE  handler' = [handler EXCEPT ![h] = Free]
  BY <1>7 DEF BrainContinues, AnswersStop, AnswersContinue
<1> QED
  BY <1>1, <1>2, <1>3, <1>4, <1>5, <1>6, <1>7
  DEF Next, Register, Unregister, TimePasses, OperatorPrompts, EndsAlone, HookTimesOut, vars

LEMMA TypesInvariant == Spec => [](TypeOK /\ Captured)
<1>1. Init => TypeOK /\ Captured
  BY InitTypes DEF Init, Captured, Free
<1> QED
  BY <1>1, TypesKept, CapturedKept, PTL DEF Spec

\* Every variable keeps its type, whatever handlers overlap and time out.
THEOREM TypeCorrect == Spec => []TypeOK
BY TypesInvariant, PTL

(***************************************************************************)
(* The limits.                                                             *)
(***************************************************************************)
\* What is injected is shown, what is shown was counted by the guards, and the
\* guards count on past the limit only when they refuse.
DrivesCounted ==
  \A r \in Reg : /\ sent[r] <= driven[r]
                 /\ driven[r] <= guards[r].turns
                 /\ driven[r] <= MaxTurns

LEMMA SentGrows ==
  ASSUME TypeOK, NEW h \in Handler, handler[h].reg \in Reg, AnswersContinue(h),
         NEW r \in Reg
  PROVE  /\ r # handler[h].reg => sent'[r] = sent[r]
         /\ sent'[r] <= sent[r] + 1
<1>1. sent[r] \in Nat
  BY DEF TypeOK
<1>2. CASE waiting = h
  <2>1. sent' = [sent EXCEPT ![handler[h].reg] = @ + 1]
    BY <1>2 DEF AnswersContinue
  <2> QED
    BY <1>1, <2>1 DEF TypeOK
<1>3. CASE waiting # h
  BY <1>1, <1>3 DEF AnswersContinue
<1> QED
  BY <1>2, <1>3

LEMMA BrainContinuesCounts ==
  ASSUME TypeOK, Captured, DrivesCounted, NEW h \in Handler, NEW p \in Prompt,
         BrainContinues(h, p)
  PROVE  DrivesCounted'
<1> DEFINE r == handler[h].reg
           check == Checked(guards[r], p)
<1>1. r \in Reg
  BY DEF BrainContinues, Captured
<1>2. guards[r] \in GuardState
  BY <1>1 DEF TypeOK
<1>3. /\ check.guards \in GuardState
      /\ guards[r].turns <= check.guards.turns
      /\ ~check.stop => /\ check.guards.turns = guards[r].turns + 1
                        /\ guards[r].turns < MaxTurns
  BY <1>2, CheckedTypes
<1>4. guards' = [guards EXCEPT ![r] = check.guards]
  BY DEF BrainContinues
<1>5. /\ guards'[r] = check.guards
      /\ \A q \in Reg \ {r} : guards'[q] = guards[q]
  BY <1>1, <1>4 DEF TypeOK
<1>6. /\ sent[r] \in Nat /\ driven[r] \in Nat
      /\ guards[r].turns \in Nat /\ check.guards.turns \in Nat
      /\ MaxTurns \in Nat
  BY <1>1, <1>2, <1>3, AttachAssumption DEF TypeOK
<1>7. CASE AnswersStop(h) /\ UNCHANGED driven
  <2>1. sent' = sent
    BY <1>7 DEF AnswersStop
  <2>2. driven[r] <= guards'[r].turns
    BY <1>1, <1>3, <1>5, <1>6 DEF DrivesCounted
  <2> QED
    BY <1>5, <1>7, <2>1, <2>2 DEF DrivesCounted
<1>8. CASE /\ ~check.stop
           /\ AnswersContinue(h)
           /\ driven' = [driven EXCEPT ![r] = @ + 1]
  <2>1. /\ driven'[r] = driven[r] + 1
        /\ \A q \in Reg \ {r} : driven'[q] = driven[q]
    BY <1>1, <1>8 DEF TypeOK
  <2>2. /\ sent'[r] <= sent[r] + 1
        /\ \A q \in Reg \ {r} : sent'[q] = sent[q]
    BY <1>1, <1>8, SentGrows
  <2>3. sent'[r] \in Nat
    BY <1>1, <1>8, ContinueTypes
  <2>4. /\ sent'[r] <= driven'[r]
        /\ driven'[r] <= guards'[r].turns
        /\ driven'[r] <= MaxTurns
    <3>1. sent[r] <= driven[r] /\ driven[r] <= guards[r].turns
      BY <1>1 DEF DrivesCounted
    <3>2. /\ guards'[r].turns = guards[r].turns + 1
          /\ guards[r].turns < MaxTurns
      BY <1>3, <1>5, <1>8
    <3> HIDE DEF r, check
    <3> QED
      BY <1>6, <2>1, <2>2, <2>3, <3>1, <3>2
  <2>5. ASSUME NEW q \in Reg \ {r}
        PROVE  /\ sent'[q] <= driven'[q]
               /\ driven'[q] <= guards'[q].turns
               /\ driven'[q] <= MaxTurns
    <3>1. sent'[q] = sent[q] /\ driven'[q] = driven[q] /\ guards'[q] = guards[q]
      BY <1>5, <2>1, <2>2
    <3> QED
      BY <3>1 DEF DrivesCounted
  <2> HIDE DEF r
  <2> QED
    BY <2>4, <2>5 DEF DrivesCounted
<1>9. \/ AnswersStop(h) /\ UNCHANGED driven
      \/ ~check.stop /\ AnswersContinue(h) /\ driven' = [driven EXCEPT ![r] = @ + 1]
  BY Zenon DEF BrainContinues
<1> QED
  BY <1>7, <1>8, <1>9

LEMMA DrivesCountedKept ==
  TypeOK /\ Captured /\ DrivesCounted /\ [Next]_vars => DrivesCounted'
<1> SUFFICES ASSUME TypeOK, Captured, DrivesCounted, [Next]_vars PROVE DrivesCounted'
  OBVIOUS
<1>1. CASE UNCHANGED <<guards, driven, sent>>
  BY <1>1 DEF DrivesCounted
<1>2. ASSUME NEW r \in Reg, TimePasses(r) PROVE DrivesCounted'
  <2>1. UNCHANGED <<driven, sent>>
    BY <1>2 DEF TimePasses
  <2>2. guards' = [guards EXCEPT ![r] = [guards[r] EXCEPT !.expired = TRUE]]
    BY <1>2, Zenon DEF TimePasses
  <2>3. guards[r] \in GuardState
    BY DEF TypeOK
  <2>4. \A q \in Reg : guards'[q].turns = guards[q].turns
    BY <2>2, <2>3 DEF TypeOK
  <2> QED
    BY <2>1, <2>4 DEF DrivesCounted
<1>3. ASSUME NEW h \in Handler, HandlerFails(h) \/ BrainStops(h)
      PROVE  UNCHANGED <<guards, driven, sent>>
  BY <1>3 DEF HandlerFails, BrainStops, AnswersStop
<1>4. ASSUME NEW h \in Handler, NEW p \in Prompt, BrainContinues(h, p) PROVE DrivesCounted'
  BY <1>4, BrainContinuesCounts
<1> QED
  BY <1>1, <1>2, <1>3, <1>4
  DEF Next, Register, Unregister, OperatorPrompts, EndsAlone, HookTimesOut, Restart,
      HookPosts, TranscriptRead, vars

\* However handlers overlap, and whoever has given up waiting, no registration
\* has more prompts injected than its limit or than the dashboard shows.
THEOREM DrivesLimited == Spec => []DrivesWithinLimits
<1>1. Init => DrivesCounted
  <2> SUFFICES ASSUME Init, NEW r \in Reg
               PROVE  /\ sent[r] <= driven[r]
                      /\ driven[r] <= guards[r].turns
                      /\ driven[r] <= MaxTurns
    BY DEF DrivesCounted
  <2>1. MaxTurns \in Nat
    BY AttachAssumption
  <2>2. sent[r] = 0 /\ driven[r] = 0 /\ guards[r].turns = 0
    BY DEF Init, FreshGuards
  <2> QED
    BY <2>1, <2>2
<1>2. DrivesCounted => DrivesWithinLimits
  BY DEF DrivesCounted, DrivesWithinLimits
<1> QED
  BY <1>1, <1>2, TypesInvariant, DrivesCountedKept, PTL DEF Spec

(***************************************************************************)
(* One injection per prompt.                                               *)
(***************************************************************************)
\* A turn that a hook has caused is not asked about, so a hook only waits in
\* the turn the operator's prompt began.
AskedOnce ==
  /\ injected = 0 \/ injected = 1
  /\ injected = 1 => continuing
  /\ waiting # None => ~continuing

LEMMA AskedOnceKept == TypeOK /\ AskedOnce /\ [Next]_vars => AskedOnce'
<1> SUFFICES ASSUME TypeOK, AskedOnce, [Next]_vars PROVE AskedOnce'
  OBVIOUS
<1> USE DEF AskedOnce
<1>1. CASE UNCHANGED <<waiting, continuing, injected>>
  BY <1>1
<1>2. CASE OperatorPrompts
  BY <1>2 DEF OperatorPrompts
<1>3. CASE waiting' = None /\ UNCHANGED <<continuing, injected>>
  BY <1>3
<1>4. ASSUME NEW h \in Handler, HookPosts(h) PROVE AskedOnce'
  BY <1>4 DEF HookPosts, LetsItStop
<1>5. ASSUME NEW h \in Handler, AnswersStop(h) PROVE AskedOnce'
  BY <1>5 DEF AnswersStop
<1>6. ASSUME NEW h \in Handler, AnswersContinue(h) PROVE AskedOnce'
  <2>1. h # None
    BY AttachAssumption DEF None
  <2> QED
    BY <1>6, <2>1 DEF AnswersContinue
<1>7. ASSUME NEW h \in Handler, HandlerFails(h) \/ BrainStops(h) PROVE AnswersStop(h)
  BY <1>7 DEF HandlerFails, BrainStops
<1>8. ASSUME NEW h \in Handler, NEW p \in Prompt, BrainContinues(h, p)
      PROVE  AnswersStop(h) \/ AnswersContinue(h)
  BY <1>8 DEF BrainContinues
<1> QED
  BY <1>1, <1>2, <1>3, <1>4, <1>5, <1>6, <1>7, <1>8
  DEF Next, Register, Unregister, TimePasses, EndsAlone, HookTimesOut, Restart,
      TranscriptRead, vars

\* claude is sent back to work at most once for a prompt of the operator.
THEOREM InjectsOnce == Spec => []OneInjectionPerPrompt
<1>1. Init => AskedOnce
  BY DEF Init, AskedOnce
<1>2. AskedOnce => OneInjectionPerPrompt
  BY DEF AskedOnce, OneInjectionPerPrompt
<1> QED
  BY <1>1, <1>2, TypesInvariant, AskedOnceKept, PTL DEF Spec

(***************************************************************************)
(* The ping-pong guard.                                                    *)
(***************************************************************************)
LEMMA BrainContinuesVaries ==
  ASSUME TypeOK, Captured, NEW h \in Handler, NEW p \in Prompt, BrainContinues(h, p),
         NEW r \in Reg, driven'[r] > driven[r], Len(guards'[r].recent) >= PingPong
  PROVE  \E i \in DOMAIN guards'[r].recent :
           guards'[r].recent[i] # Last(guards'[r].recent)
<1> DEFINE q == handler[h].reg
           check == Checked(guards[q], p)
<1>1. q \in Reg
  BY DEF BrainContinues, Captured
<1>2. driven[r] \in Nat
  BY DEF TypeOK
<1>3. driven' # driven
  BY <1>2
<1>4. ~check.stop /\ driven' = [driven EXCEPT ![q] = @ + 1]
  BY <1>3, Zenon DEF BrainContinues
<1>5. r = q
  BY <1>2, <1>4 DEF TypeOK
<1>6. guards[q] \in GuardState
  BY <1>1 DEF TypeOK
<1>7. guards'[q] = check.guards
  BY <1>1 DEF BrainContinues, TypeOK
<1>8. LET recent == check.guards.recent
      IN  Len(recent) >= PingPong => \E i \in DOMAIN recent : recent[i] # Last(recent)
  BY <1>4, <1>6, CheckedVaries
<1> HIDE DEF check, q
<1> QED
  BY <1>5, <1>7, <1>8

\* The brain's prompts are never accepted PingPong times over.
THEOREM PingPongStops == Spec => NeverPingPong
<1> DEFINE A == \A r \in Reg :
             driven'[r] > driven[r] /\ Len(guards'[r].recent) >= PingPong
               => \E i \in DOMAIN guards'[r].recent :
                    guards'[r].recent[i] # Last(guards'[r].recent)
<1>1. ASSUME TypeOK, Captured, [Next]_vars PROVE [A]_vars
  <2> SUFFICES ASSUME NEW r \in Reg, driven'[r] > driven[r],
                      Len(guards'[r].recent) >= PingPong
               PROVE  \E i \in DOMAIN guards'[r].recent :
                        guards'[r].recent[i] # Last(guards'[r].recent)
    OBVIOUS
  <2>1. driven[r] \in Nat
    BY <1>1 DEF TypeOK
  <2>2. driven' # driven
    BY <2>1
  <2>3. PICK h \in Handler, p \in Prompt : BrainContinues(h, p)
    BY <1>1, <2>2
    DEF Next, Register, Unregister, TimePasses, OperatorPrompts, EndsAlone, HookTimesOut,
        Restart, HookPosts, TranscriptRead, HandlerFails, BrainStops, AnswersStop, vars
  <2> QED
    BY <1>1, <2>3, BrainContinuesVaries
<1>2. Spec => [][A]_vars
  <2>1. TypeOK /\ Captured /\ [Next]_vars => [A]_vars
    BY <1>1
  <2> HIDE DEF A
  <2> QED
    BY <2>1, TypesInvariant, PTL DEF Spec
<1> QED
  BY <1>2 DEF NeverPingPong
=============================================================================
