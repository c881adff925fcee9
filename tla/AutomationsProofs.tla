------------------------- MODULE AutomationsProofs -------------------------
(***************************************************************************)
(* What holds of the reactive layer for every fleet, every workflow and    *)
(* every list of rules.  The plan of an event and its run are folds over   *)
(* the rules and the actions; that a fold keeps what each of its steps     *)
(* keeps is shown by induction on the elements folded so far.              *)
(***************************************************************************)
EXTENDS Automations, WellFoundedInduction, TLAPS

(***************************************************************************)
(* Induction over the naturals, with the induction hypothesis as a set.    *)
(***************************************************************************)
LEMMA LeastOf ==
  ASSUME NEW T \in SUBSET Nat, T # {}
  PROVE  \E x \in T : \A y \in T : ~(y < x)
<1>1. IsWellFoundedOn({p \in Nat \X Nat : p[1] < p[2]}, Nat)
  BY NatLessThanWellFounded DEF OpToRel
<1>2. \E x \in T : \A y \in T : ~(<<y, x>> \in {p \in Nat \X Nat : p[1] < p[2]})
  BY <1>1, WFMin
<1> QED
  BY <1>2

LEMMA SetInduction ==
  ASSUME NEW S, 0 \in S, \A n \in Nat : n \in S => n + 1 \in S
  PROVE  Nat \subseteq S
<1> SUFFICES ASSUME Nat \ S # {} PROVE FALSE
  OBVIOUS
<1>1. PICK x \in Nat \ S : \A y \in Nat \ S : ~(y < x)
  BY LeastOf
<1>2. x # 0 /\ x - 1 \in Nat /\ x - 1 < x
  BY <1>1
<1>3. x - 1 \in S
  BY <1>1, <1>2
<1> QED
  BY <1>1, <1>2, <1>3

(***************************************************************************)
(* FoldLeft over 1..n: the value after the elements of sub is the step for *)
(* the last of them, taken on the value after the others.                  *)
(***************************************************************************)
LEMMA MaxIs ==
  ASSUME NEW S \in SUBSET Nat, NEW m \in S, \A x \in S : x <= m
  PROVE  Max(S) = m
<1>1. m \in S /\ \A x \in S : m >= x
  OBVIOUS
<1>2. \A k \in S : (\A x \in S : k >= x) => k = m
  BY <1>1
<1> QED
  BY <1>1, <1>2 DEF Max

LEMMA BoundedHasMax ==
  ASSUME NEW n \in Nat
  PROVE  \A sub \in SUBSET (1..n) : sub # {} => \E m \in sub : \A x \in sub : x <= m
<1> DEFINE S == {k \in Nat : \A sub \in SUBSET (1..k) :
                                sub # {} => \E m \in sub : \A x \in sub : x <= m}
<1>1. 0 \in S
  <2>1. 1..0 = {}
    OBVIOUS
  <2> QED
    BY <2>1
<1>2. ASSUME NEW k \in Nat, k \in S PROVE k + 1 \in S
  <2> SUFFICES ASSUME NEW sub \in SUBSET (1..(k + 1)), sub # {}
                PROVE  \E m \in sub : \A x \in sub : x <= m
    OBVIOUS
  <2>1. CASE k + 1 \in sub
    BY <2>1
  <2>2. CASE k + 1 \notin sub
    <3>1. sub \in SUBSET (1..k)
      BY <2>2
    <3> QED
      BY <3>1, <1>2
  <2> QED
    BY <2>1, <2>2
<1>3. Nat \subseteq S
  <2> HIDE DEF S
  <2> QED
    BY <1>1, <1>2, SetInduction
<1> QED
  BY <1>3

LEMMA MaxIn ==
  ASSUME NEW n \in Nat, NEW sub \in SUBSET (1..n), sub # {}
  PROVE  Max(sub) \in sub /\ \A x \in sub : x <= Max(sub)
<1>1. PICK m \in sub : \A x \in sub : x <= m
  BY BoundedHasMax
<1>2. Max(sub) = m
  BY <1>1, MaxIs
<1> QED
  BY <1>1, <1>2

FoldOf(it, X, n, base, step) ==
  /\ it \in [SUBSET (1..n) -> X]
  /\ \A sub \in SUBSET (1..n) :
       it[sub] = IF sub = {} THEN base ELSE step[Max(sub)][it[sub \ {Max(sub)}]]

LEMMA FoldExists ==
  ASSUME NEW X, NEW n \in Nat, NEW base \in X, NEW step \in [1..n -> [X -> X]]
  PROVE  \E it : FoldOf(it, X, n, base, step)
<1> DEFINE Is(it, k) == \A sub \in SUBSET (1..k) :
              it[sub] = IF sub = {} THEN base ELSE step[Max(sub)][it[sub \ {Max(sub)}]]
            S == {k \in Nat : k <= n => \E it \in [SUBSET (1..k) -> X] : Is(it, k)}
<1>1. 0 \in S
  <2> DEFINE one == [sub \in SUBSET (1..0) |-> base]
  <2>1. \A sub \in SUBSET (1..0) : sub = {}
    OBVIOUS
  <2>2. one \in [SUBSET (1..0) -> X] /\ Is(one, 0)
    BY <2>1
  <2> QED
    BY <2>2
<1>2. ASSUME NEW k \in Nat, k \in S PROVE k + 1 \in S
  <2> HIDE DEF Is
  <2> SUFFICES ASSUME k + 1 <= n
                PROVE  \E it \in [SUBSET (1..(k + 1)) -> X] : Is(it, k + 1)
    <3>1. k + 1 \in Nat
      OBVIOUS
    <3> QED
      BY <3>1, Zenon
  <2>1. k <= n
    OBVIOUS
  <2>2. PICK it \in [SUBSET (1..k) -> X] : Is(it, k)
    BY <2>1, <1>2, Zenon
  <2> USE DEF Is
  <2> DEFINE it2 == [sub \in SUBSET (1..(k + 1)) |->
                        IF k + 1 \in sub THEN step[k + 1][it[sub \ {k + 1}]] ELSE it[sub]]
  <2>3. step[k + 1] \in [X -> X]
    OBVIOUS
  <2>4. ASSUME NEW sub \in SUBSET (1..(k + 1)) PROVE sub \ {k + 1} \in SUBSET (1..k)
    OBVIOUS
  <2>5. it2 \in [SUBSET (1..(k + 1)) -> X]
    <3>1. ASSUME NEW sub \in SUBSET (1..(k + 1))
          PROVE  (IF k + 1 \in sub THEN step[k + 1][it[sub \ {k + 1}]] ELSE it[sub]) \in X
      <4>1. CASE k + 1 \in sub
        BY <4>1, <2>2, <2>3, <2>4
      <4>2. CASE k + 1 \notin sub
        <5>1. sub \in SUBSET (1..k)
          BY <4>2
        <5> QED
          BY <4>2, <5>1, <2>2
      <4> QED
        BY <4>1, <4>2
    <3> QED
      BY <3>1
  <2>6. ASSUME NEW sub \in SUBSET (1..(k + 1))
        PROVE  it2[sub] = IF sub = {} THEN base
                          ELSE step[Max(sub)][it2[sub \ {Max(sub)}]]
    <3>1. CASE k + 1 \in sub
      <4>1. Max(sub) = k + 1
        <5>1. sub \in SUBSET Nat /\ \A x \in sub : x <= k + 1
          OBVIOUS
        <5> QED
          BY <5>1, <3>1, MaxIs
      <4>2. it2[sub \ {k + 1}] = it[sub \ {k + 1}]
        BY <2>4
      <4> QED
        BY <3>1, <4>1, <4>2
    <3>2. CASE k + 1 \notin sub
      <4>1. sub \in SUBSET (1..k)
        BY <3>2
      <4>2. it2[sub] = it[sub]
        BY <3>2
      <4>3. CASE sub = {}
        BY <4>1, <4>2, <4>3, <2>2
      <4>4. CASE sub # {}
        <5>1. Max(sub) \in sub
          BY <4>1, <4>4, MaxIn
        <5>2. it2[sub \ {Max(sub)}] = it[sub \ {Max(sub)}]
          BY <3>2
        <5> QED
          BY <4>1, <4>2, <4>4, <5>2, <2>2
      <4> QED
        BY <4>3, <4>4
    <3> QED
      BY <3>1, <3>2
  <2> QED
    <3> HIDE DEF it2
    <3> QED
      BY <2>5, <2>6
<1>3. n \in S
  <2> HIDE DEF S
  <2> QED
    BY <1>1, <1>2, SetInduction
<1>4. n <= n
  OBVIOUS
<1>5. PICK it \in [SUBSET (1..n) -> X] : Is(it, n)
  BY <1>3, <1>4, Zenon
<1> QED
  BY <1>5 DEF FoldOf

LEMMA Prefix ==
  ASSUME NEW n \in Nat, NEW k \in 1..n
  PROVE  /\ k - 1 \in 0..n /\ k \in 0..n
         /\ 1..k \in SUBSET (1..n) /\ 1..k # {}
         /\ Max(1..k) = k /\ (1..k) \ {k} = 1..(k - 1)
<1>1. k \in Nat \ {0} /\ k - 1 \in 0..n /\ k \in 0..n /\ k \in 1..k
  OBVIOUS
<1>2. 1..k \in SUBSET (1..n)
  OBVIOUS
<1>3. 1..k \in SUBSET Nat /\ \A x \in 1..k : x <= k
  OBVIOUS
<1>4. Max(1..k) = k
  BY <1>1, <1>3, MaxIs
<1>5. (1..k) \ {k} = 1..(k - 1)
  OBVIOUS
<1>6. 1..k # {}
  BY <1>1
<1> QED
  BY <1>1, <1>2, <1>4, <1>5, <1>6

LEMMA FoldGoes ==
  ASSUME NEW X, NEW n \in Nat, NEW it,
         it[1..0] \in X[0],
         \A k \in 1..n : it[1..(k - 1)] \in X[k - 1] => it[1..k] \in X[k]
  PROVE  it[1..n] \in X[n]
<1> DEFINE S == {k \in Nat : k <= n => it[1..k] \in X[k]}
<1>1. 0 \in S
  OBVIOUS
<1>2. ASSUME NEW k \in Nat, k \in S PROVE k + 1 \in S
  <2> SUFFICES ASSUME k + 1 <= n PROVE it[1..(k + 1)] \in X[k + 1]
    OBVIOUS
  <2>1. k + 1 \in 1..n /\ (k + 1) - 1 = k
    OBVIOUS
  <2>2. it[1..k] \in X[k]
    BY <1>2
  <2> QED
    BY <2>1, <2>2
<1>3. n \in S
  <2> HIDE DEF S
  <2> QED
    BY <1>1, <1>2, SetInduction
<1> QED
  BY <1>3

(***************************************************************************)
(* The plan of an event.                                                   *)
(***************************************************************************)
\* What a plan for s may hold: no session is started by its own event.
Planable(s) == {a \in Action : ~(a.kind = "start" /\ a.target = s)}

\* The plans of s that hold what S asks for, each action once.
PlansOf(S, s) ==
  {p \in Seq(Action) :
     /\ \A i, j \in 1..Len(p) : p[i] = p[j] => i = j
     /\ {p[i] : i \in 1..Len(p)} = S \cap Planable(s)}

\* What the rules up to the k-th ask for, at an event of s in state m.
AskedFor(event, s, m, k) ==
  {a \in Action : \E i \in 1..k :
     /\ RuleApplies(Rules[i], event, s, m)
     /\ \E j \in 1..Len(Rules[i].actions) : a = Resolved(Rules[i].actions[j], s)}

LEMMA ResolvedIsAction ==
  ASSUME NEW s \in Session, NEW a \in Action
  PROVE  Resolved(a, s) \in Action
BY DEF Resolved, Action, Target

LEMMA AddsExactly ==
  ASSUME NEW s, NEW S, NEW plan \in PlansOf(S, s), NEW a \in Action
  PROVE  Adds(plan, a, s) \in PlansOf(S \cup {a}, s)
<1>1. /\ plan \in Seq(Action)
      /\ \A i, j \in 1..Len(plan) : plan[i] = plan[j] => i = j
      /\ {plan[i] : i \in 1..Len(plan)} = S \cap Planable(s)
  BY DEF PlansOf
<1>2. Contains(plan, a) <=> a \in S \cap Planable(s)
  <2>1. Contains(plan, a) <=> \E i \in 1..Len(plan) : plan[i] = a
    BY DEF Contains
  <2> QED
    BY <1>1, <2>1
<1>3. CASE Contains(plan, a) \/ (a.kind = "start" /\ a.target = s)
  <2>1. Adds(plan, a, s) = plan
    BY <1>3 DEF Adds
  <2>2. (S \cup {a}) \cap Planable(s) = S \cap Planable(s)
    BY <1>2, <1>3 DEF Planable
  <2> QED
    BY <1>1, <2>1, <2>2 DEF PlansOf
<1>4. CASE ~(Contains(plan, a) \/ (a.kind = "start" /\ a.target = s))
  <2> DEFINE new == Append(plan, a)
  <2>1. Adds(plan, a, s) = new
    BY <1>4 DEF Adds
  <2>2. /\ new \in Seq(Action) /\ Len(new) = Len(plan) + 1 /\ new[Len(plan) + 1] = a
        /\ \A i \in 1..Len(plan) : new[i] = plan[i]
    BY <1>1
  <2>3. a \in Planable(s) /\ a \notin {plan[i] : i \in 1..Len(plan)}
    BY <1>1, <1>2, <1>4 DEF Planable
  <2>4. Len(plan) \in Nat
    BY <1>1
  <2> HIDE DEF new
  <2>5. \A i, j \in 1..Len(new) : new[i] = new[j] => i = j
    BY <1>1, <2>2, <2>3, <2>4
  <2>6. {new[i] : i \in 1..Len(new)} = (S \cap Planable(s)) \cup {a}
    <3>1. {new[i] : i \in 1..Len(new)} = {plan[i] : i \in 1..Len(plan)} \cup {a}
      BY <2>2, <2>4
    <3> QED
      BY <1>1, <3>1
  <2>7. (S \cap Planable(s)) \cup {a} = (S \cup {a}) \cap Planable(s)
    BY <2>3
  <2> QED
    BY <2>1, <2>2, <2>5, <2>6, <2>7 DEF PlansOf
<1> QED
  BY <1>3, <1>4

LEMMA ActionsPlanned ==
  ASSUME NEW s \in Session, NEW S, NEW plan \in PlansOf(S, s), NEW actions \in Seq(Action)
  PROVE  FoldLeft(LAMBDA p, a : Adds(p, Resolved(a, s), s), plan, actions) \in
           PlansOf(S \cup {Resolved(actions[j], s) : j \in 1..Len(actions)}, s)
<1> DEFINE n == Len(actions)
            X == Seq(Action)
            Act(p, i) == Adds(p, Resolved(actions[i], s), s)
            step == [i \in 1..n |-> [p \in X |-> Act(p, i)]]
            Is(f) == f = [sub \in SUBSET DOMAIN actions |->
                            IF sub = {} THEN plan ELSE Act(f[sub \ {Max(sub)}], Max(sub))]
            fold == CHOOSE f : Is(f)
            Upto(k) == PlansOf(S \cup {Resolved(actions[j], s) : j \in 1..k}, s)
            Y == [k \in 0..n |-> Upto(k)]
<1>1. n \in Nat /\ DOMAIN actions = 1..n
  OBVIOUS
<1>2. ASSUME NEW i \in 1..n PROVE Resolved(actions[i], s) \in Action
  BY ResolvedIsAction
<1>3. ASSUME NEW p \in X, NEW i \in 1..n PROVE Act(p, i) \in X
  BY <1>2 DEF Adds
<1>4. ASSUME NEW k \in 1..n, NEW p \in Upto(k - 1) PROVE Act(p, k) \in Upto(k)
  <2> DEFINE T == S \cup {Resolved(actions[j], s) : j \in 1..(k - 1)}
  <2>1. Act(p, k) \in PlansOf(T \cup {Resolved(actions[k], s)}, s)
    <3> HIDE DEF T
    <3> QED
      BY <1>2, AddsExactly DEF T
  <2>2. T \cup {Resolved(actions[k], s)} = S \cup {Resolved(actions[j], s) : j \in 1..k}
    OBVIOUS
  <2> QED
    BY <2>1, <2>2
<1>5. FoldLeft(LAMBDA p, a : Adds(p, Resolved(a, s), s), plan, actions) = fold[1..n]
  BY <1>1 DEF FoldLeft, MapThenFoldSet
<1>6. plan \in X /\ plan \in Upto(0)
  <2>1. S \cup {Resolved(actions[j], s) : j \in 1..0} = S
    OBVIOUS
  <2> QED
    BY <2>1 DEF PlansOf
<1>7. Upto(n) = PlansOf(S \cup {Resolved(actions[j], s) : j \in 1..Len(actions)}, s)
  OBVIOUS
<1> HIDE DEF n, X, Act, Upto
<1>8. step \in [1..n -> [X -> X]]
  BY <1>3
<1>9. PICK it : FoldOf(it, X, n, plan, step)
  <2> HIDE DEF step
  <2> QED
    BY <1>1, <1>6, <1>8, FoldExists, Zenon
<1>10. ASSUME NEW sub \in SUBSET (1..n)
       PROVE  it[sub] = IF sub = {} THEN plan ELSE Act(it[sub \ {Max(sub)}], Max(sub))
  <2>1. CASE sub = {}
    BY <1>9, <2>1 DEF FoldOf
  <2>2. CASE sub # {}
    <3>1. Max(sub) \in 1..n
      BY <1>1, <2>2, MaxIn
    <3>2. it[sub \ {Max(sub)}] \in X
      BY <1>9 DEF FoldOf
    <3> QED
      BY <1>9, <2>2, <3>1, <3>2 DEF FoldOf
  <2> QED
    BY <2>1, <2>2
<1>11. Is(fold)
  <2>1. Is(it)
    BY <1>1, <1>9, <1>10 DEF FoldOf
  <2> HIDE DEF Is
  <2> QED
    BY <2>1, Zenon
<1> HIDE DEF fold
<1>12. \A sub \in SUBSET (1..n) :
         fold[sub] = IF sub = {} THEN plan ELSE Act(fold[sub \ {Max(sub)}], Max(sub))
  BY <1>1, <1>11
<1>13. \A k \in 0..n : Y[k] = Upto(k)
  OBVIOUS
<1> HIDE DEF Y
<1>14. fold[1..0] \in Y[0]
  <2>1. 1..0 = {} /\ {} \in SUBSET (1..n) /\ 0 \in 0..n
    BY <1>1
  <2> QED
    BY <1>6, <1>12, <1>13, <2>1
<1>15. ASSUME NEW k \in 1..n, fold[1..(k - 1)] \in Y[k - 1]
       PROVE  fold[1..k] \in Y[k]
  <2>1. /\ k - 1 \in 0..n /\ k \in 0..n
        /\ 1..k \in SUBSET (1..n) /\ 1..k # {}
        /\ Max(1..k) = k /\ (1..k) \ {k} = 1..(k - 1)
    BY <1>1, Prefix
  <2>2. fold[1..k] = Act(fold[(1..k) \ {Max(1..k)}], Max(1..k))
    <3> DEFINE sub == 1..k
    <3>1. sub \in SUBSET (1..n) /\ sub # {}
      BY <2>1
    <3> HIDE DEF sub
    <3>2. fold[sub] = Act(fold[sub \ {Max(sub)}], Max(sub))
      BY <1>12, <3>1
    <3> QED
      BY <3>2 DEF sub
  <2>3. fold[1..k] = Act(fold[1..(k - 1)], k)
    BY <2>1, <2>2
  <2> QED
    BY <1>4, <1>13, <1>15, <2>1, <2>3
<1> QED
  <2>1. fold[1..n] \in Y[n]
    BY <1>1, <1>14, <1>15, FoldGoes
  <2>2. n \in 0..n
    BY <1>1
  <2> QED
    BY <1>5, <1>7, <1>13, <2>1, <2>2

\* Whatever the rules, a plan holds what the rules that apply ask for, each
\* action once, and nothing else; only the start of the session whose event it
\* is is left out (planAutomations).
THEOREM PlannedExactly ==
  ASSUME NEW event, NEW s \in Session, NEW m
  PROVE  Planned(event, s, m) \in PlansOf(AskedFor(event, s, m, Len(Rules)), s)
<1> DEFINE n == Len(Rules)
            X == UNION {PlansOf(S, s) : S \in SUBSET Action}
            Asks1(i) == {Resolved(Rules[i].actions[j], s) : j \in 1..Len(Rules[i].actions)}
            Added(p, actions) ==
              FoldLeft(LAMBDA q, a : Adds(q, Resolved(a, s), s), p, actions)
            Act(p, i) ==
              IF RuleApplies(Rules[i], event, s, m) THEN Added(p, Rules[i].actions) ELSE p
            step == [i \in 1..n |-> [p \in X |-> Act(p, i)]]
            Is(f) == f = [sub \in SUBSET DOMAIN Rules |->
                            IF sub = {} THEN <<>> ELSE Act(f[sub \ {Max(sub)}], Max(sub))]
            fold == CHOOSE f : Is(f)
            Asked(k) == AskedFor(event, s, m, k)
            Upto(k) == PlansOf(Asked(k), s)
            Y == [k \in 0..n |-> Upto(k)]
<1>1. n \in Nat /\ DOMAIN Rules = 1..n
  BY AutomationsAssumption
<1>2. ASSUME NEW i \in 1..n PROVE Rules[i].actions \in Seq(Action)
  <2>1. Rules \in Seq(Rule)
    BY AutomationsAssumption
  <2>2. Rules[i] \in Rule
    BY <2>1
  <2> QED
    BY <2>2 DEF Rule
<1>3. ASSUME NEW i \in 1..n PROVE Asks1(i) \in SUBSET Action
  <2>1. ASSUME NEW j \in 1..Len(Rules[i].actions)
        PROVE  Resolved(Rules[i].actions[j], s) \in Action
    <3>1. Rules[i].actions[j] \in Action
      BY <1>2
    <3> QED
      BY <3>1, ResolvedIsAction
  <2> QED
    BY <2>1
<1>4. ASSUME NEW i \in 1..n, NEW S, NEW p \in PlansOf(S, s)
      PROVE  Added(p, Rules[i].actions) \in PlansOf(S \cup Asks1(i), s)
  BY <1>2, ActionsPlanned
<1>5. Planned(event, s, m) = fold[1..n]
  BY <1>1 DEF Planned, FoldLeft, MapThenFoldSet
<1> HIDE DEF Added
<1>6. ASSUME NEW p \in X, NEW i \in 1..n PROVE Act(p, i) \in X
  <2>1. PICK S \in SUBSET Action : p \in PlansOf(S, s)
    OBVIOUS
  <2>2. S \cup Asks1(i) \in SUBSET Action
    BY <1>3
  <2>3. Added(p, Rules[i].actions) \in X
    BY <1>4, <2>1, <2>2
  <2> QED
    BY <2>3, Zenon
<1>7. ASSUME NEW k \in 1..n, NEW p \in Upto(k - 1) PROVE Act(p, k) \in Upto(k)
  <2>1. CASE RuleApplies(Rules[k], event, s, m)
    <3>1. Act(p, k) \in PlansOf(Asked(k - 1) \cup Asks1(k), s)
      BY <1>4, <2>1
    <3>2. Asked(k) = Asked(k - 1) \cup Asks1(k)
      <4>1. ASSUME NEW i \in 1..k, i # k PROVE i \in 1..(k - 1)
        BY <1>1, <4>1
      <4>2. Asked(k) \subseteq Asked(k - 1) \cup Asks1(k)
        BY <4>1 DEF AskedFor
      <4>3. Asked(k - 1) \subseteq Asked(k)
        BY <1>1 DEF AskedFor
      <4>4. Asks1(k) \subseteq Asked(k)
        <5>1. k \in 1..k
          BY <1>1
        <5> QED
          BY <1>3, <2>1, <5>1 DEF AskedFor
      <4> QED
        BY <4>2, <4>3, <4>4
    <3> QED
      BY <3>1, <3>2
  <2>2. CASE ~RuleApplies(Rules[k], event, s, m)
    <3>1. Asked(k) = Asked(k - 1)
      <4>1. ASSUME NEW i \in 1..k, i # k PROVE i \in 1..(k - 1)
        BY <1>1, <4>1
      <4>2. Asked(k) \subseteq Asked(k - 1)
        BY <2>2, <4>1 DEF AskedFor
      <4>3. Asked(k - 1) \subseteq Asked(k)
        BY <1>1 DEF AskedFor
      <4> QED
        BY <4>2, <4>3
    <3> QED
      BY <2>2, <3>1
  <2> QED
    BY <2>1, <2>2
<1>8. <<>> \in X /\ <<>> \in Upto(0)
  <2>1. Asked(0) = {}
    BY DEF AskedFor
  <2>2. <<>> \in PlansOf({}, s)
    BY DEF PlansOf
  <2> QED
    BY <2>1, <2>2
<1>9. Upto(n) = PlansOf(AskedFor(event, s, m, Len(Rules)), s)
  OBVIOUS
<1> HIDE DEF n, X, Act, Upto, Asked, Asks1
<1>10. step \in [1..n -> [X -> X]]
  BY <1>6
<1>11. PICK it : FoldOf(it, X, n, <<>>, step)
  <2> HIDE DEF step
  <2> QED
    BY <1>1, <1>8, <1>10, FoldExists, Zenon
<1>12. ASSUME NEW sub \in SUBSET (1..n)
       PROVE  it[sub] = IF sub = {} THEN <<>> ELSE Act(it[sub \ {Max(sub)}], Max(sub))
  <2>1. CASE sub = {}
    BY <1>11, <2>1 DEF FoldOf
  <2>2. CASE sub # {}
    <3>1. Max(sub) \in 1..n
      BY <1>1, <2>2, MaxIn
    <3>2. it[sub \ {Max(sub)}] \in X
      BY <1>11 DEF FoldOf
    <3> QED
      BY <1>11, <2>2, <3>1, <3>2 DEF FoldOf
  <2> QED
    BY <2>1, <2>2
<1>13. Is(fold)
  <2>1. Is(it)
    BY <1>1, <1>11, <1>12 DEF FoldOf
  <2> HIDE DEF Is
  <2> QED
    BY <2>1, Zenon
<1> HIDE DEF fold
<1>14. \A sub \in SUBSET (1..n) :
         fold[sub] = IF sub = {} THEN <<>> ELSE Act(fold[sub \ {Max(sub)}], Max(sub))
  BY <1>1, <1>13
<1>15. \A k \in 0..n : Y[k] = Upto(k)
  OBVIOUS
<1> HIDE DEF Y
<1>16. fold[1..0] \in Y[0]
  <2>1. 1..0 = {} /\ {} \in SUBSET (1..n) /\ 0 \in 0..n
    BY <1>1
  <2> QED
    BY <1>8, <1>14, <1>15, <2>1
<1>17. ASSUME NEW k \in 1..n, fold[1..(k - 1)] \in Y[k - 1]
       PROVE  fold[1..k] \in Y[k]
  <2>1. /\ k - 1 \in 0..n /\ k \in 0..n
        /\ 1..k \in SUBSET (1..n) /\ 1..k # {}
        /\ Max(1..k) = k /\ (1..k) \ {k} = 1..(k - 1)
    BY <1>1, Prefix
  <2>2. fold[1..k] = Act(fold[(1..k) \ {Max(1..k)}], Max(1..k))
    <3> DEFINE sub == 1..k
    <3>1. sub \in SUBSET (1..n) /\ sub # {}
      BY <2>1
    <3> HIDE DEF sub
    <3>2. fold[sub] = Act(fold[sub \ {Max(sub)}], Max(sub))
      BY <1>14, <3>1
    <3> QED
      BY <3>2 DEF sub
  <2>3. fold[1..k] = Act(fold[1..(k - 1)], k)
    BY <2>1, <2>2
  <2> QED
    BY <1>7, <1>15, <1>17, <2>1, <2>3
<1> QED
  <2>1. fold[1..n] \in Y[n]
    BY <1>1, <1>16, <1>17, FoldGoes
  <2>2. n \in 0..n
    BY <1>1
  <2> QED
    BY <1>5, <1>9, <1>15, <2>1, <2>2


LEMMA PlannedPlanable ==
  ASSUME NEW event, NEW s \in Session, NEW m
  PROVE  Planned(event, s, m) \in Seq(Planable(s))
<1> DEFINE plan == Planned(event, s, m)
<1>1. plan \in PlansOf(AskedFor(event, s, m, Len(Rules)), s)
  BY PlannedExactly
<1> HIDE DEF plan
<1>2. plan \in Seq(Action) /\ \A i \in 1..Len(plan) : plan[i] \in Planable(s)
  BY <1>1 DEF PlansOf
<1>3. plan \in Seq(Planable(s))
  BY <1>2
<1> QED
  BY <1>3 DEF plan

(***************************************************************************)
(* A session between steps, and one in the middle of its own event.        *)
(***************************************************************************)
Heard(m) == m.status \in {"manual", "needs-input"} => m.resolver # "none" \/ m.stop

\* Each resolver belongs to a status, and only a run is told to stop.
Sound(s, m) ==
  /\ m \in Managed
  /\ m.turns <= MaxTurns[s] + 1
  /\ m.resolver = "input" => m.status = "manual" /\ m.turns <= MaxTurns[s]
  /\ m.resolver = "decision" => m.status = "needs-input"
  /\ m.stop => m.status \in Active
  /\ Heard(m)

\* While its event runs the rules, a session waits for nobody yet: its run is
\* over, or its question is asked and not put to anyone.
InEvent(s, m) ==
  /\ m \in Managed
  /\ m.turns <= MaxTurns[s] + 1
  /\ m.resolver = "none"
  /\ m.status \in Active => m.status = "needs-input" /\ ~m.stop

AutomationsInv ==
  /\ fleet \in [Session -> Managed]
  /\ spent \in BOOLEAN
  /\ \A s \in Session : Sound(s, fleet[s])

LEMMA SoundGen ==
  ASSUME NEW s, NEW m, Sound(s, m), NEW gen \in 0..Cap
  PROVE  Sound(s, [m EXCEPT !.gen = gen])
BY DEF Sound, Heard, Managed

LEMMA InEventGen ==
  ASSUME NEW s, NEW m, InEvent(s, m), NEW gen \in 0..Cap
  PROVE  InEvent(s, [m EXCEPT !.gen = gen])
BY DEF InEvent, Managed

LEMMA LaunchedSound ==
  ASSUME NEW s \in Session, NEW m \in Managed, m.resolver = "none"
  PROVE  Sound(s, Launched(m))
<1>1. MaxTurns[s] \in Nat
  BY AutomationsAssumption
<1>2. Launched(m) \in Managed
  BY DEF Launched, Managed, Status, Active
<1>3. /\ Launched(m).turns = 0 /\ Launched(m).status = "running"
      /\ Launched(m).resolver = "none" /\ Launched(m).stop = FALSE
  BY DEF Launched, Managed
<1> QED
  BY <1>1, <1>2, <1>3 DEF Sound, Heard

LEMMA StartedUnlessSound ==
  ASSUME NEW refused, NEW s \in Session, NEW f, Sound(s, f[s]), NEW gen \in 0..Cap
  PROVE  /\ Sound(s, StartedUnless(refused, f, s, gen))
         /\ f[s].stop => StartedUnless(refused, f, s, gen).stop
<1> DEFINE m == [f[s] EXCEPT !.gen = gen]
<1>1. CASE f[s].status \in Active
  BY <1>1 DEF StartedUnless
<1>2. CASE f[s].status \notin Active
  <2>1. Sound(s, m) /\ m.resolver = "none" /\ m.status \notin Active /\ ~f[s].stop
    <3>1. Sound(s, m)
      BY SoundGen
    <3>2. f[s].resolver = "none" /\ ~f[s].stop
      BY <1>2 DEF Sound, Active, Managed, Resolver
    <3> QED
      BY <1>2, <3>1, <3>2 DEF Sound, Managed
  <2>2. Sound(s, [m EXCEPT !.status = "blocked"])
    BY <2>1 DEF Sound, Heard, Managed, Status, Active
  <2>3. Sound(s, Launched(m))
    BY <2>1, LaunchedSound DEF Sound
  <2>4. StartedUnless(refused, f, s, gen) \in
          {[m EXCEPT !.status = "blocked"], m, Launched(m)}
    BY <1>2 DEF StartedUnless
  <2> QED
    BY <2>1, <2>2, <2>3, <2>4
<1> QED
  BY <1>1, <1>2

LEMMA StartedSound ==
  ASSUME NEW s \in Session, NEW f, Sound(s, f[s]), NEW gen \in 0..Cap
  PROVE  /\ Sound(s, Started(f, s, gen))
         /\ f[s].stop => Started(f, s, gen).stop
BY StartedUnlessSound DEF Started

LEMMA StoppedSound ==
  ASSUME NEW s, NEW m, Sound(s, m)
  PROVE  /\ Sound(s, Stopped(m))
         /\ m.stop => Stopped(m).stop
<1> DEFINE c == [m EXCEPT !.timer = "none"]
<1>1. m \in Managed /\ c \in Managed
  BY DEF Sound, Managed, Timer
<1>2. /\ m.resolver = "input" => m.status = "manual"
      /\ m.resolver = "decision" => m.status = "needs-input"
  BY DEF Sound
<1>3. CASE m.resolver = "input"
  <2>1. Stopped(m) = [c EXCEPT !.stop = TRUE, !.resolver = "none"]
    BY <1>2, <1>3 DEF Stopped
  <2>2. Stopped(m) \in Managed
    BY <1>1, <2>1 DEF Managed, Resolver
  <2>3. /\ Stopped(m).stop = TRUE /\ Stopped(m).resolver = "none"
        /\ Stopped(m).status = m.status /\ Stopped(m).turns = m.turns
    BY <1>1, <2>1 DEF Managed
  <2> QED
    BY <1>2, <1>3, <2>2, <2>3 DEF Sound, Heard, Active
<1>4. CASE m.resolver = "decision"
  <2>1. Stopped(m) = [c EXCEPT !.stop = TRUE, !.resolver = "none", !.status = "running"]
    BY <1>2, <1>4 DEF Stopped
  <2>2. Stopped(m) \in Managed
    BY <1>1, <2>1 DEF Managed, Status, Active, Resolver
  <2>3. /\ Stopped(m).stop = TRUE /\ Stopped(m).resolver = "none"
        /\ Stopped(m).status = "running" /\ Stopped(m).turns = m.turns
    BY <1>1, <2>1 DEF Managed
  <2> QED
    BY <2>2, <2>3 DEF Sound, Heard, Active
<1>5. CASE m.resolver = "none" /\ m.status = "running"
  <2>1. Stopped(m) = [c EXCEPT !.stop = TRUE]
    BY <1>5 DEF Stopped
  <2> QED
    BY <1>1, <1>5, <2>1 DEF Sound, Heard, Managed, Active
<1>6. CASE m.resolver = "none" /\ m.status \notin {"running", "rate-limited"}
  <2>1. Stopped(m) = c
    BY <1>6 DEF Stopped
  <2> QED
    BY <1>1, <1>6, <2>1 DEF Sound, Heard, Managed
<1>7. CASE m.status = "rate-limited"
  <2>1. Stopped(m) = [c EXCEPT !.status = "stopped"] /\ m.resolver = "none" /\ ~m.stop
    BY <1>1, <1>2, <1>7 DEF Stopped, Sound, Managed, Resolver, Active
  <2>2. Stopped(m) \in Managed
    BY <1>1, <2>1 DEF Managed, Status
  <2>3. /\ Stopped(m).status = "stopped" /\ Stopped(m).turns = m.turns
        /\ Stopped(m).resolver = "none" /\ Stopped(m).stop = m.stop
    BY <1>1, <2>1 DEF Managed
  <2> QED
    BY <2>1, <2>2, <2>3 DEF Sound, Heard
<1>8. m.resolver \in {"none", "input", "decision"}
  BY <1>1 DEF Managed, Resolver
<1> QED
  BY <1>3, <1>4, <1>5, <1>6, <1>7, <1>8

LEMMA WokenSound ==
  ASSUME NEW s, NEW m, Sound(s, m), m.resolver # "none"
  PROVE  /\ Sound(s, Woken(m))
         /\ m.stop => Woken(m).stop
<1>1. m.status \in Active
  BY DEF Sound, Managed, Resolver, Active
<1> QED
  BY <1>1 DEF Woken, Sound, Heard, Managed, Status, Active, Resolver

LEMMA ModeSetSound ==
  ASSUME NEW s, NEW m, Sound(s, m), NEW mode \in Mode
  PROVE  /\ Sound(s, ModeSet(m, mode))
         /\ m.stop => ModeSet(m, mode).stop
<1> DEFINE n == [m EXCEPT !.mode = mode]
<1>1. Sound(s, n) /\ n.stop = m.stop /\ n.resolver = m.resolver
  BY DEF Sound, Heard, Managed
<1>2. CASE m.resolver = "input"
  <2>1. Sound(s, Woken(n)) /\ (n.stop => Woken(n).stop)
    <3> HIDE DEF n
    <3> QED
      BY <1>1, <1>2, WokenSound
  <2>2. ModeSet(m, mode) \in {Woken(n), n}
    BY DEF ModeSet
  <2> QED
    BY <1>1, <2>1, <2>2
<1>3. CASE m.resolver # "input"
  BY <1>1, <1>3 DEF ModeSet
<1> QED
  BY <1>2, <1>3

LEMMA MessageSentSound ==
  ASSUME NEW s \in Session, NEW m, Sound(s, m)
  PROVE  /\ Sound(s, MessageSent(m))
         /\ m.stop => MessageSent(m).stop
<1>1. MaxTurns[s] \in Nat
  BY AutomationsAssumption
<1>2. CASE m.resolver = "input"
  <2> DEFINE w == Woken(m)
  <2>1. Sound(s, w) /\ (m.stop => w.stop)
    BY <1>2, WokenSound
  <2>2. /\ w.turns <= MaxTurns[s] /\ w.turns \in Nat
        /\ w.status = "running" /\ w.resolver = "none"
    BY <1>2 DEF Woken, Sound, Managed
  <2>3. Counted(w) = [w EXCEPT !.turns = w.turns + 1]
    BY DEF Counted
  <2>4. MessageSent(m) = Counted(w)
    BY <1>2 DEF MessageSent
  <2> HIDE DEF w
  <2>5. Counted(w) \in Managed /\ Counted(w).stop = w.stop
    BY <2>1, <2>2, <2>3 DEF Sound, Managed
  <2>6. Counted(w).turns <= MaxTurns[s] + 1
    BY <1>1, <2>1, <2>2, <2>3 DEF Sound, Managed
  <2> QED
    BY <2>1, <2>2, <2>3, <2>4, <2>5, <2>6 DEF Sound, Heard, Managed, Active
<1>3. CASE m.resolver # "input"
  BY <1>3 DEF MessageSent
<1> QED
  BY <1>2, <1>3

\* In its own event a session stays where it is, or is stopped at its limit.
Follows(st, new) == new = st \/ (st = "rate-limited" /\ new = "stopped")

LEMMA InEventActed ==
  ASSUME NEW s \in Session, NEW m, InEvent(s, m), NEW mode \in Mode
  PROVE  /\ InEvent(s, Stopped(m)) /\ Follows(m.status, Stopped(m).status)
         /\ InEvent(s, ModeSet(m, mode)) /\ Follows(m.status, ModeSet(m, mode).status)
<1>1. m \in Managed /\ m.resolver = "none" /\ m.status # "running"
  BY DEF InEvent, Active
<1>2. InEvent(s, Stopped(m)) /\ Follows(m.status, Stopped(m).status)
  <2>1. CASE m.status = "rate-limited"
    <3>1. Stopped(m) = [m EXCEPT !.timer = "none", !.status = "stopped"]
      BY <1>1, <2>1 DEF Stopped, Managed
    <3> QED
      BY <1>1, <2>1, <3>1 DEF InEvent, Managed, Timer, Status, Active, Follows
  <2>2. CASE m.status # "rate-limited"
    <3>1. Stopped(m) = [m EXCEPT !.timer = "none"]
      BY <1>1, <2>2 DEF Stopped
    <3> QED
      BY <1>1, <3>1 DEF InEvent, Managed, Timer, Follows
  <2> QED
    BY <2>1, <2>2
<1>3. ModeSet(m, mode) = [m EXCEPT !.mode = mode]
  BY <1>1 DEF ModeSet
<1> QED
  BY <1>1, <1>2, <1>3 DEF InEvent, Managed, Follows

(***************************************************************************)
(* The fleets the rules of an event of s pass through, from f on: nobody's *)
(* stop is taken back, and s stays where its event found it, or is stopped *)
(* at its limit.                                                           *)
(***************************************************************************)
EventFleet(f, s) ==
  {g \in [Session -> Managed] :
     /\ InEvent(s, g[s]) /\ Follows(f[s].status, g[s].status)
     /\ \A t \in Session \ {s} : Sound(t, g[t]) /\ (f[t].stop => g[t].stop)}

LEMMA EventFleetStep ==
  ASSUME NEW s \in Session, NEW f, NEW g \in EventFleet(f, s), NEW t \in Session, NEW m,
         IF t = s THEN InEvent(t, m) /\ Follows(g[t].status, m.status)
                  ELSE Sound(t, m) /\ (g[t].stop => m.stop)
  PROVE  [g EXCEPT ![t] = m] \in EventFleet(f, s)
<1>1. m \in Managed
  BY DEF Sound, InEvent
<1>2. g \in [Session -> Managed]
  BY DEF EventFleet
<1> DEFINE h == [g EXCEPT ![t] = m]
<1>3. h \in [Session -> Managed] /\ h[t] = m /\ \A u \in Session : u # t => h[u] = g[u]
  BY <1>1, <1>2
<1> HIDE DEF h
<1>4. InEvent(s, h[s]) /\ Follows(f[s].status, h[s].status)
  BY <1>3 DEF EventFleet, Follows
<1>5. ASSUME NEW u \in Session \ {s} PROVE Sound(u, h[u]) /\ (f[u].stop => h[u].stop)
  <2>1. Sound(u, g[u]) /\ (f[u].stop => g[u].stop)
    BY DEF EventFleet
  <2> QED
    BY <1>3, <2>1
<1>6. h \in EventFleet(f, s)
  BY <1>3, <1>4, <1>5 DEF EventFleet
<1> QED
  BY <1>6 DEF h

LEMMA PerformedKeeps ==
  ASSUME NEW s \in Session, NEW f, NEW g \in EventFleet(f, s), NEW a \in Planable(s),
         NEW gen \in 0..Cap
  PROVE  Performed(g, a, gen) \in EventFleet(f, s)
<1> DEFINE t == a.target
            m == [g[t] EXCEPT !.gen = gen]
            Fits(r) == IF t = s THEN InEvent(t, r) /\ Follows(g[t].status, r.status)
                                ELSE Sound(t, r) /\ (g[t].stop => r.stop)
<1>1. CASE a.kind \in {"notify", "webhook"} \/ t \notin Session
  BY <1>1 DEF Performed
<1>2. CASE a.kind \notin {"notify", "webhook"} /\ t \in Session
  <2>1. a.kind \in {"start", "stop", "setMode", "sendMessage"}
    BY <1>2 DEF Planable, Action
  <2>2. g[t] \in Managed /\ Fits(g[t])
    BY <1>2 DEF EventFleet, Follows
  <2>3. Fits(m) /\ m.resolver = g[t].resolver
    <3>1. m.resolver = g[t].resolver /\ m.status = g[t].status /\ m.stop = g[t].stop
      BY <2>2 DEF Managed
    <3>2. CASE t = s
      <4>1. InEvent(t, m)
        BY <2>2, <3>2, InEventGen
      <4> QED
        BY <3>1, <3>2, <4>1 DEF Follows
    <3>3. CASE t # s
      <4>1. Sound(t, m)
        BY <2>2, <3>3, SoundGen
      <4> QED
        BY <3>1, <3>3, <4>1
    <3> QED
      BY <3>2, <3>3
  <2>4. m.status = g[t].status /\ m.stop = g[t].stop
    BY <2>2 DEF Managed
  <2> HIDE DEF m
  <2>5. ASSUME NEW r, Fits(r), Performed(g, a, gen) = [g EXCEPT ![t] = r]
        PROVE  Performed(g, a, gen) \in EventFleet(f, s)
    <3>1. t \in Session /\ (IF t = s THEN InEvent(t, r) /\ Follows(g[t].status, r.status)
                              ELSE Sound(t, r) /\ (g[t].stop => r.stop))
      BY <1>2, <2>5
    <3> HIDE DEF t, Fits
    <3>2. [g EXCEPT ![t] = r] \in EventFleet(f, s)
      BY <3>1, EventFleetStep, Zenon
    <3> QED
      BY <2>5, <3>2
  <2> DEFINE Done(r) == Performed(g, a, gen) = [g EXCEPT ![t] = r]
  <2>6. CASE a.kind = "start"
    <3>1. t # s
      BY <2>6 DEF Planable
    <3>2. Fits(Started(g, t, gen))
      BY <1>2, <2>2, <3>1, StartedSound
    <3>3. Done(Started(g, t, gen))
      BY <1>2, <2>6 DEF Performed
    <3> QED
      BY <2>5, <3>2, <3>3
  <2>7. CASE a.kind = "stop"
    <3>1. Fits(Stopped(m))
      <4>1. CASE t = s
        BY <2>3, <2>4, <4>1, InEventActed DEF Mode
      <4>2. CASE t # s
        BY <2>3, <2>4, <4>2, StoppedSound
      <4> QED
        BY <4>1, <4>2
    <3>2. Done(Stopped(m))
      BY <1>2, <2>7 DEF Performed, m
    <3> QED
      BY <2>5, <3>1, <3>2
  <2>8. CASE a.kind = "setMode"
    <3>1. a.mode \in Mode
      BY <2>8 DEF Planable, Action
    <3>2. Fits(ModeSet(m, a.mode))
      <4>1. CASE t = s
        BY <2>3, <2>4, <3>1, <4>1, InEventActed
      <4>2. CASE t # s
        BY <2>3, <2>4, <3>1, <4>2, ModeSetSound
      <4> QED
        BY <4>1, <4>2
    <3>3. Done(ModeSet(m, a.mode))
      BY <1>2, <2>8 DEF Performed, m
    <3> QED
      BY <2>5, <3>2, <3>3
  <2>9. CASE a.kind = "sendMessage"
    <3>1. CASE m.resolver = "input"
      <4>1. t # s
        BY <2>2, <2>3, <3>1 DEF InEvent
      <4>2. Fits(MessageSent(m))
        BY <1>2, <2>3, <2>4, <4>1, MessageSentSound
      <4>3. Done(MessageSent(m))
        BY <1>2, <2>9, <3>1 DEF Performed, m
      <4> QED
        BY <2>5, <4>2, <4>3
    <3>2. CASE m.resolver # "input"
      <4>1. Done(g[t])
        BY <1>2, <2>9, <3>2 DEF Performed, m
      <4> QED
        BY <2>2, <2>5, <4>1
    <3> QED
      BY <3>1, <3>2
  <2> QED
    BY <2>1, <2>6, <2>7, <2>8, <2>9
<1> QED
  BY <1>1, <1>2

LEMMA ActionsKeep ==
  ASSUME NEW s \in Session, NEW f, NEW first \in EventFleet(f, s),
         NEW plan \in Seq(Planable(s)), NEW gen \in 0..Cap
  PROVE  FoldLeft(LAMBDA g, a : Performed(g, a, gen), first, plan) \in EventFleet(f, s)
<1> DEFINE n == Len(plan)
            X == EventFleet(f, s)
            Act(g, i) == Performed(g, plan[i], gen)
            step == [i \in 1..n |-> [g \in X |-> Act(g, i)]]
            Is(it) == it = [sub \in SUBSET DOMAIN plan |->
                              IF sub = {} THEN first
                              ELSE Act(it[sub \ {Max(sub)}], Max(sub))]
            fold == CHOOSE it : Is(it)
            Y == [k \in 0..n |-> X]
<1>1. n \in Nat /\ DOMAIN plan = 1..n
  OBVIOUS
<1>2. ASSUME NEW g \in X, NEW i \in 1..n PROVE Act(g, i) \in X
  <2>1. plan[i] \in Planable(s)
    OBVIOUS
  <2> QED
    BY <2>1, PerformedKeeps
<1>3. FoldLeft(LAMBDA g, a : Performed(g, a, gen), first, plan) = fold[1..n]
  BY <1>1 DEF FoldLeft, MapThenFoldSet
<1>4. first \in X
  OBVIOUS
<1> HIDE DEF n, X, Act
<1>5. step \in [1..n -> [X -> X]]
  BY <1>2
<1>6. PICK it : FoldOf(it, X, n, first, step)
  <2> HIDE DEF step
  <2> QED
    BY <1>1, <1>4, <1>5, FoldExists, Zenon
<1>7. ASSUME NEW sub \in SUBSET (1..n)
       PROVE  it[sub] = IF sub = {} THEN first ELSE Act(it[sub \ {Max(sub)}], Max(sub))
  <2>1. CASE sub = {}
    BY <1>6, <2>1 DEF FoldOf
  <2>2. CASE sub # {}
    <3>1. Max(sub) \in 1..n
      BY <1>1, <2>2, MaxIn
    <3>2. it[sub \ {Max(sub)}] \in X
      BY <1>6 DEF FoldOf
    <3> QED
      BY <1>6, <2>2, <3>1, <3>2 DEF FoldOf
  <2> QED
    BY <2>1, <2>2
<1>8. Is(fold)
  <2>1. Is(it)
    BY <1>1, <1>6, <1>7 DEF FoldOf
  <2> HIDE DEF Is
  <2> QED
    BY <2>1, Zenon
<1> HIDE DEF fold
<1>9. \A sub \in SUBSET (1..n) :
         fold[sub] = IF sub = {} THEN first ELSE Act(fold[sub \ {Max(sub)}], Max(sub))
  BY <1>1, <1>8
<1>10. \A k \in 0..n : Y[k] = X
  OBVIOUS
<1> HIDE DEF Y
<1>11. fold[1..0] \in Y[0]
  <2>1. 1..0 = {} /\ {} \in SUBSET (1..n) /\ 0 \in 0..n
    BY <1>1
  <2> QED
    <3>1. fold[{}] = first
      BY <1>9, <2>1
    <3>2. Y[0] = X
      BY <1>10, <2>1
    <3> QED
      BY <1>4, <2>1, <3>1, <3>2
<1>12. ASSUME NEW k \in 1..n, fold[1..(k - 1)] \in Y[k - 1]
       PROVE  fold[1..k] \in Y[k]
  <2>1. /\ k - 1 \in 0..n /\ k \in 0..n
        /\ 1..k \in SUBSET (1..n) /\ 1..k # {}
        /\ Max(1..k) = k /\ (1..k) \ {k} = 1..(k - 1)
    BY <1>1, Prefix
  <2>2. fold[1..k] = Act(fold[(1..k) \ {Max(1..k)}], Max(1..k))
    <3> DEFINE sub == 1..k
    <3>1. sub \in SUBSET (1..n) /\ sub # {}
      BY <2>1
    <3> HIDE DEF sub
    <3>2. fold[sub] = Act(fold[sub \ {Max(sub)}], Max(sub))
      BY <1>9, <3>1
    <3> QED
      BY <3>2 DEF sub
  <2>3. fold[1..k] = Act(fold[1..(k - 1)], k)
    BY <2>1, <2>2
  <2> QED
    BY <1>2, <1>10, <1>12, <2>1, <2>3
<1> QED
  <2>1. fold[1..n] \in Y[n]
    BY <1>1, <1>11, <1>12, FoldGoes
  <2>2. n \in 0..n
    BY <1>1
  <2> QED
    BY <1>3, <1>10, <2>1, <2>2 DEF X

LEMMA FiredKeeps ==
  ASSUME NEW s \in Session, NEW event, NEW f, f \in EventFleet(f, s)
  PROVE  Fired(f, s, event) \in EventFleet(f, s)
<1> DEFINE gen == f[s].gen + 1
<1>1. gen \in Nat /\ Cap \in Nat
  BY AutomationsAssumption DEF EventFleet, Managed
<1>2. CASE OverCap(gen)
  BY <1>2 DEF Fired
<1>3. CASE ~OverCap(gen)
  <2>1. gen \in 0..Cap
    BY <1>1, <1>3 DEF OverCap
  <2>2. Planned(event, s, f[s]) \in Seq(Planable(s))
    BY PlannedPlanable
  <2>3. Fired(f, s, event) =
          FoldLeft(LAMBDA g, a : Performed(g, a, gen), f, Planned(event, s, f[s]))
    BY <1>3 DEF Fired
  <2> DEFINE plan == Planned(event, s, f[s])
  <2> HIDE DEF gen, plan
  <2>4. FoldLeft(LAMBDA g, a : Performed(g, a, gen), f, plan) \in EventFleet(f, s)
    <3>1. plan \in Seq(Planable(s))
      BY <2>2 DEF plan
    <3> QED
      BY <2>1, <3>1, ActionsKeep
  <2> QED
    BY <2>3, <2>4 DEF plan
<1> QED
  BY <1>2, <1>3

\* A session that is not in its own event keeps its stop, and what is over is
\* put to rest.
LEMMA SettledSound ==
  ASSUME NEW g \in [Session -> Managed], NEW s \in Session,
         Sound(s, g[s]) \/ (InEvent(s, g[s]) /\ g[s].status \notin Active)
  PROVE  /\ Settled(g)[s] \in Managed
         /\ Sound(s, Settled(g)[s])
         /\ Settled(g)[s].status = g[s].status
         /\ g[s].stop => Settled(g)[s].stop \/ g[s].status \notin Active
<1> DEFINE rest == [g[s] EXCEPT !.gen = 0, !.stop = FALSE, !.turns = 0,
                                !.mode = g[s].startMode]
<1>1. CASE g[s].status \in Active
  BY <1>1 DEF Settled
<1>2. CASE g[s].status \notin Active
  <2>1. Settled(g)[s] = rest
    BY <1>2 DEF Settled
  <2>2. g[s].resolver = "none"
    BY <1>2 DEF Sound, InEvent, Managed, Resolver, Active
  <2>3. MaxTurns[s] \in Nat /\ Cap \in Nat
    BY AutomationsAssumption
  <2>4. rest \in Managed
    <3>1. g[s] \in Managed
      OBVIOUS
    <3>2. 0 \in 0..Cap /\ 0 \in Nat
      BY <2>3
    <3> QED
      BY <3>1, <3>2 DEF Managed
  <2>5. rest.turns = 0 /\ rest.status = g[s].status /\ rest.resolver = "none" /\ ~rest.stop
    BY <2>2 DEF Managed
  <2> HIDE DEF rest
  <2>6. Sound(s, rest)
    BY <1>2, <2>3, <2>4, <2>5 DEF Sound, Heard, Active
  <2> QED
    BY <1>2, <2>1, <2>4, <2>5, <2>6
<1> QED
  BY <1>1, <1>2

(***************************************************************************)
(* The steps.                                                              *)
(***************************************************************************)
SoundFleet(f) == f \in [Session -> Managed] /\ \A s \in Session : Sound(s, f[s])

StopsKept(f, g) == \A s \in Session : f[s].stop => g[s].stop \/ g[s].status \notin Active

Good(f, g) == SoundFleet(g) /\ StopsKept(f, g)

LEMMA OneMoves ==
  ASSUME NEW f, SoundFleet(f), NEW s \in Session, NEW m, Sound(s, m),
         f[s].stop => m.stop \/ m.status \notin Active
  PROVE  Good(f, [f EXCEPT ![s] = m])
<1>1. m \in Managed
  BY DEF Sound
<1> QED
  BY <1>1 DEF Good, SoundFleet, StopsKept

LEMMA SettledGood ==
  ASSUME NEW f, NEW g \in [Session -> Managed],
         \A s \in Session :
           /\ Sound(s, g[s]) \/ (InEvent(s, g[s]) /\ g[s].status \notin Active)
           /\ f[s].stop => g[s].stop \/ g[s].status \notin Active
  PROVE  Good(f, Settled(g))
<1>1. ASSUME NEW s \in Session
      PROVE  /\ Settled(g)[s] \in Managed /\ Sound(s, Settled(g)[s])
             /\ f[s].stop => Settled(g)[s].stop \/ Settled(g)[s].status \notin Active
  BY SettledSound
<1>2. Settled(g) \in [Session -> Managed]
  <2>1. \E e : Settled(g) = [s \in Session |-> Settled(g)[s]]
    BY DEF Settled
  <2> QED
    BY <1>1, <2>1
<1> QED
  BY <1>1, <1>2 DEF Good, SoundFleet, StopsKept

LEMMA EventGood ==
  ASSUME NEW f, NEW s \in Session, NEW g \in EventFleet(f, s), f[s].status \notin Active
  PROVE  Good(f, Settled(g)) /\ Settled(g)[s].status \notin Active
<1>1. g \in [Session -> Managed] /\ InEvent(s, g[s]) /\ g[s].status \notin Active
  BY DEF EventFleet, Follows, Active
<1>2. \A t \in Session \ {s} : Sound(t, g[t]) /\ (f[t].stop => g[t].stop)
  BY DEF EventFleet
<1>3. Settled(g)[s].status \notin Active
  BY <1>1, SettledSound
<1> QED
  BY <1>1, <1>2, <1>3, SettledGood

LEMMA WaitsForInputGood ==
  ASSUME SoundFleet(fleet), NEW s \in Session, WaitsForInput(s)
  PROVE  Good(fleet, fleet')
<1> DEFINE m == [fleet[s] EXCEPT !.status = "manual", !.resolver = "input"]
<1>1. fleet[s] \in Managed /\ Sound(s, fleet[s])
  BY DEF SoundFleet
<1>2. m \in Managed
  BY <1>1 DEF Managed, Status, Active, Resolver
<1>3. /\ m.turns = fleet[s].turns /\ m.stop = fleet[s].stop
      /\ m.status = "manual" /\ m.resolver = "input"
  BY <1>1 DEF Managed
<1>4. fleet' = [fleet EXCEPT ![s] = m]
  BY DEF WaitsForInput, SoundFleet
<1>5. fleet[s].turns <= MaxTurns[s]
  BY DEF WaitsForInput
<1> HIDE DEF m
<1>6. Sound(s, m)
  BY <1>1, <1>2, <1>3, <1>5 DEF Sound, Heard, Active
<1> QED
  BY <1>3, <1>4, <1>6, OneMoves

LEMMA CountedSound ==
  ASSUME NEW s \in Session, NEW m, Sound(s, m), m.turns <= MaxTurns[s], m.resolver # "input"
  PROVE  Sound(s, Counted(m)) /\ Counted(m).stop = m.stop
<1>1. MaxTurns[s] \in Nat /\ m \in Managed
  BY AutomationsAssumption DEF Sound
<1>2. Counted(m) \in Managed
  BY <1>1 DEF Counted, Managed
<1>3. /\ Counted(m).turns = m.turns + 1 /\ Counted(m).stop = m.stop
      /\ Counted(m).status = m.status /\ Counted(m).resolver = m.resolver
  BY <1>1 DEF Counted, Managed
<1>4. m.turns \in Nat
  BY <1>1 DEF Managed
<1>5. Counted(m).turns <= MaxTurns[s] + 1
  BY <1>1, <1>3, <1>4
<1> QED
  BY <1>2, <1>3, <1>5 DEF Sound, Heard

LEMMA TakesTurnGood ==
  ASSUME SoundFleet(fleet), NEW s \in Session, TakesTurn(s)
  PROVE  Good(fleet, fleet')
<1>1. Sound(s, fleet[s]) /\ fleet[s].resolver # "input"
  BY DEF SoundFleet, Sound, TakesTurn
<1>2. fleet[s].turns <= MaxTurns[s]
  BY AutomationsAssumption, <1>1 DEF TakesTurn, Sound, Managed
<1>3. fleet' = [fleet EXCEPT ![s] = Counted(fleet[s])]
  BY DEF TakesTurn
<1>4. Sound(s, Counted(fleet[s])) /\ Counted(fleet[s]).stop = fleet[s].stop
  BY <1>1, <1>2, CountedSound
<1> QED
  BY <1>3, <1>4, OneMoves

LEMMA AsksGood ==
  ASSUME SoundFleet(fleet), NEW s \in Session, Asks(s)
  PROVE  Good(fleet, fleet')
<1> DEFINE c == Counted(fleet[s])
            m == [c EXCEPT !.status = "needs-input"]
            asked == [fleet EXCEPT ![s] = m]
            g == Fired(asked, s, "needs-input")
            h == [g EXCEPT ![s].resolver = "decision"]
<1>1. /\ Sound(s, fleet[s]) /\ fleet[s].resolver = "none" /\ ~fleet[s].stop
      /\ fleet[s].turns <= MaxTurns[s]
  BY DEF SoundFleet, Sound, Managed, Resolver, Asks
<1>2. Sound(s, c) /\ c.resolver = "none" /\ ~c.stop
  <2>1. Sound(s, c) /\ c.stop = fleet[s].stop
    BY <1>1, CountedSound
  <2>2. c.resolver = "none"
    BY <1>1 DEF Counted, Sound, Managed
  <2> QED
    BY <1>1, <2>1, <2>2
<1>3. fleet' = Settled(h)
  BY DEF Asks
<1> HIDE DEF c
<1>4. InEvent(s, m) /\ m.status = "needs-input"
  BY <1>2 DEF InEvent, Sound, Managed, Status, Active
<1>5. asked \in EventFleet(asked, s)
  <2>1. m \in Managed
    BY <1>4 DEF InEvent
  <2> HIDE DEF m
  <2> QED
    BY <1>4, <2>1 DEF EventFleet, SoundFleet, Follows
<1> HIDE DEF m
<1>6. asked[s] = m /\ \A t \in Session \ {s} : asked[t] = fleet[t]
  BY DEF SoundFleet
<1> HIDE DEF asked
<1>7. g \in EventFleet(asked, s)
  BY <1>5, FiredKeeps
<1> HIDE DEF g
<1>8. /\ g \in [Session -> Managed] /\ InEvent(s, g[s]) /\ g[s].status = "needs-input"
      /\ \A t \in Session \ {s} : Sound(t, g[t]) /\ (fleet[t].stop => g[t].stop)
  BY <1>4, <1>6, <1>7 DEF EventFleet, Follows
<1>9. [g[s] EXCEPT !.resolver = "decision"] \in Managed
  BY <1>8 DEF Managed, Resolver
<1>10. h \in [Session -> Managed]
  BY <1>8, <1>9
<1>11. Sound(s, h[s])
  <2>1. h[s] = [g[s] EXCEPT !.resolver = "decision"]
    BY <1>8
  <2>2. /\ h[s].status = "needs-input" /\ h[s].resolver = "decision"
        /\ h[s].turns = g[s].turns /\ h[s].stop = g[s].stop
    BY <1>8, <2>1 DEF Managed
  <2> QED
    BY <1>8, <1>9, <2>1, <2>2 DEF InEvent, Sound, Heard, Active
<1>12. \A t \in Session \ {s} : h[t] = g[t]
  BY <1>8
<1>13. \A t \in Session : Sound(t, h[t]) /\ (fleet[t].stop => h[t].stop)
  BY <1>1, <1>8, <1>11, <1>12
<1> HIDE DEF h
<1> QED
  BY <1>3, <1>10, <1>13, SettledGood

\* The fleet f when the run of s is over, before the rules of its event run.
Over(f, s, status) == [f EXCEPT ![s].status = status, ![s].resolver = "none"]

\* The fleets of SoundFleet but for s, which may be in its own event.
AroundEvent(f, s) ==
  /\ f \in [Session -> Managed]
  /\ f[s].turns <= MaxTurns[s] + 1
  /\ \A t \in Session \ {s} : Sound(t, f[t])

LEMMA OverInEvent ==
  ASSUME NEW f, NEW s \in Session, AroundEvent(f, s), NEW status \in Status \ Active,
         NEW g, g = Over(f, s, status)
  PROVE  /\ g \in EventFleet(g, s) /\ g[s].status = status /\ g[s].stop = f[s].stop
         /\ \A t \in Session \ {s} : g[t] = f[t]
<1> DEFINE m == [f[s] EXCEPT !.status = status, !.resolver = "none"]
<1>1. f[s] \in Managed /\ f[s].turns <= MaxTurns[s] + 1 /\ f \in [Session -> Managed]
  BY DEF AroundEvent
<1>2. m \in Managed
  BY <1>1 DEF Managed, Resolver
<1>3. /\ m.status = status /\ m.resolver = "none"
      /\ m.turns = f[s].turns /\ m.stop = f[s].stop
  BY <1>1 DEF Managed
<1>4. g = [f EXCEPT ![s] = m]
  BY <1>1 DEF Over
<1> HIDE DEF m
<1>5. InEvent(s, m)
  BY <1>1, <1>2, <1>3 DEF InEvent
<1>6. g[s] = m /\ g \in [Session -> Managed] /\ \A t \in Session \ {s} : g[t] = f[t]
  BY <1>1, <1>2, <1>4
<1>7. g \in EventFleet(g, s)
  BY <1>5, <1>6 DEF EventFleet, AroundEvent, Follows
<1> QED
  BY <1>3, <1>6, <1>7

LEMMA PromotedSound ==
  ASSUME NEW s \in Session, NEW f, f \in EventFleet(f, s), f[s].status = "done"
  PROVE  /\ Promoted(f) \in EventFleet(f, s) /\ Promoted(f)[s].status = "done"
         /\ Promoted(f) \in EventFleet(Promoted(f), s)
<1>1. f \in [Session -> Managed] /\ InEvent(s, f[s])
  BY DEF EventFleet
<1>2. ASSUME NEW t \in Session \ {s}
      PROVE  Sound(t, Promoted(f)[t]) /\ (f[t].stop => Promoted(f)[t].stop)
  <2> DEFINE m == [f[t] EXCEPT !.status = "idle"]
              g == [f EXCEPT ![t].status = "idle"]
  <2>1. Sound(t, f[t])
    BY DEF EventFleet
  <2>2. CASE f[t].status = "blocked" /\ Unmet(f, t) = {}
    <3>1. f[t].resolver = "none" /\ ~f[t].stop
      BY <2>1, <2>2 DEF Sound, Active, Managed, Resolver
    <3>2. Sound(t, m)
      BY <2>1, <2>2, <3>1 DEF Sound, Heard, Managed, Status, Active
    <3>3. g[t] = m
      BY <1>1
    <3>4. 0 \in 0..Cap
      BY AutomationsAssumption
    <3>5. Promoted(f)[t] = Started(g, t, 0)
      BY <2>2 DEF Promoted
    <3> HIDE DEF m, g
    <3> QED
      BY <3>1, <3>2, <3>3, <3>4, <3>5, StartedSound
  <2>3. CASE ~(f[t].status = "blocked" /\ Unmet(f, t) = {})
    <3>1. Promoted(f)[t] = f[t]
      BY <2>3 DEF Promoted
    <3> QED
      BY <2>1, <3>1
  <2> QED
    BY <2>2, <2>3
<1>3. Promoted(f)[s] = f[s]
  BY DEF Promoted
<1>4. Promoted(f) \in [Session -> Managed]
  <2>1. \E e : Promoted(f) = [t \in Session |-> Promoted(f)[t]]
    BY DEF Promoted
  <2>2. \A t \in Session : Promoted(f)[t] \in Managed
    BY <1>1, <1>2, <1>3 DEF Sound
  <2> QED
    BY <2>1, <2>2
<1> HIDE DEF Promoted
<1> QED
  BY <1>1, <1>2, <1>3, <1>4 DEF EventFleet, Follows

LEMMA EndedGood ==
  ASSUME NEW e, NEW s \in Session, AroundEvent(e, s),
         NEW how \in {"stopped", "done", "error", "healing"}
  PROVE  /\ Good(e, Settled(Ended(e, s, how)))
         /\ Settled(Ended(e, s, how))[s].status \notin Active
<1> DEFINE status == IF how = "healing" THEN "error" ELSE how
            f == Over(e, s, status)
<1>2. status \in Status \ Active
  BY DEF Status, Active
<1>3. /\ f \in EventFleet(f, s) /\ f[s].status = status /\ f[s].stop = e[s].stop
      /\ \A t \in Session \ {s} : f[t] = e[t]
  <2> HIDE DEF status
  <2> QED
    BY <1>2, OverInEvent
<1>4. ASSUME NEW g \in EventFleet(f, s)
      PROVE  Good(e, Settled(g)) /\ Settled(g)[s].status \notin Active
  <2>1. Good(f, Settled(g)) /\ Settled(g)[s].status \notin Active
    <3> HIDE DEF f
    <3> QED
      BY <1>2, <1>3, EventGood
  <2> HIDE DEF f
  <2> QED
    BY <1>3, <2>1 DEF Good, StopsKept
<1>5. CASE how = "done"
  <2>1. Ended(e, s, how) = Fired(Promoted(f), s, "done")
    BY <1>5 DEF Ended, Over
  <2>2. f[s].status = "done"
    BY <1>3, <1>5
  <2> HIDE DEF f
  <2>3. /\ Promoted(f) \in EventFleet(f, s) /\ Promoted(f)[s].status = "done"
        /\ Promoted(f) \in EventFleet(Promoted(f), s)
    BY <1>3, <2>2, PromotedSound
  <2>4. Fired(Promoted(f), s, "done") \in EventFleet(Promoted(f), s)
    BY <2>3, FiredKeeps
  <2>5. Fired(Promoted(f), s, "done") \in EventFleet(f, s)
    BY <2>2, <2>3, <2>4 DEF EventFleet, Follows
  <2> QED
    BY <1>4, <2>1, <2>5
<1>6. CASE how \in {"error", "stopped"}
  <2>1. Ended(e, s, how) = Fired(f, s, how)
    BY <1>6 DEF Ended, Over
  <2> HIDE DEF f
  <2>2. Fired(f, s, how) \in EventFleet(f, s)
    BY <1>3, FiredKeeps
  <2> QED
    BY <1>4, <2>1, <2>2
<1>7. CASE how = "healing"
  <2> DEFINE g == [f EXCEPT ![s].timer = "heal"]
              m == [f[s] EXCEPT !.timer = "heal"]
  <2>1. Ended(e, s, how) = g
    BY <1>7 DEF Ended, Over
  <2> HIDE DEF f
  <2>2. f \in [Session -> Managed] /\ InEvent(s, f[s])
    BY <1>3 DEF EventFleet
  <2>3. InEvent(s, m) /\ Follows(f[s].status, m.status)
    BY <2>2 DEF InEvent, Managed, Timer, Follows
  <2>4. g = [f EXCEPT ![s] = m]
    BY <2>2
  <2> HIDE DEF g, m
  <2>5. g \in EventFleet(f, s)
    BY <1>3, <2>3, <2>4, EventFleetStep
  <2> QED
    BY <1>4, <2>1, <2>5
<1> QED
  BY <1>5, <1>6, <1>7

LEMMA RunEndsGood ==
  ASSUME SoundFleet(fleet), NEW s \in Session, RunEnds(s)
  PROVE  Good(fleet, fleet')
<1>1. PICK how \in {"stopped", "done", "error", "healing"} :
        fleet' = Settled(Ended(fleet, s, how))
  BY DEF RunEnds
<1>2. AroundEvent(fleet, s)
  BY DEF SoundFleet, Sound, AroundEvent
<1> QED
  BY <1>1, <1>2, EndedGood

LEMMA LimitMetGood ==
  ASSUME SoundFleet(fleet), NEW s \in Session, LimitMet(s)
  PROVE  Good(fleet, fleet')
<1>1. PICK wakes \in BOOLEAN : fleet' = Settled(Limited(s, wakes))
  BY DEF LimitMet
<1> DEFINE m == LimitHit(fleet[s], wakes)
            hit == [fleet EXCEPT ![s] = m]
            f == Fired(hit, s, "rate-limited")
<1>2. /\ fleet \in [Session -> Managed] /\ Sound(s, fleet[s])
      /\ fleet[s].status = "running" /\ fleet[s].resolver = "none"
  BY DEF LimitMet, SoundFleet, Sound, Managed, Resolver
<1>3. m \in Managed
  BY <1>2 DEF LimitHit, Managed, Status, Timer
<1>4. /\ m.status = "rate-limited" /\ m.resolver = "none"
      /\ m.turns = fleet[s].turns /\ m.stop = fleet[s].stop
  BY <1>2 DEF LimitHit, Managed
<1> HIDE DEF m
<1>5. InEvent(s, m)
  BY <1>2, <1>3, <1>4 DEF InEvent, Sound, Active
<1>6. hit[s] = m /\ hit \in [Session -> Managed] /\ \A t \in Session \ {s} : hit[t] = fleet[t]
  BY <1>2, <1>3
<1>7. fleet' = Settled(IF f[s].status = "rate-limited" THEN f
                       ELSE Ended(f, s, IF f[s].stop THEN "stopped" ELSE "done"))
  BY <1>1 DEF Limited, m
<1> HIDE DEF hit
<1>8. hit \in EventFleet(hit, s)
  BY <1>5, <1>6 DEF EventFleet, SoundFleet, Follows
<1>9. f \in EventFleet(hit, s)
  BY <1>8, FiredKeeps
<1> HIDE DEF f
<1>10. /\ f \in [Session -> Managed] /\ InEvent(s, f[s])
       /\ f[s].status \in {"rate-limited", "stopped"}
       /\ \A t \in Session \ {s} : Sound(t, f[t]) /\ (fleet[t].stop => f[t].stop)
  BY <1>4, <1>6, <1>9 DEF EventFleet, Follows
<1>11. CASE f[s].status = "rate-limited"
  <2>1. fleet' = Settled(f)
    BY <1>7, <1>11
  <2>2. f[s].status \notin Active
    BY <1>11 DEF Active
  <2> QED
    BY <1>10, <2>1, <2>2, SettledGood
<1>12. CASE f[s].status # "rate-limited"
  <2> DEFINE how == IF f[s].stop THEN "stopped" ELSE "done"
              g == Settled(Ended(f, s, how))
  <2>1. fleet' = g
    BY <1>7, <1>12
  <2>2. AroundEvent(f, s)
    BY <1>10 DEF AroundEvent, InEvent
  <2>3. how \in {"stopped", "done", "error", "healing"}
    OBVIOUS
  <2> HIDE DEF how
  <2>4. Good(f, g) /\ g[s].status \notin Active
    BY <2>2, <2>3, EndedGood
  <2> HIDE DEF g
  <2> QED
    BY <1>10, <2>1, <2>4 DEF Good, StopsKept
<1> QED
  BY <1>11, <1>12

LEMMA ResumeFiresGood ==
  ASSUME SoundFleet(fleet), NEW s \in Session, ResumeFires(s)
  PROVE  Good(fleet, fleet')
<1> DEFINE m == [fleet[s] EXCEPT !.timer = "none"]
            cleared == [fleet EXCEPT ![s].timer = "none"]
            r == StartedUnless(FALSE, cleared, s, 0)
<1>1. fleet \in [Session -> Managed] /\ Sound(s, fleet[s])
  BY DEF SoundFleet
<1>2. Sound(s, m) /\ m.stop = fleet[s].stop
  BY <1>1 DEF Sound, Heard, Managed, Timer
<1>3. cleared = [fleet EXCEPT ![s] = m] /\ cleared[s] = m
  BY <1>1
<1>4. 0 \in 0..Cap
  BY AutomationsAssumption
<1>5. fleet' = cleared \/ fleet' = [cleared EXCEPT ![s] = r]
  BY DEF ResumeFires
<1> HIDE DEF m
<1>6. Sound(s, r) /\ (m.stop => r.stop)
  <2> HIDE DEF cleared
  <2> QED
    BY <1>2, <1>3, <1>4, StartedUnlessSound
<1>7. CASE fleet' = cleared
  <2> HIDE DEF cleared
  <2> QED
    BY <1>2, <1>3, <1>7, OneMoves
<1>8. CASE fleet' = [cleared EXCEPT ![s] = r]
  <2>1. fleet' = [fleet EXCEPT ![s] = r]
    BY <1>1, <1>3, <1>8
  <2> HIDE DEF cleared, r
  <2> QED
    BY <1>2, <1>6, <2>1, OneMoves
<1> QED
  BY <1>5, <1>7, <1>8

LEMMA HealFiresGood ==
  ASSUME SoundFleet(fleet), NEW s \in Session, HealFires(s)
  PROVE  Good(fleet, fleet')
<1> DEFINE m == [fleet[s] EXCEPT !.timer = "none"]
            cleared == [fleet EXCEPT ![s].timer = "none"]
            r == Started(cleared, s, 0)
            f == [cleared EXCEPT ![s] = r]
<1>1. fleet \in [Session -> Managed] /\ Sound(s, fleet[s])
  BY DEF SoundFleet
<1>2. Sound(s, m) /\ m.stop = fleet[s].stop /\ m.status = fleet[s].status
  BY <1>1 DEF Sound, Heard, Managed, Timer
<1>3. cleared = [fleet EXCEPT ![s] = m] /\ cleared[s] = m
  BY <1>1
<1>4. 0 \in 0..Cap
  BY AutomationsAssumption
<1>5. fleet' = IF fleet[s].status # "error" THEN cleared
               ELSE IF f[s].status = "running" THEN f
               ELSE Settled(Fired(f, s, "error"))
  BY DEF HealFires
<1> HIDE DEF m
<1>6. Sound(s, r) /\ (m.stop => r.stop)
  <2> HIDE DEF cleared
  <2> QED
    BY <1>2, <1>3, <1>4, StartedSound
<1>7. f = [fleet EXCEPT ![s] = r] /\ f[s] = r
  BY <1>1, <1>3
<1>8. CASE fleet[s].status # "error"
  <2>1. fleet' = cleared
    BY <1>5, <1>8
  <2> HIDE DEF cleared
  <2> QED
    BY <1>2, <1>3, <2>1, OneMoves
<1>9. CASE fleet[s].status = "error" /\ f[s].status = "running"
  <2>1. fleet' = f
    BY <1>5, <1>9
  <2> HIDE DEF f, r
  <2> QED
    BY <1>2, <1>6, <1>7, <2>1, OneMoves
<1>10. CASE fleet[s].status = "error" /\ f[s].status # "running"
  <2>1. fleet' = Settled(Fired(f, s, "error"))
    BY <1>5, <1>10
  <2>2. r.status \in {"error", "blocked", "running"}
    <3>1. cleared[s].status = "error" /\ cleared[s] \in Managed
      BY <1>2, <1>3, <1>10 DEF Sound
    <3> HIDE DEF cleared
    <3> QED
      BY <3>1 DEF Started, StartedUnless, Launched, Managed, Active
  <2> HIDE DEF f, r
  <2>3. r.status \notin Active /\ InEvent(s, r)
    BY <1>6, <1>7, <1>10, <2>2 DEF Active, InEvent, Sound, Managed, Resolver
  <2>4. /\ f \in [Session -> Managed]
        /\ \A t \in Session \ {s} : f[t] = fleet[t] /\ Sound(t, f[t])
    BY <1>1, <1>7, <2>3 DEF InEvent, SoundFleet
  <2>5. f \in EventFleet(f, s) /\ f[s].status \notin Active
    BY <1>7, <2>3, <2>4 DEF EventFleet, Follows
  <2>6. Good(f, fleet')
    BY <2>1, <2>5, FiredKeeps, EventGood
  <2>7. ~fleet[s].stop
    BY <1>1, <1>10 DEF Sound, Active
  <2> QED
    BY <2>4, <2>6, <2>7 DEF Good, StopsKept
<1> QED
  BY <1>8, <1>9, <1>10

LEMMA OthersGood ==
  ASSUME SoundFleet(fleet), NEW s \in Session,
         \/ ScheduleFires(s) \/ AttentionTimesOut(s) \/ OperatorStarts(s)
         \/ OperatorStops(s) \/ OperatorAnswers(s) \/ OperatorSends(s)
  PROVE  Good(fleet, fleet')
<1>1. Sound(s, fleet[s]) /\ 0 \in 0..Cap
  BY AutomationsAssumption DEF SoundFleet
<1>2. CASE ScheduleFires(s) \/ OperatorStarts(s)
  <2>1. fleet' = [fleet EXCEPT ![s] = Started(fleet, s, 0)]
    BY <1>2 DEF ScheduleFires, OperatorStarts
  <2>2. Sound(s, Started(fleet, s, 0)) /\ (fleet[s].stop => Started(fleet, s, 0).stop)
    BY <1>1, StartedSound
  <2> QED
    BY <2>1, <2>2, OneMoves
<1>3. CASE AttentionTimesOut(s) \/ OperatorAnswers(s)
  <2>1. fleet' = [fleet EXCEPT ![s] = Woken(fleet[s])] /\ fleet[s].resolver # "none"
    BY <1>3 DEF AttentionTimesOut, OperatorAnswers
  <2>2. Sound(s, Woken(fleet[s])) /\ (fleet[s].stop => Woken(fleet[s]).stop)
    BY <1>1, <2>1, WokenSound
  <2> QED
    BY <2>1, <2>2, OneMoves
<1>4. CASE OperatorStops(s)
  <2>1. fleet' = [fleet EXCEPT ![s] = Stopped(fleet[s])]
    BY <1>4 DEF OperatorStops
  <2>2. Sound(s, Stopped(fleet[s])) /\ (fleet[s].stop => Stopped(fleet[s]).stop)
    BY <1>1, StoppedSound
  <2> QED
    BY <2>1, <2>2, OneMoves
<1>5. CASE OperatorSends(s)
  <2>1. fleet' = [fleet EXCEPT ![s] = MessageSent(fleet[s])]
    BY <1>5 DEF OperatorSends
  <2>2. Sound(s, MessageSent(fleet[s])) /\ (fleet[s].stop => MessageSent(fleet[s]).stop)
    BY <1>1, MessageSentSound
  <2> QED
    BY <2>1, <2>2, OneMoves
<1> QED
  BY <1>2, <1>3, <1>4, <1>5

LEMMA OperatorSwitchesGood ==
  ASSUME SoundFleet(fleet), NEW s \in Session, NEW mode \in Mode, OperatorSwitches(s, mode)
  PROVE  Good(fleet, fleet')
<1> DEFINE m == ModeSet(fleet[s], mode)
            g == [fleet EXCEPT ![s] = m]
<1>1. Sound(s, fleet[s])
  BY DEF SoundFleet
<1>2. Sound(s, m) /\ (fleet[s].stop => m.stop)
  BY <1>1, ModeSetSound
<1>3. fleet' = Settled(g)
  BY DEF OperatorSwitches
<1> HIDE DEF m
<1>4. Good(fleet, g)
  BY <1>2, OneMoves
<1> HIDE DEF g
<1> QED
  BY <1>3, <1>4, SettledGood DEF Good, SoundFleet, StopsKept

LEMMA OperatorEditsGood ==
  ASSUME SoundFleet(fleet), NEW s \in Session, NEW mode \in Mode, OperatorEdits(s, mode)
  PROVE  Good(fleet, fleet')
<1> DEFINE m == [fleet[s] EXCEPT !.startMode = mode, !.mode = mode]
<1>1. fleet \in [Session -> Managed] /\ Sound(s, fleet[s])
  BY DEF SoundFleet
<1>2. Sound(s, m) /\ m.stop = fleet[s].stop
  BY <1>1 DEF Sound, Heard, Managed
<1>3. fleet' = [fleet EXCEPT ![s] = m]
  BY <1>1 DEF OperatorEdits
<1> HIDE DEF m
<1> QED
  BY <1>2, <1>3, OneMoves

LEMMA StepGood ==
  ASSUME AutomationsInv, [Next]_vars
  PROVE  AutomationsInv' /\ StopsKept(fleet, fleet')
<1>1. SoundFleet(fleet) /\ spent \in BOOLEAN
  BY DEF AutomationsInv, SoundFleet
<1>2. spent' \in BOOLEAN
  BY <1>1 DEF Next, vars, LimitMoves, RunSteps, OperatorSteps, WaitsForInput, TakesTurn,
    Asks, RunEnds, LimitMet, ResumeFires, HealFires, ScheduleFires, AttentionTimesOut,
    OperatorStarts, OperatorStops, OperatorAnswers, OperatorSends, OperatorSwitches,
    OperatorEdits
<1>3. ASSUME NEW s \in Session, RunSteps(s) \/ OperatorSteps(s) PROVE Good(fleet, fleet')
  <2>1. CASE WaitsForInput(s)
    BY <1>1, <2>1, WaitsForInputGood
  <2>2. CASE TakesTurn(s)
    BY <1>1, <2>2, TakesTurnGood
  <2>3. CASE Asks(s)
    BY <1>1, <2>3, AsksGood
  <2>4. CASE RunEnds(s)
    BY <1>1, <2>4, RunEndsGood
  <2>5. CASE HealFires(s)
    BY <1>1, <2>5, HealFiresGood
  <2>6. CASE \/ ScheduleFires(s) \/ AttentionTimesOut(s) \/ OperatorStarts(s)
             \/ OperatorStops(s) \/ OperatorAnswers(s) \/ OperatorSends(s)
    BY <1>1, <2>6, OthersGood
  <2>7. CASE \E mode \in Mode : OperatorSwitches(s, mode)
    BY <1>1, <2>7, OperatorSwitchesGood
  <2>8. CASE \E mode \in Mode : OperatorEdits(s, mode)
    BY <1>1, <2>8, OperatorEditsGood
  <2>9. CASE LimitMet(s)
    BY <1>1, <2>9, LimitMetGood
  <2>10. CASE ResumeFires(s)
    BY <1>1, <2>10, ResumeFiresGood
  <2> QED
    BY <1>3, <2>1, <2>2, <2>3, <2>4, <2>5, <2>6, <2>7, <2>8, <2>9,
      <2>10 DEF RunSteps, OperatorSteps
<1>4. CASE \E s \in Session : RunSteps(s) \/ OperatorSteps(s)
  BY <1>2, <1>3, <1>4 DEF Good, SoundFleet, AutomationsInv
<1>5. CASE UNCHANGED fleet
  BY <1>2, <1>5 DEF AutomationsInv, StopsKept
<1> QED
  BY <1>4, <1>5 DEF Next, vars, LimitMoves

LEMMA InitGood == Init => AutomationsInv
<1> SUFFICES ASSUME Init PROVE AutomationsInv
  OBVIOUS
<1>1. 0 \in 0..Cap /\ StartMode \in [Session -> Mode] /\ MaxTurns \in [Session -> Nat]
  BY AutomationsAssumption
<1>2. ASSUME NEW s \in Session PROVE Sound(s, fleet[s])
  <2>1. fleet[s] \in Managed
    BY <1>1 DEF Init, Managed, Status, Active, Resolver, Timer
  <2>2. /\ fleet[s].turns = 0 /\ fleet[s].status = "idle"
        /\ fleet[s].resolver = "none" /\ ~fleet[s].stop
    BY DEF Init
  <2>3. 0 <= MaxTurns[s] + 1
    BY <1>1
  <2> QED
    BY <2>1, <2>2, <2>3 DEF Sound, Heard
<1>3. fleet \in [Session -> Managed]
  BY <1>2 DEF Init, Sound
<1> QED
  BY <1>2, <1>3 DEF AutomationsInv, Init

(***************************************************************************)
(* The theorems.                                                           *)
(***************************************************************************)
THEOREM AutomationsInvariant == Spec => []AutomationsInv
<1>1. AutomationsInv /\ [Next]_vars => AutomationsInv'
  BY StepGood
<1> QED
  BY InitGood, <1>1, PTL DEF Spec

\* Whatever rules start, stop, switch and message whom, generations stay within
\* automationChainCap and turns within one of maxTurns (nextChainGen, Guards.check).
THEOREM AutomationsTypes == Spec => []TypeOK
<1>1. AutomationsInv => TypeOK
  BY DEF AutomationsInv, TypeOK, Sound
<1> QED
  BY <1>1, AutomationsInvariant, PTL

\* Whatever the rules do to a run in the middle of its events, one that waits
\* can be answered, or has been told to stop (waitForInput, resolveAttention).
THEOREM WaitersAreHeard == Spec => []NobodyWaitsUnheard
<1>1. AutomationsInv => NobodyWaitsUnheard
  BY DEF AutomationsInv, NobodyWaitsUnheard, Sound, Heard
<1> QED
  BY <1>1, AutomationsInvariant, PTL

\* Whatever the rules, a run that was told to stop ends before its session
\* runs again (runAutomations: no plan starts the session whose event it is).
THEOREM StopsAreKept == Spec => StopIsKept
<1>1. AutomationsInv /\ [Next]_vars =>
        [\A s \in Session :
           fleet[s].stop => fleet'[s].stop \/ fleet'[s].status \notin Active]_vars
  BY StepGood DEF StopsKept
<1> QED
  BY <1>1, AutomationsInvariant, PTL DEF Spec, StopIsKept
=============================================================================
