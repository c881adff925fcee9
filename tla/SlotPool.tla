------------------------------ MODULE SlotPool ------------------------------
(***************************************************************************)
(* What the supervisor promises of its concurrency cap: at most cap new    *)
(* clients are let on, they are let on in the order they came, no client   *)
(* waits while there is room, and lowering the cap takes no one off.       *)
(***************************************************************************)
EXTENDS Naturals, FiniteSets

CONSTANTS Client, CapChoices

VARIABLES
  on,       \* clients that hold a slot
  waiting,  \* clients that wait for one
  before,   \* pairs of these: the first came before the second
  cap

vars == <<on, waiting, before, cap>>

\* B says of any two members of W, and of nobody else, which came first.
Orders(B, W) ==
  /\ B \subseteq W \X W
  /\ \A a, b \in W : a # b => (<<a, b>> \in B <=> <<b, a>> \notin B)
  /\ \A a \in W : <<a, a>> \notin B
  /\ \A a, b, c \in W : <<a, b>> \in B /\ <<b, c>> \in B => <<a, c>> \in B

Init == on = {} /\ waiting = {} /\ before = {} /\ cap \in CapChoices

\* `stay` go on waiting in the order they had, `late` come after them.
Line(stay, late) ==
  /\ waiting' = stay \cup late
  /\ Orders(before', waiting')
  /\ \A a, b \in stay : <<a, b>> \in before' <=> <<a, b>> \in before
  /\ stay \X late \subseteq before'

\* From the slots `held`, the first of those who wait are let on while there is
\* room below the cap c, and then some of the clients `fresh` who come now.
Admits(held, fresh, c) ==
  \E first \in SUBSET waiting, now \in SUBSET fresh :
    /\ on' = held \cup first \cup now
    /\ on' = held \/ Cardinality(on') <= c
    /\ first # waiting \/ now # fresh => Cardinality(on') >= c
    /\ now # {} => first = waiting
    /\ \A a \in first, b \in waiting \ first : <<b, a>> \notin before
    /\ Line(waiting \ first, fresh \ now)

\* A client asks for a slot.
Ask(c) ==
  /\ c \notin on \cup waiting
  /\ c \in on' \cup waiting'
  /\ Admits(on, {c}, cap)
  /\ UNCHANGED cap

\* A waiting client gives up.
Leave(c) ==
  /\ c \in waiting
  /\ UNCHANGED <<on, cap>>
  /\ Line(waiting \ {c}, {})

\* A client gives its slot back, which may bring others to the pool.
Return(c) ==
  /\ c \in on
  /\ c \notin on'
  /\ \E fresh \in SUBSET (Client \ (on \cup waiting)) : Admits(on \ {c}, fresh, cap)
  /\ UNCHANGED cap

Resize(c) ==
  /\ cap' = c
  /\ Admits(on, {}, c)

\* The process restarts: everyone is off.
Reset ==
  /\ on' = {} /\ waiting' = {} /\ before' = {}
  /\ UNCHANGED cap

Next ==
  \/ \E c \in Client : Ask(c) \/ Leave(c) \/ Return(c)
  \/ \E c \in CapChoices : Resize(c)
  \/ Reset

Spec == Init /\ [][Next]_vars
============================================================================
