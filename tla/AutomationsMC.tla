--------------------------- MODULE AutomationsMC ---------------------------
(***************************************************************************)
(* Instances of Automations for TLC.                                       *)
(***************************************************************************)
EXTENDS Automations

CONSTANTS s1, s2, s3

Does(kind, target, mode) == [kind |-> kind, target |-> target, mode |-> mode]

When(on, match, actions) ==
  [enabled |-> TRUE, on |-> on, match |-> match, modes |-> Mode, actions |-> actions]

\* s2 runs after s1; s1 is driven by hand first.
AfterA == [s \in Session |-> IF s = s2 THEN {s1} ELSE {}]
TurnLimits == [s \in Session |-> IF s = s2 THEN 1 ELSE 0]
StartModes == [s \in Session |-> IF s = s1 THEN "manual" ELSE "autopilot"]

\* A loop: the end of s2 starts s1 and s3, the end of s3 starts s2 again, which may
\* find s1 running and wait for it.  (The starts of themselves are dropped.)  A
\* limit that s3 meets stops it and starts s2.
Loop ==
  <<When({"done", "error", "stopped"}, {s2}, <<Does("start", s1, ""), Does("start", s3, ""), Does("start", s2, "")>>),
    When({"done", "stopped"}, {s3}, <<Does("start", s2, ""), Does("start", "$self", ""), Does("setMode", s1, "autopilot")>>),
    When({"needs-input"}, {s2, s3}, <<Does("sendMessage", s1, ""), Does("stop", s3, ""), Does("notify", "$self", "")>>),
    When({"rate-limited"}, {s3}, <<Does("stop", "$self", ""), Does("start", s2, "")>>)>>
============================================================================
