--------------------------- MODULE FleetBudgetMC ---------------------------
(***************************************************************************)
(* The instance of FleetBudget for TLC.                                    *)
(***************************************************************************)
EXTENDS FleetBudget

CONSTANTS s1, s2, s3

\* Three sessions, s2 running after s1 and s3 after s2.
Chain == [s \in Session |-> IF s = s2 THEN {s1} ELSE IF s = s3 THEN {s2} ELSE {}]
JoinEdits == {{s1}, {s2}}
=============================================================================
