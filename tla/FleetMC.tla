------------------------------ MODULE FleetMC ------------------------------
(***************************************************************************)
(* Instances of Fleet for TLC.                                             *)
(***************************************************************************)
EXTENDS Fleet

CONSTANTS s1, s2

\* Two sessions, on their own or s2 running after s1.
NoDeps == [s \in Session |-> {}]
Chain == [s \in Session |-> IF s = s2 THEN {s1} ELSE {}]
ChainEdits == {{}, {s1}}
NoEdits == {}
============================================================================
