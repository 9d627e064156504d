---------------------------- MODULE FileRegister ----------------------------
(***************************************************************************)
(* What couswee's callers expect of an auth file: it holds one version, or *)
(* none, and changes from one to another at once.                          *)
(***************************************************************************)
CONSTANTS Version, Absent

VARIABLE value

Init == value = Absent

Put == \E v \in Version : value' = v

Remove == value' = Absent

Next == Put \/ Remove

Spec == Init /\ [][Next]_value
=============================================================================
