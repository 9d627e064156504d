--------------------------- MODULE MCUsageService ---------------------------
(***************************************************************************)
(* An instance of UsageService for TLC.  The second account is added under *)
(* another name than the first, or under its name once that is free.       *)
(***************************************************************************)
EXTENDS UsageService

CONSTANTS p, q

Names == [i \in AccountID |-> IF i = 1 THEN {p} ELSE {p, q}]
=============================================================================
