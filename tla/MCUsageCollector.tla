-------------------------- MODULE MCUsageCollector --------------------------
(***************************************************************************)
(* Answers of the usage API for model checking UsageCollector: the week in *)
(* the primary window, unused, 87.6 and 0.5 percent left, used up, and more *)
(* than used up; and nothing that is recognized.                           *)
(* One account may be renewed twice: by codex doctor and by codex login.   *)
(***************************************************************************)
EXTENDS UsageCollector

CONSTANTS i1, i2

Renewals == [i \in Account |-> IF i = i1 THEN 2 ELSE 1]

Nothing ==
    [five |-> NoWindow, seven |-> NoWindow, weekly |-> NoWindow,
     primary |-> NoWindow, secondary |-> NoWindow, items |-> <<>>,
     allowed |-> None, limit_reached |-> None, reached_type |-> FALSE,
     has_credits |-> None, available |-> None, unlimited |-> None,
     overage |-> None, spend |-> None, plan |-> FALSE]

Answers == {Nothing} \cup {[Nothing EXCEPT !.primary.used = n] : n \in {0, 124, 995, 1000, 1003}}
=============================================================================
