---------------------------- MODULE MCAtomicFile ----------------------------
(***************************************************************************)
(* An instance of AtomicFile for TLC: a short version and a longer one.    *)
(***************************************************************************)
EXTENDS AtomicFile

CONSTANTS short, long

Lengths == [v \in Version |-> IF v = short THEN 1 ELSE 2]
=============================================================================
