-------------------------- MODULE MCAccountService --------------------------
(***************************************************************************)
(* Instances of AccountService for TLC.  Three auth files can become       *)
(* accounts: the profiles of two login sessions (pa, pb), and the file ext *)
(* that is imported as profile pe.  All profile names are safe, so each is *)
(* the name of its directory.                                              *)
(***************************************************************************)
EXTENDS AccountService

CONSTANTS pa, pb, pe, accA, accB, accC

SafeNames == [p \in Profile |-> p]

(* Every auth file belongs to a Codex account of its own; auth.json begins *)
(* with that of pa.                                                        *)
DistinctOwners ==
    [p \in Place |-> IF p = pb THEN accB ELSE IF p \in {pe} \cup ImportPath THEN accC ELSE accA]
=============================================================================
