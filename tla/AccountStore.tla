---------------------------- MODULE AccountStore ----------------------------
(***************************************************************************)
(* The account table of couswee's SQLite store (sqlite_store.go).          *)
(*                                                                         *)
(* A table maps every account id either to its row or to NoRow.  The store *)
(* reads rows in the order of created_at; ids stand for that order, so a   *)
(* smaller id is an earlier row.  Of a row the model keeps what decides    *)
(* anything: the profile name, the path of the auth file, the active flag, *)
(* the status, and whether last_used_at was ever set.  Nicknames, notes    *)
(* and the usage snapshot are left out.                                    *)
(***************************************************************************)
EXTENDS Integers

CONSTANTS
    AccountID,    \* the ids the accounts of a run may get, in creation order
    Profile,      \* profile names
    Dir,          \* the managed profile directories, each with its auth.json
    ImportPath,   \* auth files outside the managed directories
    Status,       \* the values of the status column
    NoRow         \* what a table holds for an id that is not listed

Path == Dir \cup ImportPath

Row == [profile : Profile, path : Path, active : BOOLEAN,
        status : Status, used : BOOLEAN]

ASSUME StoreAssumption ==
    /\ AccountID \subseteq Nat \ {0}
    /\ {"ready", "active"} \subseteq Status
    /\ Dir \cap ImportPath = {}
    /\ NoRow \notin Row

Table == [AccountID -> Row \cup {NoRow}]

EmptyTable == [i \in AccountID |-> NoRow]

Listed(T) == {i \in AccountID : T[i] # NoRow}

First(i, S) == i \in S /\ \A j \in S : i <= j

(* A selector of a request is an account id or a profile name.             *)
Selected(T, sel) == {i \in Listed(T) : i \in sel \/ T[i].profile \in sel}

(* Wrong on purpose, for the checks to notice: the status of a row that is *)
(* no longer active stays, or is blanked.                                  *)
NormalizeKeepingStatus(r) ==
    [r EXCEPT !.status = IF r.active THEN "active" ELSE r.status]

NormalizeBlankingStatus(r) ==
    [r EXCEPT !.status = IF r.active THEN "active"
                         ELSE IF r.status = "active" THEN "" ELSE r.status]

NormalizeAccount(r) ==
    [r EXCEPT !.status = IF r.active THEN "active"
                         ELSE IF r.status = "active" THEN "ready" ELSE r.status]

(* Only the first active row of the list keeps its flag.  The flag is      *)
(* cleared after the status was derived from it, so the insert normalizes  *)
(* the row a second time.                                                  *)
NormalizeAccounts(T) ==
    LET Keeps(i) == T[i].active /\ \A j \in Listed(T) : T[j].active => i <= j
    IN  [i \in AccountID |->
            IF T[i] = NoRow THEN NoRow
            ELSE NormalizeAccount([NormalizeAccount(T[i]) EXCEPT !.active = Keeps(i)])]

UniqueProfiles(T) ==
    \A i, j \in Listed(T) : T[i].profile = T[j].profile => i = j

(* What the table holds after a transaction that deletes every row and     *)
(* inserts those of new: the UNIQUE constraint on profile_name rolls it    *)
(* back.                                                                   *)
Committed(T, new) == IF UniqueProfiles(new) THEN NormalizeAccounts(new) ELSE T

(* At most one row is active, the status says "active" of that row and no  *)
(* other, and no two rows share a profile name.                            *)
Consistent(T) ==
    /\ \A i, j \in Listed(T) : T[i].active /\ T[j].active => i = j
    /\ \A i \in Listed(T) : T[i].active <=> T[i].status = "active"
    /\ UniqueProfiles(T)

(* Wrong on purpose: the other rows keep their flag.                       *)
ActivateAlso(T, i) ==
    [j \in AccountID |->
        IF T[j] = NoRow THEN NoRow
        ELSE [T[j] EXCEPT !.active = T[j].active \/ j = i,
                          !.used = T[j].used \/ j = i]]

(* The row of account i becomes the active one and has been used.          *)
Activate(T, i) ==
    [j \in AccountID |->
        IF T[j] = NoRow THEN NoRow
        ELSE [T[j] EXCEPT !.active = (j = i), !.used = T[j].used \/ j = i]]
=============================================================================
