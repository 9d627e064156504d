-------------------------- MODULE SchemaMigration --------------------------
(***************************************************************************)
(* How couswee opens its database (SQLiteStore.initSchema): tables are     *)
(* created when they are missing, columns added since the first release    *)
(* are added one by one, and a table with the old display_name column or   *)
(* the old unique nickname is copied into a new one, which has neither.    *)
(*                                                                         *)
(* All statements but those of the copy commit by themselves.  A start may *)
(* fail or die after any of them, and the next one begins with what is     *)
(* there.  The database is opened before the port is, so that a second     *)
(* start may run beside the first, or beside a server that stores usage.   *)
(***************************************************************************)
EXTENDS Naturals, Sequences

CONSTANTS
    Proc,       \* processes of couswee
    AccountID,  \* accounts
    Added,      \* how many columns were added to the accounts table over time
    NoTable,    \* no table of that name
    NoProc      \* nobody is writing

Column == 1 .. Added

DisplayName == Added + 1    \* the column display_name, which new tables lack

(* A table of accounts: which of these columns it has, whether nicknames   *)
(* are UNIQUE, and what is stored of every account: nothing, or the first  *)
(* columns (0) and some of the others, the rest holding their default.     *)
Stored == [AccountID -> SUBSET ({0, DisplayName} \cup Column)]

TableShape == [cols : SUBSET ({DisplayName} \cup Column), unique : BOOLEAN, data : Stored]

OldShape(T) == DisplayName \in T.cols \/ T.unique

(* What statements that do not name display_name keep of the rows.         *)
Kept(data) == [i \in AccountID |-> data[i] \ {DisplayName}]

Tables == <<"schema_migrations", "accounts", "login_sessions", "version">>

Database == [made : SUBSET {Tables[k] : k \in DOMAIN Tables},
             accounts : TableShape \cup {NoTable},
             accounts_new : TableShape \cup {NoTable}]

ASSUME MigrationAssumption ==
    /\ Added \in Nat \ {0}
    /\ NoTable \notin TableShape
    /\ NoProc \notin Proc

VARIABLES
    db,       \* the database as it is committed
    writer,   \* the process with an open write transaction
    work,     \* the database as that transaction sees it
    pc,       \* where each process is
    at,       \* the statement or column it is at
    blind,    \* a probe for the old shape failed, so that it was not looked for
    stored    \* what was last stored of every account

vars == <<db, writer, work, pc, at, blind, stored>>

NewTable == [cols |-> Column, unique |-> FALSE, data |-> [i \in AccountID |-> {}]]

NoDatabase == [made |-> {}, accounts |-> NoTable, accounts_new |-> NoTable]

(* A database that an older release left: the first k added columns, and   *)
(* the display names or unique nicknames of the first releases or none.    *)
Legacy(k, display, unique, data) ==
    [made |-> {"accounts"},
     accounts |-> [cols |-> 1 .. k \cup display, unique |-> unique, data |-> data],
     accounts_new |-> NoTable]

TypeOK ==
    /\ db \in Database
    /\ writer \in Proc \cup {NoProc}
    /\ work \in Database
    /\ pc \in [Proc -> {"off", "create", "inspect", "alter", "probe", "new",
                        "copy", "drop", "rename", "commit", "ready"}]
    /\ at \in [Proc -> Nat]
    /\ blind \in [Proc -> BOOLEAN]
    /\ stored \in Stored

Init ==
    /\ \/ /\ db = NoDatabase
          /\ stored = NewTable.data
       \/ \E k \in 0 .. Added, display \in SUBSET {DisplayName}, unique \in BOOLEAN,
             held \in SUBSET AccountID :
            /\ stored = [i \in AccountID |-> IF i \in held THEN 0 .. k \cup display ELSE {}]
            /\ db = Legacy(k, display, unique, stored)
    /\ writer = NoProc
    /\ work = NoDatabase
    /\ pc = [p \in Proc |-> "off"]
    /\ at = [p \in Proc |-> 1]
    /\ blind = [p \in Proc |-> FALSE]

-----------------------------------------------------------------------------
Go(p, from, to, n) ==
    /\ pc[p] = from
    /\ pc' = [pc EXCEPT ![p] = to]
    /\ at' = [at EXCEPT ![p] = n]

(* A statement of its own that writes D; while another process has a write *)
(* transaction open it fails at once, and with it the start.               *)
Autocommit(p, D) ==
    /\ writer = NoProc
    /\ db' = D

(* main opens the store.                                                   *)
Launch(p) ==
    /\ Go(p, "off", "create", 1)
    /\ blind' = [blind EXCEPT ![p] = FALSE]
    /\ UNCHANGED <<db, writer, work, stored>>

(* CREATE TABLE IF NOT EXISTS ..., and the insert of the version.          *)
Create(p) ==
    /\ IF at[p] < Len(Tables) THEN Go(p, "create", "create", at[p] + 1)
       ELSE Go(p, "create", "inspect", 1)
    /\ Autocommit(p, [db EXCEPT !.made = @ \cup {Tables[at[p]]},
                                !.accounts = IF Tables[at[p]] = "accounts" /\ @ = NoTable
                                             THEN NewTable ELSE @])
    /\ UNCHANGED <<writer, work, blind, stored>>

(* Definitions named Wrong... are plausible mistakes in the definition they *)
(* precede; the checks of this module must notice each of them.            *)
WrongInspect(p) ==
    /\ pc[p] = "inspect"
    /\ IF at[p] = Added THEN Go(p, "inspect", "probe", 1)
       ELSE IF at[p] \in db.accounts.cols THEN Go(p, "inspect", "inspect", at[p] + 1)
       ELSE Go(p, "inspect", "alter", at[p])
    /\ UNCHANGED <<db, writer, work, blind, stored>>

(* ensureColumn: is the column there?                                      *)
Inspect(p) ==
    /\ pc[p] = "inspect"
    /\ IF at[p] > Added THEN Go(p, "inspect", "probe", 1)
       ELSE IF at[p] \in db.accounts.cols THEN Go(p, "inspect", "inspect", at[p] + 1)
       ELSE Go(p, "inspect", "alter", at[p])
    /\ UNCHANGED <<db, writer, work, blind, stored>>

(* If not, it is added; another process may have been faster.              *)
Alter(p) ==
    /\ Go(p, "alter", "inspect", at[p] + 1)
    /\ at[p] \notin db.accounts.cols
    /\ Autocommit(p, [db EXCEPT !.accounts.cols = @ \cup {at[p]}])
    /\ UNCHANGED <<writer, work, blind, stored>>

(* rebuildAccountTableIfNeeded.  columnExists and nicknameHasUniqueIndex   *)
(* report an error as "no".                                                *)
Probe(p) ==
    /\ \/ /\ Go(p, "probe", IF OldShape(db.accounts) THEN "new" ELSE "ready", 1)
          /\ UNCHANGED blind
       \/ /\ Go(p, "probe", "ready", 1)
          /\ blind' = [blind EXCEPT ![p] = TRUE]
    /\ UNCHANGED <<db, writer, work, stored>>

WrongInTx(p, D) == work' = D /\ db' = D /\ UNCHANGED stored

(* A statement of the transaction.                                         *)
InTx(p, D) == work' = D /\ UNCHANGED <<db, stored>>

WrongCreateNew(p) ==
    /\ Go(p, "new", "copy", 1)
    /\ writer = NoProc
    /\ writer' = p
    /\ db.accounts_new = NoTable
    /\ work' = [db EXCEPT !.accounts_new = NewTable]
    /\ db' = work'
    /\ UNCHANGED <<blind, stored>>

(* The first statement takes the write lock.                               *)
CreateNew(p) ==
    /\ Go(p, "new", "copy", 1)
    /\ writer = NoProc
    /\ writer' = p
    /\ db.accounts_new = NoTable
    /\ InTx(p, [db EXCEPT !.accounts_new = NewTable])
    /\ UNCHANGED blind

WrongCopy(p) ==
    /\ Go(p, "copy", "drop", 1)
    /\ Column \subseteq work.accounts.cols
    /\ InTx(p, [work EXCEPT !.accounts_new.data =
                   [i \in AccountID |-> work.accounts.data[i] \ {Added, DisplayName}]])
    /\ UNCHANGED <<writer, blind>>

(* INSERT ... SELECT names all columns of the new table, and so not        *)
(* display_name: without one of them it fails.                             *)
Copy(p) ==
    /\ Go(p, "copy", "drop", 1)
    /\ Column \subseteq work.accounts.cols
    /\ InTx(p, [work EXCEPT !.accounts_new.data = Kept(work.accounts.data)])
    /\ UNCHANGED <<writer, blind>>

Drop(p) ==
    /\ Go(p, "drop", "rename", 1)
    /\ InTx(p, [work EXCEPT !.accounts = NoTable])
    /\ UNCHANGED <<writer, blind>>

Rename(p) ==
    /\ Go(p, "rename", "commit", 1)
    /\ InTx(p, [work EXCEPT !.accounts = work.accounts_new, !.accounts_new = NoTable])
    /\ UNCHANGED <<writer, blind>>

Commit(p) ==
    /\ Go(p, "commit", "ready", 1)
    /\ db' = work
    /\ writer' = NoProc
    /\ UNCHANGED <<work, blind, stored>>

(* The start fails: the transaction is rolled back, the process ends.      *)
Ends(p) ==
    /\ pc' = [pc EXCEPT ![p] = "off"]
    /\ at' = [at EXCEPT ![p] = 1]
    /\ writer' = IF writer = p THEN NoProc ELSE writer
    /\ work' = IF writer = p THEN NoDatabase ELSE work
    /\ UNCHANGED <<db, blind, stored>>

(* A statement that cannot be carried out: another process is writing, has *)
(* added the column, or a table or column is in the way or missing.        *)
Refused(p) ==
    /\ \/ pc[p] \in {"create", "alter", "new"} /\ writer # NoProc
       \/ pc[p] = "alter" /\ at[p] \in db.accounts.cols
       \/ pc[p] = "new" /\ db.accounts_new # NoTable
       \/ pc[p] = "copy" /\ ~(Column \subseteq work.accounts.cols)
    /\ Ends(p)

(* Any statement may fail, the process may be killed anywhere, and a       *)
(* server ends when it finds its port taken or is stopped.                 *)
Crash(p) == pc[p] # "off" /\ Ends(p)

(* A server stores an account: all rows are deleted and inserted again,    *)
(* display_name, which the statement does not name, with its default.      *)
StoreAccount(p, i) ==
    /\ pc[p] = "ready"
    /\ Column \subseteq db.accounts.cols
    /\ Autocommit(p, [db EXCEPT !.accounts.data =
                         [Kept(db.accounts.data) EXCEPT ![i] = {0} \cup Column]])
    /\ stored' = [Kept(stored) EXCEPT ![i] = {0} \cup Column]
    /\ UNCHANGED <<writer, work, pc, at, blind>>

-----------------------------------------------------------------------------
Statement(p) ==
    \/ Create(p) \/ Inspect(p) \/ Alter(p) \/ Probe(p)
    \/ CreateNew(p) \/ Copy(p) \/ Drop(p) \/ Rename(p) \/ Commit(p)
    \/ Refused(p)

Next ==
    \E p \in Proc :
        \/ Launch(p) \/ Statement(p) \/ Crash(p)
        \/ \E i \in AccountID : StoreAccount(p, i)

Spec == Init /\ [][Next]_vars

(* A start goes on while nothing fails, failures come to an end (a refused *)
(* statement is none: it is due to the state of the database), and a       *)
(* process that could not start is started again.                          *)
Fairness ==
    /\ \A p \in Proc : WF_vars(Statement(p)) /\ WF_vars(Launch(p))
    /\ <>[][\A p \in Proc : ~Crash(p) \/ Refused(p) \/ pc[p] = "ready"]_vars

FairSpec == Spec /\ Fairness

-----------------------------------------------------------------------------
(* No account is lost and no value of one but its display name, which is   *)
(* there as long as the column is, and goes with it                        *)
(* (sqlite_store_test.go:201): wherever a start dies, and although two     *)
(* starts and a server may work on one database.                           *)
ValuesKept ==
    \A i \in AccountID : stored[i] # {} =>
        /\ db.accounts # NoTable
        /\ stored[i] \subseteq db.accounts.data[i] \cup ({DisplayName} \ db.accounts.cols)

(* A server finds every table and column its statements name, and the old  *)
(* shape is gone unless its own probe for it failed.                       *)
ReadySchema ==
    \A p \in Proc : pc[p] = "ready" =>
        /\ db.made = {Tables[k] : k \in DOMAIN Tables}
        /\ db.accounts # NoTable /\ Column \subseteq db.accounts.cols
        /\ OldShape(db.accounts) => blind[p]

(* No step takes a table, or a column from one, that a server may be       *)
(* reading; only display_name goes, with the rest of the old shape in one  *)
(* step, and what is gone does not come back.                              *)
OnlyDisplayNameGoes ==
    [][db.accounts # NoTable =>
          /\ db'.accounts # NoTable
          /\ db.accounts.cols \ {DisplayName} \subseteq db'.accounts.cols
          /\ OldShape(db'.accounts) => /\ db.accounts.cols \subseteq db'.accounts.cols
                                       /\ db'.accounts.unique = db.accounts.unique
                                       /\ OldShape(db.accounts)]_vars

(* Whatever an earlier start left behind, a start succeeds in the end.     *)
StartsSucceed == \A p \in Proc : pc[p] = "off" ~> pc[p] = "ready"
=============================================================================
