----------------------- MODULE SchemaMigration_proofs -----------------------
(***************************************************************************)
(* Proofs about SchemaMigration, for any number of processes, accounts and *)
(* added columns.                                                          *)
(*                                                                         *)
(* What makes the copy safe is that a transaction excludes every other     *)
(* writer: the table it has read is still the committed one when it        *)
(* commits (WorkFits).  What makes the end of a start safe is that no one  *)
(* takes back a table or a column that it has seen (CreatedSoFar,          *)
(* AddedSoFar).                                                            *)
(***************************************************************************)
EXTENDS SchemaMigration, TLAPS

InTransaction == {"copy", "drop", "rename", "commit"}

AllTables == {Tables[k] : k \in DOMAIN Tables}

(* The table that the copy of T is to become.                              *)
Rebuilt(T) == [cols |-> Column, unique |-> FALSE, data |-> Kept(T.data)]

(* Who has a transaction open is at a statement of one, and alone.         *)
OneWriter == \A p \in Proc : writer = p <=> pc[p] \in InTransaction

(* The transaction sees what is committed, and its own changes.            *)
WorkFits ==
    \A p \in Proc :
        /\ pc[p] \in InTransaction => work.made = db.made
        /\ pc[p] \in {"copy", "drop"} => work.accounts = db.accounts
        /\ pc[p] = "copy" => work.accounts_new = NewTable
        /\ pc[p] \in {"drop", "rename"} => work.accounts_new = Rebuilt(db.accounts)
        /\ pc[p] = "commit" => /\ work.accounts = Rebuilt(db.accounts)
                               /\ work.accounts_new = NoTable

CreatedSoFar ==
    /\ "accounts" \in db.made => db.accounts # NoTable
    /\ \A p \in Proc :
        /\ pc[p] = "create" => /\ at[p] \in DOMAIN Tables
                               /\ \A k \in 1 .. at[p] - 1 : Tables[k] \in db.made
        /\ pc[p] \notin {"off", "create"} => db.made = AllTables

AddedSoFar ==
    \A p \in Proc :
        /\ pc[p] = "inspect" => at[p] \in 1 .. Added + 1
        /\ pc[p] = "alter" => at[p] \in Column
        /\ pc[p] \in {"inspect", "alter"} => 1 .. at[p] - 1 \subseteq db.accounts.cols
        /\ pc[p] \notin {"off", "create", "inspect", "alter"} => Column \subseteq db.accounts.cols

OldShapeSeen == \A p \in Proc : pc[p] = "ready" /\ OldShape(db.accounts) => blind[p]

IInv == /\ TypeOK /\ OneWriter /\ WorkFits
        /\ CreatedSoFar /\ AddedSoFar /\ OldShapeSeen /\ ValuesKept

-----------------------------------------------------------------------------
LEMMA TablesFacts ==
    /\ DOMAIN Tables = 1 .. 4 /\ Len(Tables) = 4
    /\ AllTables = {"schema_migrations", "accounts", "login_sessions", "version"}
    /\ \A k \in 1 .. 4 : Tables[k] \in AllTables
    /\ Tables[2] = "accounts"
<1>1. /\ DOMAIN Tables = 1 .. 4 /\ Len(Tables) = 4
      /\ Tables[1] = "schema_migrations" /\ Tables[2] = "accounts"
      /\ Tables[3] = "login_sessions" /\ Tables[4] = "version"
    BY DEF Tables
<1>2. \A k \in 1 .. 4 : k = 1 \/ k = 2 \/ k = 3 \/ k = 4
    OBVIOUS
<1> QED
    BY <1>1, <1>2 DEF AllTables

LEMMA ColumnFacts ==
    /\ DisplayName \notin Column /\ DisplayName # 0 /\ 0 \notin Column
    /\ \A d \in Stored : Kept(d) \in Stored
    /\ \A d \in Stored, i \in AccountID : [Kept(d) EXCEPT ![i] = {0} \cup Column] \in Stored
<1>1. DisplayName \notin Column /\ DisplayName # 0 /\ 0 \notin Column
    BY MigrationAssumption DEF DisplayName, Column
<1>2. \A d \in Stored : Kept(d) \in Stored
    BY DEF Stored, Kept
<1> QED
    BY <1>1, <1>2 DEF Stored

LEMMA ShapeFacts ==
    /\ NewTable \in TableShape /\ NoTable \notin TableShape
    /\ \A T \in TableShape :
         /\ Rebuilt(T) \in TableShape
         /\ \A c \in Column : [T EXCEPT !.cols = @ \cup {c}] \in TableShape
         /\ \A d \in Stored : [T EXCEPT !.data = d] \in TableShape
<1>1. NewTable \in TableShape
    BY DEF NewTable, TableShape, Stored
<1>2. ASSUME NEW T \in TableShape
      PROVE  /\ Rebuilt(T) \in TableShape
             /\ \A c \in Column : [T EXCEPT !.cols = @ \cup {c}] \in TableShape
             /\ \A d \in Stored : [T EXCEPT !.data = d] \in TableShape
    BY DEF Rebuilt, Kept, TableShape, Stored
<1> QED
    BY <1>1, <1>2, MigrationAssumption

LEMMA NoDatabaseType == NoDatabase \in Database
BY DEF NoDatabase, Database

LEMMA InitInv == Init => IInv
<1> SUFFICES ASSUME Init PROVE IInv
    OBVIOUS
<1> USE MigrationAssumption
<1>1. pc = [p \in Proc |-> "off"] /\ at = [p \in Proc |-> 1] /\ writer = NoProc
      /\ work = NoDatabase /\ blind = [p \in Proc |-> FALSE]
    BY DEF Init
<1>2. db \in Database /\ stored \in Stored /\ ValuesKept
      /\ ("accounts" \in db.made => db.accounts # NoTable)
  <2>1. CASE db = NoDatabase /\ stored = NewTable.data
    <3>1. stored = [i \in AccountID |-> {}]
        BY <2>1 DEF NewTable
    <3> QED
        BY <2>1, <3>1, NoDatabaseType DEF NoDatabase, ValuesKept, Stored
  <2>2. ASSUME NEW k \in 0 .. Added, NEW display \in SUBSET {DisplayName},
               NEW unique \in BOOLEAN, NEW held \in SUBSET AccountID,
               stored = [i \in AccountID |-> IF i \in held THEN 0 .. k \cup display ELSE {}],
               db = Legacy(k, display, unique, stored)
        PROVE  db \in Database /\ stored \in Stored /\ ValuesKept
               /\ ("accounts" \in db.made => db.accounts # NoTable)
    <3>1. 0 .. k \subseteq {0} \cup Column /\ 1 .. k \subseteq Column
        BY DEF Column
    <3>2. stored \in Stored
        BY <2>2, <3>1 DEF Stored
    <3>3. [cols |-> 1 .. k \cup display, unique |-> unique, data |-> stored] \in TableShape
        BY <3>1, <3>2 DEF TableShape
    <3>4. {"accounts"} \subseteq AllTables
        BY TablesFacts
    <3>5. /\ db = [made |-> {"accounts"},
                   accounts |-> [cols |-> 1 .. k \cup display, unique |-> unique,
                                 data |-> stored],
                   accounts_new |-> NoTable]
        BY <2>2 DEF Legacy
    <3> QED
        BY <3>2, <3>3, <3>4, <3>5 DEF Database, ValuesKept, AllTables
  <2> QED
      BY <2>1, <2>2 DEF Init
<1> QED
    BY <1>1, <1>2, NoDatabaseType
       DEF IInv, TypeOK, OneWriter, WorkFits, CreatedSoFar, AddedSoFar, OldShapeSeen,
           InTransaction

-----------------------------------------------------------------------------
(* Steps that leave the database and the transaction alone.                *)
LEMMA InvLocal ==
    ASSUME IInv, NEW p \in Proc, UNCHANGED <<db, writer, work, stored>>,
           Launch(p) \/ Inspect(p) \/ Probe(p)
    PROVE  IInv'
<1> USE MigrationAssumption, TablesFacts DEF Go, IInv, InTransaction
<1>1. TypeOK'
  <2>1. /\ pc' \in [Proc -> {"off", "create", "inspect", "alter", "probe", "new",
                             "copy", "drop", "rename", "commit", "ready"}]
        /\ at' \in [Proc -> Nat]
      BY DEF TypeOK, Launch, Inspect, Probe
  <2>2. blind' \in [Proc -> BOOLEAN]
      BY DEF TypeOK, Launch, Inspect, Probe
  <2> QED
      BY <2>1, <2>2 DEF TypeOK
<1>2. OneWriter' /\ WorkFits'
    BY DEF TypeOK, OneWriter, WorkFits, Launch, Inspect, Probe
<1>3. CreatedSoFar'
    BY DEF TypeOK, CreatedSoFar, Launch, Inspect, Probe
<1>4. AddedSoFar'
  <2>1. CASE Launch(p)
      BY <2>1 DEF TypeOK, AddedSoFar, Launch
  <2>2. CASE Inspect(p)
    <3>1. /\ pc[p] = "inspect" /\ at[p] \in 1 .. Added + 1 /\ db.accounts \in TableShape
          /\ 1 .. at[p] - 1 \subseteq db.accounts.cols
      <4>1. db.accounts \in TableShape
          BY <2>2, TablesFacts DEF Inspect, TypeOK, CreatedSoFar, Database
      <4> QED
          BY <2>2, <4>1 DEF Inspect, AddedSoFar
    <3>2. CASE at[p] > Added
      <4>0. at[p] - 1 = Added
          BY <3>1, <3>2
      <4>1. Column \subseteq db.accounts.cols
          BY <3>1, <4>0 DEF Column
      <4> QED
          BY <2>2, <3>1, <3>2, <4>1 DEF TypeOK, AddedSoFar, Inspect
    <3>3. CASE at[p] \notin db.accounts.cols /\ ~(at[p] > Added)
        BY <2>2, <3>1, <3>3 DEF TypeOK, AddedSoFar, Inspect, Column
    <3>4. CASE at[p] \in db.accounts.cols /\ ~(at[p] > Added)
      <4>1. 1 .. at[p] \subseteq db.accounts.cols
          BY <3>1, <3>4
      <4> QED
          BY <2>2, <3>1, <3>4, <4>1 DEF TypeOK, AddedSoFar, Inspect
    <3> QED
        BY <3>2, <3>3, <3>4
  <2>3. CASE Probe(p)
      BY <2>3 DEF TypeOK, AddedSoFar, Probe
  <2> QED
      BY <2>1, <2>2, <2>3
<1>5. OldShapeSeen'
    BY DEF TypeOK, OldShapeSeen, Launch, Inspect, Probe
<1>6. ValuesKept'
    BY DEF ValuesKept
<1> QED
    BY <1>1, <1>2, <1>3, <1>4, <1>5, <1>6

LEMMA InvCreate ==
    ASSUME IInv, NEW p \in Proc, Create(p)
    PROVE  IInv'
<1> USE MigrationAssumption, TablesFacts, ShapeFacts DEF Go, IInv, InTransaction
<1>1. /\ db \in Database /\ pc[p] = "create" /\ writer = NoProc /\ at[p] \in 1 .. 4
      /\ UNCHANGED <<writer, work, blind, stored>>
    BY DEF Create, Autocommit, TypeOK, CreatedSoFar
<1>2. /\ db' \in Database
      /\ db'.made = db.made \cup {Tables[at[p]]}
      /\ db'.accounts = IF Tables[at[p]] = "accounts" /\ db.accounts = NoTable
                        THEN NewTable ELSE db.accounts
      /\ db'.accounts_new = db.accounts_new
    BY <1>1 DEF Create, Autocommit, Database, AllTables
<1>3. \A q \in Proc : pc[q] \notin InTransaction /\ pc'[q] \notin InTransaction
    BY <1>1 DEF Create, OneWriter, TypeOK
<1>4. TypeOK'
    BY <1>1, <1>2 DEF TypeOK, Create
<1>5. OneWriter' /\ WorkFits'
    BY <1>1, <1>3 DEF OneWriter, WorkFits
<1>6. CreatedSoFar'
  <2>1. "accounts" \in db'.made => db'.accounts # NoTable
      BY <1>1, <1>2 DEF CreatedSoFar
  <2>2. \A k \in 1 .. at[p] : Tables[k] \in db'.made
      BY <1>1, <1>2 DEF CreatedSoFar
  <2>3. at[p] = 4 => db'.made = AllTables
    <3>1. db'.made \subseteq AllTables
        BY <1>2 DEF Database, AllTables
    <3>2. at[p] = 4 => AllTables \subseteq db'.made
        BY <2>2 DEF AllTables
    <3> QED
        BY <3>1, <3>2
  <2>4. \A q \in Proc : q # p => pc'[q] = pc[q] /\ at'[q] = at[q]
      BY <1>1 DEF Create, TypeOK
  <2>5. \/ at[p] < 4 /\ pc'[p] = "create" /\ at'[p] = at[p] + 1
        \/ at[p] = 4 /\ pc'[p] = "inspect"
      BY <1>1 DEF Create, TypeOK
  <2>6. db.made = AllTables => db'.made = AllTables
      BY <1>1, <1>2
  <2>7. /\ pc'[p] = "create" => /\ at'[p] \in 1 .. 4
                                /\ \A k \in 1 .. at'[p] - 1 : Tables[k] \in db'.made
        /\ pc'[p] \notin {"off", "create"} => db'.made = AllTables
    <3>1. CASE at[p] < 4 /\ pc'[p] = "create" /\ at'[p] = at[p] + 1
        BY <1>1, <2>2, <3>1
    <3>2. CASE at[p] = 4 /\ pc'[p] = "inspect"
        BY <2>3, <3>2
    <3> QED
        BY <2>5, <3>1, <3>2
  <2>8. \A q \in Proc \ {p} :
            /\ pc'[q] = "create" => /\ at'[q] \in 1 .. 4
                                    /\ \A k \in 1 .. at'[q] - 1 : Tables[k] \in db'.made
            /\ pc'[q] \notin {"off", "create"} => db'.made = AllTables
      BY <1>2, <2>4, <2>6 DEF CreatedSoFar
  <2> QED
      BY <2>1, <2>7, <2>8 DEF CreatedSoFar
<1>7. AddedSoFar' /\ OldShapeSeen'
  <2>1. CASE db'.accounts = db.accounts
      BY <1>1, <2>1 DEF TypeOK, AddedSoFar, OldShapeSeen, Create
  <2>2. CASE db.accounts = NoTable /\ db'.accounts = NewTable
    <3>1. \A q \in Proc : pc[q] \in {"off", "create"}
        BY <2>2, TablesFacts DEF CreatedSoFar
    <3>2. \A q \in Proc : pc'[q] \in {"off", "create"} \/ (pc'[q] = "inspect" /\ at'[q] = 1)
        BY <3>1, <1>1 DEF TypeOK, Create
    <3> QED
        BY <3>2 DEF AddedSoFar, OldShapeSeen
  <2> QED
      BY <1>2, <2>1, <2>2
<1>8. ValuesKept'
    BY <1>1, <1>2 DEF ValuesKept
<1> QED
    BY <1>4, <1>5, <1>6, <1>7, <1>8

LEMMA InvAlter ==
    ASSUME IInv, NEW p \in Proc, Alter(p)
    PROVE  IInv'
<1> USE MigrationAssumption DEF Go, IInv, InTransaction
<1>1. /\ db \in Database /\ pc[p] = "alter" /\ writer = NoProc /\ at[p] \in Column
      /\ db.accounts \in TableShape /\ at[p] \in Nat
      /\ UNCHANGED <<writer, work, blind, stored>>
    BY TablesFacts DEF Alter, Autocommit, TypeOK, CreatedSoFar, AddedSoFar, Database
<1>2. /\ db' \in Database
      /\ db'.made = db.made /\ db'.accounts \in TableShape
      /\ db'.accounts.cols = db.accounts.cols \cup {at[p]}
      /\ db'.accounts.unique = db.accounts.unique /\ db'.accounts.data = db.accounts.data
  <2>1. db' = [db EXCEPT !.accounts = [db.accounts EXCEPT !.cols = @ \cup {at[p]}]]
      BY <1>1 DEF Alter, Autocommit, Database, TableShape
  <2>2. [db.accounts EXCEPT !.cols = @ \cup {at[p]}] \in TableShape
      BY <1>1, ShapeFacts
  <2> QED
      BY <1>1, <2>1, <2>2 DEF Database, TableShape
<1>3. \A q \in Proc : pc[q] \notin InTransaction /\ pc'[q] \notin InTransaction
    BY <1>1 DEF Alter, OneWriter, TypeOK
<1>4. TypeOK'
    BY <1>1, <1>2 DEF TypeOK, Alter
<1>5. OneWriter' /\ WorkFits'
    BY <1>1, <1>3 DEF OneWriter, WorkFits
<1>6. CreatedSoFar'
    BY <1>1, <1>2, ShapeFacts, TablesFacts DEF TypeOK, CreatedSoFar, Alter
<1>7. AddedSoFar'
    BY <1>1, <1>2 DEF TypeOK, AddedSoFar, Alter, Column
<1>8. OldShape(db'.accounts) => OldShape(db.accounts)
    BY <1>1, <1>2, ColumnFacts DEF OldShape
<1>9. OldShapeSeen'
    BY <1>1, <1>8 DEF TypeOK, OldShapeSeen, Alter
<1>10. ValuesKept'
    BY <1>1, <1>2, ShapeFacts, ColumnFacts DEF ValuesKept
<1> QED
    BY <1>4, <1>5, <1>6, <1>7, <1>9, <1>10

-----------------------------------------------------------------------------
(* The transaction of the rebuild.  Nobody else is inside one.             *)
LEMMA Alone ==
    ASSUME IInv, NEW p \in Proc, pc[p] \in InTransaction
    PROVE  /\ writer = p
           /\ \A q \in Proc \ {p} : pc[q] \notin InTransaction
           /\ db.made = AllTables
           /\ db.accounts \in TableShape /\ Column \subseteq db.accounts.cols
BY TablesFacts
   DEF IInv, OneWriter, CreatedSoFar, AddedSoFar, TypeOK, Database, InTransaction

(* A step of p that commits nothing.                                       *)
LEMMA InvUncommitted ==
    ASSUME IInv, NEW p \in Proc, NEW to, UNCHANGED <<db, blind, stored>>, TypeOK',
           OneWriter', WorkFits',
           pc' = [pc EXCEPT ![p] = to],
           \A q \in Proc \ {p} : at'[q] = at[q],
           to \in {"off", "copy", "drop", "rename", "commit"},
           to # "off" => pc[p] \notin {"off", "create", "inspect", "alter"}
    PROVE  IInv'
<1> USE DEF IInv, TypeOK
<1>1. CreatedSoFar'
    BY DEF CreatedSoFar
<1>2. AddedSoFar'
    BY DEF AddedSoFar
<1>3. OldShapeSeen' /\ ValuesKept'
    BY DEF OldShapeSeen, ValuesKept
<1> QED
    BY <1>1, <1>2, <1>3

LEMMA InvCreateNew ==
    ASSUME IInv, NEW p \in Proc, CreateNew(p)
    PROVE  IInv'
<1> USE MigrationAssumption DEF Go, InTx
<1>1. /\ pc[p] = "new" /\ writer = NoProc /\ writer' = p
      /\ pc' = [pc EXCEPT ![p] = "copy"] /\ at' = [at EXCEPT ![p] = 1]
      /\ UNCHANGED <<db, blind, stored>>
    BY DEF CreateNew
<1>2. /\ work' \in Database /\ work'.made = db.made /\ work'.accounts = db.accounts
      /\ work'.accounts_new = NewTable
    BY ShapeFacts DEF CreateNew, IInv, TypeOK, Database
<1>3. TypeOK'
    BY <1>1, <1>2 DEF IInv, TypeOK
<1>4. OneWriter' /\ WorkFits'
    BY <1>1, <1>2 DEF IInv, TypeOK, OneWriter, WorkFits, InTransaction
<1> QED
    BY <1>1, <1>3, <1>4, InvUncommitted DEF IInv, TypeOK

LEMMA RebuiltTable ==
    ASSUME NEW T
    PROVE  [NewTable EXCEPT !.data = Kept(T.data)] = Rebuilt(T)
<1>1. ASSUME NEW c, NEW u, NEW d, NEW e
      PROVE  [[cols |-> c, unique |-> u, data |-> d] EXCEPT !.data = e]
                 = [cols |-> c, unique |-> u, data |-> e]
    OBVIOUS
<1> QED
    BY <1>1, Zenon DEF NewTable, Rebuilt

LEMMA InvTransaction ==
    ASSUME IInv, NEW p \in Proc, Copy(p) \/ Drop(p) \/ Rename(p)
    PROVE  IInv'
<1> USE DEF Go, InTx, InTransaction
<1>0. /\ pc[p] \in InTransaction /\ UNCHANGED <<db, writer, blind, stored>>
      /\ work \in Database /\ db \in Database /\ at' = [at EXCEPT ![p] = 1]
    BY DEF Copy, Drop, Rename, IInv, TypeOK
<1>1. CASE Copy(p)
  <2>1. /\ work'.made = db.made /\ work'.accounts = db.accounts
        /\ work'.accounts_new = Rebuilt(db.accounts) /\ work' \in Database
        /\ pc' = [pc EXCEPT ![p] = "drop"]
    <3>1. /\ work.made = db.made /\ work.accounts = db.accounts /\ work.accounts_new = NewTable
        BY <1>1 DEF Copy, IInv, WorkFits
    <3>2. [NewTable EXCEPT !.data = Kept(db.accounts.data)] = Rebuilt(db.accounts)
        BY RebuiltTable
    <3>3. Rebuilt(db.accounts) \in TableShape
        BY <1>0, Alone, ShapeFacts
    <3>4. work' = [work EXCEPT !.accounts_new = [NewTable EXCEPT !.data = Kept(db.accounts.data)]]
        BY <1>1, <3>1 DEF Copy
    <3> QED
        BY <1>0, <1>1, <3>1, <3>2, <3>3, <3>4 DEF Copy, Database
  <2>2. TypeOK'
      BY <1>0, <2>1 DEF IInv, TypeOK
  <2>3. OneWriter' /\ WorkFits'
      BY <1>0, <2>1, Alone DEF IInv, TypeOK, OneWriter, WorkFits
  <2> QED
      BY <1>0, <2>1, <2>2, <2>3, InvUncommitted DEF IInv, TypeOK
<1>2. CASE Drop(p)
  <2>1. /\ work'.made = db.made
        /\ work'.accounts_new = Rebuilt(db.accounts) /\ work' \in Database
        /\ pc' = [pc EXCEPT ![p] = "rename"] /\ pc[p] = "drop"
      BY <1>0, <1>2 DEF Drop, IInv, WorkFits, Database
  <2>2. TypeOK'
      BY <1>0, <2>1 DEF IInv, TypeOK
  <2>3. OneWriter' /\ WorkFits'
      BY <1>0, <2>1, Alone DEF IInv, TypeOK, OneWriter, WorkFits
  <2> QED
      BY <1>0, <2>1, <2>2, <2>3, InvUncommitted DEF IInv, TypeOK
<1>3. CASE Rename(p)
  <2>1. /\ work'.made = db.made /\ work'.accounts = Rebuilt(db.accounts)
        /\ work'.accounts_new = NoTable /\ work' \in Database
        /\ pc' = [pc EXCEPT ![p] = "commit"] /\ pc[p] = "rename"
      BY <1>0, <1>3 DEF Rename, IInv, WorkFits, Database
  <2>2. TypeOK'
      BY <1>0, <2>1 DEF IInv, TypeOK
  <2>3. OneWriter' /\ WorkFits'
      BY <1>0, <2>1, Alone DEF IInv, TypeOK, OneWriter, WorkFits
  <2> QED
      BY <1>0, <2>1, <2>2, <2>3, InvUncommitted DEF IInv, TypeOK
<1> QED
    BY <1>1, <1>2, <1>3

LEMMA InvCommit ==
    ASSUME IInv, NEW p \in Proc, Commit(p)
    PROVE  IInv'
<1> USE MigrationAssumption DEF InTransaction
<1>1. /\ pc[p] = "commit" /\ db' = work /\ writer' = NoProc
      /\ pc' = [pc EXCEPT ![p] = "ready"] /\ at' = [at EXCEPT ![p] = 1]
      /\ UNCHANGED <<work, blind, stored>>
    BY DEF Commit, Go
<1>2. /\ db' \in Database /\ db'.made = db.made /\ db.made = AllTables
      /\ db'.accounts = Rebuilt(db.accounts) /\ db'.accounts \in TableShape
      /\ db'.accounts.cols = Column /\ ~OldShape(db'.accounts)
      /\ db'.accounts.data = Kept(db.accounts.data) /\ db.accounts \in TableShape
      /\ db'.accounts # NoTable
  <2>1. /\ db.made = AllTables /\ db.accounts \in TableShape
      BY <1>1, Alone
  <2>2. /\ db' \in Database /\ db'.made = db.made /\ db'.accounts = Rebuilt(db.accounts)
      BY <1>1 DEF IInv, TypeOK, WorkFits
  <2>3. Rebuilt(db.accounts) \in TableShape
      BY <2>1, ShapeFacts
  <2>4. ~OldShape(Rebuilt(db.accounts))
      BY ColumnFacts DEF OldShape, Rebuilt
  <2> QED
      BY <2>1, <2>2, <2>3, <2>4, ShapeFacts DEF Rebuilt
<1>3. TypeOK'
    BY <1>1, <1>2 DEF IInv, TypeOK
<1>4. \A q \in Proc : pc'[q] \notin InTransaction
    BY <1>1, Alone DEF IInv, TypeOK
<1>5. OneWriter' /\ WorkFits'
    BY <1>1, <1>4 DEF OneWriter, WorkFits
<1>6. CreatedSoFar'
    BY <1>1, <1>2 DEF IInv, TypeOK, CreatedSoFar
<1>7. AddedSoFar'
  <2>1. \A q \in Proc : q # p => pc'[q] = pc[q]
      BY <1>1 DEF IInv, TypeOK
  <2>2. \A q \in Proc : q # p => at'[q] = at[q]
      BY <1>1 DEF IInv, TypeOK
  <2>3. pc'[p] = "ready"
      BY <1>1 DEF IInv, TypeOK
  <2>4. \A n \in 1 .. Added + 1 : 1 .. n - 1 \subseteq Column
      BY DEF Column
  <2>5. \A n \in Column : 1 .. n - 1 \subseteq Column
      BY DEF Column
  <2>6. ASSUME NEW q \in Proc, q # p
        PROVE  /\ pc'[q] = "inspect" => at'[q] \in 1 .. Added + 1
               /\ pc'[q] = "alter" => at'[q] \in Column
               /\ pc'[q] \in {"inspect", "alter"} => 1 .. at'[q] - 1 \subseteq Column
      BY <2>1, <2>2, <2>4, <2>5, <2>6 DEF IInv, AddedSoFar
  <2> QED
      BY <1>2, <2>3, <2>6 DEF AddedSoFar
<1>8. OldShapeSeen'
    BY <1>1, <1>2 DEF OldShapeSeen
<1>9. ValuesKept'
  <2>1. \A i \in AccountID : db'.accounts.data[i] = db.accounts.data[i] \ {DisplayName}
      BY <1>2 DEF Kept
  <2>2. DisplayName \notin db'.accounts.cols
      BY <1>2, ColumnFacts
  <2>3. \A i \in AccountID : stored[i] # {} =>
            stored[i] \subseteq db.accounts.data[i] \cup {DisplayName}
      BY DEF IInv, ValuesKept
  <2> QED
      BY <1>1, <1>2, <2>1, <2>2, <2>3 DEF ValuesKept
<1> QED
    BY <1>3, <1>5, <1>6, <1>7, <1>8, <1>9 DEF IInv

LEMMA InvEnds ==
    ASSUME IInv, NEW p \in Proc, Ends(p)
    PROVE  IInv'
<1> USE MigrationAssumption DEF InTransaction
<1>1. TypeOK'
    BY NoDatabaseType DEF IInv, TypeOK, Ends
<1>2. OneWriter'
    BY DEF IInv, TypeOK, OneWriter, Ends
<1>3. WorkFits'
    BY DEF IInv, TypeOK, OneWriter, WorkFits, Ends
<1> QED
    BY <1>1, <1>2, <1>3, InvUncommitted DEF IInv, TypeOK, Ends

(* A server's write changes the rows and nothing else.                     *)
LEMMA StoreDoes ==
    ASSUME IInv, NEW p \in Proc, NEW i \in AccountID, StoreAccount(p, i)
    PROVE  /\ db \in Database /\ db.accounts \in TableShape
           /\ db' \in Database /\ db'.made = db.made /\ db'.accounts \in TableShape
           /\ db'.accounts.cols = db.accounts.cols
           /\ db'.accounts.unique = db.accounts.unique
           /\ db'.accounts.data = [Kept(db.accounts.data) EXCEPT ![i] = {0} \cup Column]
<1> DEFINE d == [Kept(db.accounts.data) EXCEPT ![i] = {0} \cup Column]
<1>1. db \in Database /\ db.accounts \in TableShape
    BY TablesFacts DEF StoreAccount, IInv, TypeOK, CreatedSoFar, Database
<1>2. d \in Stored
    BY <1>1, ColumnFacts DEF TableShape
<1>3. db' = [db EXCEPT !.accounts.data = d]
    BY DEF StoreAccount, Autocommit
<1> HIDE DEF d
<1>4. db' = [db EXCEPT !.accounts = [db.accounts EXCEPT !.data = d]]
    BY <1>1, <1>3 DEF Database, TableShape
<1>5. [db.accounts EXCEPT !.data = d] \in TableShape
    BY <1>1, <1>2, ShapeFacts
<1>6. /\ db' \in Database /\ db'.made = db.made /\ db'.accounts \in TableShape
      /\ db'.accounts.cols = db.accounts.cols
      /\ db'.accounts.unique = db.accounts.unique
      /\ db'.accounts.data = d
    BY <1>1, <1>4, <1>5 DEF Database, TableShape
<1> QED
    BY <1>1, <1>6 DEF d

LEMMA InvStore ==
    ASSUME IInv, NEW p \in Proc, NEW i \in AccountID, StoreAccount(p, i)
    PROVE  IInv'
<1> USE MigrationAssumption DEF InTransaction
<1>1. /\ writer = NoProc /\ pc[p] = "ready" /\ UNCHANGED <<writer, work, pc, at, blind>>
      /\ stored' = [Kept(stored) EXCEPT ![i] = {0} \cup Column] /\ stored \in Stored
    BY DEF StoreAccount, Autocommit, IInv, TypeOK
<1>2. /\ db' \in Database /\ db'.made = db.made /\ db'.accounts \in TableShape
      /\ db'.accounts.cols = db.accounts.cols
      /\ db'.accounts.unique = db.accounts.unique
      /\ db'.accounts.data = [Kept(db.accounts.data) EXCEPT ![i] = {0} \cup Column]
      /\ db.accounts \in TableShape
    BY StoreDoes
<1>3. TypeOK'
  <2>1. stored' \in Stored
      BY <1>1, ColumnFacts
  <2> QED
      BY <1>1, <1>2, <2>1 DEF IInv, TypeOK
<1>4. OneWriter' /\ WorkFits'
    BY <1>1 DEF IInv, OneWriter, WorkFits
<1>5. CreatedSoFar' /\ AddedSoFar'
    BY <1>1, <1>2, ShapeFacts DEF IInv, CreatedSoFar, AddedSoFar
<1>6. OldShapeSeen'
    BY <1>1, <1>2 DEF IInv, OldShapeSeen, OldShape
<1>7. ValuesKept'
  <2>1. /\ db'.accounts # NoTable
      BY <1>2, ShapeFacts
  <2>2. \A j \in AccountID :
            \/ stored'[j] = {0} \cup Column /\ db'.accounts.data[j] = {0} \cup Column
            \/ /\ stored'[j] = stored[j] \ {DisplayName}
               /\ db'.accounts.data[j] = db.accounts.data[j] \ {DisplayName}
      BY <1>1, <1>2 DEF Kept
  <2>3. \A j \in AccountID : stored[j] # {} =>
            stored[j] \subseteq db.accounts.data[j] \cup {DisplayName}
      BY DEF IInv, ValuesKept
  <2>4. ASSUME NEW j \in AccountID, stored'[j] # {}
        PROVE  stored'[j] \subseteq db'.accounts.data[j]
      BY <2>2, <2>3, <2>4
  <2> QED
      BY <2>1, <2>4 DEF ValuesKept
<1> QED
    BY <1>3, <1>4, <1>5, <1>6, <1>7 DEF IInv

LEMMA NextInv == IInv /\ [Next]_vars => IInv'
<1> SUFFICES ASSUME IInv, [Next]_vars PROVE IInv'
    OBVIOUS
<1>1. CASE UNCHANGED vars
    BY <1>1 DEF vars, IInv, TypeOK, OneWriter, WorkFits, CreatedSoFar, AddedSoFar,
               OldShapeSeen, ValuesKept
<1>2. ASSUME NEW p \in Proc,
             \/ Launch(p) \/ Statement(p) \/ Crash(p)
             \/ \E i \in AccountID : StoreAccount(p, i)
      PROVE  IInv'
  <2>1. CASE Launch(p)
      BY <2>1, InvLocal DEF Launch
  <2>2. CASE Statement(p)
    <3>1. CASE Inspect(p) \/ Probe(p)
        BY <3>1, InvLocal DEF Inspect, Probe
    <3>2. CASE Copy(p) \/ Drop(p) \/ Rename(p)
        BY <3>2, InvTransaction
    <3>3. CASE Refused(p)
        BY <3>3, InvEnds DEF Refused
    <3> QED
        BY <2>2, <3>1, <3>2, <3>3, InvCreate, InvAlter, InvCreateNew, InvCommit DEF Statement
  <2>3. CASE Crash(p)
      BY <2>3, InvEnds DEF Crash
  <2>4. CASE \E i \in AccountID : StoreAccount(p, i)
      BY <2>4, InvStore
  <2> QED
      BY <1>2, <2>1, <2>2, <2>3, <2>4
<1> QED
    BY <1>1, <1>2 DEF Next

LEMMA Inductive == Spec => []IInv
BY InitInv, NextInv, PTL DEF Spec

-----------------------------------------------------------------------------
(* Type correctness: what initSchema reads and writes stays a database of  *)
(* the tables it names, and each process is at one of its statements.      *)
THEOREM TypeCorrect == Spec => []TypeOK
BY Inductive, PTL DEF IInv

(* No account is lost and no value stored of one but its display name,    *)
(* wherever initSchema dies and however many starts and servers work on    *)
(* one database: the rebuilt table holds what the old one held in the      *)
(* columns that INSERT ... SELECT names, nothing is stored in between, and *)
(* a display name goes only with its column.                               *)
THEOREM ValuesAreKept == Spec => []ValuesKept
BY Inductive, PTL DEF IInv

(* Where initSchema has returned, every table and column is there, and the *)
(* old shape is gone unless this start's own rebuildAccountTableIfNeeded   *)
(* failed to see it.                                                       *)
THEOREM SchemaIsReady == Spec => []ReadySchema
<1>1. IInv => ReadySchema
    BY TablesFacts
       DEF IInv, CreatedSoFar, AddedSoFar, OldShapeSeen, ReadySchema, AllTables
<1> QED
    BY <1>1, Inductive, PTL

(* A rebuild takes display_name and UNIQUE at once, no other step takes a  *)
(* column, and none brings the old shape back (ensureColumn,               *)
(* rebuildAccountTableIfNeeded).                                           *)
THEOREM OnlyDisplayNameIsTaken == Spec => OnlyDisplayNameGoes
<1> DEFINE Step == db.accounts # NoTable =>
              /\ db'.accounts # NoTable
              /\ db.accounts.cols \ {DisplayName} \subseteq db'.accounts.cols
              /\ OldShape(db'.accounts) => /\ db.accounts.cols \subseteq db'.accounts.cols
                                           /\ db'.accounts.unique = db.accounts.unique
                                           /\ OldShape(db.accounts)
<1>1. ASSUME IInv, [Next]_vars PROVE [Step]_vars
  <2>1. CASE db' = db
      BY <2>1
  <2>2. ASSUME NEW p \in Proc, Create(p) PROVE Step
    <3>1. db'.accounts = IF Tables[at[p]] = "accounts" /\ db.accounts = NoTable
                         THEN NewTable ELSE db.accounts
        BY <1>1, <2>2 DEF Create, Autocommit, IInv, TypeOK, Database
    <3> QED
        BY <3>1
  <2>3. ASSUME NEW p \in Proc, Alter(p) PROVE Step
    <3>1. /\ db \in Database /\ db.accounts \in TableShape
          /\ db' = [db EXCEPT !.accounts.cols = @ \cup {at[p]}]
        BY <1>1, <2>3, TablesFacts
           DEF Alter, Go, Autocommit, IInv, TypeOK, CreatedSoFar, Database
    <3>2. /\ db'.accounts = [db.accounts EXCEPT !.cols = @ \cup {at[p]}]
        BY <3>1 DEF Database, TableShape
    <3>3. at[p] \in Column
        BY <1>1, <2>3 DEF Alter, Go, IInv, AddedSoFar
    <3>4. /\ db'.accounts \in TableShape
          /\ db'.accounts.cols = db.accounts.cols \cup {at[p]}
          /\ db'.accounts.unique = db.accounts.unique
        BY <3>1, <3>2, <3>3, ShapeFacts DEF TableShape
    <3>5. OldShape(db'.accounts) => OldShape(db.accounts)
        BY <3>3, <3>4, ColumnFacts DEF OldShape
    <3>6. db'.accounts # NoTable
        BY <3>4, ShapeFacts
    <3> QED
        BY <3>4, <3>5, <3>6
  <2>4. ASSUME NEW p \in Proc, Commit(p) PROVE Step
    <3>1. /\ pc[p] \in InTransaction /\ db'.accounts = Rebuilt(db.accounts)
        BY <1>1, <2>4 DEF Commit, Go, IInv, WorkFits, InTransaction
    <3>2. db.accounts \in TableShape
        BY <1>1, <3>1, Alone
    <3>3. ~OldShape(Rebuilt(db.accounts))
        BY ColumnFacts DEF OldShape, Rebuilt
    <3>4. db.accounts.cols \ {DisplayName} \subseteq Column
        BY <3>2 DEF TableShape
    <3>5. Rebuilt(db.accounts) # NoTable /\ Rebuilt(db.accounts).cols = Column
        BY <3>2, ShapeFacts DEF Rebuilt
    <3> QED
        BY <3>1, <3>3, <3>4, <3>5
  <2>5. ASSUME NEW p \in Proc, NEW i \in AccountID, StoreAccount(p, i) PROVE Step
      BY <1>1, <2>5, StoreDoes, ShapeFacts DEF OldShape
  <2>6. ASSUME NEW p \in Proc,
               \/ Launch(p) \/ Inspect(p) \/ Probe(p) \/ CreateNew(p) \/ Copy(p)
               \/ Drop(p) \/ Rename(p) \/ Refused(p) \/ Crash(p)
        PROVE  Step
    <3>1. db' = db
        BY <2>6 DEF Launch, Inspect, Probe, CreateNew, Copy, Drop, Rename, Refused, Crash,
                    InTx, Ends
    <3> QED
        BY <3>1
  <2> QED
      BY <1>1, <2>1, <2>2, <2>3, <2>4, <2>5, <2>6 DEF Next, Statement, vars
<1> QED
    BY <1>1, Inductive, PTL DEF Spec, OnlyDisplayNameGoes
=============================================================================
