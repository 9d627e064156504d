----------------------- MODULE AccountService_proofs -----------------------
(***************************************************************************)
(* Safety of the account service for any number of handlers, accounts and  *)
(* files, with any interleaving, failing writes and crashes.               *)
(*                                                                         *)
(* The invariants are not inductive alone: what a step writes was put into *)
(* the thread's locals by earlier steps.  LocalsOK says what those locals  *)
(* are at each place of the program; a thread's locals are its own, so     *)
(* only its own steps can disturb it.                                      *)
(***************************************************************************)
EXTENDS AccountService, TLAPS

-----------------------------------------------------------------------------
(* What a transaction of the store leaves in the table, for every table    *)

(* Normalizing one row changes its status only.                            *)
LEMMA NormalizeAccountRow ==
    ASSUME NEW r \in Row
    PROVE  /\ NormalizeAccount(r) \in Row
           /\ NormalizeAccount(r).profile = r.profile
           /\ NormalizeAccount(r).path = r.path
           /\ NormalizeAccount(r).used = r.used
           /\ NormalizeAccount(r).active = r.active
           /\ NormalizeAccount(r).active <=> NormalizeAccount(r).status = "active"
  BY StoreAssumption DEF NormalizeAccount, Row

(* A normalized list keeps its rows, with their profile names and paths,   *)
(* and has at most one active row.                                         *)
LEMMA NormalizeAccountsTable ==
    ASSUME NEW T \in Table
    PROVE  /\ NormalizeAccounts(T) \in Table
           /\ Listed(NormalizeAccounts(T)) = Listed(T)
           /\ \A i \in Listed(T) :
                /\ NormalizeAccounts(T)[i].profile = T[i].profile
                /\ NormalizeAccounts(T)[i].path = T[i].path
                /\ NormalizeAccounts(T)[i].used = T[i].used
                /\ NormalizeAccounts(T)[i].active <=>
                     NormalizeAccounts(T)[i].status = "active"
                /\ NormalizeAccounts(T)[i].active <=>
                     T[i].active /\ \A j \in Listed(T) : T[j].active => i <= j
<1> DEFINE Keeps(i) == T[i].active /\ \A j \in Listed(T) : T[j].active => i <= j
           Kept(i) == [NormalizeAccount(T[i]) EXCEPT !.active = Keeps(i)]
           N == NormalizeAccounts(T)
<1>1. N = [i \in AccountID |-> IF T[i] = NoRow THEN NoRow
                               ELSE NormalizeAccount(Kept(i))]
  BY DEF NormalizeAccounts
<1>2. ASSUME NEW i \in Listed(T)
      PROVE  /\ N[i] \in Row
             /\ N[i].profile = T[i].profile
             /\ N[i].path = T[i].path
             /\ N[i].used = T[i].used
             /\ N[i].active <=> N[i].status = "active"
             /\ N[i].active = Keeps(i)
  <2>1. i \in AccountID /\ T[i] \in Row /\ T[i] # NoRow
    BY DEF Table, Listed
  <2>2. N[i] = NormalizeAccount(Kept(i))
    BY <1>1, <2>1
  <2>3. NormalizeAccount(T[i]) \in Row /\ NormalizeAccount(T[i]).profile = T[i].profile
          /\ NormalizeAccount(T[i]).path = T[i].path
          /\ NormalizeAccount(T[i]).used = T[i].used
    BY <2>1, NormalizeAccountRow
  <2>4. Keeps(i) \in BOOLEAN
    BY <2>1 DEF Row
  <2>5. /\ Kept(i) \in Row
        /\ Kept(i).profile = T[i].profile
        /\ Kept(i).path = T[i].path
        /\ Kept(i).used = T[i].used
        /\ Kept(i).active = Keeps(i)
    <3> HIDE DEF Keeps
    <3> QED BY <2>3, <2>4 DEF Row
  <2> HIDE DEF Kept, Keeps, N
  <2> QED BY <2>2, <2>5, NormalizeAccountRow
<1>3. ASSUME NEW i \in AccountID, i \notin Listed(T)
      PROVE  N[i] = NoRow
  BY <1>1, <1>3 DEF Listed
<1>4. N \in Table
  <2>1. ASSUME NEW i \in AccountID PROVE N[i] \in Row \cup {NoRow}
    BY <1>2, <1>3
  <2> QED BY <1>1, <2>1 DEF Table
<1>5. Listed(N) = Listed(T)
  <2>1. \A i \in AccountID : N[i] # NoRow <=> i \in Listed(T)
    BY <1>2, <1>3, StoreAssumption
  <2> QED BY <2>1 DEF Listed
<1> HIDE DEF N, Kept
<1>6. \A i \in Listed(T) :
                /\ N[i].profile = T[i].profile
                /\ N[i].path = T[i].path
                /\ N[i].used = T[i].used
                /\ N[i].active <=> N[i].status = "active"
                /\ N[i].active <=> Keeps(i)
  BY <1>2
<1> QED BY <1>4, <1>5, <1>6 DEF N

(* Every transaction leaves a consistent table: the first active row only  *)
(* stays active, the status follows the flag, and a list with a duplicate  *)
(* profile name is rolled back.                                            *)
LEMMA CommittedConsistent ==
    ASSUME NEW T \in Table, Consistent(T), NEW new \in Table
    PROVE  Committed(T, new) \in Table /\ Consistent(Committed(T, new))
<1>1. CASE ~UniqueProfiles(new)
  BY <1>1 DEF Committed
<1>2. CASE UniqueProfiles(new)
  <2> DEFINE N == NormalizeAccounts(new)
  <2>1. Committed(T, new) = N
    BY <1>2 DEF Committed
  <2>2. /\ N \in Table
        /\ Listed(N) = Listed(new)
        /\ \A i \in Listed(new) :
              /\ N[i].profile = new[i].profile
              /\ N[i].active <=> N[i].status = "active"
              /\ N[i].active <=>
                   new[i].active /\ \A j \in Listed(new) : new[j].active => i <= j
    BY NormalizeAccountsTable
  <2> HIDE DEF N
  <2>3. \A i, j \in Listed(N) : N[i].active /\ N[j].active => i = j
    <3> SUFFICES ASSUME NEW i \in Listed(N), NEW j \in Listed(N),
                        N[i].active, N[j].active
                 PROVE  i = j
      OBVIOUS
    <3>1. i <= j /\ j <= i
      BY <2>2
    <3>2. i \in Nat /\ j \in Nat
      BY StoreAssumption DEF Listed
    <3> QED BY <3>1, <3>2
  <2>4. UniqueProfiles(N)
    BY <1>2, <2>2 DEF UniqueProfiles
  <2> QED BY <2>1, <2>2, <2>3, <2>4 DEF Consistent
<1> QED BY <1>1, <1>2

(* Making one row active keeps the list a list of rows.                    *)
LEMMA ActivateTable ==
    ASSUME NEW T \in Table, NEW i \in AccountID
    PROVE  Activate(T, i) \in Table
<1>1. ASSUME NEW j \in AccountID, T[j] # NoRow
      PROVE  [T[j] EXCEPT !.active = (j = i), !.used = T[j].used \/ j = i] \in Row
  <2>1. T[j] \in Row
    BY <1>1 DEF Table
  <2>2. (j = i) \in BOOLEAN /\ (T[j].used \/ j = i) \in BOOLEAN
    BY <2>1 DEF Row
  <2> QED BY <2>1, <2>2 DEF Row
<1> QED BY <1>1 DEF Activate, Table

-----------------------------------------------------------------------------

Matched == {"sync.copy", "sync.back", "sync.merge", "sync.put", "sync.commit"}

Chosen == {"switch.read", "switch.write", "switch.commit"}

(* An auth file whose API key is that of its own account.                  *)
Pure(f) == f # NoFile => f.key = f.acct

(* The locals j of a thread at place p.                                    *)
LocalsOK(p, j) ==
    /\ Pure(j.cur) /\ Pure(j.buf)
    /\ p \in Matched \cup {"sync.list", "sync.match"} => j.cur # NoFile
    /\ p \in Matched \cup Chosen => j.hit \in Listed(j.snap)
    /\ p \in {"sync.copy", "sync.back"} => IsManaged(j.snap[j.hit].path)
    /\ p = "sync.put" => j.at \in Listed(j.snap) /\ IsManaged(j.snap[j.at].path)
    /\ p \in {"sync.back", "sync.put", "switch.write"} => j.buf # NoFile
    /\ p \in {"login.write", "login.add"} => j.sel \subseteq LoginProfile

JobInv == \A t \in Thread : LocalsOK(pc[t], job[t])

IInv == TypeOK /\ StoreConsistent /\ KeysStayHome /\ JobInv

-----------------------------------------------------------------------------
(* Facts shared by the steps                                               *)

(* The locals of an idle thread, and the empty table, are well typed.      *)
LEMMA NoJobType ==
    /\ EmptyTable \in Table
    /\ NoJob \in Job
    /\ NoJob.cur = NoFile /\ NoJob.buf = NoFile
  BY DEF EmptyTable, Table, NoJob, Job

(* The invariant holds of a new installation.                              *)
LEMMA InitInv == Init => IInv
<1> SUFFICES ASSUME Init PROVE IInv
  OBVIOUS
<1>1. Listed(rows) = {}
  BY DEF Init, Listed, EmptyTable
<1>2. TypeOK
  <2>1. file \in [Place -> Auth \cup {NoFile}]
    BY ServiceAssumption DEF Init, Auth
  <2>2. issued \in [Acct -> 0 .. MaxVer]
    BY ServiceAssumption DEF Init
  <2>3. pc \in [Thread -> PC]
    BY DEF Init, PC
  <2> QED BY <2>1, <2>2, <2>3, NoJobType DEF Init, TypeOK
<1>3. StoreConsistent
  BY <1>1 DEF StoreConsistent, Consistent, UniqueProfiles
<1>4. KeysStayHome
  BY DEF Init, KeysStayHome
<1>5. JobInv
  BY NoJobType DEF Init, JobInv, LocalsOK, Pure, Matched, Chosen
<1> QED BY <1>2, <1>3, <1>4, <1>5 DEF IInv

(* A thread that moves with sound locals leaves all locals sound.          *)
LEMMA GoKeeps ==
    ASSUME TypeOK, JobInv, NEW t \in Thread, NEW to \in PC, NEW l \in Job,
           LocalsOK(to, l), Go(t, to, l)
    PROVE  pc' \in [Thread -> PC] /\ job' \in [Thread -> Job] /\ JobInv'
<1>1. pc' \in [Thread -> PC] /\ job' \in [Thread -> Job]
  BY DEF Go, TypeOK
<1>2. ASSUME NEW u \in Thread PROVE LocalsOK(pc'[u], job'[u])
  <2>1. CASE u = t
    <3>1. pc'[u] = to /\ job'[u] = l
      BY <2>1 DEF Go, TypeOK
    <3> QED BY <3>1
  <2>2. CASE u # t
    <3>1. pc'[u] = pc[u] /\ job'[u] = job[u]
      BY <2>2 DEF Go, TypeOK
    <3> QED BY <3>1 DEF JobInv
  <2> QED BY <2>1, <2>2
<1> QED BY <1>1, <1>2 DEF JobInv

(* An idle thread has sound locals.                                        *)
LEMMA NoJobKeeps ==
    ASSUME TypeOK, JobInv, NEW t \in Thread, Return(t)
    PROVE  pc' \in [Thread -> PC] /\ job' \in [Thread -> Job] /\ JobInv'
<1>1. "idle" \in PC
  BY DEF PC
<1>2. LocalsOK("idle", NoJob)
  BY NoJobType DEF LocalsOK, Pure, Matched, Chosen
<1> QED BY <1>1, <1>2, GoKeeps, NoJobType DEF Return

(* A sync ends with sound locals, whether it failed or not.                *)
LEMMA SyncEndKeeps ==
    ASSUME TypeOK, JobInv, NEW t \in Thread, NEW ok \in BOOLEAN, SyncEnd(t, ok)
    PROVE  pc' \in [Thread -> PC] /\ job' \in [Thread -> Job] /\ JobInv'
<1> DEFINE to == IF job[t].op = "list" THEN "list.read" ELSE "switch.list"
           l == [NoJob EXCEPT !.op = job[t].op, !.sel = job[t].sel, !.ok = ok]
<1>1. job[t] \in Job
  BY DEF TypeOK
<1>2. l \in Job /\ l.cur = NoFile /\ l.buf = NoFile
  BY <1>1, NoJobType DEF Job
<1>3. to \in {"list.read", "switch.list"}
  OBVIOUS
<1> HIDE DEF to, l
<1>4. to \in PC /\ LocalsOK(to, l)
  BY <1>2, <1>3 DEF PC, LocalsOK, Pure, Matched, Chosen
<1>5. Go(t, to, l)
  BY DEF SyncEnd, to, l
<1> QED BY <1>2, <1>4, <1>5, GoKeeps

(* A step that leaves files and table alone.                               *)
LEMMA DiskKept ==
    ASSUME IInv, UNCHANGED disk,
           pc' \in [Thread -> PC], job' \in [Thread -> Job], JobInv'
    PROVE  IInv'
  BY DEF IInv, TypeOK, StoreConsistent, Consistent, UniqueProfiles, Listed,
         KeysStayHome, disk

(* A step that writes or removes one file.                                 *)
LEMMA FileWritten ==
    ASSUME IInv, NEW p \in Place, NEW f \in Auth \cup {NoFile}, Pure(f),
           file' = [file EXCEPT ![p] = f],
           UNCHANGED <<rows, issued, born, gone, logins>>,
           pc' \in [Thread -> PC], job' \in [Thread -> Job], JobInv'
    PROVE  IInv'
<1>1. file' \in [Place -> Auth \cup {NoFile}]
  BY DEF IInv, TypeOK
<1>2. KeysStayHome'
  BY DEF IInv, TypeOK, KeysStayHome, Pure
<1> QED
  BY <1>1, <1>2 DEF IInv, TypeOK, StoreConsistent, Consistent, UniqueProfiles, Listed

(* A step that commits a transaction.                                      *)
LEMMA RowsCommitted ==
    ASSUME IInv, NEW new \in Table, rows' = Committed(rows, new),
           UNCHANGED <<file, issued, logins>>,
           born' \in SUBSET AccountID, gone' \in SUBSET AccountID,
           pc' \in [Thread -> PC], job' \in [Thread -> Job], JobInv'
    PROVE  IInv'
<1>1. rows' \in Table /\ Consistent(rows')
  BY CommittedConsistent DEF IInv, TypeOK, StoreConsistent
<1> QED
  BY <1>1 DEF IInv, TypeOK, StoreConsistent, KeysStayHome

-----------------------------------------------------------------------------
(* The steps of a sync                                                     *)

(* What the invariant says of one thread.                                  *)
LEMMA ThreadFacts ==
    ASSUME IInv, NEW t \in Thread
    PROVE  /\ job[t] \in Job /\ pc[t] \in PC /\ LocalsOK(pc[t], job[t])
           /\ \A p \in Place : file[p] \in Auth \cup {NoFile} /\ Pure(file[p])
           /\ Live \in Place /\ Dir \subseteq Place /\ Path \subseteq Place
  BY DEF IInv, TypeOK, JobInv, KeysStayHome, Pure, Place, Path

(* A request starts with fresh locals.                                     *)
LEMMA BeginKeeps ==
    ASSUME IInv, NEW t \in Thread, NEW to \in PC, NEW l \in Job,
           LocalsOK(to, l), Begin(t, to, l)
    PROVE  IInv'
  BY GoKeeps, DiskKept DEF Begin, IInv

(* A request begins with empty locals: a listing,                          *)
LEMMA StartListInv == ASSUME IInv, NEW t \in Thread, StartList(t) PROVE IInv'
<1> DEFINE l == [NoJob EXCEPT !.op = "list"]
<1>1. l \in Job /\ LocalsOK("sync.read", l) /\ "sync.read" \in PC
  BY NoJobType DEF Job, LocalsOK, Pure, Matched, Chosen, PC
<1> QED BY <1>1, BeginKeeps DEF StartList

(* a switch,                                                               *)
LEMMA StartSwitchInv == ASSUME IInv, NEW t \in Thread, StartSwitch(t) PROVE IInv'
<1> PICK s \in Selector :
      Begin(t, "sync.read", [NoJob EXCEPT !.op = "switch", !.sel = {s}])
  BY DEF StartSwitch
<1> DEFINE l == [NoJob EXCEPT !.op = "switch", !.sel = {s}]
<1>1. l \in Job /\ LocalsOK("sync.read", l) /\ "sync.read" \in PC
  BY NoJobType DEF Job, LocalsOK, Pure, Matched, Chosen, PC
<1> QED BY <1>1, BeginKeeps

(* a deletion,                                                             *)
LEMMA StartDeleteInv == ASSUME IInv, NEW t \in Thread, StartDelete(t) PROVE IInv'
<1> PICK S \in SUBSET Selector \ {{}} :
      Begin(t, "delete.commit", [NoJob EXCEPT !.op = "delete", !.sel = S])
  BY DEF StartDelete
<1> DEFINE l == [NoJob EXCEPT !.op = "delete", !.sel = S]
<1>1. l \in Job /\ LocalsOK("delete.commit", l) /\ "delete.commit" \in PC
  BY NoJobType DEF Job, LocalsOK, Pure, Matched, Chosen, PC
<1> QED BY <1>1, BeginKeeps

(* and the completion of a login, which names login profiles only.         *)
LEMMA StartLoginInv == ASSUME IInv, NEW t \in Thread, StartLogin(t) PROVE IInv'
<1> PICK p \in LoginProfile :
      Begin(t, "login.write", [NoJob EXCEPT !.op = "login", !.sel = {p}])
  BY DEF StartLogin
<1> DEFINE l == [NoJob EXCEPT !.op = "login", !.sel = {p}]
<1>1. l \in Job /\ LocalsOK("login.write", l) /\ "login.write" \in PC
  BY NoJobType DEF Job, LocalsOK, Pure, Matched, Chosen, PC
<1> QED BY <1>1, BeginKeeps

(* auth.json as it was read carries the key of its own account.            *)
LEMMA SyncReadInv == ASSUME IInv, NEW t \in Thread, SyncRead(t) PROVE IInv'
<1>1. CASE file[Live] = NoFile
  BY <1>1, SyncEndKeeps, DiskKept DEF SyncRead, IInv
<1>2. CASE file[Live] # NoFile
  <2> DEFINE l == [job[t] EXCEPT !.cur = file[Live]]
  <2>1. l \in Job /\ l.cur = file[Live] /\ l.buf = job[t].buf
    BY ThreadFacts DEF Job
  <2> HIDE DEF l
  <2>2. LocalsOK("sync.list", l) /\ "sync.list" \in PC
    BY <1>2, <2>1, ThreadFacts DEF LocalsOK, Matched, Chosen, PC
  <2>3. Go(t, "sync.list", l) /\ UNCHANGED disk
    BY <1>2 DEF SyncRead, l
  <2> QED BY <2>1, <2>2, <2>3, GoKeeps, DiskKept DEF IInv
<1> QED BY <1>1, <1>2

(* The snapshot of the table is a table.                                   *)
LEMMA SyncListInv == ASSUME IInv, NEW t \in Thread, SyncList(t) PROVE IInv'
<1> DEFINE l == [job[t] EXCEPT !.snap = rows]
<1>1. l \in Job /\ l.cur = job[t].cur /\ l.buf = job[t].buf
  BY ThreadFacts DEF Job, IInv, TypeOK
<1> HIDE DEF l
<1>2. LocalsOK("sync.match", l) /\ "sync.match" \in PC
  BY <1>1, ThreadFacts DEF SyncList, At, LocalsOK, Matched, Chosen, PC
<1>3. Go(t, "sync.match", l) /\ UNCHANGED disk
  BY DEF SyncList, l
<1> QED BY <1>1, <1>2, <1>3, GoKeeps, DiskKept DEF IInv

(* A match is a row of the snapshot, and managed when it is copied to.     *)
LEMMA SyncMatchInv == ASSUME IInv, NEW t \in Thread, SyncMatch(t) PROVE IInv'
<1>1. CASE Unvisited(t) = {}
  BY <1>1, SyncEndKeeps, DiskKept DEF SyncMatch, IInv
<1>2. ASSUME NEW i \in Unvisited(t), NEW to \in {"sync.copy", "sync.merge"},
             to = "sync.copy" => IsManaged(job[t].snap[i].path),
             \/ Go(t, "sync.match", [job[t] EXCEPT !.at = i])
             \/ Go(t, to, [job[t] EXCEPT !.hit = i, !.at = 0])
      PROVE  IInv'
  <2>1. i \in Listed(job[t].snap) /\ i \in AccountID
    BY DEF Unvisited, Listed
  <2>2. job[t].cur # NoFile /\ UNCHANGED disk
    BY ThreadFacts DEF SyncMatch, At, LocalsOK
  <2>3. CASE Go(t, "sync.match", [job[t] EXCEPT !.at = i])
    <3> DEFINE l == [job[t] EXCEPT !.at = i]
    <3>1. l \in Job /\ l.cur = job[t].cur /\ l.buf = job[t].buf
      BY <2>1, ThreadFacts DEF Job
    <3> HIDE DEF l
    <3>2. LocalsOK("sync.match", l) /\ "sync.match" \in PC
      BY <2>2, <3>1, ThreadFacts DEF LocalsOK, Matched, Chosen, PC
    <3>3. Go(t, "sync.match", l)
      BY <2>3 DEF l
    <3> QED BY <2>2, <3>1, <3>2, <3>3, GoKeeps, DiskKept DEF IInv
  <2>4. CASE Go(t, to, [job[t] EXCEPT !.hit = i, !.at = 0])
    <3> DEFINE l == [job[t] EXCEPT !.hit = i, !.at = 0]
    <3>1. /\ l \in Job /\ l.cur = job[t].cur /\ l.buf = job[t].buf
          /\ l.hit = i /\ l.snap = job[t].snap
      BY <2>1, ThreadFacts DEF Job
    <3> HIDE DEF l
    <3>2. LocalsOK(to, l) /\ to \in PC
      BY <1>2, <2>1, <2>2, <3>1, ThreadFacts DEF LocalsOK, Matched, Chosen, PC
    <3>3. Go(t, to, l)
      BY <2>4 DEF l
    <3> QED BY <2>2, <3>1, <3>2, <3>3, GoKeeps, DiskKept DEF IInv
  <2> QED BY <1>2, <2>3, <2>4
<1>3. CASE Unvisited(t) # {}
  BY <1>2, <1>3 DEF SyncMatch
<1> QED BY <1>1, <1>3

(* The bytes copied from auth.json carry the key of their own account.     *)
LEMMA SyncCopyInv == ASSUME IInv, NEW t \in Thread, SyncCopy(t) PROVE IInv'
<1>1. CASE file[Live] = NoFile
  BY <1>1, SyncEndKeeps, DiskKept DEF SyncCopy, IInv
<1>2. CASE file[Live] # NoFile
  <2> DEFINE l == [job[t] EXCEPT !.buf = file[Live]]
  <2>1. /\ l \in Job /\ l.buf = file[Live] /\ l.cur = job[t].cur
        /\ l.hit = job[t].hit /\ l.snap = job[t].snap
    BY ThreadFacts DEF Job
  <2> HIDE DEF l
  <2>2. LocalsOK("sync.back", l) /\ "sync.back" \in PC
    BY <1>2, <2>1, ThreadFacts DEF SyncCopy, At, LocalsOK, Matched, Chosen, PC
  <2>3. Go(t, "sync.back", l) /\ UNCHANGED disk
    BY <1>2 DEF SyncCopy, l
  <2> QED BY <2>1, <2>2, <2>3, GoKeeps, DiskKept DEF IInv
<1> QED BY <1>1, <1>2

(* After a file was written the buffer is dropped.                         *)
LEMMA BufferDropped ==
    ASSUME IInv, NEW t \in Thread
    PROVE  LET l == [job[t] EXCEPT !.buf = NoFile]
           IN  /\ l \in Job
               /\ pc[t] \in {"sync.back", "sync.put"} => LocalsOK("sync.merge", l)
               /\ pc[t] = "switch.write" => LocalsOK("switch.commit", l)
<1> DEFINE l == [job[t] EXCEPT !.buf = NoFile]
<1>1. /\ l \in Job /\ l.buf = NoFile /\ l.cur = job[t].cur
      /\ l.hit = job[t].hit /\ l.snap = job[t].snap
  BY ThreadFacts DEF Job
<1> HIDE DEF l
<1>2. /\ pc[t] \in {"sync.back", "sync.put"} => LocalsOK("sync.merge", l)
      /\ pc[t] = "switch.write" => LocalsOK("switch.commit", l)
  BY <1>1, ThreadFacts DEF LocalsOK, Pure, Matched, Chosen
<1> QED BY <1>1, <1>2 DEF l

(* What is written back is the buffer, to the managed row matched.         *)
LEMMA SyncBackInv == ASSUME IInv, NEW t \in Thread, SyncBack(t) PROVE IInv'
<1> DEFINE p == job[t].snap[job[t].hit].path
           f == job[t].buf
<1>1. /\ pc[t] = "sync.back"
      /\ f \in Auth \cup {NoFile} /\ Pure(f)
      /\ p \in Place
  BY ThreadFacts DEF SyncBack, At, LocalsOK, IsManaged, Job
<1>2. CASE file' = [file EXCEPT ![p] = f] /\ Go(t, "sync.merge", [job[t] EXCEPT !.buf = NoFile])
  <2>1. pc' \in [Thread -> PC] /\ job' \in [Thread -> Job] /\ JobInv'
    BY <1>1, <1>2, BufferDropped, GoKeeps DEF IInv, PC
  <2>2. UNCHANGED <<rows, issued, born, gone, logins>>
    BY DEF SyncBack
  <2> HIDE DEF p, f
  <2> QED BY <1>1, <1>2, <2>1, <2>2, FileWritten
<1>3. CASE SyncEnd(t, FALSE) /\ UNCHANGED file
  BY <1>3, SyncEndKeeps, DiskKept DEF SyncBack, disk, IInv
<1> QED BY <1>2, <1>3 DEF SyncBack

(* Merging config fields leaves account and API key of the target alone.   *)
LEMMA MergeKeepsKey ==
    ASSUME NEW active \in Auth, NEW target \in Auth
    PROVE  /\ MergeConfig(active, target) \in Auth
           /\ MergeConfig(active, target).key = target.key
           /\ MergeConfig(active, target).acct = target.acct
  BY DEF MergeConfig, Auth

(* A merged file is that of a managed row of the snapshot and keeps its key.*)
LEMMA SyncMergeInv == ASSUME IInv, NEW t \in Thread, SyncMerge(t) PROVE IInv'
<1>0. /\ pc[t] = "sync.merge" /\ UNCHANGED disk
      /\ job[t].cur # NoFile /\ job[t].cur \in Auth
      /\ job[t].hit \in Listed(job[t].snap)
  BY ThreadFacts DEF SyncMerge, At, LocalsOK, Matched, Job
<1>1. CASE ManagedLeft(t) = {}
  <2> DEFINE l == [job[t] EXCEPT !.at = 0]
  <2>1. /\ l \in Job /\ l.buf = job[t].buf /\ l.cur = job[t].cur
        /\ l.hit = job[t].hit /\ l.snap = job[t].snap
    BY ThreadFacts DEF Job
  <2>2. Go(t, "sync.commit", l)
    BY <1>1 DEF SyncMerge
  <2> HIDE DEF l
  <2>3. LocalsOK("sync.commit", l) /\ "sync.commit" \in PC
    BY <1>0, <2>1, ThreadFacts DEF LocalsOK, Matched, Chosen, PC
  <2> QED BY <1>0, <2>1, <2>2, <2>3, GoKeeps, DiskKept DEF IInv
<1>2. ASSUME NEW i \in ManagedLeft(t), NEW next, NEW to \in {"sync.merge", "sync.put"},
             to = "sync.put" => next \in Auth /\ Pure(next),
             \/ to = "sync.merge" /\ Go(t, to, [job[t] EXCEPT !.at = i])
             \/ to = "sync.put" /\ Go(t, to, [job[t] EXCEPT !.at = i, !.buf = next])
      PROVE  IInv'
  <2>1. i \in AccountID /\ i \in Listed(job[t].snap) /\ IsManaged(job[t].snap[i].path)
    BY DEF ManagedLeft, Unvisited, Listed
  <2>2. CASE to = "sync.merge" /\ Go(t, to, [job[t] EXCEPT !.at = i])
    <3> DEFINE l == [job[t] EXCEPT !.at = i]
    <3>1. /\ l \in Job /\ l.buf = job[t].buf /\ l.cur = job[t].cur
          /\ l.hit = job[t].hit /\ l.snap = job[t].snap
      BY <2>1, ThreadFacts DEF Job
    <3>2. Go(t, "sync.merge", l)
      BY <2>2
    <3> HIDE DEF l
    <3>3. LocalsOK("sync.merge", l) /\ "sync.merge" \in PC
      BY <1>0, <3>1, ThreadFacts DEF LocalsOK, Matched, Chosen, PC
    <3> QED BY <1>0, <3>1, <3>2, <3>3, GoKeeps, DiskKept DEF IInv
  <2>3. CASE to = "sync.put" /\ Go(t, to, [job[t] EXCEPT !.at = i, !.buf = next])
    <3> DEFINE l == [job[t] EXCEPT !.at = i, !.buf = next]
    <3>1. /\ l \in Job /\ l.buf = next /\ l.cur = job[t].cur
          /\ l.hit = job[t].hit /\ l.snap = job[t].snap /\ l.at = i
      BY <1>2, <2>1, <2>3, ThreadFacts DEF Job
    <3>2. Go(t, "sync.put", l)
      BY <2>3
    <3> HIDE DEF l
    <3>3. next # NoFile
      BY <1>2, <2>3, ServiceAssumption
    <3>4. LocalsOK("sync.put", l) /\ "sync.put" \in PC
      BY <1>0, <1>2, <2>1, <2>3, <3>1, <3>3, ThreadFacts
      DEF LocalsOK, Matched, Chosen, PC
    <3> QED BY <1>0, <3>1, <3>2, <3>4, GoKeeps, DiskKept DEF IInv
  <2> QED BY <1>2, <2>2, <2>3
<1>3. CASE ManagedLeft(t) # {}
  <2>1. PICK i \in ManagedLeft(t) :
          LET target == file[job[t].snap[i].path]
              next == MergeConfig(job[t].cur, target)
          IN  IF target = NoFile \/ next = target
              THEN Go(t, "sync.merge", [job[t] EXCEPT !.at = i])
              ELSE Go(t, "sync.put", [job[t] EXCEPT !.at = i, !.buf = next])
    BY <1>3 DEF SyncMerge
  <2> DEFINE target == file[job[t].snap[i].path]
             next == MergeConfig(job[t].cur, target)
  <2>2. target \in Auth \cup {NoFile} /\ Pure(target)
    BY ThreadFacts DEF ManagedLeft, IsManaged
  <2>3. target # NoFile => next \in Auth /\ Pure(next)
    BY <1>0, <2>2, MergeKeepsKey DEF Pure
  <2> HIDE DEF next
  <2>4. CASE target = NoFile \/ next = target
    BY <1>2, <2>1, <2>4 DEF next
  <2>5. CASE target # NoFile /\ next # target
    BY <1>2, <2>1, <2>3, <2>5 DEF next
  <2> QED BY <2>4, <2>5
<1> QED BY <1>1, <1>3

(* What is written is the merged buffer, to the managed row visited.       *)
LEMMA SyncPutInv == ASSUME IInv, NEW t \in Thread, SyncPut(t) PROVE IInv'
<1> DEFINE p == job[t].snap[job[t].at].path
           f == job[t].buf
<1>1. /\ pc[t] = "sync.put"
      /\ f \in Auth \cup {NoFile} /\ Pure(f)
      /\ p \in Place
  BY ThreadFacts DEF SyncPut, At, LocalsOK, IsManaged, Job
<1>2. CASE file' = [file EXCEPT ![p] = f] /\ Go(t, "sync.merge", [job[t] EXCEPT !.buf = NoFile])
  <2>1. pc' \in [Thread -> PC] /\ job' \in [Thread -> Job] /\ JobInv'
    BY <1>1, <1>2, BufferDropped, GoKeeps DEF IInv, PC
  <2>2. UNCHANGED <<rows, issued, born, gone, logins>>
    BY DEF SyncPut
  <2> HIDE DEF p, f
  <2> QED BY <1>1, <1>2, <2>1, <2>2, FileWritten
<1>3. CASE SyncEnd(t, FALSE) /\ UNCHANGED file
  BY <1>3, SyncEndKeeps, DiskKept DEF SyncPut, disk, IInv
<1> QED BY <1>2, <1>3 DEF SyncPut

(* The snapshot written back is normalized, however old it is.             *)
LEMMA SyncCommitInv == ASSUME IInv, NEW t \in Thread, SyncCommit(t) PROVE IInv'
<1> DEFINE next == Activate(job[t].snap, job[t].hit)
<1>1. next \in Table
  BY ThreadFacts, ActivateTable DEF SyncCommit, At, LocalsOK, Matched, Job, Listed
<1>2. PICK ok \in BOOLEAN : SyncEnd(t, ok)
  BY DEF SyncCommit
<1>3. pc' \in [Thread -> PC] /\ job' \in [Thread -> Job] /\ JobInv'
  BY <1>2, SyncEndKeeps DEF IInv
<1>4. UNCHANGED <<file, issued, born, gone, logins>>
        /\ (rows' = Committed(rows, next) \/ UNCHANGED rows)
  BY DEF SyncCommit
<1> HIDE DEF next
<1>5. CASE UNCHANGED rows
  BY <1>3, <1>4, <1>5, DiskKept DEF disk
<1>6. CASE rows' = Committed(rows, next)
  BY <1>1, <1>3, <1>4, <1>6, RowsCommitted DEF IInv, TypeOK
<1> QED BY <1>4, <1>5, <1>6

(* The response changes nothing.                                           *)
LEMMA ListReadInv == ASSUME IInv, NEW t \in Thread, ListRead(t) PROVE IInv'
  BY NoJobKeeps, DiskKept DEF ListRead, IInv

-----------------------------------------------------------------------------
(* The steps of a switch and of a deletion                                 *)

(* The row a switch chooses is one of its snapshot.                        *)
LEMMA SwitchListInv == ASSUME IInv, NEW t \in Thread, SwitchList(t) PROVE IInv'
<1>1. CASE Return(t)
  BY <1>1, NoJobKeeps, DiskKept DEF SwitchList, IInv
<1>2. CASE ~Return(t)
  <2>1. PICK i \in Selected(rows, job[t].sel) :
          Go(t, "switch.read", [job[t] EXCEPT !.snap = rows, !.hit = i])
    BY <1>2 DEF SwitchList
  <2>2. i \in AccountID /\ i \in Listed(rows)
    BY DEF Selected, Listed
  <2> DEFINE l == [job[t] EXCEPT !.snap = rows, !.hit = i]
  <2>3. /\ l \in Job /\ l.buf = job[t].buf /\ l.cur = job[t].cur
        /\ l.hit = i /\ l.snap = rows
    BY <2>2, ThreadFacts DEF Job, IInv, TypeOK
  <2>4. Go(t, "switch.read", l) /\ UNCHANGED disk
    BY <2>1 DEF SwitchList
  <2> HIDE DEF l
  <2>5. LocalsOK("switch.read", l) /\ "switch.read" \in PC
    BY <2>2, <2>3, ThreadFacts DEF LocalsOK, Matched, Chosen, PC
  <2> QED BY <2>3, <2>4, <2>5, GoKeeps, DiskKept DEF IInv
<1> QED BY <1>1, <1>2

(* The auth file a switch has read carries the key of its own account.     *)
LEMMA SwitchReadInv == ASSUME IInv, NEW t \in Thread, SwitchRead(t) PROVE IInv'
<1> DEFINE source == file[job[t].snap[job[t].hit].path]
<1>1. CASE source = NoFile
  BY <1>1, NoJobKeeps, DiskKept DEF SwitchRead, IInv
<1>2. CASE source # NoFile
  <2>1. /\ pc[t] = "switch.read" /\ job[t].hit \in Listed(job[t].snap)
        /\ UNCHANGED disk
    BY ThreadFacts DEF SwitchRead, At, LocalsOK, Chosen
  <2>2. job[t].snap[job[t].hit] \in Row
    BY <2>1, ThreadFacts DEF Job, Table, Listed
  <2>3. source \in Auth \cup {NoFile} /\ Pure(source)
    BY <2>2, ThreadFacts DEF Row
  <2> DEFINE l == [job[t] EXCEPT !.buf = source]
  <2> HIDE DEF source
  <2>4. /\ l \in Job /\ l.buf = source /\ l.cur = job[t].cur
        /\ l.hit = job[t].hit /\ l.snap = job[t].snap
    BY <2>3, ThreadFacts DEF Job
  <2>5. Go(t, "switch.write", l)
    BY <1>2 DEF SwitchRead, source
  <2> HIDE DEF l
  <2>6. LocalsOK("switch.write", l) /\ "switch.write" \in PC
    BY <1>2, <2>1, <2>3, <2>4, ThreadFacts DEF LocalsOK, Matched, Chosen, PC
  <2> QED BY <2>1, <2>4, <2>5, <2>6, GoKeeps, DiskKept DEF IInv
<1> QED BY <1>1, <1>2

(* A switch writes auth.json and no other file.                            *)
LEMMA SwitchWriteInv == ASSUME IInv, NEW t \in Thread, SwitchWrite(t) PROVE IInv'
<1> DEFINE f == job[t].buf
<1>1. /\ pc[t] = "switch.write" /\ f \in Auth \cup {NoFile} /\ Pure(f)
      /\ Live \in Place
  BY ThreadFacts DEF SwitchWrite, At, LocalsOK, Job
<1>2. CASE /\ file' = [file EXCEPT ![Live] = f]
           /\ Go(t, "switch.commit", [job[t] EXCEPT !.buf = NoFile])
  <2>1. pc' \in [Thread -> PC] /\ job' \in [Thread -> Job] /\ JobInv'
    BY <1>1, <1>2, BufferDropped, GoKeeps DEF IInv, PC
  <2>2. UNCHANGED <<rows, issued, born, gone, logins>>
    BY DEF SwitchWrite
  <2> HIDE DEF f
  <2> QED BY <1>1, <1>2, <2>1, <2>2, FileWritten
<1>3. CASE Return(t) /\ UNCHANGED file
  BY <1>3, NoJobKeeps, DiskKept DEF SwitchWrite, disk, IInv
<1> QED BY <1>2, <1>3 DEF SwitchWrite

(* The snapshot of a switch is normalized like that of a sync.             *)
LEMMA SwitchCommitInv == ASSUME IInv, NEW t \in Thread, SwitchCommit(t) PROVE IInv'
<1> DEFINE next == Activate(job[t].snap, job[t].hit)
<1>1. next \in Table
  BY ThreadFacts, ActivateTable DEF SwitchCommit, At, LocalsOK, Chosen, Job, Listed
<1>2. pc' \in [Thread -> PC] /\ job' \in [Thread -> Job] /\ JobInv'
  BY NoJobKeeps DEF SwitchCommit, IInv
<1>3. UNCHANGED <<file, issued, born, gone, logins>>
        /\ (rows' = Committed(rows, next) \/ UNCHANGED rows)
  BY DEF SwitchCommit
<1> HIDE DEF next
<1>4. CASE UNCHANGED rows
  BY <1>2, <1>3, <1>4, DiskKept DEF disk
<1>5. CASE rows' = Committed(rows, next)
  BY <1>1, <1>2, <1>3, <1>5, RowsCommitted DEF IInv, TypeOK
<1> QED BY <1>3, <1>4, <1>5

(* A table without the removed rows is a table.                            *)
LEMMA DeleteCommitInv == ASSUME IInv, NEW t \in Thread, DeleteCommit(t) PROVE IInv'
<1> DEFINE removed == Selected(rows, job[t].sel)
           rest == [i \in AccountID |-> IF i \in removed THEN NoRow ELSE rows[i]]
           managed == [i \in AccountID |->
                         IF i \in removed /\ IsManaged(rows[i].path)
                         THEN rows[i] ELSE NoRow]
           l == [job[t] EXCEPT !.snap = managed]
<1>1. removed \subseteq AccountID /\ rest \in Table /\ managed \in Table
  BY DEF Selected, Listed, Table, IInv, TypeOK
<1>2. CASE /\ rows' = Committed(rows, rest)
           /\ gone' = gone \cup removed
           /\ Go(t, "delete.remove", l)
  <2> HIDE DEF removed, rest, managed
  <2>1. l \in Job /\ l.buf = job[t].buf /\ l.cur = job[t].cur
    BY <1>1, ThreadFacts DEF Job
  <2> HIDE DEF l
  <2>2. LocalsOK("delete.remove", l) /\ "delete.remove" \in PC
    BY <2>1, ThreadFacts DEF LocalsOK, Matched, Chosen, PC
  <2>3. pc' \in [Thread -> PC] /\ job' \in [Thread -> Job] /\ JobInv'
    BY <1>2, <2>1, <2>2, GoKeeps DEF IInv
  <2>4. UNCHANGED <<file, issued, born, logins>>
    BY DEF DeleteCommit
  <2>5. born' \in SUBSET AccountID /\ gone' \in SUBSET AccountID
    BY <1>1, <1>2, <2>4 DEF IInv, TypeOK
  <2> QED BY <1>1, <1>2, <2>3, <2>4, <2>5, RowsCommitted
<1>3. CASE Return(t) /\ UNCHANGED <<rows, gone>>
  BY <1>3, NoJobKeeps, DiskKept DEF DeleteCommit, disk, IInv
<1> QED BY <1>2, <1>3 DEF DeleteCommit

(* Removing a directory leaves the other files.                            *)
LEMMA DeleteRemoveInv == ASSUME IInv, NEW t \in Thread, DeleteRemove(t) PROVE IInv'
<1>1. CASE Listed(job[t].snap) = {}
  BY <1>1, NoJobKeeps, DiskKept DEF DeleteRemove, disk, IInv
<1>2. CASE Listed(job[t].snap) # {}
  <2>1. PICK i \in Listed(job[t].snap) :
          /\ Go(t, "delete.remove", [job[t] EXCEPT !.snap[i] = NoRow])
          /\ \/ file' = [file EXCEPT
                           ![SafeProfileName[job[t].snap[i].profile]] = NoFile]
             \/ UNCHANGED file
    BY <1>2 DEF DeleteRemove
  <2>2. i \in AccountID /\ job[t].snap \in Table /\ job[t].snap[i] \in Row
    BY ThreadFacts DEF Listed, Job, Table
  <2> DEFINE l == [job[t] EXCEPT !.snap[i] = NoRow]
             dir == SafeProfileName[job[t].snap[i].profile]
  <2>3. l \in Job /\ l.buf = job[t].buf /\ l.cur = job[t].cur
    BY <2>2, ThreadFacts DEF Job, Table
  <2>4. dir \in Place
    BY <2>2, ServiceAssumption, ThreadFacts DEF Row
  <2>5. Go(t, "delete.remove", l) /\ (file' = [file EXCEPT ![dir] = NoFile] \/ UNCHANGED file)
    BY <2>1
  <2> HIDE DEF l, dir
  <2>6. LocalsOK("delete.remove", l) /\ "delete.remove" \in PC
    BY <2>3, ThreadFacts DEF LocalsOK, Matched, Chosen, PC
  <2>7. pc' \in [Thread -> PC] /\ job' \in [Thread -> Job] /\ JobInv'
    BY <2>3, <2>5, <2>6, GoKeeps DEF IInv
  <2>8. UNCHANGED <<rows, issued, born, gone, logins>>
    BY DEF DeleteRemove
  <2>9. CASE UNCHANGED file
    BY <2>7, <2>8, <2>9, DiskKept DEF disk
  <2>10. CASE file' = [file EXCEPT ![dir] = NoFile]
    BY <2>4, <2>7, <2>8, <2>10, FileWritten DEF Pure
  <2> QED BY <2>5, <2>9, <2>10
<1> QED BY <1>1, <1>2

-----------------------------------------------------------------------------
(* Additions, changes and logins                                           *)

(* A new row goes into the table as a transaction of its own.              *)
LEMMA AddRowCommits ==
    ASSUME IInv, NEW i \in AccountID, NEW p \in Profile, NEW path \in Path,
           NEW active \in BOOLEAN, AddRow(i, p, path, active)
    PROVE  /\ \E new \in Table : rows' = Committed(rows, new)
           /\ born' \in SUBSET AccountID
<1> DEFINE r == [profile |-> p, path |-> path, active |-> active,
                 status |-> "ready", used |-> FALSE]
           new == [j \in AccountID |->
                     IF j = i THEN NormalizeAccount(r)
                     ELSE IF rows[j] = NoRow THEN NoRow
                     ELSE [rows[j] EXCEPT !.active = rows[j].active /\ ~active]]
<1>1. r \in Row
  BY StoreAssumption DEF Row
<1>2. NormalizeAccount(r) \in Row
  BY <1>1, NormalizeAccountRow
<1>3. ASSUME NEW j \in AccountID, rows[j] # NoRow
      PROVE  [rows[j] EXCEPT !.active = rows[j].active /\ ~active] \in Row
  <2>1. rows[j] \in Row
    BY <1>3 DEF IInv, TypeOK, Table
  <2>2. (rows[j].active /\ ~active) \in BOOLEAN
    OBVIOUS
  <2> QED BY <2>1, <2>2 DEF Row
<1>4. rows' = Committed(rows, new)
  BY DEF AddRow, Insert
<1> HIDE DEF r
<1>5. new \in Table
  BY <1>2, <1>3 DEF Table
<1>6. born' \in SUBSET AccountID
  BY DEF AddRow, IInv, TypeOK
<1> QED BY <1>4, <1>5, <1>6

(* An import adds one row.                                                 *)
LEMMA AddAccountInv == ASSUME IInv, AddAccount PROVE IInv'
<1>1. /\ \E new \in Table : rows' = Committed(rows, new)
      /\ born' \in SUBSET AccountID
  BY AddRowCommits, ServiceAssumption DEF AddAccount
<1>2. UNCHANGED <<file, issued, gone, logins, pc, job>>
  BY DEF AddAccount
<1>3. /\ pc' \in [Thread -> PC] /\ job' \in [Thread -> Job] /\ JobInv'
      /\ gone' \in SUBSET AccountID
  BY <1>2 DEF IInv, TypeOK, JobInv
<1> QED BY <1>1, <1>2, <1>3, RowsCommitted

(* A patched status is normalized with its row.                            *)
LEMMA PatchAccountInv == ASSUME IInv, PatchAccount PROVE IInv'
<1>1. PICK s \in Selector, status \in Status :
        rows' = Committed(rows,
                  [i \in AccountID |->
                     IF i \in Selected(rows, {s})
                     THEN [rows[i] EXCEPT !.status = status] ELSE rows[i]])
  BY DEF PatchAccount
<1> DEFINE new == [i \in AccountID |->
                     IF i \in Selected(rows, {s})
                     THEN [rows[i] EXCEPT !.status = status] ELSE rows[i]]
<1>2. ASSUME NEW i \in AccountID
      PROVE  new[i] \in Row \cup {NoRow}
  <2>1. i \in Selected(rows, {s}) => rows[i] \in Row
    BY DEF Selected, Listed, IInv, TypeOK, Table
  <2>2. i \in Selected(rows, {s}) => [rows[i] EXCEPT !.status = status] \in Row
    BY <2>1 DEF Row
  <2> QED BY <2>2 DEF IInv, TypeOK, Table
<1>3. new \in Table
  BY <1>2 DEF Table
<1>4. UNCHANGED <<file, issued, born, gone, logins, pc, job>>
  BY DEF PatchAccount
<1>5. /\ pc' \in [Thread -> PC] /\ job' \in [Thread -> Job] /\ JobInv'
      /\ gone' \in SUBSET AccountID /\ born' \in SUBSET AccountID
  BY <1>4 DEF IInv, TypeOK, JobInv
<1> QED BY <1>1, <1>3, <1>4, <1>5, RowsCommitted

(* A freshly issued auth file is one of its account alone.                 *)
LEMMA NewTokenType ==
    ASSUME IInv, NEW a \in Acct, NEW c \in Cfg, issued[a] < MaxVer
    PROVE  /\ NewToken(a, c) \in Auth /\ Pure(NewToken(a, c))
           /\ [issued EXCEPT ![a] = @ + 1] \in [Acct -> 0 .. MaxVer]
  BY ServiceAssumption DEF NewToken, Auth, Pure, IInv, TypeOK

(* A step that issues a token and writes it to a file.                     *)
LEMMA TokenWritten ==
    ASSUME IInv, NEW p \in Place, NEW f \in Auth, Pure(f),
           file' = [file EXCEPT ![p] = f],
           issued' \in [Acct -> 0 .. MaxVer],
           logins' \in SUBSET LoginProfile,
           UNCHANGED <<rows, born, gone>>,
           pc' \in [Thread -> PC], job' \in [Thread -> Job], JobInv'
    PROVE  IInv'
<1>1. file' \in [Place -> Auth \cup {NoFile}]
  BY DEF IInv, TypeOK
<1>2. KeysStayHome'
  BY DEF IInv, TypeOK, KeysStayHome, Pure
<1> QED
  BY <1>1, <1>2 DEF IInv, TypeOK, StoreConsistent, Consistent, UniqueProfiles, Listed

(* A login writes a new token with its own key.                            *)
LEMMA LoginWriteInv == ASSUME IInv, NEW t \in Thread, LoginWrite(t) PROVE IInv'
<1>1. /\ pc[t] = "login.write" /\ job[t].sel \subseteq LoginProfile
      /\ UNCHANGED <<rows, born, gone>>
  BY ThreadFacts DEF LoginWrite, At, LocalsOK
<1>2. CASE Return(t) /\ UNCHANGED <<file, issued, logins>>
  BY <1>1, <1>2, NoJobKeeps, DiskKept DEF disk, IInv
<1>3. ASSUME NEW p \in job[t].sel, NEW c \in Cfg,
             issued[Owner[SafeProfileName[p]]] < MaxVer,
             file' = [file EXCEPT ![SafeProfileName[p]] =
                        NewToken(Owner[SafeProfileName[p]], c)],
             issued' = [issued EXCEPT ![Owner[SafeProfileName[p]]] = @ + 1],
             logins' = logins \cup {p},
             Go(t, "login.add", job[t])
      PROVE  IInv'
  <2> DEFINE dir == SafeProfileName[p]
             a == Owner[dir]
  <2>1. p \in LoginProfile /\ dir \in Place /\ a \in Acct
    BY <1>1, ServiceAssumption, ThreadFacts
  <2>2. logins' \in SUBSET LoginProfile
    BY <1>3, <2>1 DEF IInv, TypeOK
  <2>3. "login.add" \in PC /\ LocalsOK("login.add", job[t])
    BY <1>1, ThreadFacts DEF PC, LocalsOK, Matched, Chosen
  <2>4. pc' \in [Thread -> PC] /\ job' \in [Thread -> Job] /\ JobInv'
    BY <1>3, <2>3, ThreadFacts, GoKeeps DEF IInv
  <2> HIDE DEF dir, a
  <2>5. /\ issued[a] < MaxVer
        /\ file' = [file EXCEPT ![dir] = NewToken(a, c)]
        /\ issued' = [issued EXCEPT ![a] = @ + 1]
    BY <1>3 DEF dir, a
  <2>6. NewToken(a, c) \in Auth /\ Pure(NewToken(a, c)) /\ issued' \in [Acct -> 0 .. MaxVer]
    BY <2>1, <2>5, NewTokenType
  <2> QED BY <1>1, <2>1, <2>2, <2>4, <2>5, <2>6, TokenWritten
<1> QED BY <1>2, <1>3 DEF LoginWrite

(* A login adds one row, inactive.                                         *)
LEMMA LoginAddInv == ASSUME IInv, NEW t \in Thread, LoginAdd(t) PROVE IInv'
<1>1. /\ pc[t] = "login.add" /\ job[t].sel \subseteq LoginProfile
      /\ UNCHANGED <<file, issued, gone, logins>>
  BY ThreadFacts DEF LoginAdd, At, LocalsOK
<1>2. pc' \in [Thread -> PC] /\ job' \in [Thread -> Job] /\ JobInv'
  BY NoJobKeeps DEF LoginAdd, IInv
<1>3. CASE UNCHANGED <<rows, born>>
  BY <1>1, <1>2, <1>3, DiskKept DEF disk
<1>4. ASSUME NEW i \in AccountID, NEW p \in job[t].sel,
             AddRow(i, p, SafeProfileName[p], FALSE)
      PROVE  IInv'
  <2>1. p \in Profile /\ SafeProfileName[p] \in Path
    BY <1>1, ServiceAssumption DEF Path
  <2>2. /\ \E new \in Table : rows' = Committed(rows, new)
        /\ born' \in SUBSET AccountID
    BY <1>4, <2>1, AddRowCommits
  <2>3. gone' \in SUBSET AccountID
    BY <1>1 DEF IInv, TypeOK
  <2> QED BY <1>1, <1>2, <2>2, <2>3, RowsCommitted
<1> QED BY <1>3, <1>4 DEF LoginAdd

-----------------------------------------------------------------------------
(* The Codex CLI and a crash                                               *)

(* The CLI writes auth.json and nothing else.                              *)
LEMMA CliInv == ASSUME IInv, Cli PROVE IInv'
<1>1. UNCHANGED <<rows, born, gone, logins, pc, job>>
  BY DEF Cli, CliRefresh, CliLogin, CliLogout, CliConfig
<1>2. /\ pc' \in [Thread -> PC] /\ job' \in [Thread -> Job] /\ JobInv'
      /\ logins' \in SUBSET LoginProfile
  BY <1>1 DEF IInv, TypeOK, JobInv
<1>3. /\ Live \in Place /\ file[Live] \in Auth \cup {NoFile} /\ Pure(file[Live])
      /\ issued \in [Acct -> 0 .. MaxVer]
  BY DEF IInv, TypeOK, KeysStayHome, Pure, Place
<1>4. CASE CliRefresh
  <2> DEFINE a == file[Live].acct
             f == [file[Live] EXCEPT !.ver = issued[a] + 1]
  <2>1. /\ file[Live] \in Auth /\ a \in Acct
        /\ issued[a] < MaxVer /\ issued' = [issued EXCEPT ![a] = @ + 1]
        /\ file' = [file EXCEPT ![Live] = f]
    BY <1>3, <1>4 DEF CliRefresh, Auth
  <2>2. issued' \in [Acct -> 0 .. MaxVer] /\ issued[a] + 1 \in 0 .. MaxVer
    BY <1>3, <2>1, ServiceAssumption
  <2>3. f \in Auth /\ f.key = file[Live].key /\ f.acct = file[Live].acct
    BY <2>1, <2>2 DEF Auth
  <2> HIDE DEF f
  <2>4. Pure(f)
    BY <1>3, <2>1, <2>3, ServiceAssumption DEF Pure
  <2> QED BY <1>1, <1>2, <1>3, <2>1, <2>2, <2>3, <2>4, TokenWritten
<1>5. CASE CliLogin
  <2>1. PICK a \in Acct, c \in Cfg :
          /\ issued[a] < MaxVer
          /\ issued' = [issued EXCEPT ![a] = @ + 1]
          /\ file' = [file EXCEPT ![Live] = NewToken(a, c)]
    BY <1>5 DEF CliLogin
  <2>2. NewToken(a, c) \in Auth /\ Pure(NewToken(a, c)) /\ issued' \in [Acct -> 0 .. MaxVer]
    BY <2>1, NewTokenType
  <2> QED BY <1>1, <1>2, <1>3, <2>1, <2>2, TokenWritten
<1>6. CASE CliLogout
  BY <1>1, <1>2, <1>3, <1>6, FileWritten DEF CliLogout, Pure
<1>7. CASE CliConfig
  <2>1. PICK c \in Cfg : file' = [file EXCEPT ![Live] = [@ EXCEPT !.cfg = c]]
    BY <1>7 DEF CliConfig
  <2> DEFINE f == [file[Live] EXCEPT !.cfg = c]
  <2>2. file[Live] \in Auth /\ file[Live] # NoFile /\ UNCHANGED issued
    BY <1>3, <1>7 DEF CliConfig
  <2>3. f \in Auth /\ f.key = file[Live].key /\ f.acct = file[Live].acct
          /\ file' = [file EXCEPT ![Live] = f]
    BY <2>1, <2>2 DEF Auth
  <2> HIDE DEF f
  <2>4. Pure(f)
    BY <1>3, <2>2, <2>3 DEF Pure
  <2> QED BY <1>1, <1>2, <1>3, <2>2, <2>3, <2>4, TokenWritten
<1> QED BY <1>4, <1>5, <1>6, <1>7 DEF Cli

(* After a crash every thread is idle.                                     *)
LEMMA CrashInv == ASSUME IInv, Crash PROVE IInv'
<1>1. UNCHANGED disk
  BY DEF Crash
<1>2. pc' \in [Thread -> PC] /\ job' \in [Thread -> Job]
  BY NoJobType DEF Crash, PC
<1>3. LocalsOK("idle", NoJob)
  BY NoJobType DEF LocalsOK, Pure, Matched, Chosen
<1>4. JobInv'
  BY <1>3 DEF Crash, JobInv
<1> QED BY <1>1, <1>2, <1>4, DiskKept

-----------------------------------------------------------------------------
(* The invariant is inductive                                              *)

(* The steps of the threads together.                                      *)
LEMMA StepInv == ASSUME IInv, NEW t \in Thread, Step(t) PROVE IInv'
<1>1. CASE Sync(t)
  BY <1>1, SyncReadInv, SyncListInv, SyncMatchInv, SyncCopyInv, SyncBackInv,
     SyncMergeInv, SyncPutInv, SyncCommitInv, ListReadInv DEF Sync
<1>2. CASE Switch(t)
  BY <1>2, SwitchListInv, SwitchReadInv, SwitchWriteInv, SwitchCommitInv DEF Switch
<1>3. CASE Delete(t)
  BY <1>3, DeleteCommitInv, DeleteRemoveInv DEF Delete
<1>4. CASE Login(t)
  BY <1>4, LoginWriteInv, LoginAddInv DEF Login
<1> QED BY <1>1, <1>2, <1>3, <1>4 DEF Step

(* Every step keeps the invariant.                                         *)
LEMMA NextInv == IInv /\ [Next]_vars => IInv'
<1> SUFFICES ASSUME IInv, [Next]_vars PROVE IInv'
  OBVIOUS
<1>1. CASE \E t \in Thread : Step(t) \/ StartList(t)
  BY <1>1, StepInv, StartListInv
<1>2. CASE \E t \in Handler : Start(t)
  BY <1>2, StartSwitchInv, StartDeleteInv, StartLoginInv DEF Start, Thread
<1>3. CASE AddAccount \/ PatchAccount
  BY <1>3, AddAccountInv, PatchAccountInv
<1>4. CASE Cli
  BY <1>4, CliInv
<1>5. CASE Crash
  BY <1>5, CrashInv
<1>6. CASE UNCHANGED vars
  <2>1. /\ UNCHANGED disk /\ pc' = pc /\ job' = job
    BY <1>6 DEF vars, disk
  <2>2. pc' \in [Thread -> PC] /\ job' \in [Thread -> Job] /\ JobInv'
    BY <2>1 DEF IInv, TypeOK, JobInv
  <2> QED BY <2>1, <2>2, DiskKept
<1> QED BY <1>1, <1>2, <1>3, <1>4, <1>5, <1>6 DEF Next

(* The strengthened invariant holds in every reachable state.              *)
THEOREM Invariant == Spec => []IInv
  BY InitInv, NextInv, PTL DEF Spec

(* Every variable keeps its type, for any number of threads and accounts.  *)
THEOREM TypeCorrect == Spec => []TypeOK
<1>1. IInv => TypeOK
  BY DEF IInv
<1> QED BY <1>1, Invariant, PTL

(* The account table is consistent in every state, whatever snapshots      *)
(* concurrent syncs and switches write back (normalizeAccounts, UNIQUE).   *)
THEOREM TableConsistent == Spec => []StoreConsistent
<1>1. IInv => StoreConsistent
  BY DEF IInv
<1> QED BY <1>1, Invariant, PTL

(* No interleaving of syncs, switches and CLI writes puts an API key next  *)
(* to another account's tokens (mergeCodexAuthConfigFields).               *)
THEOREM KeysKept == Spec => []KeysStayHome
<1>1. IInv => KeysStayHome
  BY DEF IInv
<1> QED BY <1>1, Invariant, PTL

-----------------------------------------------------------------------------
(* Files outside the managed directories                                   *)

(* The steps that write a file write auth.json or a managed one.           *)
LEMMA ManagedWrites ==
    ASSUME IInv, [Next]_vars, NEW p \in Place, p \notin Dir \cup {Live}
    PROVE  file'[p] = file[p]
<1> SUFFICES ASSUME NEW q \in Dir \cup {Live}, NEW f,
                    file' = [file EXCEPT ![q] = f]
             PROVE  file'[p] = file[p]
  <2>1. CASE UNCHANGED file
    BY <2>1
  <2>2. ASSUME NEW t \in Thread, Step(t)
        PROVE  \/ UNCHANGED file
               \/ \E q \in Dir \cup {Live} : \E f : file' = [file EXCEPT ![q] = f]
    <3>1. CASE SyncBack(t)
      BY <3>1, ThreadFacts DEF SyncBack, At, LocalsOK, IsManaged
    <3>2. CASE SyncPut(t)
      BY <3>2, ThreadFacts DEF SyncPut, At, LocalsOK, IsManaged
    <3>3. CASE SwitchWrite(t)
      BY <3>3 DEF SwitchWrite
    <3>4. CASE DeleteRemove(t)
      <4>1. \A i \in Listed(job[t].snap) : SafeProfileName[job[t].snap[i].profile] \in Dir
        BY ThreadFacts, ServiceAssumption DEF Job, Table, Listed, Row
      <4> QED BY <3>4, <4>1 DEF DeleteRemove
    <3>5. CASE LoginWrite(t)
      <4>1. \A s \in job[t].sel : SafeProfileName[s] \in Dir
        BY <3>5, ThreadFacts, ServiceAssumption DEF LoginWrite, At, LocalsOK
      <4> QED BY <3>5, <4>1 DEF LoginWrite
    <3> QED
      BY <2>2, <3>1, <3>2, <3>3, <3>4, <3>5
      DEF Step, Sync, Switch, Delete, Login, SyncRead, SyncList, SyncMatch,
          SyncCopy, SyncMerge, SyncCommit, ListRead, SwitchList, SwitchRead,
          SwitchCommit, DeleteCommit, LoginAdd, disk
  <2>3. CASE Cli
    BY <2>3 DEF Cli, CliRefresh, CliLogin, CliLogout, CliConfig
  <2>4. CASE \/ \E t \in Thread : StartList(t)
             \/ \E t \in Handler : Start(t)
             \/ AddAccount \/ PatchAccount \/ Crash \/ UNCHANGED vars
    BY <2>4 DEF StartList, Start, StartSwitch, StartDelete, StartLogin, Begin,
                AddAccount, PatchAccount, Crash, vars, disk
  <2> QED BY <2>1, <2>2, <2>3, <2>4 DEF Next
<1> QED BY DEF IInv, TypeOK

(* No request ever changes an auth file outside the managed directories    *)
(* other than the CLI's own, whatever runs beside it (README, deletion).   *)
THEOREM ImportsKept == Spec => ImportedFilesKept
<1>1. IInv /\ [Next]_vars => [\A p \in ImportPath \ {Live} : file'[p] = file[p]]_vars
  <2> SUFFICES ASSUME IInv, [Next]_vars, NEW p \in ImportPath \ {Live}
               PROVE  file'[p] = file[p]
    OBVIOUS
  <2>1. p \in Place /\ p \notin Dir \cup {Live}
    BY StoreAssumption DEF Place, Path
  <2> QED BY <2>1, ManagedWrites
<1> QED BY <1>1, Invariant, PTL DEF Spec, ImportedFilesKept

=============================================================================
