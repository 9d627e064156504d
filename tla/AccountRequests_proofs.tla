----------------------- MODULE AccountRequests_proofs -----------------------
(***************************************************************************)
(* The requests of the account service, for any number of accounts,        *)
(* profiles and files, with failing writes and crashes anywhere.           *)
(*                                                                         *)
(* First, for every interleaving of requests, ticker and CLI, what can     *)
(* make the list of accounts or the credentials of a profile wrong: a list *)
(* that other requests have outdated, and an auth.json that changes hands  *)
(* between two reads of it; nothing else does.  Both do happen in the code *)
(* (the runs lost_account and foreign_writeback).                          *)
(*                                                                         *)
(* Then the two promises that hold of requests served one after the other  *)
(* (OneAtATime; where auth.json matters, the CLI rests meanwhile,          *)
(* CliAtRest): files of listed accounts over crashes, and what a sync has  *)
(* done when it ends.  The server enforces neither assumption; they hold   *)
(* while one dashboard is used and no periodic refresh runs beside it.     *)
(* The invariants of this part come in layers.  The base is OneBusy: while *)
(* a thread works the others are idle, so that what it has read of table   *)
(* and files is still so.                                                  *)
(***************************************************************************)
EXTENDS AccountService_proofs

-----------------------------------------------------------------------------
(* Transactions of the table                                               *)

(* The same accounts with the same profile names and paths.                *)
SameRows(T, N) ==
    /\ Listed(N) = Listed(T)
    /\ \A i \in Listed(T) : N[i].profile = T[i].profile /\ N[i].path = T[i].path

(* A list without a duplicate profile name is committed as it is, but for  *)
(* status and active flags.                                                *)
LEMMA CommittedRows ==
    ASSUME NEW T \in Table, NEW new \in Table, UniqueProfiles(new)
    PROVE  /\ SameRows(new, Committed(T, new))
           /\ \A i \in Listed(new) :
                /\ Committed(T, new)[i].used = new[i].used
                /\ Committed(T, new)[i].active <=>
                     new[i].active /\ \A j \in Listed(new) : new[j].active => i <= j
  BY NormalizeAccountsTable DEF Committed, SameRows

(* A sync or switch that activates a row of the current table changes      *)
(* neither the accounts nor their files, and that row becomes active.      *)
LEMMA ActivateCommits ==
    ASSUME NEW T \in Table, Consistent(T), NEW h \in Listed(T)
    PROVE  /\ UniqueProfiles(Activate(T, h))
           /\ SameRows(T, Committed(T, Activate(T, h)))
           /\ Committed(T, Activate(T, h))[h].active
           /\ Committed(T, Activate(T, h))[h].used
           /\ Activate(T, h)[h].active /\ Activate(T, h)[h].used
<1> DEFINE A == Activate(T, h)
<1>0. h \in AccountID /\ A \in Table
  BY ActivateTable DEF Listed
<1>1. ASSUME NEW i \in Listed(T)
      PROVE  /\ A[i] # NoRow
             /\ A[i].profile = T[i].profile /\ A[i].path = T[i].path
             /\ A[i].active <=> i = h
             /\ i = h => A[i].used = TRUE
  <2>1. T[i] \in Row /\ T[i] # NoRow /\ i \in AccountID
    BY DEF Table, Listed
  <2> DEFINE r == [T[i] EXCEPT !.active = (i = h), !.used = T[i].used \/ i = h]
  <2>2. A[i] = r
    BY <2>1 DEF Activate
  <2>3. (i = h) \in BOOLEAN /\ (T[i].used \/ i = h) \in BOOLEAN
    BY <2>1 DEF Row
  <2>4. /\ r \in Row /\ r.profile = T[i].profile /\ r.path = T[i].path
        /\ r.active = (i = h) /\ r.used = (T[i].used \/ i = h)
    BY <2>1, <2>3 DEF Row
  <2> HIDE DEF r, A
  <2> QED BY <2>2, <2>4, StoreAssumption
<1>2. Listed(A) = Listed(T)
  <2>1. \A i \in AccountID : T[i] = NoRow => A[i] = NoRow
    BY DEF Activate
  <2> QED BY <1>1, <2>1 DEF Listed
<1> HIDE DEF A
<1>3. UniqueProfiles(A)
  BY <1>1, <1>2 DEF UniqueProfiles, Consistent
<1>4. /\ SameRows(A, Committed(T, A))
      /\ Committed(T, A)[h].used = A[h].used
      /\ Committed(T, A)[h].active <=>
           A[h].active /\ \A j \in Listed(A) : A[j].active => h <= j
  BY <1>0, <1>2, <1>3, CommittedRows
<1>5. h \in Nat
  BY <1>0, StoreAssumption
<1>6. Committed(T, A)[h].active /\ Committed(T, A)[h].used
  <2>1. A[h].active /\ A[h].used = TRUE
    BY <1>1
  <2>2. \A j \in Listed(A) : A[j].active => h <= j
    <3>1. h <= h
      BY <1>5
    <3>2. \A j \in Listed(A) : A[j].active => j = h
      BY <1>1, <1>2
    <3> QED BY <3>1, <3>2
  <2> QED BY <1>4, <2>1, <2>2
<1>7. SameRows(T, Committed(T, A))
  BY <1>1, <1>2, <1>4 DEF SameRows
<1>8. A[h].active /\ A[h].used
  BY <1>1
<1> QED BY <1>3, <1>6, <1>7, <1>8 DEF A

(* A deletion removes the selected rows and no other.                      *)
LEMMA RestCommits ==
    ASSUME NEW T \in Table, Consistent(T), NEW S \in SUBSET AccountID
    PROVE  LET N == Committed(T, [i \in AccountID |-> IF i \in S THEN NoRow ELSE T[i]])
           IN  /\ Listed(N) = Listed(T) \ S
               /\ \A i \in Listed(N) : N[i].profile = T[i].profile /\ N[i].path = T[i].path
<1> DEFINE R == [i \in AccountID |-> IF i \in S THEN NoRow ELSE T[i]]
<1>1. R \in Table
  BY DEF Table
<1>2. Listed(R) = Listed(T) \ S /\ \A i \in Listed(R) : R[i] = T[i]
  BY DEF Listed
<1> HIDE DEF R
<1>3. UniqueProfiles(R)
  BY <1>2 DEF UniqueProfiles, Consistent
<1>4. SameRows(R, Committed(T, R))
  BY <1>1, <1>3, CommittedRows
<1>5. /\ Listed(Committed(T, R)) = Listed(T) \ S
      /\ \A i \in Listed(Committed(T, R)) : /\ Committed(T, R)[i].profile = T[i].profile
                                            /\ Committed(T, R)[i].path = T[i].path
  BY <1>2, <1>4 DEF SameRows
<1> QED BY <1>5 DEF R

(* A changed status changes neither the accounts nor their files.          *)
LEMMA PatchCommits ==
    ASSUME IInv, PatchAccount
    PROVE  SameRows(rows, rows')
<1>1. PICK s \in Selector, status \in Status :
        rows' = Committed(rows,
                  [i \in AccountID |->
                     IF i \in Selected(rows, {s})
                     THEN [rows[i] EXCEPT !.status = status] ELSE rows[i]])
  BY DEF PatchAccount
<1> DEFINE new == [i \in AccountID |->
                     IF i \in Selected(rows, {s})
                     THEN [rows[i] EXCEPT !.status = status] ELSE rows[i]]
<1>2. ASSUME NEW i \in Listed(rows)
      PROVE  /\ new[i] \in Row
             /\ new[i].profile = rows[i].profile /\ new[i].path = rows[i].path
  <2>1. rows[i] \in Row /\ i \in AccountID
    BY DEF Listed, IInv, TypeOK, Table
  <2> DEFINE r == [rows[i] EXCEPT !.status = status]
  <2>2. r \in Row /\ r.profile = rows[i].profile /\ r.path = rows[i].path
    BY <2>1 DEF Row
  <2>3. new[i] \in {r, rows[i]}
    BY <2>1
  <2> HIDE DEF r, new
  <2> QED BY <2>1, <2>2, <2>3
<1>3. \A i \in AccountID : i \notin Listed(rows) => new[i] = NoRow
  BY DEF Selected, Listed
<1>4. new = [i \in AccountID |-> new[i]]
  OBVIOUS
<1>5. rows' = Committed(rows, new)
  BY <1>1
<1> HIDE DEF new
<1>6. new \in Table /\ Listed(new) = Listed(rows)
  BY <1>2, <1>3, <1>4, StoreAssumption DEF Table, Listed
<1>7. UniqueProfiles(new)
  BY <1>2, <1>6 DEF UniqueProfiles, IInv, StoreConsistent, Consistent
<1>8. SameRows(new, rows')
  BY <1>5, <1>6, <1>7, CommittedRows DEF IInv, TypeOK
<1> QED BY <1>2, <1>6, <1>8 DEF SameRows

(* An account that is added leaves the others where they are.              *)
LEMMA AddCommits ==
    ASSUME IInv, NEW i \in AccountID, NEW p \in Profile, NEW path \in Path,
           NEW active \in BOOLEAN, AddRow(i, p, path, active), i \notin Listed(rows)
    PROVE  /\ Listed(rows') = Listed(rows) \cup {i}
           /\ rows'[i].profile = p /\ rows'[i].path = path
           /\ \A j \in Listed(rows) : /\ rows'[j].profile = rows[j].profile
                                      /\ rows'[j].path = rows[j].path
<1> DEFINE r == [profile |-> p, path |-> path, active |-> active,
                 status |-> "ready", used |-> FALSE]
           new == [j \in AccountID |->
                     IF j = i THEN NormalizeAccount(r)
                     ELSE IF rows[j] = NoRow THEN NoRow
                     ELSE [rows[j] EXCEPT !.active = rows[j].active /\ ~active]]
<1>1. r \in Row
  BY StoreAssumption DEF Row
<1>2. /\ new[i] \in Row /\ new[i].profile = p /\ new[i].path = path
  BY <1>1, NormalizeAccountRow
<1>3. ASSUME NEW j \in Listed(rows)
      PROVE  /\ new[j] \in Row
             /\ new[j].profile = rows[j].profile /\ new[j].path = rows[j].path
  <2>1. rows[j] \in Row /\ j \in AccountID /\ j # i /\ rows[j] # NoRow
    BY DEF Listed, IInv, TypeOK, Table
  <2> DEFINE q == [rows[j] EXCEPT !.active = rows[j].active /\ ~active]
  <2>2. (rows[j].active /\ ~active) \in BOOLEAN
    OBVIOUS
  <2>3. q \in Row /\ q.profile = rows[j].profile /\ q.path = rows[j].path
    BY <2>1, <2>2 DEF Row
  <2>4. new[j] = q
    BY <2>1
  <2> HIDE DEF q, new
  <2> QED BY <2>3, <2>4
<1>4. \A j \in AccountID : j \notin Listed(rows) \cup {i} => new[j] = NoRow
  BY DEF Listed
<1>5. new = [j \in AccountID |-> new[j]]
  OBVIOUS
<1>6. rows' = Committed(rows, new) /\ \A j \in Listed(rows) : rows[j].profile # p
  BY DEF AddRow, Insert
<1> HIDE DEF new, r
<1>7. new \in Table /\ Listed(new) = Listed(rows) \cup {i}
  BY <1>2, <1>3, <1>4, <1>5, StoreAssumption DEF Table, Listed
<1>8. UniqueProfiles(new)
  BY <1>2, <1>3, <1>6, <1>7 DEF UniqueProfiles, IInv, StoreConsistent, Consistent
<1>9. SameRows(new, rows')
  BY <1>6, <1>7, <1>8, CommittedRows DEF IInv, TypeOK
<1> QED BY <1>2, <1>3, <1>7, <1>9 DEF SameRows

-----------------------------------------------------------------------------
(* What the steps of a thread do to its own locals                         *)

Others(t) == \A u \in Thread : u # t => pc'[u] = pc[u] /\ job'[u] = job[u]

Ended == {"list.read", "switch.list"}

(* The sync of thread t is over.                                           *)
Over(t, ok) ==
    /\ pc'[t] = IF job[t].op = "list" THEN "list.read" ELSE "switch.list"
    /\ job'[t].op = job[t].op /\ job'[t].ok = ok

Idle(t) == pc'[t] = "idle" /\ job'[t].op = "none"

(* Thread t goes on with the locals it has, but for those the step sets.   *)
Same(t) == job'[t].op = job[t].op /\ job'[t].ok = job[t].ok

LEMMA Going ==
    ASSUME TypeOK, NEW t \in Thread, NEW to, NEW l, Go(t, to, l)
    PROVE  pc'[t] = to /\ job'[t] = l /\ Others(t)
  BY DEF Go, TypeOK, Others

LEMMA Ending ==
    ASSUME TypeOK, NEW t \in Thread, NEW ok \in BOOLEAN, SyncEnd(t, ok)
    PROVE  Over(t, ok) /\ Others(t)
<1> DEFINE l == [NoJob EXCEPT !.op = job[t].op, !.sel = job[t].sel, !.ok = ok]
<1>1. job[t] \in Job
  BY DEF TypeOK
<1>2. l.op = job[t].op /\ l.ok = ok
  BY <1>1, NoJobType DEF Job
<1> HIDE DEF l
<1>3. Go(t, IF job[t].op = "list" THEN "list.read" ELSE "switch.list", l)
  BY DEF SyncEnd, l
<1> QED BY <1>2, <1>3, Going DEF Over

LEMMA Returning ==
    ASSUME TypeOK, NEW t \in Thread, Return(t)
    PROVE  Idle(t) /\ Others(t)
<1>1. NoJob.op = "none"
  BY DEF NoJob
<1> QED BY <1>1, Going DEF Return, Idle

LEMMA Beginning ==
    ASSUME IInv, NEW t \in Thread, StartList(t) \/ Start(t)
    PROVE  /\ pc[t] = "idle" /\ Others(t) /\ UNCHANGED disk /\ (OneAtATime => AllIdle)
           /\ \/ pc'[t] = "sync.read" /\ job'[t].op \in {"list", "switch"} /\ job'[t].at = 0
              \/ pc'[t] = "delete.commit" /\ job'[t].op = "delete"
              \/ /\ pc'[t] = "login.write" /\ job'[t].op = "login"
                 /\ \E p \in LoginProfile : job'[t].sel = {p}
<1>0. TypeOK
  BY DEF IInv
<1>1. CASE StartList(t)
  <2> DEFINE l == [NoJob EXCEPT !.op = "list"]
  <2>1. l.op = "list" /\ l.at = 0
    BY DEF NoJob
  <2>2. Begin(t, "sync.read", l)
    BY <1>1 DEF StartList
  <2> HIDE DEF l
  <2> QED BY <1>0, <2>1, <2>2, Going DEF Begin, At, MayStart
<1>2. CASE StartSwitch(t)
  <2>1. PICK x \in Selector :
          Begin(t, "sync.read", [NoJob EXCEPT !.op = "switch", !.sel = {x}])
    BY <1>2 DEF StartSwitch
  <2> DEFINE l == [NoJob EXCEPT !.op = "switch", !.sel = {x}]
  <2>2. l.op = "switch" /\ l.at = 0
    BY DEF NoJob
  <2>3. Begin(t, "sync.read", l)
    BY <2>1
  <2> HIDE DEF l
  <2> QED BY <1>0, <2>2, <2>3, Going DEF Begin, At, MayStart
<1>3. CASE StartDelete(t)
  <2>1. PICK S \in SUBSET Selector \ {{}} :
          Begin(t, "delete.commit", [NoJob EXCEPT !.op = "delete", !.sel = S])
    BY <1>3 DEF StartDelete
  <2> DEFINE l == [NoJob EXCEPT !.op = "delete", !.sel = S]
  <2>2. l.op = "delete"
    BY DEF NoJob
  <2>3. Begin(t, "delete.commit", l)
    BY <2>1
  <2> HIDE DEF l
  <2> QED BY <1>0, <2>2, <2>3, Going DEF Begin, At, MayStart
<1>4. CASE StartLogin(t)
  <2>1. PICK p \in LoginProfile :
          Begin(t, "login.write", [NoJob EXCEPT !.op = "login", !.sel = {p}])
    BY <1>4 DEF StartLogin
  <2> DEFINE l == [NoJob EXCEPT !.op = "login", !.sel = {p}]
  <2>2. l.op = "login" /\ l.sel = {p}
    BY DEF NoJob
  <2>3. Begin(t, "login.write", l)
    BY <2>1
  <2> HIDE DEF l
  <2> QED BY <1>0, <2>2, <2>3, Going DEF Begin, At, MayStart
<1> QED BY <1>1, <1>2, <1>3, <1>4 DEF Start

LEMMA SyncReadDoes ==
    ASSUME IInv, NEW t \in Thread, SyncRead(t)
    PROVE  /\ pc[t] = "sync.read" /\ Others(t) /\ UNCHANGED disk
           /\ \/ file[Live] = NoFile /\ Over(t, TRUE)
              \/ /\ pc'[t] = "sync.list" /\ Same(t)
                 /\ job'[t].cur = file[Live] /\ job'[t].at = job[t].at
<1>0. TypeOK /\ job[t] \in Job
  BY DEF IInv, TypeOK
<1>1. CASE file[Live] = NoFile
  BY <1>0, <1>1, Ending DEF SyncRead, At
<1>2. CASE file[Live] # NoFile
  <2> DEFINE l == [job[t] EXCEPT !.cur = file[Live]]
  <2>1. l.op = job[t].op /\ l.ok = job[t].ok /\ l.cur = file[Live] /\ l.at = job[t].at
    BY <1>0 DEF Job
  <2>2. Go(t, "sync.list", l)
    BY <1>2 DEF SyncRead
  <2> HIDE DEF l
  <2> QED BY <1>0, <2>1, <2>2, Going DEF SyncRead, At, Same
<1> QED BY <1>1, <1>2

LEMMA SyncListDoes ==
    ASSUME IInv, NEW t \in Thread, SyncList(t)
    PROVE  /\ pc[t] = "sync.list" /\ Others(t) /\ UNCHANGED disk
           /\ pc'[t] = "sync.match" /\ Same(t)
           /\ job'[t].snap = rows /\ job'[t].cur = job[t].cur /\ job'[t].at = job[t].at
<1>0. TypeOK /\ job[t] \in Job
  BY DEF IInv, TypeOK
<1> DEFINE l == [job[t] EXCEPT !.snap = rows]
<1>1. /\ l.op = job[t].op /\ l.ok = job[t].ok /\ l.cur = job[t].cur /\ l.at = job[t].at
      /\ l.snap = rows
  BY <1>0 DEF Job
<1>2. Go(t, "sync.match", l)
  BY DEF SyncList
<1> HIDE DEF l
<1> QED BY <1>0, <1>1, <1>2, Going DEF SyncList, At, Same

LEMMA SyncMatchDoes ==
    ASSUME IInv, NEW t \in Thread, SyncMatch(t)
    PROVE  /\ pc[t] = "sync.match" /\ Others(t) /\ UNCHANGED disk
           /\ \/ Unvisited(t) = {} /\ Over(t, TRUE)
              \/ \E i \in Unvisited(t) :
                   LET candidate == file[job[t].snap[i].path] IN
                   /\ First(i, Unvisited(t)) /\ Same(t)
                   /\ job'[t].cur = job[t].cur /\ job'[t].snap = job[t].snap
                   /\ \/ /\ candidate = NoFile \/ ~SameAuth(job[t].cur, candidate)
                         /\ pc'[t] = "sync.match" /\ job'[t].at = i
                      \/ /\ candidate # NoFile /\ SameAuth(job[t].cur, candidate)
                         /\ pc'[t] = IF IsManaged(job[t].snap[i].path) /\ candidate # job[t].cur
                                     THEN "sync.copy" ELSE "sync.merge"
                         /\ job'[t].hit = i /\ job'[t].at = 0
<1>0. TypeOK /\ job[t] \in Job /\ pc[t] = "sync.match" /\ UNCHANGED disk
  BY DEF IInv, TypeOK, SyncMatch, At
<1>1. CASE Unvisited(t) = {}
  BY <1>0, <1>1, Ending DEF SyncMatch
<1>2. CASE Unvisited(t) # {}
  <2>1. PICK i \in Unvisited(t) :
          /\ First(i, Unvisited(t))
          /\ LET candidate == file[job[t].snap[i].path]
             IN  IF candidate = NoFile \/ ~SameAuth(job[t].cur, candidate)
                 THEN Go(t, "sync.match", [job[t] EXCEPT !.at = i])
                 ELSE Go(t, IF IsManaged(job[t].snap[i].path) /\ candidate # job[t].cur
                            THEN "sync.copy" ELSE "sync.merge",
                         [job[t] EXCEPT !.hit = i, !.at = 0])
    BY <1>2 DEF SyncMatch
  <2> DEFINE candidate == file[job[t].snap[i].path]
             to == IF IsManaged(job[t].snap[i].path) /\ candidate # job[t].cur
                   THEN "sync.copy" ELSE "sync.merge"
  <2>2. CASE candidate = NoFile \/ ~SameAuth(job[t].cur, candidate)
    <3> DEFINE l == [job[t] EXCEPT !.at = i]
    <3>1. /\ l.op = job[t].op /\ l.ok = job[t].ok /\ l.cur = job[t].cur
          /\ l.snap = job[t].snap /\ l.at = i
      BY <1>0 DEF Job
    <3>2. Go(t, "sync.match", l)
      BY <2>1, <2>2
    <3> HIDE DEF l, candidate
    <3>3. Others(t) /\ Same(t) /\ pc'[t] = "sync.match" /\ job'[t].at = i
          /\ job'[t].cur = job[t].cur /\ job'[t].snap = job[t].snap
      BY <1>0, <3>1, <3>2, Going DEF Same
    <3> QED BY <1>0, <2>1, <2>2, <3>3 DEF candidate
  <2>3. CASE candidate # NoFile /\ SameAuth(job[t].cur, candidate)
    <3> DEFINE l == [job[t] EXCEPT !.hit = i, !.at = 0]
    <3>1. /\ l.op = job[t].op /\ l.ok = job[t].ok /\ l.cur = job[t].cur
          /\ l.snap = job[t].snap /\ l.at = 0 /\ l.hit = i
      BY <1>0 DEF Job
    <3>2. Go(t, to, l)
      BY <2>1, <2>3
    <3> HIDE DEF l, to, candidate
    <3>3. Others(t) /\ Same(t) /\ pc'[t] = to /\ job'[t].at = 0 /\ job'[t].hit = i
          /\ job'[t].cur = job[t].cur /\ job'[t].snap = job[t].snap
      BY <1>0, <3>1, <3>2, Going DEF Same
    <3> QED BY <1>0, <2>1, <2>3, <3>3 DEF candidate, to
  <2> QED BY <2>2, <2>3
<1> QED BY <1>1, <1>2

(* A match in progress goes on with what it found.                         *)
Found(t) ==
    /\ Same(t) /\ job'[t].cur = job[t].cur /\ job'[t].snap = job[t].snap
    /\ job'[t].hit = job[t].hit

LEMMA SyncCopyDoes ==
    ASSUME IInv, NEW t \in Thread, SyncCopy(t)
    PROVE  /\ pc[t] = "sync.copy" /\ Others(t) /\ UNCHANGED disk
           /\ \/ file[Live] = NoFile /\ Over(t, FALSE)
              \/ /\ pc'[t] = "sync.back" /\ Found(t) /\ job'[t].at = job[t].at
                 /\ job'[t].buf = file[Live]
<1>0. TypeOK /\ job[t] \in Job /\ pc[t] = "sync.copy" /\ UNCHANGED disk
  BY DEF IInv, TypeOK, SyncCopy, At
<1>1. CASE file[Live] = NoFile
  BY <1>0, <1>1, Ending DEF SyncCopy
<1>2. CASE file[Live] # NoFile
  <2> DEFINE l == [job[t] EXCEPT !.buf = file[Live]]
  <2>1. /\ l.op = job[t].op /\ l.ok = job[t].ok /\ l.cur = job[t].cur
        /\ l.snap = job[t].snap /\ l.hit = job[t].hit /\ l.at = job[t].at
        /\ l.buf = file[Live]
    BY <1>0 DEF Job
  <2>2. Go(t, "sync.back", l)
    BY <1>2 DEF SyncCopy
  <2> HIDE DEF l
  <2> QED BY <1>0, <2>1, <2>2, Going DEF Same, Found
<1> QED BY <1>1, <1>2

LEMMA BufferGone ==
    ASSUME IInv, NEW t \in Thread, NEW to,
           Go(t, to, [job[t] EXCEPT !.buf = NoFile])
    PROVE  pc'[t] = to /\ Others(t) /\ Found(t) /\ job'[t].at = job[t].at
<1>0. TypeOK /\ job[t] \in Job
  BY DEF IInv, TypeOK
<1> DEFINE l == [job[t] EXCEPT !.buf = NoFile]
<1>1. /\ l.op = job[t].op /\ l.ok = job[t].ok /\ l.cur = job[t].cur
      /\ l.snap = job[t].snap /\ l.hit = job[t].hit /\ l.at = job[t].at
  BY <1>0 DEF Job
<1> HIDE DEF l
<1>2. Go(t, to, l)
  BY DEF l
<1> QED BY <1>0, <1>1, <1>2, Going DEF Same, Found

LEMMA SyncBackDoes ==
    ASSUME IInv, NEW t \in Thread, SyncBack(t)
    PROVE  /\ pc[t] = "sync.back" /\ Others(t)
           /\ UNCHANGED <<rows, issued, born, gone, logins>>
           /\ \/ /\ file' = [file EXCEPT ![job[t].snap[job[t].hit].path] = job[t].buf]
                 /\ pc'[t] = "sync.merge" /\ Found(t) /\ job'[t].at = job[t].at
              \/ IOFaults /\ Over(t, FALSE) /\ UNCHANGED file
<1>0. /\ TypeOK /\ pc[t] = "sync.back" /\ UNCHANGED <<rows, issued, born, gone, logins>>
  BY DEF IInv, SyncBack, At
<1>1. CASE /\ file' = [file EXCEPT ![job[t].snap[job[t].hit].path] = job[t].buf]
           /\ Go(t, "sync.merge", [job[t] EXCEPT !.buf = NoFile])
  BY <1>0, <1>1, BufferGone
<1>2. CASE IOFaults /\ SyncEnd(t, FALSE) /\ UNCHANGED file
  BY <1>0, <1>2, Ending
<1> QED BY <1>1, <1>2 DEF SyncBack

LEMMA SyncMergeDoes ==
    ASSUME IInv, NEW t \in Thread, SyncMerge(t)
    PROVE  /\ pc[t] = "sync.merge" /\ Others(t) /\ UNCHANGED disk /\ Found(t)
           /\ \/ ManagedLeft(t) = {} /\ pc'[t] = "sync.commit"
              \/ \E i \in ManagedLeft(t) :
                   LET target == file[job[t].snap[i].path]
                       next == MergeConfig(job[t].cur, target) IN
                   /\ First(i, ManagedLeft(t)) /\ job'[t].at = i
                   /\ \/ (target = NoFile \/ next = target) /\ pc'[t] = "sync.merge"
                      \/ /\ target # NoFile /\ pc'[t] = "sync.put"
                         /\ job'[t].buf = next
<1>0. TypeOK /\ job[t] \in Job /\ pc[t] = "sync.merge" /\ UNCHANGED disk
  BY DEF IInv, TypeOK, SyncMerge, At
<1>1. CASE ManagedLeft(t) = {}
  <2> DEFINE l == [job[t] EXCEPT !.at = 0]
  <2>1. /\ l.op = job[t].op /\ l.ok = job[t].ok /\ l.cur = job[t].cur
        /\ l.snap = job[t].snap /\ l.hit = job[t].hit
    BY <1>0 DEF Job
  <2>2. Go(t, "sync.commit", l)
    BY <1>1 DEF SyncMerge
  <2> HIDE DEF l
  <2> QED BY <1>0, <1>1, <2>1, <2>2, Going DEF Same, Found
<1>2. CASE ManagedLeft(t) # {}
  <2>1. PICK i \in ManagedLeft(t) :
          /\ First(i, ManagedLeft(t))
          /\ LET target == file[job[t].snap[i].path]
                 next == MergeConfig(job[t].cur, target)
             IN  IF target = NoFile \/ next = target
                 THEN Go(t, "sync.merge", [job[t] EXCEPT !.at = i])
                 ELSE Go(t, "sync.put", [job[t] EXCEPT !.at = i, !.buf = next])
    BY <1>2 DEF SyncMerge
  <2> DEFINE target == file[job[t].snap[i].path]
             next == MergeConfig(job[t].cur, target)
  <2>2. CASE target = NoFile \/ next = target
    <3> DEFINE l == [job[t] EXCEPT !.at = i]
    <3>1. /\ l.op = job[t].op /\ l.ok = job[t].ok /\ l.cur = job[t].cur
          /\ l.snap = job[t].snap /\ l.hit = job[t].hit /\ l.at = i
      BY <1>0 DEF Job
    <3>2. Go(t, "sync.merge", l)
      BY <2>1, <2>2
    <3> HIDE DEF l, target, next
    <3>3. Others(t) /\ Found(t) /\ pc'[t] = "sync.merge" /\ job'[t].at = i
      BY <1>0, <3>1, <3>2, Going DEF Same, Found
    <3> QED BY <1>0, <2>1, <2>2, <3>3 DEF target, next
  <2>3. CASE target # NoFile /\ next # target
    <3> DEFINE l == [job[t] EXCEPT !.at = i, !.buf = next]
    <3> HIDE DEF next
    <3>1. /\ l.op = job[t].op /\ l.ok = job[t].ok /\ l.cur = job[t].cur
          /\ l.snap = job[t].snap /\ l.hit = job[t].hit /\ l.at = i /\ l.buf = next
      BY <1>0 DEF Job
    <3>2. Go(t, "sync.put", l)
      BY <2>1, <2>3 DEF next
    <3> HIDE DEF l, target
    <3>3. Others(t) /\ Found(t) /\ pc'[t] = "sync.put" /\ job'[t].at = i /\ job'[t].buf = next
      BY <1>0, <3>1, <3>2, Going DEF Same, Found
    <3> QED BY <1>0, <2>1, <2>3, <3>3 DEF target, next
  <2> QED BY <2>2, <2>3
<1> QED BY <1>1, <1>2

LEMMA SyncPutDoes ==
    ASSUME IInv, NEW t \in Thread, SyncPut(t)
    PROVE  /\ pc[t] = "sync.put" /\ Others(t)
           /\ UNCHANGED <<rows, issued, born, gone, logins>>
           /\ \/ /\ file' = [file EXCEPT ![job[t].snap[job[t].at].path] = job[t].buf]
                 /\ pc'[t] = "sync.merge" /\ Found(t) /\ job'[t].at = job[t].at
              \/ IOFaults /\ Over(t, FALSE) /\ UNCHANGED file
<1>0. /\ TypeOK /\ pc[t] = "sync.put" /\ UNCHANGED <<rows, issued, born, gone, logins>>
  BY DEF IInv, SyncPut, At
<1>1. CASE /\ file' = [file EXCEPT ![job[t].snap[job[t].at].path] = job[t].buf]
           /\ Go(t, "sync.merge", [job[t] EXCEPT !.buf = NoFile])
  BY <1>0, <1>1, BufferGone
<1>2. CASE IOFaults /\ SyncEnd(t, FALSE) /\ UNCHANGED file
  BY <1>0, <1>2, Ending
<1> QED BY <1>1, <1>2 DEF SyncPut

LEMMA SyncCommitDoes ==
    ASSUME IInv, NEW t \in Thread, SyncCommit(t)
    PROVE  LET next == Activate(job[t].snap, job[t].hit) IN
           /\ pc[t] = "sync.commit" /\ Others(t)
           /\ UNCHANGED <<file, issued, born, gone, logins>>
           /\ \/ /\ rows' = IF next = job[t].snap THEN rows ELSE Committed(rows, next)
                 /\ Over(t, next = job[t].snap \/ UniqueProfiles(next))
              \/ IOFaults /\ Over(t, FALSE) /\ UNCHANGED rows
<1> DEFINE next == Activate(job[t].snap, job[t].hit)
<1>0. /\ TypeOK /\ pc[t] = "sync.commit" /\ UNCHANGED <<file, issued, born, gone, logins>>
  BY DEF IInv, SyncCommit, At
<1>1. CASE /\ rows' = IF next = job[t].snap THEN rows ELSE Committed(rows, next)
           /\ SyncEnd(t, next = job[t].snap \/ UniqueProfiles(next))
  <2>1. (next = job[t].snap \/ UniqueProfiles(next)) \in BOOLEAN
    OBVIOUS
  <2> HIDE DEF next
  <2>2. Over(t, next = job[t].snap \/ UniqueProfiles(next)) /\ Others(t)
    BY <1>0, <1>1, <2>1, Ending
  <2> QED BY <1>0, <1>1, <2>2 DEF next
<1>2. CASE IOFaults /\ SyncEnd(t, FALSE) /\ UNCHANGED rows
  BY <1>0, <1>2, Ending
<1> QED BY <1>1, <1>2 DEF SyncCommit

LEMMA ListReadDoes ==
    ASSUME IInv, NEW t \in Thread, ListRead(t)
    PROVE  pc[t] = "list.read" /\ Idle(t) /\ Others(t) /\ UNCHANGED disk
  BY Returning DEF ListRead, IInv, At

LEMMA SwitchListDoes ==
    ASSUME IInv, NEW t \in Thread, SwitchList(t)
    PROVE  /\ pc[t] = "switch.list" /\ Others(t) /\ UNCHANGED disk
           /\ \/ Idle(t)
              \/ /\ pc'[t] = "switch.read" /\ Same(t) /\ job'[t].snap = rows
<1>0. TypeOK /\ job[t] \in Job /\ pc[t] = "switch.list" /\ UNCHANGED disk
  BY DEF IInv, TypeOK, SwitchList, At
<1>1. CASE Return(t)
  BY <1>0, <1>1, Returning
<1>2. CASE ~Return(t)
  <2>1. PICK i \in Selected(rows, job[t].sel) :
          Go(t, "switch.read", [job[t] EXCEPT !.snap = rows, !.hit = i])
    BY <1>2 DEF SwitchList
  <2> DEFINE l == [job[t] EXCEPT !.snap = rows, !.hit = i]
  <2>2. l.op = job[t].op /\ l.ok = job[t].ok /\ l.snap = rows
    BY <1>0 DEF Job
  <2>3. Go(t, "switch.read", l)
    BY <2>1
  <2> HIDE DEF l
  <2> QED BY <1>0, <2>2, <2>3, Going DEF Same
<1> QED BY <1>1, <1>2

LEMMA SwitchReadDoes ==
    ASSUME IInv, NEW t \in Thread, SwitchRead(t)
    PROVE  /\ pc[t] = "switch.read" /\ Others(t) /\ UNCHANGED disk
           /\ \/ Idle(t)
              \/ pc'[t] = "switch.write" /\ Found(t)
<1>0. TypeOK /\ job[t] \in Job /\ pc[t] = "switch.read" /\ UNCHANGED disk
  BY DEF IInv, TypeOK, SwitchRead, At
<1> DEFINE source == file[job[t].snap[job[t].hit].path]
<1>1. CASE source = NoFile
  BY <1>0, <1>1, Returning DEF SwitchRead
<1>2. CASE source # NoFile
  <2> DEFINE l == [job[t] EXCEPT !.buf = source]
  <2>1. Go(t, "switch.write", l)
    BY <1>2 DEF SwitchRead
  <2>2. /\ l.op = job[t].op /\ l.ok = job[t].ok /\ l.cur = job[t].cur
        /\ l.snap = job[t].snap /\ l.hit = job[t].hit
    BY <1>0 DEF Job
  <2> HIDE DEF l
  <2> QED BY <1>0, <2>1, <2>2, Going DEF Same, Found
<1> QED BY <1>1, <1>2

LEMMA SwitchWriteDoes ==
    ASSUME IInv, NEW t \in Thread, SwitchWrite(t)
    PROVE  /\ pc[t] = "switch.write" /\ Others(t)
           /\ UNCHANGED <<rows, issued, born, gone, logins>>
           /\ \/ /\ file' = [file EXCEPT ![Live] = job[t].buf]
                 /\ pc'[t] = "switch.commit" /\ Found(t)
              \/ Idle(t) /\ UNCHANGED file
<1>0. /\ TypeOK /\ pc[t] = "switch.write" /\ UNCHANGED <<rows, issued, born, gone, logins>>
  BY DEF IInv, SwitchWrite, At
<1>1. CASE /\ file' = [file EXCEPT ![Live] = job[t].buf]
           /\ Go(t, "switch.commit", [job[t] EXCEPT !.buf = NoFile])
  BY <1>0, <1>1, BufferGone
<1>2. CASE Return(t) /\ UNCHANGED file
  BY <1>0, <1>2, Returning
<1> QED BY <1>1, <1>2 DEF SwitchWrite

LEMMA SwitchCommitDoes ==
    ASSUME IInv, NEW t \in Thread, SwitchCommit(t)
    PROVE  /\ pc[t] = "switch.commit" /\ Others(t) /\ Idle(t)
           /\ UNCHANGED <<file, issued, born, gone, logins>>
           /\ \/ rows' = Committed(rows, Activate(job[t].snap, job[t].hit))
              \/ UNCHANGED rows
  BY Returning DEF SwitchCommit, IInv, At

LEMMA DeleteCommitDoes ==
    ASSUME IInv, NEW t \in Thread, DeleteCommit(t)
    PROVE  /\ pc[t] = "delete.commit" /\ Others(t)
           /\ UNCHANGED <<file, issued, born, logins>>
           /\ \/ Idle(t) /\ UNCHANGED <<rows, gone>>
              \/ \E removed \in SUBSET Listed(rows) :
                   /\ rows' = Committed(rows,
                                [i \in AccountID |-> IF i \in removed THEN NoRow ELSE rows[i]])
                   /\ gone' = gone \cup removed
                   /\ pc'[t] = "delete.remove" /\ Same(t)
                   /\ job'[t].snap = [i \in AccountID |->
                         IF i \in removed /\ IsManaged(rows[i].path)
                         THEN rows[i] ELSE NoRow]
<1>0. TypeOK /\ job[t] \in Job /\ pc[t] = "delete.commit" /\ UNCHANGED <<file, issued, born, logins>>
  BY DEF IInv, TypeOK, DeleteCommit, At
<1> DEFINE removed == Selected(rows, job[t].sel)
           rest == [i \in AccountID |-> IF i \in removed THEN NoRow ELSE rows[i]]
           managed == [i \in AccountID |->
                         IF i \in removed /\ IsManaged(rows[i].path)
                         THEN rows[i] ELSE NoRow]
           l == [job[t] EXCEPT !.snap = managed]
<1>1. removed \in SUBSET Listed(rows)
  BY DEF Selected
<1>2. CASE /\ rows' = Committed(rows, rest)
           /\ gone' = gone \cup removed
           /\ Go(t, "delete.remove", l)
  <2> HIDE DEF managed
  <2>1. l.op = job[t].op /\ l.ok = job[t].ok /\ l.snap = managed
    BY <1>0 DEF Job
  <2> HIDE DEF l, removed, rest
  <2>2. pc'[t] = "delete.remove" /\ Same(t) /\ job'[t].snap = managed /\ Others(t)
    BY <1>0, <1>2, <2>1, Going DEF Same
  <2> QED BY <1>0, <1>1, <1>2, <2>2 DEF rest, managed
<1>3. CASE Return(t) /\ UNCHANGED <<rows, gone>>
  BY <1>0, <1>3, Returning
<1> QED BY <1>2, <1>3 DEF DeleteCommit

LEMMA DeleteRemoveDoes ==
    ASSUME IInv, NEW t \in Thread, DeleteRemove(t)
    PROVE  /\ pc[t] = "delete.remove" /\ Others(t)
           /\ UNCHANGED <<rows, issued, born, gone, logins>>
           /\ \/ Idle(t) /\ UNCHANGED file
              \/ \E i \in Listed(job[t].snap) :
                   /\ pc'[t] = "delete.remove" /\ Same(t)
                   /\ job'[t].snap = [job[t].snap EXCEPT ![i] = NoRow]
                   /\ \/ file' = [file EXCEPT
                                    ![SafeProfileName[job[t].snap[i].profile]] = NoFile]
                      \/ UNCHANGED file
<1>0. /\ TypeOK /\ job[t] \in Job /\ pc[t] = "delete.remove"
      /\ UNCHANGED <<rows, issued, born, gone, logins>>
  BY DEF IInv, TypeOK, DeleteRemove, At
<1>1. CASE Listed(job[t].snap) = {}
  BY <1>0, <1>1, Returning DEF DeleteRemove
<1>2. CASE Listed(job[t].snap) # {}
  <2>1. PICK i \in Listed(job[t].snap) :
          /\ Go(t, "delete.remove", [job[t] EXCEPT !.snap[i] = NoRow])
          /\ \/ file' = [file EXCEPT
                           ![SafeProfileName[job[t].snap[i].profile]] = NoFile]
             \/ UNCHANGED file
    BY <1>2 DEF DeleteRemove
  <2> DEFINE l == [job[t] EXCEPT !.snap[i] = NoRow]
  <2>2. /\ l.op = job[t].op /\ l.ok = job[t].ok
        /\ l.snap = [job[t].snap EXCEPT ![i] = NoRow]
    BY <1>0 DEF Job
  <2>3. Go(t, "delete.remove", l)
    BY <2>1
  <2> HIDE DEF l
  <2>4. pc'[t] = "delete.remove" /\ Same(t) /\ Others(t)
          /\ job'[t].snap = [job[t].snap EXCEPT ![i] = NoRow]
    BY <1>0, <2>2, <2>3, Going DEF Same
  <2> QED BY <1>0, <2>1, <2>4
<1> QED BY <1>1, <1>2

LEMMA LoginWriteDoes ==
    ASSUME IInv, NEW t \in Thread, LoginWrite(t)
    PROVE  /\ pc[t] = "login.write" /\ Others(t)
           /\ UNCHANGED <<rows, born, gone>>
           /\ \/ Idle(t) /\ UNCHANGED <<file, issued>>
              \/ \E p \in job[t].sel, c \in Cfg :
                   /\ issued[Owner[SafeProfileName[p]]] < MaxVer
                   /\ file' = [file EXCEPT ![SafeProfileName[p]] =
                                 NewToken(Owner[SafeProfileName[p]], c)]
                   /\ pc'[t] = "login.add" /\ job'[t] = job[t]
<1>0. TypeOK /\ pc[t] = "login.write" /\ UNCHANGED <<rows, born, gone>>
  BY DEF IInv, LoginWrite, At
<1>1. CASE Return(t) /\ UNCHANGED <<file, issued, logins>>
  BY <1>0, <1>1, Returning
<1>2. CASE ~(Return(t) /\ UNCHANGED <<file, issued, logins>>)
  <2>1. PICK p \in job[t].sel, c \in Cfg :
          /\ issued[Owner[SafeProfileName[p]]] < MaxVer
          /\ file' = [file EXCEPT ![SafeProfileName[p]] =
                        NewToken(Owner[SafeProfileName[p]], c)]
          /\ Go(t, "login.add", job[t])
    BY <1>2 DEF LoginWrite
  <2> QED BY <1>0, <2>1, Going
<1> QED BY <1>1, <1>2

LEMMA LoginAddDoes ==
    ASSUME IInv, NEW t \in Thread, LoginAdd(t)
    PROVE  /\ pc[t] = "login.add" /\ Others(t) /\ Idle(t)
           /\ UNCHANGED <<file, issued, gone, logins>>
           /\ \/ \E i \in AccountID, p \in job[t].sel :
                   AddRow(i, p, SafeProfileName[p], FALSE)
              \/ UNCHANGED <<rows, born>>
  BY Returning DEF LoginAdd, IInv, At

-----------------------------------------------------------------------------
(* Which steps write what, in every interleaving                          *)

(* The steps of a thread that change the table.                            *)
LEMMA RowSteps ==
    ASSUME IInv, NEW t \in Thread, Step(t),
           ~SyncCommit(t), ~SwitchCommit(t), ~DeleteCommit(t), ~LoginAdd(t)
    PROVE  UNCHANGED <<rows, born, gone>>
  BY SyncReadDoes, SyncListDoes, SyncMatchDoes, SyncCopyDoes, SyncBackDoes,
     SyncMergeDoes, SyncPutDoes, ListReadDoes, SwitchListDoes, SwitchReadDoes,
     SwitchWriteDoes, DeleteRemoveDoes, LoginWriteDoes
  DEF Step, Sync, Switch, Delete, Login, disk

(* The steps of a thread that change a file.                               *)
LEMMA FileSteps ==
    ASSUME IInv, NEW t \in Thread, Step(t),
           ~SyncBack(t), ~SyncPut(t), ~SwitchWrite(t), ~DeleteRemove(t), ~LoginWrite(t)
    PROVE  UNCHANGED file
  BY SyncReadDoes, SyncListDoes, SyncMatchDoes, SyncCopyDoes, SyncMergeDoes,
     SyncCommitDoes, ListReadDoes, SwitchListDoes, SwitchReadDoes, SwitchCommitDoes,
     DeleteCommitDoes, LoginAddDoes
  DEF Step, Sync, Switch, Delete, Login, disk

(* The request that a thread serves at place p.                            *)
OpFits(p, o) ==
    /\ p = "idle" => o = "none"
    /\ p \in {"sync.read", "sync.list", "sync.match"} \cup Matched => o \in {"list", "switch"}
    /\ p = "list.read" => o = "list"
    /\ p \in {"switch.list"} \cup Chosen => o = "switch"
    /\ p \in {"delete.commit", "delete.remove"} => o = "delete"
    /\ p \in {"login.write", "login.add"} => o = "login"

(* Every step of a thread is one of a busy thread and leaves the others.   *)
LEMMA StepMoves ==
    ASSUME IInv, NEW t \in Thread, Step(t)
    PROVE  /\ pc[t] # "idle" /\ Others(t)
           /\ OpFits(pc[t], job[t].op) => OpFits(pc'[t], job'[t].op)
<1> USE DEF Over, Idle, Same, Found, OpFits, Matched, Chosen
<1>1. CASE SyncRead(t)
  BY <1>1, SyncReadDoes
<1>2. CASE SyncList(t)
  BY <1>2, SyncListDoes
<1>3. CASE SyncMatch(t)
  <2>1. /\ pc[t] = "sync.match" /\ Others(t)
        /\ \/ Over(t, TRUE)
           \/ pc'[t] \in {"sync.match", "sync.copy", "sync.merge"} /\ Same(t)
    BY <1>3, SyncMatchDoes
  <2> QED BY <2>1
<1>4. CASE SyncCopy(t)
  BY <1>4, SyncCopyDoes
<1>5. CASE SyncBack(t)
  BY <1>5, SyncBackDoes
<1>6. CASE SyncMerge(t)
  <2>1. /\ pc[t] = "sync.merge" /\ Others(t) /\ Same(t)
        /\ pc'[t] \in {"sync.merge", "sync.put", "sync.commit"}
    BY <1>6, SyncMergeDoes
  <2> QED BY <2>1
<1>7. CASE SyncPut(t)
  BY <1>7, SyncPutDoes
<1>8. CASE SyncCommit(t)
  BY <1>8, SyncCommitDoes
<1>9. CASE ListRead(t)
  BY <1>9, ListReadDoes
<1>10. CASE SwitchList(t)
  BY <1>10, SwitchListDoes
<1>11. CASE SwitchRead(t)
  BY <1>11, SwitchReadDoes
<1>12. CASE SwitchWrite(t)
  BY <1>12, SwitchWriteDoes
<1>13. CASE SwitchCommit(t)
  BY <1>13, SwitchCommitDoes
<1>14. CASE DeleteCommit(t)
  BY <1>14, DeleteCommitDoes
<1>15. CASE DeleteRemove(t)
  BY <1>15, DeleteRemoveDoes
<1>16. CASE LoginWrite(t)
  BY <1>16, LoginWriteDoes
<1>17. CASE LoginAdd(t)
  BY <1>17, LoginAddDoes
<1> QED
  BY <1>1, <1>2, <1>3, <1>4, <1>5, <1>6, <1>7, <1>8, <1>9, <1>10, <1>11, <1>12,
     <1>13, <1>14, <1>15, <1>16, <1>17
  DEF Step, Sync, Switch, Delete, Login

(* Where the steps of a request lead.                                      *)
LEMMA Places ==
    ASSUME IInv, NEW t \in Thread
    PROVE  /\ Sync(t) => pc'[t] \in {"sync.list", "sync.match"} \cup Matched \cup Ended \cup {"idle"}
           /\ Switch(t) => pc'[t] \in Chosen \cup {"idle"}
           /\ Delete(t) => pc'[t] \in {"delete.remove", "idle"}
           /\ Login(t) => pc'[t] \in {"login.add", "idle"}
<1> USE DEF Matched, Chosen, Ended, Idle, Over
<1>1. SyncMatch(t) => pc'[t] \in {"sync.match", "sync.copy", "sync.merge"} \cup Ended
  BY SyncMatchDoes
<1>2. SyncMerge(t) => pc'[t] \in {"sync.merge", "sync.put", "sync.commit"}
  BY SyncMergeDoes
<1>3. Sync(t) => pc'[t] \in {"sync.list", "sync.match"} \cup Matched \cup Ended \cup {"idle"}
  BY <1>1, <1>2, SyncReadDoes, SyncListDoes, SyncCopyDoes, SyncBackDoes, SyncPutDoes,
     SyncCommitDoes, ListReadDoes DEF Sync
<1>4. Switch(t) => pc'[t] \in Chosen \cup {"idle"}
  BY SwitchListDoes, SwitchReadDoes, SwitchWriteDoes, SwitchCommitDoes DEF Switch
<1>5. Delete(t) => pc'[t] \in {"delete.remove", "idle"}
  BY DeleteCommitDoes, DeleteRemoveDoes DEF Delete
<1>6. Login(t) => pc'[t] \in {"login.add", "idle"}
  BY LoginWriteDoes, LoginAddDoes DEF Login
<1> QED BY <1>3, <1>4, <1>5, <1>6

(* The CLI replaces auth.json.                                             *)
LEMMA CliDoes ==
    ASSUME IInv, Cli
    PROVE  /\ UNCHANGED <<rows, born, gone, logins, pc, job>>
           /\ CliAtRest => AllIdle
           /\ \E f : file' = [file EXCEPT ![Live] = f]
  BY DEF Cli, CliRefresh, CliLogin, CliLogout, CliConfig, CliMayWrite

-----------------------------------------------------------------------------
(* The only way the registry goes wrong                                    *)

(* A sync or switch is about to write back a list that does not have the   *)
(* accounts of the table: another request added or deleted one since.      *)
OutdatedCommit ==
    \E t \in Thread :
        /\ pc[t] \in {"sync.commit", "switch.commit"}
        /\ Listed(job[t].snap) # Listed(rows)

Registry == gone \subseteq born /\ RegistryExact

(* Otherwise a sync or switch commits the accounts it has found.           *)
LEMMA CurrentCommits ==
    ASSUME IInv, ~OutdatedCommit, NEW t \in Thread, SyncCommit(t) \/ SwitchCommit(t)
    PROVE  Listed(rows') = Listed(rows) /\ UNCHANGED <<born, gone>>
<1> DEFINE next == Activate(job[t].snap, job[t].hit)
<1>1. pc[t] \in {"sync.commit", "switch.commit"} /\ UNCHANGED <<born, gone>>
  BY SyncCommitDoes, SwitchCommitDoes
<1>2. /\ job[t].snap \in Table /\ job[t].hit \in AccountID
      /\ Listed(job[t].snap) = Listed(rows)
  BY <1>1, ThreadFacts DEF OutdatedCommit, LocalsOK, Job, Matched, Chosen, Listed
<1>3. next \in Table /\ Listed(next) = Listed(rows)
  <2>1. next \in Table
    BY <1>2, ActivateTable
  <2>2. ASSUME NEW j \in AccountID PROVE next[j] = NoRow <=> job[t].snap[j] = NoRow
    <3>1. CASE job[t].snap[j] = NoRow
      BY <3>1 DEF Activate
    <3>2. CASE job[t].snap[j] # NoRow
      <4>1. job[t].snap[j] \in Row
        BY <1>2, <3>2 DEF Table
      <4> DEFINE r == [job[t].snap[j] EXCEPT !.active = (j = job[t].hit),
                         !.used = job[t].snap[j].used \/ j = job[t].hit]
      <4>2. (j = job[t].hit) \in BOOLEAN /\ (job[t].snap[j].used \/ j = job[t].hit) \in BOOLEAN
        BY <4>1 DEF Row
      <4>3. r \in Row
        BY <4>1, <4>2 DEF Row
      <4>4. next[j] = r
        BY <3>2 DEF Activate
      <4> HIDE DEF r, next
      <4> QED BY <3>2, <4>3, <4>4, StoreAssumption
    <3> QED BY <3>1, <3>2
  <2> HIDE DEF next
  <2> QED BY <1>2, <2>1, <2>2 DEF Listed
<1> HIDE DEF next
<1>4. Listed(Committed(rows, next)) = Listed(rows)
  BY <1>3, NormalizeAccountsTable DEF Committed
<1>5. rows' \in {rows, Committed(rows, next)}
  BY SyncCommitDoes, SwitchCommitDoes DEF next
<1> QED BY <1>1, <1>4, <1>5

LEMMA RegistryStep ==
    ASSUME IInv, Registry, ~OutdatedCommit, [Next]_vars
    PROVE  Registry'
<1>0. gone \subseteq born /\ Listed(rows) = born \ gone
  BY DEF Registry, RegistryExact
<1>1. SUFFICES gone' \subseteq born' /\ Listed(rows') = born' \ gone'
  BY DEF Registry, RegistryExact, Listed
<1>2. CASE UNCHANGED <<rows, born, gone>>
  BY <1>0, <1>2
<1>3. CASE \E t \in Thread : SyncCommit(t) \/ SwitchCommit(t)
  BY <1>0, <1>3, CurrentCommits
<1>4. CASE \E t \in Thread : DeleteCommit(t)
  <2>1. PICK t \in Thread : DeleteCommit(t)
    BY <1>4
  <2>2. CASE UNCHANGED <<rows, gone>>
    BY <1>2, <2>1, <2>2, DeleteCommitDoes
  <2>3. ASSUME NEW removed \in SUBSET Listed(rows),
               rows' = Committed(rows,
                         [i \in AccountID |-> IF i \in removed THEN NoRow ELSE rows[i]]),
               gone' = gone \cup removed
        PROVE  gone' \subseteq born' /\ Listed(rows') = born' \ gone'
    <3>1. rows \in Table /\ Consistent(rows) /\ removed \in SUBSET AccountID
      BY DEF IInv, TypeOK, StoreConsistent, Listed
    <3>2. Listed(rows') = Listed(rows) \ removed
      BY <2>3, <3>1, RestCommits
    <3> QED BY <1>0, <2>1, <2>3, <3>2, DeleteCommitDoes
  <2> QED BY <2>1, <2>2, <2>3, DeleteCommitDoes
<1>5. ASSUME NEW i \in AccountID, NEW p \in Profile, NEW path \in Path,
             NEW active \in BOOLEAN, AddRow(i, p, path, active), UNCHANGED gone
      PROVE  gone' \subseteq born' /\ Listed(rows') = born' \ gone'
  <2>1. born' = born \cup {i} /\ i \notin born
    BY <1>5 DEF AddRow, First
  <2>2. Listed(rows') = Listed(rows) \cup {i}
    BY <1>0, <1>5, <2>1, AddCommits
  <2> QED BY <1>0, <1>5, <2>1, <2>2
<1>6. CASE \E t \in Thread : LoginAdd(t)
  <2>1. PICK t \in Thread : LoginAdd(t)
    BY <1>6
  <2>2. \A p \in job[t].sel : p \in Profile /\ SafeProfileName[p] \in Path
    BY <2>1, LoginAddDoes, ThreadFacts, ServiceAssumption DEF LocalsOK, Path
  <2> QED BY <1>2, <1>5, <2>1, <2>2, LoginAddDoes
<1>7. CASE AddAccount
  BY <1>5, <1>7, ServiceAssumption DEF AddAccount
<1>8. CASE PatchAccount
  BY <1>0, <1>8, PatchCommits DEF PatchAccount, SameRows
<1>9. ASSUME NEW t \in Thread, Step(t)
      PROVE  gone' \subseteq born' /\ Listed(rows') = born' \ gone'
  BY <1>2, <1>3, <1>4, <1>6, <1>9, RowSteps
<1>10. ASSUME NEW t \in Thread, StartList(t) \/ Start(t) PROVE UNCHANGED <<rows, born, gone>>
  BY <1>10, Beginning DEF disk
<1>11. Cli \/ Crash \/ UNCHANGED vars => UNCHANGED <<rows, born, gone>>
  BY CliDoes DEF Crash, vars, disk
<1> QED BY <1>2, <1>7, <1>8, <1>9, <1>10, <1>11 DEF Next, Thread

(* Requests, ticker and CLI in any order, with failing writes and crashes: *)
(* an account is lost from the list, or a deleted one is back in it, in no *)
(* behaviour in which no sync or switch writes back a list that other      *)
(* requests have outdated.  Nothing else needs to be guarded for the list  *)
(* to be exact.  (A behaviour may stop anywhere, so the outdated list is   *)
(* there before the loss.)                                                 *)
THEOREM LostByOldListOnly ==
    Spec => []RegistryExact \/ <>OutdatedCommit
<1>1. Init => Registry
  BY DEF Init, Registry, RegistryExact, Listed, EmptyTable
<1>2. IInv /\ Registry /\ ~OutdatedCommit /\ [Next]_vars => Registry'
  BY RegistryStep
<1>3. Registry => RegistryExact
  BY DEF Registry
<1> QED BY <1>1, <1>2, <1>3, Invariant, PTL DEF Spec

-----------------------------------------------------------------------------
(* The only way a profile receives foreign credentials                     *)

(* A sync is about to copy an auth.json that is of another account than    *)
(* the one it compared: it changed hands between the two reads.            *)
SwappedCopy ==
    \E t \in Thread : pc[t] = "sync.back" /\ job[t].buf.acct # job[t].cur.acct

(* The profile that a sync will write back to is the one of the account it *)
(* compared, and a merged file is of the account of its profile.           *)
OwnTarget(t) ==
    /\ pc[t] \in {"sync.copy", "sync.back"} =>
         job[t].cur.acct = Owner[job[t].snap[job[t].hit].path]
    /\ pc[t] = "sync.put" =>
         job[t].buf.acct = Owner[job[t].snap[job[t].at].path]

OwnProfiles == ProfileHoldsOwnCredentials /\ \A t \in Thread : OwnTarget(t)

LEMMA CredentialsWritten ==
    ASSUME IInv, ProfileHoldsOwnCredentials, NEW q \in Place, NEW f,
           file' = [file EXCEPT ![q] = f],
           q \in Dir /\ f # NoFile => f.acct = Owner[q]
    PROVE  ProfileHoldsOwnCredentials'
<1>1. file \in [Place -> Auth \cup {NoFile}]
  BY DEF IInv, TypeOK
<1>2. \A d \in Dir : file'[d] = IF d = q THEN f ELSE file[d]
  BY <1>1, ThreadFacts, ServiceAssumption DEF Place, Path
<1> QED BY <1>2 DEF ProfileHoldsOwnCredentials

LEMMA CredentialsStep ==
    ASSUME IInv, OwnProfiles, ~SwappedCopy, [Next]_vars
    PROVE  ProfileHoldsOwnCredentials'
<1>0. ProfileHoldsOwnCredentials
  BY DEF OwnProfiles
<1>1. CASE UNCHANGED file
  BY <1>0, <1>1 DEF ProfileHoldsOwnCredentials
<1>2. Live \in Place /\ Live \notin Dir /\ Dir \subseteq Place
  BY ServiceAssumption DEF Place, Path
<1>3. ASSUME NEW t \in Thread, Step(t), ~UNCHANGED file PROVE ProfileHoldsOwnCredentials'
  <2>1. CASE SyncBack(t)
    <3> DEFINE p == job[t].snap[job[t].hit].path
    <3>1. pc[t] = "sync.back" /\ file' = [file EXCEPT ![p] = job[t].buf]
      BY <1>3, <2>1, SyncBackDoes
    <3>2. p \in Dir /\ job[t].buf.acct = Owner[p]
      BY <3>1, ThreadFacts DEF LocalsOK, IsManaged, OwnProfiles, OwnTarget, SwappedCopy
    <3> HIDE DEF p
    <3> QED BY <1>0, <1>2, <3>1, <3>2, CredentialsWritten
  <2>2. CASE SyncPut(t)
    <3> DEFINE p == job[t].snap[job[t].at].path
    <3>1. pc[t] = "sync.put" /\ file' = [file EXCEPT ![p] = job[t].buf]
      BY <1>3, <2>2, SyncPutDoes
    <3>2. p \in Dir /\ job[t].buf.acct = Owner[p]
      BY <3>1, ThreadFacts DEF LocalsOK, IsManaged, OwnProfiles, OwnTarget
    <3> HIDE DEF p
    <3> QED BY <1>0, <1>2, <3>1, <3>2, CredentialsWritten
  <2>3. CASE SwitchWrite(t)
    BY <1>0, <1>2, <1>3, <2>3, SwitchWriteDoes, CredentialsWritten
  <2>4. CASE DeleteRemove(t)
    <3>1. PICK i \in Listed(job[t].snap) :
            file' = [file EXCEPT ![SafeProfileName[job[t].snap[i].profile]] = NoFile]
      BY <1>3, <2>4, DeleteRemoveDoes
    <3>2. SafeProfileName[job[t].snap[i].profile] \in Place
      BY <1>2, ThreadFacts, ServiceAssumption DEF Job, Table, Listed, Row
    <3> QED BY <1>0, <3>1, <3>2, CredentialsWritten
  <2>5. CASE LoginWrite(t)
    <3>1. PICK p \in job[t].sel, c \in Cfg :
            file' = [file EXCEPT ![SafeProfileName[p]] =
                       NewToken(Owner[SafeProfileName[p]], c)]
      BY <1>3, <2>5, LoginWriteDoes
    <3>2. SafeProfileName[p] \in Place
      BY <1>2, <2>5, LoginWriteDoes, ThreadFacts, ServiceAssumption DEF LocalsOK
    <3>3. NewToken(Owner[SafeProfileName[p]], c).acct = Owner[SafeProfileName[p]]
      BY DEF NewToken
    <3> QED BY <1>0, <3>1, <3>2, <3>3, CredentialsWritten
  <2> QED BY <1>3, <2>1, <2>2, <2>3, <2>4, <2>5, FileSteps
<1>4. CASE Cli
  BY <1>0, <1>2, <1>4, CliDoes, CredentialsWritten
<1>5. ASSUME NEW t \in Thread, StartList(t) \/ Start(t) PROVE UNCHANGED file
  BY <1>5, Beginning DEF disk
<1>6. AddAccount \/ PatchAccount \/ Crash \/ UNCHANGED vars => UNCHANGED file
  BY DEF AddAccount, PatchAccount, Crash, vars, disk
<1> QED BY <1>1, <1>3, <1>4, <1>5, <1>6 DEF Next, Thread

LEMMA OwnTargetStep ==
    ASSUME IInv, OwnProfiles, NEW t \in Thread, Step(t)
    PROVE  OwnTarget(t)'
<1>1. CASE pc'[t] \notin {"sync.copy", "sync.back", "sync.put"}
  BY <1>1 DEF OwnTarget
<1> USE DEF Matched, Chosen, Ended
<1>2. CASE SyncMatch(t)
  <2>1. CASE pc'[t] = "sync.copy"
    <3>1. PICK i \in Unvisited(t) :
            /\ job'[t].cur = job[t].cur /\ job'[t].snap = job[t].snap /\ job'[t].hit = i
            /\ file[job[t].snap[i].path] # NoFile
            /\ SameAuth(job[t].cur, file[job[t].snap[i].path])
            /\ IsManaged(job[t].snap[i].path)
      BY <1>2, <2>1, SyncMatchDoes DEF Over
    <3>2. job[t].cur.acct = file[job[t].snap[i].path].acct
      BY <3>1 DEF SameAuth, SameAccount
    <3>3. file[job[t].snap[i].path].acct = Owner[job[t].snap[i].path]
      BY <3>1 DEF OwnProfiles, ProfileHoldsOwnCredentials, IsManaged
    <3> QED BY <2>1, <3>1, <3>2, <3>3 DEF OwnTarget
  <2>2. pc'[t] \in {"sync.match", "sync.copy", "sync.merge"} \cup Ended
    BY <1>2, SyncMatchDoes DEF Over
  <2> QED BY <1>1, <2>1, <2>2
<1>3. CASE SyncCopy(t)
  <2>1. CASE pc'[t] = "sync.back"
    <3>1. pc[t] = "sync.copy" /\ Found(t)
      BY <1>3, <2>1, SyncCopyDoes DEF Over
    <3> QED BY <2>1, <3>1 DEF OwnTarget, OwnProfiles, Found
  <2>2. pc'[t] \in {"sync.back"} \cup Ended
    BY <1>3, SyncCopyDoes DEF Over
  <2> QED BY <1>1, <2>1, <2>2
<1>4. CASE SyncMerge(t)
  <2>1. CASE pc'[t] = "sync.put"
    <3>1. PICK i \in ManagedLeft(t) :
            /\ job'[t].snap = job[t].snap /\ job'[t].at = i
            /\ file[job[t].snap[i].path] # NoFile
            /\ job'[t].buf = MergeConfig(job[t].cur, file[job[t].snap[i].path])
      BY <1>4, <2>1, SyncMergeDoes DEF Found
    <3> DEFINE p == job[t].snap[i].path
    <3>2. p \in Dir
      BY <3>1 DEF ManagedLeft, IsManaged
    <3>3. job[t].cur \in Auth
      BY <1>4, SyncMergeDoes, ThreadFacts DEF LocalsOK, Job
    <3>4. file[p] \in Auth /\ file[p].acct = Owner[p]
      BY <3>1, <3>2, ThreadFacts DEF OwnProfiles, ProfileHoldsOwnCredentials
    <3>5. job'[t].buf.acct = Owner[p]
      BY <3>1, <3>3, <3>4, MergeKeepsKey
    <3> QED BY <2>1, <3>1, <3>5 DEF OwnTarget
  <2>2. pc'[t] \in {"sync.merge", "sync.put", "sync.commit"}
    BY <1>4, SyncMergeDoes
  <2> QED BY <1>1, <2>1, <2>2
<1>5. CASE SyncRead(t) \/ SyncList(t) \/ SyncBack(t) \/ SyncPut(t) \/ SyncCommit(t) \/ ListRead(t)
  BY <1>1, <1>5, SyncReadDoes, SyncListDoes, SyncBackDoes, SyncPutDoes, SyncCommitDoes,
     ListReadDoes DEF Over, Idle
<1>6. CASE Switch(t)
  BY <1>1, <1>6, SwitchListDoes, SwitchReadDoes, SwitchWriteDoes, SwitchCommitDoes
  DEF Switch, Idle
<1>7. CASE Delete(t) \/ Login(t)
  BY <1>1, <1>7, DeleteCommitDoes, DeleteRemoveDoes, LoginWriteDoes, LoginAddDoes
  DEF Delete, Login, Idle
<1> QED BY <1>2, <1>3, <1>4, <1>5, <1>6, <1>7 DEF Step, Sync

LEMMA OwnProfilesStep ==
    ASSUME IInv, OwnProfiles, ~SwappedCopy, [Next]_vars
    PROVE  OwnProfiles'
<1>1. ASSUME NEW u \in Thread, UNCHANGED <<pc[u], job[u]>> PROVE OwnTarget(u)'
  BY <1>1 DEF OwnTarget, OwnProfiles
<1>2. ASSUME NEW t \in Thread, Step(t), NEW u \in Thread PROVE OwnTarget(u)'
  <2>1. CASE u = t
    BY <1>2, <2>1, OwnTargetStep
  <2>2. CASE u # t
    BY <1>1, <1>2, <2>2, StepMoves DEF Others
  <2> QED BY <2>1, <2>2
<1>3. ASSUME NEW t \in Thread, StartList(t) \/ Start(t), NEW u \in Thread
      PROVE  OwnTarget(u)'
  <2>1. CASE u = t
    BY <1>3, <2>1, Beginning DEF OwnTarget
  <2>2. CASE u # t
    BY <1>1, <1>3, <2>2, Beginning DEF Others
  <2> QED BY <2>1, <2>2
<1>4. ASSUME Crash, NEW u \in Thread PROVE OwnTarget(u)'
  <2>1. pc'[u] = "idle"
    BY <1>4 DEF Crash
  <2> QED BY <2>1 DEF OwnTarget
<1>5. AddAccount \/ PatchAccount \/ Cli \/ UNCHANGED vars => UNCHANGED <<pc, job>>
  BY CliDoes DEF AddAccount, PatchAccount, vars
<1>6. ASSUME NEW u \in Thread PROVE OwnTarget(u)'
  <2>1. CASE UNCHANGED <<pc, job>>
    BY <1>1, <2>1
  <2> QED BY <1>2, <1>3, <1>4, <1>5, <2>1 DEF Next, Thread
<1> QED BY <1>6, CredentialsStep DEF OwnProfiles

(* In any order of requests, ticker and CLI, over failing writes and       *)
(* crashes: a managed profile receives the credentials of another account  *)
(* in no behaviour in which auth.json never changes hands between the      *)
(* moment a sync compares it and the moment copyFile opens it again.       *)
(* Matching alone, merging, switching and logging in never do it.          *)
THEOREM ForeignBySwapOnly ==
    Spec => []ProfileHoldsOwnCredentials \/ <>SwappedCopy
<1>1. Init => OwnProfiles
  <2> SUFFICES ASSUME Init PROVE OwnProfiles
    OBVIOUS
  <2>1. ASSUME NEW d \in Dir, file[d] # NoFile PROVE file[d].acct = Owner[d]
    <3>1. d \in Place /\ d # Live /\ d \notin ImportPath
      BY StoreAssumption, ServiceAssumption DEF Place, Path
    <3> QED BY <2>1, <3>1 DEF Init
  <2> QED BY <2>1 DEF OwnProfiles, ProfileHoldsOwnCredentials, OwnTarget, Init
<1>2. IInv /\ OwnProfiles /\ ~SwappedCopy /\ [Next]_vars => OwnProfiles'
  BY OwnProfilesStep
<1>3. OwnProfiles => ProfileHoldsOwnCredentials
  BY DEF OwnProfiles
<1> QED BY <1>1, <1>2, <1>3, Invariant, PTL DEF Spec


-----------------------------------------------------------------------------
(* One request at a time                                                   *)

OneBusy == \A t, u \in Thread : pc[t] # "idle" /\ pc[u] # "idle" => t = u

Serving == OneBusy /\ \A t \in Thread : OpFits(pc[t], job[t].op)

(* Whose turn a step of the system is.                                     *)
ThreadTurn(t) ==
    Step(t) /\ \A u \in Thread : u # t => pc[u] = "idle" /\ pc'[u] = "idle"

StartTurn(t) ==
    /\ StartList(t) \/ Start(t)
    /\ UNCHANGED disk /\ AllIdle
    /\ \A u \in Thread : u # t => pc'[u] = "idle"

StoreTurn ==
    /\ AddAccount \/ PatchAccount
    /\ AllIdle /\ UNCHANGED <<file, issued, gone, logins, pc, job>>

CliTurn ==
    /\ UNCHANGED <<rows, born, gone, logins, pc, job>>
    /\ CliAtRest => AllIdle
    /\ Cli /\ \E f : file' = [file EXCEPT ![Live] = f]

Stopped ==
    /\ UNCHANGED disk
    /\ \A u \in Thread : pc'[u] = "idle" /\ job'[u].op = "none"

LEMMA Turns ==
    ASSUME OneAtATime, IInv, OneBusy, [Next]_vars
    PROVE  \/ \E t \in Thread : ThreadTurn(t)
           \/ \E t \in Thread : StartTurn(t)
           \/ StoreTurn \/ CliTurn \/ Stopped \/ UNCHANGED vars
<1>1. ASSUME NEW t \in Thread, Step(t) PROVE ThreadTurn(t)
  BY <1>1, StepMoves DEF OneBusy, Others, ThreadTurn
<1>2. ASSUME NEW t \in Thread, StartList(t) \/ Start(t) PROVE StartTurn(t)
  BY <1>2, Beginning DEF AllIdle, Others, StartTurn
<1>3. CASE AddAccount \/ PatchAccount
  BY <1>3 DEF AddAccount, PatchAccount, MayStart, StoreTurn
<1>4. CASE Cli
  BY <1>4, CliDoes DEF CliTurn
<1>5. CASE Crash
  BY <1>5 DEF Crash, NoJob, Stopped
<1> QED BY <1>1, <1>2, <1>3, <1>4, <1>5 DEF Next, Thread

LEMMA ServingInit == Init => Serving
<1>1. NoJob.op = "none"
  BY DEF NoJob
<1> QED BY <1>1 DEF Init, Serving, OneBusy, OpFits, Matched, Chosen

LEMMA ServingStep ==
    ASSUME OneAtATime, IInv, Serving, [Next]_vars
    PROVE  Serving'
<1>1. ASSUME NEW t \in Thread, ThreadTurn(t) PROVE Serving'
  BY <1>1, StepMoves DEF ThreadTurn, Others, Serving, OneBusy
<1>2. ASSUME NEW t \in Thread, StartTurn(t) PROVE Serving'
  BY <1>2, Beginning DEF StartTurn, Others, Serving, OneBusy, OpFits, Matched, Chosen
<1>3. CASE StoreTurn \/ CliTurn \/ UNCHANGED vars
  BY <1>3 DEF StoreTurn, CliTurn, vars, Serving, OneBusy
<1>4. CASE Stopped
  BY <1>4 DEF Stopped, Serving, OneBusy, OpFits, Matched, Chosen
<1> QED BY <1>1, <1>2, <1>3, <1>4, Turns DEF Serving

(* One request is served at a time, and a thread's place is one of the     *)
(* request it serves.                                                      *)
LEMMA RequestsInTurn ==
    ASSUME OneAtATime
    PROVE  Spec => []Serving
  BY ServingInit, ServingStep, Invariant, PTL DEF Spec

-----------------------------------------------------------------------------
(* The registry is exact                                                   *)

Snapped == {"sync.match"} \cup Matched \cup Chosen

(* A list that a sync or a switch will write back is the table as it is.   *)
SnapCurrent == \A t \in Thread : pc[t] \in Snapped => job[t].snap = rows

LEMMA NotOutdated == SnapCurrent => ~OutdatedCommit
  BY DEF SnapCurrent, OutdatedCommit, Snapped, Matched, Chosen

(* A sync or switch that ends leaves accounts, profile names and paths.    *)
LEMMA CommitKeeps ==
    ASSUME IInv, SnapCurrent, NEW t \in Thread, SyncCommit(t) \/ SwitchCommit(t)
    PROVE  SameRows(rows, rows')
<1>1. pc[t] \in {"sync.commit", "switch.commit"}
  BY SyncCommitDoes, SwitchCommitDoes
<1>2. job[t].snap = rows /\ job[t].hit \in Listed(rows)
  BY <1>1, ThreadFacts DEF SnapCurrent, Snapped, Matched, Chosen, LocalsOK
<1>3. rows' = rows \/ rows' = Committed(rows, Activate(rows, job[t].hit))
  BY <1>2, SyncCommitDoes, SwitchCommitDoes
<1>4. rows \in Table /\ Consistent(rows)
  BY DEF IInv, TypeOK, StoreConsistent
<1> QED BY <1>2, <1>3, <1>4, ActivateCommits DEF SameRows

LEMMA SnapStep ==
    ASSUME OneAtATime, IInv, Serving, SnapCurrent, [Next]_vars
    PROVE  SnapCurrent'
<1> USE DEF Snapped, Matched, Chosen
<1>1. ASSUME NEW t \in Thread, ThreadTurn(t) PROVE SnapCurrent'
  <2>1. SUFFICES ASSUME pc'[t] \in Snapped PROVE job'[t].snap = rows'
    BY <1>1 DEF ThreadTurn, SnapCurrent
  <2> USE <2>1 DEF Over, Idle, Found, disk
  <2>2. pc[t] \in Snapped => job[t].snap = rows
    BY DEF SnapCurrent
  <2>3. CASE SyncRead(t)
    BY <2>3, SyncReadDoes
  <2>4. CASE SyncList(t)
    BY <2>4, SyncListDoes
  <2>5. CASE SyncMatch(t)
    <3>1. pc[t] = "sync.match" /\ UNCHANGED rows /\ (Over(t, TRUE) \/ job'[t].snap = job[t].snap)
      BY <2>5, SyncMatchDoes
    <3> QED BY <2>2, <3>1
  <2>6. CASE SyncCopy(t)
    BY <2>2, <2>6, SyncCopyDoes
  <2>7. CASE SyncBack(t)
    BY <2>2, <2>7, SyncBackDoes
  <2>8. CASE SyncMerge(t)
    BY <2>2, <2>8, SyncMergeDoes
  <2>9. CASE SyncPut(t)
    BY <2>2, <2>9, SyncPutDoes
  <2>10. CASE SyncCommit(t)
    BY <2>10, SyncCommitDoes
  <2>11. CASE ListRead(t)
    BY <2>11, ListReadDoes
  <2>12. CASE SwitchList(t)
    BY <2>12, SwitchListDoes
  <2>13. CASE SwitchRead(t)
    BY <2>2, <2>13, SwitchReadDoes
  <2>14. CASE SwitchWrite(t)
    BY <2>2, <2>14, SwitchWriteDoes
  <2>15. CASE SwitchCommit(t) \/ Delete(t) \/ Login(t)
    BY <2>15, SwitchCommitDoes, DeleteCommitDoes, DeleteRemoveDoes, LoginWriteDoes,
       LoginAddDoes DEF Delete, Login
  <2> QED
    BY <1>1, <2>3, <2>4, <2>5, <2>6, <2>7, <2>8, <2>9, <2>10, <2>11, <2>12, <2>13,
       <2>14, <2>15 DEF ThreadTurn, Step, Sync, Switch
<1>2. ASSUME NEW t \in Thread, StartTurn(t) PROVE SnapCurrent'
  BY <1>2, Beginning DEF StartTurn, SnapCurrent
<1>3. CASE StoreTurn
  BY <1>3 DEF StoreTurn, AllIdle, SnapCurrent
<1>4. CASE CliTurn \/ UNCHANGED vars
  BY <1>4 DEF CliTurn, vars, SnapCurrent
<1>5. CASE Stopped
  BY <1>5 DEF Stopped, SnapCurrent
<1> QED BY <1>1, <1>2, <1>3, <1>4, <1>5, Turns DEF Serving

-----------------------------------------------------------------------------
(* Managed profiles exist                                                  *)

(* Managed directories come from logins only, each session has its own.    *)
OwnDirectories ==
    /\ AddPath \cap Dir = {}
    /\ \A p, q \in LoginProfile : SafeProfileName[p] = SafeProfileName[q] => p = q

(* A managed account is in the directory of its login, with its auth file. *)
ManagedRows ==
    \A i \in Listed(rows) : IsManaged(rows[i].path) =>
        /\ rows[i].profile \in LoginProfile
        /\ rows[i].path = SafeProfileName[rows[i].profile]
        /\ file[rows[i].path] # NoFile

(* The directories a deletion still has to remove belong to no account.    *)
Removing(t) ==
    \A i \in Listed(job[t].snap) :
        /\ job[t].snap[i].profile \in LoginProfile
        /\ \A j \in Listed(rows) : rows[j].profile # job[t].snap[i].profile

(* A login has one profile, whose auth file it has written before it adds. *)
LoggingIn(t) ==
    \E p \in LoginProfile :
        job[t].sel = {p} /\ (pc[t] = "login.add" => file[SafeProfileName[p]] # NoFile)

Profiles ==
    /\ ManagedRows
    /\ \A t \in Thread : /\ pc[t] = "delete.remove" => Removing(t)
                         /\ pc[t] \in {"login.write", "login.add"} => LoggingIn(t)

(* Only a deletion removes a file of a managed directory.                  *)
LEMMA FilesStay ==
    ASSUME OneAtATime, IInv, OneBusy, [Next]_vars,
           \A t \in Thread : ~DeleteRemove(t), NEW d \in Dir, file[d] # NoFile
    PROVE  file'[d] # NoFile
<1>0. d \in Place /\ d # Live /\ file \in [Place -> Auth \cup {NoFile}]
  BY ThreadFacts, ServiceAssumption DEF IInv, TypeOK, Place, Path
<1>1. ASSUME NEW q, NEW f, file' = [file EXCEPT ![q] = f], q = Live \/ f # NoFile
      PROVE  file'[d] # NoFile
  BY <1>0, <1>1
<1>2. ASSUME NEW t \in Thread, Step(t) PROVE file'[d] # NoFile
  <2>1. CASE SyncBack(t)
    <3>1. job[t].buf # NoFile
      BY <2>1, SyncBackDoes, ThreadFacts DEF LocalsOK
    <3>2. CASE UNCHANGED file
      BY <3>2
    <3>3. CASE file' = [file EXCEPT ![job[t].snap[job[t].hit].path] = job[t].buf]
      BY <1>1, <3>1, <3>3
    <3> QED BY <2>1, <3>2, <3>3, SyncBackDoes
  <2>2. CASE SyncPut(t)
    <3>1. job[t].buf # NoFile
      BY <2>2, SyncPutDoes, ThreadFacts DEF LocalsOK
    <3>2. CASE UNCHANGED file
      BY <3>2
    <3>3. CASE file' = [file EXCEPT ![job[t].snap[job[t].at].path] = job[t].buf]
      BY <1>1, <3>1, <3>3
    <3> QED BY <2>2, <3>2, <3>3, SyncPutDoes
  <2>3. CASE SwitchWrite(t)
    BY <1>1, <2>3, SwitchWriteDoes
  <2>4. CASE LoginWrite(t)
    <3>1. CASE UNCHANGED file
      BY <3>1
    <3>2. ASSUME NEW p \in job[t].sel, NEW c \in Cfg,
                 issued[Owner[SafeProfileName[p]]] < MaxVer,
                 file' = [file EXCEPT ![SafeProfileName[p]] =
                            NewToken(Owner[SafeProfileName[p]], c)]
          PROVE  file'[d] # NoFile
      <4>1. p \in LoginProfile
        BY <2>4, LoginWriteDoes, ThreadFacts DEF LocalsOK
      <4>2. Owner[SafeProfileName[p]] \in Acct
        BY <4>1, ServiceAssumption, ThreadFacts
      <4>3. NewToken(Owner[SafeProfileName[p]], c) # NoFile
        BY <3>2, <4>2, NewTokenType, ServiceAssumption
      <4> QED BY <1>1, <3>2, <4>3
    <3> QED BY <2>4, <3>1, <3>2, LoginWriteDoes
  <2> QED BY <1>2, <2>1, <2>2, <2>3, <2>4, FileSteps
<1>3. CASE CliTurn
  BY <1>1, <1>3 DEF CliTurn
<1>4. CASE StoreTurn \/ Stopped \/ UNCHANGED vars \/ \E t \in Thread : StartTurn(t)
  BY <1>4 DEF StoreTurn, Stopped, vars, StartTurn, disk
<1> QED BY <1>2, <1>3, <1>4, Turns DEF ThreadTurn

(* Rows that stay keep their profiles as long as the files stay.           *)
LEMMA RowsStay ==
    ASSUME ManagedRows, NEW i \in Listed(rows),
           rows'[i].profile = rows[i].profile, rows'[i].path = rows[i].path,
           \A d \in Dir : file[d] # NoFile => file'[d] # NoFile,
           IsManaged(rows'[i].path)
    PROVE  /\ rows'[i].profile \in LoginProfile
           /\ rows'[i].path = SafeProfileName[rows'[i].profile]
           /\ file'[rows'[i].path] # NoFile
  BY DEF ManagedRows, IsManaged

(* What a step makes of the rows: none, the same, fewer, or one more.      *)
LEMMA RowsNext ==
    ASSUME OneAtATime, IInv, Serving, SnapCurrent, Registry, [Next]_vars,
           NEW i \in Listed(rows')
    PROVE  \/ /\ i \in Listed(rows)
              /\ rows'[i].profile = rows[i].profile /\ rows'[i].path = rows[i].path
           \/ AddAccount /\ rows'[i].profile \notin LoginProfile /\ rows'[i].path \in AddPath
           \/ \E t \in Thread, p \in LoginProfile :
                /\ LoginAdd(t) /\ p \in job[t].sel
                /\ rows'[i].profile = p /\ rows'[i].path = SafeProfileName[p]
<1>1. CASE UNCHANGED rows
  BY <1>1
<1>2. ASSUME NEW t \in Thread, SyncCommit(t) \/ SwitchCommit(t)
      PROVE  SameRows(rows, rows')
  BY <1>2, CommitKeeps
<1>3. ASSUME NEW t \in Thread, DeleteCommit(t), ~UNCHANGED rows
      PROVE  /\ i \in Listed(rows)
             /\ rows'[i].profile = rows[i].profile /\ rows'[i].path = rows[i].path
  <2>1. PICK removed \in SUBSET Listed(rows) :
          rows' = Committed(rows,
                    [j \in AccountID |-> IF j \in removed THEN NoRow ELSE rows[j]])
    BY <1>3, DeleteCommitDoes
  <2>2. rows \in Table /\ Consistent(rows) /\ removed \in SUBSET AccountID
    BY DEF IInv, TypeOK, StoreConsistent, Listed
  <2> QED BY <2>1, <2>2, RestCommits
<1>4. ASSUME NEW k \in AccountID, NEW p \in Profile, NEW path \in Path,
             NEW active \in BOOLEAN, AddRow(k, p, path, active)
      PROVE  \/ /\ i \in Listed(rows)
                /\ rows'[i].profile = rows[i].profile /\ rows'[i].path = rows[i].path
             \/ rows'[i].profile = p /\ rows'[i].path = path
  <2>1. k \notin Listed(rows)
    BY <1>4 DEF AddRow, First, Registry, RegistryExact
  <2> QED BY <1>4, <2>1, AddCommits
<1>5. ASSUME NEW t \in Thread, LoginAdd(t), ~UNCHANGED rows
      PROVE  \/ /\ i \in Listed(rows)
                /\ rows'[i].profile = rows[i].profile /\ rows'[i].path = rows[i].path
             \/ \E p \in LoginProfile :
                   /\ p \in job[t].sel
                   /\ rows'[i].profile = p /\ rows'[i].path = SafeProfileName[p]
  <2>1. \A p \in job[t].sel : p \in LoginProfile
    BY <1>5, LoginAddDoes, ThreadFacts DEF LocalsOK
  <2>2. \A p \in LoginProfile : p \in Profile /\ SafeProfileName[p] \in Path
    BY ServiceAssumption DEF Path
  <2> QED BY <1>4, <1>5, <2>1, <2>2, LoginAddDoes
<1>6. CASE AddAccount
  <2>1. PICK k \in AccountID, p \in Profile \ LoginProfile, path \in AddPath,
             active \in BOOLEAN : AddRow(k, p, path, active)
    BY <1>6 DEF AddAccount
  <2> QED BY <1>4, <1>6, <2>1, ServiceAssumption
<1>7. CASE PatchAccount
  BY <1>7, PatchCommits DEF SameRows
<1>8. ASSUME NEW t \in Thread, Step(t), ~UNCHANGED rows
      PROVE  SyncCommit(t) \/ SwitchCommit(t) \/ DeleteCommit(t) \/ LoginAdd(t)
  BY <1>8, RowSteps
<1> QED
  BY <1>1, <1>2, <1>3, <1>5, <1>6, <1>7, <1>8, Turns
  DEF Serving, ThreadTurn, StartTurn, StoreTurn, CliTurn, Stopped, vars, disk, SameRows

LEMMA ProfilesStep ==
    ASSUME OneAtATime, OwnDirectories, IInv, Serving, SnapCurrent, Registry, Profiles,
           [Next]_vars
    PROVE  Profiles'
<1>1. CASE \A t \in Thread : ~DeleteRemove(t)
  <2>1. \A d \in Dir : file[d] # NoFile => file'[d] # NoFile
    BY <1>1, FilesStay DEF Serving
  <2>2. ManagedRows'
    <3> SUFFICES ASSUME NEW i \in Listed(rows'), IsManaged(rows'[i].path)
                 PROVE  /\ rows'[i].profile \in LoginProfile
                        /\ rows'[i].path = SafeProfileName[rows'[i].profile]
                        /\ file'[rows'[i].path] # NoFile
      BY DEF ManagedRows, Listed, IsManaged
    <3>1. CASE /\ i \in Listed(rows)
               /\ rows'[i].profile = rows[i].profile /\ rows'[i].path = rows[i].path
      BY <2>1, <3>1, RowsStay DEF Profiles
    <3>2. CASE rows'[i].path \in AddPath
      BY <3>2 DEF OwnDirectories, IsManaged
    <3>3. ASSUME NEW t \in Thread, NEW p \in LoginProfile, LoginAdd(t), p \in job[t].sel,
                 rows'[i].profile = p, rows'[i].path = SafeProfileName[p]
          PROVE  /\ rows'[i].profile \in LoginProfile
                 /\ rows'[i].path = SafeProfileName[rows'[i].profile]
                 /\ file'[rows'[i].path] # NoFile
      <4>1. file[SafeProfileName[p]] # NoFile
        BY <3>3, LoginAddDoes DEF Profiles, LoggingIn
      <4>2. UNCHANGED file
        BY <3>3, LoginAddDoes
      <4> QED BY <3>3, <4>1, <4>2
    <3> QED BY <3>1, <3>2, <3>3, RowsNext
  <2>3. ASSUME NEW t \in Thread, ThreadTurn(t), pc'[t] = "delete.remove"
        PROVE  Removing(t)'
    <3>1. DeleteCommit(t)
      BY <1>1, <2>3, Places DEF ThreadTurn, Step, Delete, Matched, Chosen, Ended
    <3>2. PICK removed \in SUBSET Listed(rows) :
            /\ rows' = Committed(rows,
                         [i \in AccountID |-> IF i \in removed THEN NoRow ELSE rows[i]])
            /\ job'[t].snap = [i \in AccountID |->
                                 IF i \in removed /\ IsManaged(rows[i].path)
                                 THEN rows[i] ELSE NoRow]
      BY <2>3, <3>1, DeleteCommitDoes DEF Idle
    <3>3. rows \in Table /\ Consistent(rows) /\ removed \in SUBSET AccountID
      BY DEF IInv, TypeOK, StoreConsistent, Listed
    <3>4. /\ Listed(rows') = Listed(rows) \ removed
          /\ \A j \in Listed(rows') : rows'[j].profile = rows[j].profile
      BY <3>2, <3>3, RestCommits
    <3>5. \A i \in Listed(job'[t].snap) :
            /\ i \in removed /\ i \in Listed(rows) /\ IsManaged(rows[i].path)
            /\ job'[t].snap[i] = rows[i]
      BY <3>2 DEF Listed
    <3>6. ASSUME NEW i \in Listed(job'[t].snap)
          PROVE  /\ job'[t].snap[i].profile \in LoginProfile
                 /\ \A j \in Listed(rows') : rows'[j].profile # job'[t].snap[i].profile
      BY <3>3, <3>4, <3>5 DEF Profiles, ManagedRows, Consistent, UniqueProfiles
    <3> QED BY <3>6 DEF Removing, Listed
  <2>4. ASSUME NEW t \in Thread, ThreadTurn(t), pc'[t] \in {"login.write", "login.add"}
        PROVE  LoggingIn(t)'
    <3>1. LoginWrite(t)
      BY <2>4, Places, LoginAddDoes
      DEF ThreadTurn, Step, Login, Matched, Chosen, Ended, Idle
    <3>2. PICK p \in job[t].sel, c \in Cfg :
            /\ issued[Owner[SafeProfileName[p]]] < MaxVer
            /\ file' = [file EXCEPT ![SafeProfileName[p]] =
                          NewToken(Owner[SafeProfileName[p]], c)]
            /\ job'[t] = job[t]
      BY <2>4, <3>1, LoginWriteDoes DEF Idle
    <3>3. p \in LoginProfile /\ job[t].sel = {p}
      BY <3>1, LoginWriteDoes DEF Profiles, LoggingIn
    <3>4. SafeProfileName[p] \in Place /\ Owner[SafeProfileName[p]] \in Acct
      BY <3>3, ServiceAssumption, ThreadFacts
    <3>5. NewToken(Owner[SafeProfileName[p]], c) # NoFile
      BY <3>2, <3>4, NewTokenType, ServiceAssumption
    <3>6. file'[SafeProfileName[p]] # NoFile
      BY <3>2, <3>4, <3>5 DEF IInv, TypeOK
    <3> QED BY <3>2, <3>3, <3>6 DEF LoggingIn
  <2>5. ASSUME NEW t \in Thread
        PROVE  /\ pc'[t] = "delete.remove" => Removing(t)'
               /\ pc'[t] \in {"login.write", "login.add"} => LoggingIn(t)'
    <3>1. CASE \E u \in Thread : ThreadTurn(u)
      BY <2>3, <2>4, <3>1 DEF ThreadTurn
    <3>2. CASE \E u \in Thread : StartTurn(u)
      BY <3>2, Beginning DEF StartTurn, LoggingIn
    <3>3. CASE StoreTurn \/ Stopped
      BY <3>3 DEF StoreTurn, AllIdle, Stopped
    <3>4. CASE CliTurn \/ UNCHANGED vars
      <4>1. /\ pc'[t] = pc[t] /\ job'[t] = job[t] /\ rows' = rows
        BY <3>4 DEF CliTurn, vars
      <4>2. \A p \in LoginProfile : SafeProfileName[p] \in Dir
        BY ServiceAssumption
      <4> QED BY <2>1, <4>1, <4>2 DEF Profiles, Removing, LoggingIn, Listed
    <3> QED BY <3>1, <3>2, <3>3, <3>4, Turns DEF Serving
  <2> QED BY <2>2, <2>5 DEF Profiles
<1>2. ASSUME NEW t \in Thread, DeleteRemove(t) PROVE Profiles'
  <2>0. /\ pc[t] = "delete.remove" /\ Others(t) /\ UNCHANGED rows
        /\ \A u \in Thread : u # t => pc'[u] = "idle"
    BY <1>2, DeleteRemoveDoes DEF Serving, OneBusy, Others
  <2>1. CASE Idle(t) /\ UNCHANGED file
    BY <2>0, <2>1 DEF Profiles, ManagedRows, Listed, Idle
  <2>2. ASSUME NEW i \in Listed(job[t].snap),
               pc'[t] = "delete.remove",
               job'[t].snap = [job[t].snap EXCEPT ![i] = NoRow],
               \/ file' = [file EXCEPT ![SafeProfileName[job[t].snap[i].profile]] = NoFile]
               \/ UNCHANGED file
        PROVE  Profiles'
    <3> DEFINE q == job[t].snap[i].profile
    <3>1. q \in LoginProfile /\ \A j \in Listed(rows) : rows[j].profile # q
      BY <2>0 DEF Profiles, Removing
    <3>2. ASSUME NEW j \in Listed(rows), IsManaged(rows[j].path)
          PROVE  file'[rows[j].path] # NoFile
      <4>1. /\ rows[j].profile \in LoginProfile /\ rows[j].path = SafeProfileName[rows[j].profile]
            /\ file[rows[j].path] # NoFile
        BY <3>2 DEF Profiles, ManagedRows
      <4>2. SafeProfileName[q] # rows[j].path
        BY <3>1, <4>1 DEF OwnDirectories
      <4>3. rows[j].path \in Place /\ file \in [Place -> Auth \cup {NoFile}]
        BY <3>2, ThreadFacts DEF IsManaged, IInv, TypeOK
      <4> HIDE DEF q
      <4>4. file' = [file EXCEPT ![SafeProfileName[q]] = NoFile] \/ UNCHANGED file
        BY <2>2 DEF q
      <4> QED BY <4>1, <4>2, <4>3, <4>4
    <3>3. ManagedRows'
      BY <2>0, <3>2 DEF Profiles, ManagedRows, Listed
    <3>4. job[t].snap \in Table
      BY ThreadFacts DEF Job
    <3>5. \A j \in Listed(job'[t].snap) :
             j \in Listed(job[t].snap) /\ job'[t].snap[j] = job[t].snap[j]
      BY <2>2, <3>4 DEF Listed, Table
    <3>6. Removing(t)'
      BY <2>0, <3>5 DEF Profiles, Removing, Listed
    <3> QED BY <2>0, <2>2, <3>3, <3>6 DEF Profiles
  <2> QED BY <1>2, <2>1, <2>2, DeleteRemoveDoes
<1> QED BY <1>1, <1>2

(* Profiles, as an invariant of its own.                                   *)
LEMMA ProfilesInPlace ==
    ASSUME OneAtATime, OwnDirectories
    PROVE  Spec => []Profiles
<1>1. Init => SnapCurrent /\ Registry /\ Profiles
  BY DEF Init, SnapCurrent, Snapped, Matched, Chosen, Registry, RegistryExact, Listed,
         EmptyTable, Profiles, ManagedRows
<1>2. IInv /\ Serving /\ SnapCurrent /\ Registry /\ Profiles /\ [Next]_vars
        => SnapCurrent' /\ Registry' /\ Profiles'
  BY SnapStep, RegistryStep, NotOutdated, ProfilesStep
<1> QED BY <1>1, <1>2, Invariant, RequestsInTurn, PTL DEF Spec

(* A listed managed account has its auth file, when requests do not        *)
(* overlap: login writes it before the row, deletion removes it after the  *)
(* row, and neither a failing write nor a crash comes between.             *)
THEOREM ProfilesExist ==
    ASSUME OneAtATime, OwnDirectories
    PROVE  Spec => []ListedProfilesExist
<1>1. Profiles => ListedProfilesExist
  BY DEF Profiles, ManagedRows, ListedProfilesExist
<1> QED BY <1>1, ProfilesInPlace, PTL


-----------------------------------------------------------------------------
(* The match of a sync                                                     *)

Reading == {"sync.list", "sync.match"} \cup Matched

(* What a sync has read of auth.json is still there; the rows it has       *)
(* passed do not match, the one it has found is the first that does, and   *)
(* what it is about to write follows from the files as they are.           *)
SyncFits(t) ==
    /\ pc[t] \in Reading => job[t].cur = file[Live]
    /\ pc[t] \in {"sync.read", "sync.list", "sync.copy", "sync.back"} => job[t].at = 0
    /\ pc[t] = "sync.match" => \A j \in Matching : ~(j <= job[t].at)
    /\ pc[t] \in Matched => First(job[t].hit, Matching)
    /\ pc[t] = "sync.back" => job[t].buf = job[t].cur
    /\ pc[t] = "sync.put" =>
         /\ file[rows[job[t].at].path] # NoFile
         /\ job[t].buf = MergeConfig(job[t].cur, file[rows[job[t].at].path])

Matches == \A t \in Thread : SyncFits(t)

(* Merging config fields makes no file match and keeps none from matching. *)
LEMMA MergeMatch ==
    ASSUME NEW a \in Auth, NEW b \in Auth
    PROVE  SameAuth(a, MergeConfig(a, b)) <=> SameAuth(a, b)
<1>1. CASE a.acct = NoAcct \/ b.acct = NoAcct
  BY <1>1 DEF MergeConfig
<1>2. CASE a.acct # NoAcct /\ b.acct # NoAcct
  <2> DEFINE m == [b EXCEPT !.cfg = a.cfg]
  <2>1. MergeConfig(a, b) = m
    BY <1>2 DEF MergeConfig
  <2>2. m.acct = b.acct
    BY DEF Auth
  <2> HIDE DEF m
  <2>3. SameAuth(a, m) <=> a.acct = b.acct
    BY <1>2, <2>2 DEF SameAuth, SameAccount
  <2>4. SameAuth(a, b) <=> a.acct = b.acct
    BY <1>2 DEF SameAuth, SameAccount
  <2> QED BY <2>1, <2>3, <2>4
<1> QED BY <1>1, <1>2

(* A step that leaves table and files leaves the match.                    *)
LEMMA MatchingKept ==
    ASSUME UNCHANGED <<rows, file>>
    PROVE  Matching' = Matching
  BY DEF Matching, Listed

(* So does the write of a file that matches as the old one did.            *)
LEMMA MatchingWritten ==
    ASSUME IInv, UNCHANGED rows, NEW p \in Dir, NEW f \in Auth,
           file' = [file EXCEPT ![p] = f], file[p] # NoFile,
           SameAuth(file[Live], f) <=> SameAuth(file[Live], file[p])
    PROVE  Matching' = Matching /\ file'[Live] = file[Live]
<1>1. p \in Place /\ Live # p /\ Live \in Place /\ file \in [Place -> Auth \cup {NoFile}]
  BY ThreadFacts, ServiceAssumption DEF IInv, TypeOK, Place, Path
<1>2. f # NoFile
  BY ServiceAssumption
<1>3. file'[Live] = file[Live]
  BY <1>1
<1>4. ASSUME NEW i \in Listed(rows)
      PROVE  /\ file'[rows[i].path] # NoFile <=> file[rows[i].path] # NoFile
             /\ SameAuth(file[Live], file'[rows[i].path])
                  <=> SameAuth(file[Live], file[rows[i].path])
  <2>1. rows[i].path \in Place
    BY DEF Listed, IInv, TypeOK, Table, Row, Place
  <2>2. CASE rows[i].path = p
    BY <1>1, <1>2, <2>2
  <2>3. CASE rows[i].path # p
    BY <1>1, <2>1, <2>3
  <2> QED BY <2>2, <2>3
<1>5. Listed(rows') = Listed(rows) /\ rows' = rows
  BY DEF Listed
<1>6. Matching' = {i \in Listed(rows) :
        file[Live] # NoFile /\ file'[rows[i].path] # NoFile
          /\ SameAuth(file[Live], file'[rows[i].path])}
  BY <1>3, <1>5 DEF Matching
<1> QED BY <1>3, <1>4, <1>6 DEF Matching

(* What a sync has at hand while it matches and after.                     *)
LEMMA SyncFacts ==
    ASSUME IInv, SnapCurrent, Matches, NEW t \in Thread,
           pc[t] \in {"sync.match"} \cup Matched
    PROVE  /\ job[t].snap = rows /\ job[t].cur = file[Live]
           /\ file[Live] # NoFile /\ file[Live] \in Auth
           /\ job[t].at \in Nat
           /\ \A i \in Listed(rows) : i \in Nat /\ i > 0 /\ rows[i] \in Row
<1>1. job[t].snap = rows /\ job[t].cur = file[Live]
  BY DEF SnapCurrent, Snapped, Matches, SyncFits, Reading
<1>2. job[t] \in Job /\ job[t].cur # NoFile
  BY ThreadFacts DEF LocalsOK
<1>3. job[t].cur \in Auth /\ job[t].at \in AccountID \cup {0}
  BY <1>2 DEF Job
<1>4. \A x \in AccountID : x \in Nat /\ x > 0
  BY StoreAssumption
<1>5. \A i \in Listed(rows) : i \in AccountID /\ rows[i] \in Row
  BY DEF Listed, IInv, TypeOK, Table
<1>6. /\ job[t].at \in Nat
      /\ \A i \in Listed(rows) : i \in Nat /\ i > 0
  <2>1. \A x \in AccountID \cup {0} : x \in Nat
    <3>1. 0 \in Nat
      OBVIOUS
    <3>2. \A x \in AccountID : x \in Nat
      BY <1>4
    <3> QED BY <3>1, <3>2, Zenon
  <2> QED BY <1>3, <1>4, <1>5, <2>1
<1> QED BY <1>1, <1>2, <1>3, <1>5, <1>6

LEMMA MatchStep ==
    ASSUME IInv, SnapCurrent, Matches, NEW t \in Thread, SyncMatch(t)
    PROVE  SyncFits(t)'
<1> DEFINE at == job[t].at
<1>1. pc[t] = "sync.match" /\ UNCHANGED <<rows, file>> /\ Matching' = Matching
  BY SyncMatchDoes, MatchingKept DEF disk
<1>2. /\ job[t].snap = rows /\ job[t].cur = file[Live] /\ file[Live] # NoFile
      /\ at \in Nat /\ \A i \in Listed(rows) : i \in Nat
  BY <1>1, SyncFacts
<1>3. \A j \in Matching : j \in Unvisited(t)
  <2>1. \A j \in Matching : ~(j <= at) /\ j \in Listed(rows)
    BY <1>1 DEF Matches, SyncFits, Matching
  <2> QED BY <1>2, <2>1 DEF Unvisited
<1>4. CASE Over(t, TRUE)
  BY <1>4 DEF Over, SyncFits, Reading, Matched
<1>5. ASSUME NEW i \in Unvisited(t), First(i, Unvisited(t)), job'[t].cur = job[t].cur,
             file[job[t].snap[i].path] = NoFile
               \/ ~SameAuth(job[t].cur, file[job[t].snap[i].path]),
             pc'[t] = "sync.match", job'[t].at = i
      PROVE  SyncFits(t)'
  <2>1. i \notin Matching
    BY <1>2, <1>5 DEF Matching
  <2>2. i \in Listed(rows)
    BY <1>2 DEF Unvisited
  <2>3. \A j \in Matching : ~(j <= i)
    BY <1>2, <1>3, <1>5, <2>1, <2>2 DEF First, Matching
  <2> QED BY <1>1, <1>2, <1>5, <2>3 DEF SyncFits, Reading, Matched
<1>6. ASSUME NEW i \in Unvisited(t), First(i, Unvisited(t)), job'[t].cur = job[t].cur,
             file[job[t].snap[i].path] # NoFile,
             SameAuth(job[t].cur, file[job[t].snap[i].path]),
             pc'[t] \in {"sync.copy", "sync.merge"}, job'[t].hit = i, job'[t].at = 0
      PROVE  SyncFits(t)'
  <2>1. i \in Matching
    BY <1>2, <1>6 DEF Matching, Unvisited
  <2>2. First(i, Matching)
    BY <1>3, <1>6, <2>1 DEF First
  <2> QED BY <1>1, <1>2, <1>6, <2>2 DEF SyncFits, Reading, Matched
<1> QED BY <1>4, <1>5, <1>6, SyncMatchDoes

LEMMA BackStep ==
    ASSUME IInv, SnapCurrent, Matches, NEW t \in Thread, SyncBack(t)
    PROVE  SyncFits(t)'
<1>1. /\ pc[t] = "sync.back" /\ UNCHANGED rows
  BY SyncBackDoes
<1> DEFINE p == rows[job[t].hit].path
<1>2. /\ job[t].snap = rows /\ job[t].buf = file[Live] /\ job[t].cur = file[Live]
      /\ file[Live] \in Auth /\ First(job[t].hit, Matching) /\ job[t].at = 0
  BY <1>1, SyncFacts DEF Matches, SyncFits, Matched
<1>3. p \in Dir /\ file[p] # NoFile /\ SameAuth(file[Live], file[p])
  BY <1>1, <1>2, ThreadFacts DEF LocalsOK, IsManaged, First, Matching
<1>4. CASE Over(t, FALSE)
  BY <1>4 DEF Over, SyncFits, Reading, Matched
<1>5. CASE /\ file' = [file EXCEPT ![job[t].snap[job[t].hit].path] = job[t].buf]
           /\ pc'[t] = "sync.merge" /\ Found(t) /\ job'[t].at = job[t].at
  <2>1. file' = [file EXCEPT ![p] = file[Live]]
    BY <1>2, <1>5
  <2> HIDE DEF p
  <2>2. SameAuth(file[Live], file[Live])
    BY DEF SameAuth
  <2>3. Matching' = Matching /\ file'[Live] = file[Live]
    BY <1>1, <1>2, <1>3, <2>1, <2>2, MatchingWritten
  <2> QED BY <1>2, <1>5, <2>3 DEF SyncFits, Reading, Matched, Found
<1> QED BY <1>4, <1>5, SyncBackDoes

LEMMA PutStep ==
    ASSUME IInv, SnapCurrent, Matches, NEW t \in Thread, SyncPut(t)
    PROVE  SyncFits(t)'
<1>1. /\ pc[t] = "sync.put" /\ UNCHANGED rows
  BY SyncPutDoes
<1> DEFINE p == rows[job[t].at].path
           m == MergeConfig(file[Live], file[p])
<1>2. /\ job[t].snap = rows /\ job[t].buf = m /\ job[t].cur = file[Live]
      /\ file[Live] \in Auth /\ First(job[t].hit, Matching) /\ file[p] # NoFile
  BY <1>1, SyncFacts DEF Matches, SyncFits, Matched
<1>3. p \in Dir /\ file[p] \in Auth
  BY <1>1, <1>2, ThreadFacts DEF LocalsOK, IsManaged
<1>4. CASE Over(t, FALSE)
  BY <1>4 DEF Over, SyncFits, Reading, Matched
<1>5. CASE /\ file' = [file EXCEPT ![job[t].snap[job[t].at].path] = job[t].buf]
           /\ pc'[t] = "sync.merge" /\ Found(t) /\ job'[t].at = job[t].at
  <2>1. file' = [file EXCEPT ![p] = m]
    BY <1>2, <1>5
  <2>2. m \in Auth /\ (SameAuth(file[Live], m) <=> SameAuth(file[Live], file[p]))
    BY <1>2, <1>3, MergeKeepsKey, MergeMatch
  <2> HIDE DEF p, m
  <2>3. Matching' = Matching /\ file'[Live] = file[Live]
    BY <1>1, <1>2, <1>3, <2>1, <2>2, MatchingWritten
  <2> QED BY <1>2, <1>5, <2>3 DEF SyncFits, Reading, Matched, Found
<1> QED BY <1>4, <1>5, SyncPutDoes

LEMMA MergeStep ==
    ASSUME IInv, SnapCurrent, Matches, NEW t \in Thread, SyncMerge(t)
    PROVE  SyncFits(t)'
<1>1. /\ pc[t] = "sync.merge" /\ UNCHANGED <<rows, file>> /\ Found(t) /\ Matching' = Matching
  BY SyncMergeDoes, MatchingKept DEF disk
<1>2. job[t].snap = rows /\ job[t].cur = file[Live] /\ First(job[t].hit, Matching)
  BY <1>1, SyncFacts DEF Matches, SyncFits, Matched
<1>3. CASE pc'[t] \in {"sync.commit", "sync.merge"}
  BY <1>1, <1>2, <1>3 DEF SyncFits, Reading, Matched, Found
<1>4. ASSUME NEW i \in ManagedLeft(t), job'[t].at = i, pc'[t] = "sync.put",
             file[job[t].snap[i].path] # NoFile,
             job'[t].buf = MergeConfig(job[t].cur, file[job[t].snap[i].path])
      PROVE  SyncFits(t)'
  <2>1. /\ file'[rows'[job'[t].at].path] # NoFile
        /\ job'[t].buf = MergeConfig(job'[t].cur, file'[rows'[job'[t].at].path])
    BY <1>1, <1>2, <1>4 DEF Found
  <2> QED BY <1>1, <1>2, <1>4, <2>1 DEF SyncFits, Reading, Matched, Found
<1> QED BY <1>3, <1>4, SyncMergeDoes

LEMMA MatchesStep ==
    ASSUME OneAtATime, CliAtRest, IInv, Serving, SnapCurrent, Matches, [Next]_vars
    PROVE  Matches'
<1>1. ASSUME NEW t \in Thread, pc'[t] \in {"idle", "delete.commit", "delete.remove",
               "login.write", "login.add"} \cup Ended \cup Chosen
      PROVE  SyncFits(t)'
  BY <1>1 DEF SyncFits, Reading, Matched, Chosen, Ended
<1>2. ASSUME NEW t \in Thread, ThreadTurn(t) PROVE Matches'
  <2>1. SUFFICES SyncFits(t)'
    BY <1>1, <1>2 DEF ThreadTurn, Matches
  <2>2. CASE SyncRead(t)
    <3>1. CASE Over(t, TRUE)
      BY <1>1, <3>1 DEF Over, Ended
    <3>2. CASE ~Over(t, TRUE)
      BY <2>2, <3>2, SyncReadDoes DEF Matches, SyncFits, Reading, Matched, disk
    <3> QED BY <3>1, <3>2
  <2>3. CASE SyncList(t)
    <3>1. /\ pc[t] = "sync.list" /\ pc'[t] = "sync.match" /\ UNCHANGED <<rows, file>>
          /\ job'[t].cur = job[t].cur /\ job'[t].at = 0
      BY <2>3, SyncListDoes DEF Matches, SyncFits, disk
    <3>2. \A j \in Matching' : ~(j <= 0)
      BY StoreAssumption DEF Matching, Listed
    <3>3. job[t].cur = file[Live]
      BY <3>1 DEF Matches, SyncFits, Reading
    <3> QED BY <3>1, <3>2, <3>3 DEF SyncFits, Reading, Matched
  <2>4. CASE SyncMatch(t)
    BY <2>4, MatchStep
  <2>5. CASE SyncCopy(t)
    <3>1. CASE Over(t, FALSE)
      BY <1>1, <3>1 DEF Over, Ended
    <3>2. CASE ~Over(t, FALSE)
      <4>1. /\ pc[t] = "sync.copy" /\ pc'[t] = "sync.back" /\ UNCHANGED <<rows, file>>
            /\ Found(t) /\ job'[t].at = job[t].at /\ job'[t].buf = file[Live]
        BY <2>5, <3>2, SyncCopyDoes DEF disk
      <4>2. Matching' = Matching
        BY <4>1, MatchingKept
      <4>3. job[t].cur = file[Live] /\ job[t].at = 0 /\ First(job[t].hit, Matching)
        BY <4>1 DEF Matches, SyncFits, Reading, Matched
      <4> QED BY <4>1, <4>2, <4>3 DEF SyncFits, Reading, Matched, Found
    <3> QED BY <3>1, <3>2
  <2>6. CASE SyncBack(t)
    BY <2>6, BackStep
  <2>7. CASE SyncMerge(t)
    BY <2>7, MergeStep
  <2>8. CASE SyncPut(t)
    BY <2>8, PutStep
  <2>9. CASE SyncCommit(t)
    BY <1>1, <2>9, SyncCommitDoes DEF Over, Ended
  <2>10. CASE ListRead(t)
    BY <1>1, <2>10, ListReadDoes DEF Idle
  <2>11. CASE Switch(t) \/ Delete(t) \/ Login(t)
    BY <1>1, <2>11, Places
  <2> QED
    BY <1>2, <2>2, <2>3, <2>4, <2>5, <2>6, <2>7, <2>8, <2>9, <2>10, <2>11
    DEF ThreadTurn, Step, Sync
<1>3. ASSUME NEW t \in Thread, StartTurn(t) PROVE Matches'
  <2>1. SUFFICES SyncFits(t)'
    BY <1>1, <1>3 DEF StartTurn, Matches
  <2>2. \/ pc'[t] = "sync.read" /\ job'[t].at = 0
        \/ pc'[t] \in {"delete.commit", "login.write"}
    BY <1>3, Beginning DEF StartTurn
  <2> QED BY <1>1, <2>2 DEF SyncFits, Reading, Matched
<1>4. CASE StoreTurn \/ CliTurn \/ Stopped
  <2>1. \A t \in Thread : pc'[t] = "idle"
    BY <1>4 DEF StoreTurn, CliTurn, Stopped, AllIdle
  <2> QED BY <1>1, <2>1 DEF Matches
<1>5. CASE UNCHANGED vars
  BY <1>5 DEF vars, Matches, SyncFits, Matching, Listed
<1> QED BY <1>2, <1>3, <1>4, <1>5, Turns DEF Serving

LEMMA MatchesInit == Init => Matches
  BY DEF Init, Matches, SyncFits, Reading, Matched

(* One request at a time and a CLI at rest: what a sync finds is so.       *)
LEMMA SyncSeesTruth ==
    ASSUME OneAtATime, CliAtRest
    PROVE  Spec => [](SnapCurrent /\ Matches)
<1>1. Init => SnapCurrent /\ Matches
  BY MatchesInit DEF Init, SnapCurrent, Snapped, Matched, Chosen
<1>2. IInv /\ Serving /\ SnapCurrent /\ Matches /\ [Next]_vars => SnapCurrent' /\ Matches'
  BY SnapStep, MatchesStep
<1> QED BY <1>1, <1>2, Invariant, RequestsInTurn, PTL DEF Spec

-----------------------------------------------------------------------------
(* What a sync has settled                                                 *)

UpToDate(T, F, i) == IsManaged(T[i].path) => F[T[i].path] = F[Live]

Merged(T, F, i) ==
    IsManaged(T[i].path) /\ F[Live].acct # NoAcct =>
        F[T[i].path].acct = NoAcct \/ F[T[i].path].cfg = F[Live].cfg

(* No account matches, or the first that does is active, used, up to date, *)
(* and all managed files have the config fields of auth.json.              *)
Settled ==
    \/ Matching = {}
    \/ \E h \in Listed(rows) :
         /\ First(h, Matching) /\ rows[h].active /\ rows[h].used
         /\ UpToDate(rows, file, h)
         /\ \A j \in Listed(rows) : Merged(rows, file, j)

Finished == Ended \cup {"switch.read", "switch.write"}

(* How far the merge of the config fields has come.                        *)
MergeFits(t) ==
    /\ pc[t] \in {"sync.merge", "sync.put", "sync.commit"} =>
         UpToDate(rows, file, job[t].hit)
    /\ pc[t] = "sync.merge" =>
         \A j \in Listed(rows) : j <= job[t].at => Merged(rows, file, j)
    /\ pc[t] = "sync.put" =>
         \A j \in Listed(rows) : j < job[t].at => Merged(rows, file, j)
    /\ pc[t] = "sync.commit" => \A j \in Listed(rows) : Merged(rows, file, j)
    /\ pc[t] \in Finished /\ job[t].ok => Settled

Settling == \A t \in Thread : MergeFits(t)

(* A merged file has the config fields, or one of the two has no account.  *)
LEMMA MergeMerges ==
    ASSUME NEW a \in Auth, NEW b \in Auth
    PROVE  /\ a.acct # NoAcct =>
                \/ MergeConfig(a, b).acct = NoAcct
                \/ MergeConfig(a, b).cfg = a.cfg
           /\ MergeConfig(a, a) = a
<1>1. CASE a.acct = NoAcct \/ b.acct = NoAcct
  BY <1>1 DEF MergeConfig, Auth
<1>2. CASE a.acct # NoAcct /\ b.acct # NoAcct
  BY <1>2 DEF MergeConfig, Auth
<1> QED BY <1>1, <1>2

(* A step that leaves table and files leaves what has been merged.         *)
LEMMA MergedKept ==
    ASSUME UNCHANGED <<rows, file>>
    PROVE  /\ Listed(rows') = Listed(rows) /\ Matching' = Matching
           /\ \A i : /\ UpToDate(rows', file', i) <=> UpToDate(rows, file, i)
                    /\ Merged(rows', file', i) <=> Merged(rows, file, i)
           /\ Settled' <=> Settled
  BY DEF Matching, Listed, UpToDate, Merged, Settled

LEMMA MatchSettles ==
    ASSUME IInv, SnapCurrent, Matches, Settling, NEW t \in Thread, SyncMatch(t)
    PROVE  MergeFits(t)'
<1> DEFINE at == job[t].at
<1>1. pc[t] = "sync.match" /\ UNCHANGED <<rows, file>>
  BY SyncMatchDoes DEF disk
<1>2. /\ job[t].snap = rows /\ job[t].cur = file[Live]
      /\ at \in Nat /\ \A i \in Listed(rows) : i \in Nat /\ i > 0
  BY <1>1, SyncFacts
<1>3. \A j \in Matching : j \in Unvisited(t)
  <2>1. \A j \in Matching : ~(j <= at) /\ j \in Listed(rows)
    BY <1>1 DEF Matches, SyncFits, Matching
  <2> QED BY <1>2, <2>1 DEF Unvisited
<1>4. CASE Unvisited(t) = {} /\ Over(t, TRUE)
  <2>1. Settled'
    BY <1>1, <1>3, <1>4, MergedKept DEF Settled
  <2> QED BY <1>4, <2>1 DEF Over, MergeFits
<1>5. CASE pc'[t] \in {"sync.match", "sync.copy"}
  BY <1>5 DEF MergeFits, Finished, Ended
<1>6. ASSUME NEW i \in Unvisited(t), pc'[t] = "sync.merge", job'[t].hit = i, job'[t].at = 0,
             IsManaged(job[t].snap[i].path) => file[job[t].snap[i].path] = job[t].cur
      PROVE  MergeFits(t)'
  <2>1. UpToDate(rows, file, i)
    BY <1>2, <1>6 DEF UpToDate
  <2>2. \A j \in Listed(rows) : ~(j <= 0)
    BY <1>2
  <2>3. Listed(rows') = Listed(rows) /\ UpToDate(rows', file', i)
    BY <1>1, <2>1, MergedKept
  <2> QED BY <1>6, <2>2, <2>3 DEF MergeFits, Finished, Ended, UpToDate
<1> QED BY <1>4, <1>5, <1>6, SyncMatchDoes

LEMMA BackSettles ==
    ASSUME IInv, SnapCurrent, Matches, Settling, NEW t \in Thread, SyncBack(t)
    PROVE  MergeFits(t)'
<1>1. pc[t] = "sync.back" /\ UNCHANGED rows
  BY SyncBackDoes
<1> DEFINE p == rows[job[t].hit].path
<1>2. /\ job[t].snap = rows /\ job[t].buf = file[Live] /\ job[t].at = 0
      /\ \A i \in Listed(rows) : i \in Nat /\ i > 0
  BY <1>1, SyncFacts DEF Matches, SyncFits, Matched
<1>3. p \in Dir /\ Live # p /\ p \in Place /\ Live \in Place
  BY <1>1, <1>2, ThreadFacts, ServiceAssumption DEF LocalsOK, IsManaged
<1>4. CASE Over(t, FALSE)
  BY <1>4 DEF Over, MergeFits, Finished, Ended
<1>5. CASE /\ file' = [file EXCEPT ![job[t].snap[job[t].hit].path] = job[t].buf]
           /\ pc'[t] = "sync.merge" /\ Found(t) /\ job'[t].at = job[t].at
  <2>1. file' = [file EXCEPT ![p] = file[Live]]
    BY <1>2, <1>5
  <2>2. file'[p] = file[Live] /\ file'[Live] = file[Live]
    BY <1>3, <2>1 DEF IInv, TypeOK
  <2>3. UpToDate(rows', file', job'[t].hit)
    BY <1>1, <1>5, <2>2 DEF UpToDate, Found
  <2>4. \A j \in Listed(rows') : ~(j <= 0)
    BY <1>1, <1>2 DEF Listed
  <2> QED BY <1>2, <1>5, <2>3, <2>4 DEF MergeFits, Finished, Ended, UpToDate
<1> QED BY <1>4, <1>5, SyncBackDoes

LEMMA MergeSettles ==
    ASSUME IInv, SnapCurrent, Matches, ManagedRows, Settling, NEW t \in Thread, SyncMerge(t)
    PROVE  MergeFits(t)'
<1> DEFINE at == job[t].at
<1>1. pc[t] = "sync.merge" /\ UNCHANGED <<rows, file>> /\ Found(t)
  BY SyncMergeDoes DEF disk
<1>2. /\ job[t].snap = rows /\ job[t].cur = file[Live] /\ file[Live] \in Auth
      /\ at \in Nat /\ \A i \in Listed(rows) : i \in Nat
  BY <1>1, SyncFacts DEF Matched
<1>3. /\ UpToDate(rows, file, job[t].hit)
      /\ \A j \in Listed(rows) : j <= at => Merged(rows, file, j)
  BY <1>1 DEF Settling, MergeFits
<1>4. \A j \in Listed(rows) : ~(j <= at) /\ j \notin ManagedLeft(t) => Merged(rows, file, j)
  BY <1>2 DEF ManagedLeft, Unvisited, Merged
<1>5. UpToDate(rows', file', job'[t].hit) /\ Listed(rows') = Listed(rows)
      /\ \A j : Merged(rows', file', j) <=> Merged(rows, file, j)
  <2>1. UpToDate(rows', file', job[t].hit)
    BY <1>1, <1>3, MergedKept
  <2> QED BY <1>1, <2>1, MergedKept DEF Found, UpToDate
<1>6. CASE ManagedLeft(t) = {} /\ pc'[t] = "sync.commit"
  <2>1. \A j \in Listed(rows) : Merged(rows, file, j)
    BY <1>3, <1>4, <1>6
  <2> QED BY <1>5, <1>6, <2>1 DEF MergeFits, Finished, Ended
<1>7. ASSUME NEW i \in ManagedLeft(t), First(i, ManagedLeft(t)), job'[t].at = i
      PROVE  \A j \in Listed(rows) : j < i => Merged(rows, file, j)
  <2>1. i \in Nat
    BY <1>2, <1>7 DEF ManagedLeft, Unvisited
  <2>2. \A j \in Listed(rows) : j < i => j \notin ManagedLeft(t)
    BY <1>2, <1>7, <2>1 DEF First
  <2> QED BY <1>3, <1>4, <2>2
<1>8. ASSUME NEW i \in ManagedLeft(t), First(i, ManagedLeft(t)), job'[t].at = i,
             LET target == file[job[t].snap[i].path]
             IN  target = NoFile \/ MergeConfig(job[t].cur, target) = target,
             pc'[t] = "sync.merge"
      PROVE  MergeFits(t)'
  <2> DEFINE target == file[rows[i].path]
  <2>1. i \in Listed(rows) /\ IsManaged(rows[i].path) /\ i \in Nat
    BY <1>2 DEF ManagedLeft, Unvisited
  <2>2. target # NoFile /\ target \in Auth
    BY <2>1, ThreadFacts DEF ManagedRows, IsManaged
  <2>3. MergeConfig(file[Live], target) = target
    BY <1>2, <1>8, <2>2
  <2>4. Merged(rows, file, i)
    BY <1>2, <2>2, <2>3, MergeMerges DEF Merged
  <2>5. \A j \in Listed(rows) : j <= i => j < i \/ j = i
    BY <1>2, <2>1
  <2>6. \A j \in Listed(rows) : j <= i => Merged(rows, file, j)
    BY <1>7, <1>8, <2>4, <2>5
  <2> QED BY <1>5, <1>8, <2>6 DEF MergeFits, Finished, Ended
<1>9. ASSUME NEW i \in ManagedLeft(t), First(i, ManagedLeft(t)), job'[t].at = i,
             pc'[t] = "sync.put"
      PROVE  MergeFits(t)'
  BY <1>5, <1>7, <1>9 DEF MergeFits, Finished, Ended
<1> QED BY <1>6, <1>8, <1>9, SyncMergeDoes

LEMMA PutSettles ==
    ASSUME IInv, SnapCurrent, Matches, Settling, NEW t \in Thread, SyncPut(t)
    PROVE  MergeFits(t)'
<1> DEFINE at == job[t].at
           p == rows[at].path
           m == MergeConfig(file[Live], file[p])
<1>1. pc[t] = "sync.put" /\ UNCHANGED rows
  BY SyncPutDoes
<1>2. /\ job[t].snap = rows /\ job[t].buf = m /\ job[t].cur = file[Live]
      /\ file[Live] \in Auth /\ file[p] # NoFile
      /\ at \in Nat /\ \A i \in Listed(rows) : i \in Nat /\ rows[i] \in Row
  BY <1>1, SyncFacts DEF Matches, SyncFits, Matched
<1>3. /\ p \in Dir /\ file[p] \in Auth /\ p \in Place /\ p # Live /\ Live \in Place
      /\ at \in Listed(rows) /\ job[t].hit \in Listed(rows)
  BY <1>1, <1>2, ThreadFacts, ServiceAssumption DEF LocalsOK, IsManaged, Matched
<1>4. CASE Over(t, FALSE)
  BY <1>4 DEF Over, MergeFits, Finished, Ended
<1>5. CASE /\ file' = [file EXCEPT ![job[t].snap[job[t].at].path] = job[t].buf]
           /\ pc'[t] = "sync.merge" /\ Found(t) /\ job'[t].at = job[t].at
  <2>1. file' = [file EXCEPT ![p] = m]
    BY <1>2, <1>5
  <2>2. /\ file[Live].acct # NoAcct => m.acct = NoAcct \/ m.cfg = file[Live].cfg
        /\ file[p] = file[Live] => m = file[Live]
    BY <1>2, <1>3, MergeMerges
  <2> HIDE DEF m
  <2>3. file'[Live] = file[Live] /\ file'[p] = m
    BY <1>3, <2>1 DEF IInv, TypeOK
  <2>4. \A i \in Listed(rows) : rows[i].path \in Place
    BY <1>2 DEF Row, Place
  <2>5. \A i \in Listed(rows) :
          rows[i].path # p => file'[rows[i].path] = file[rows[i].path]
    BY <2>1, <2>4 DEF IInv, TypeOK
  <2>6. Listed(rows') = Listed(rows) /\ rows' = rows
    BY <1>1 DEF Listed
  <2>7. UpToDate(rows, file, job[t].hit)
    BY <1>1 DEF Settling, MergeFits
  <2>8. UpToDate(rows', file', job[t].hit)
    <3>1. CASE rows[job[t].hit].path = p
      <4>1. file[p] = file[Live]
        BY <1>3, <2>7, <3>1 DEF UpToDate, IsManaged
      <4>2. file'[p] = file'[Live]
        BY <2>2, <2>3, <4>1
      <4> QED BY <2>6, <3>1, <4>2 DEF UpToDate
    <3>2. CASE rows[job[t].hit].path # p
      <4>1. file'[rows[job[t].hit].path] = file[rows[job[t].hit].path]
        BY <1>3, <2>5, <3>2
      <4> QED BY <2>3, <2>6, <2>7, <4>1 DEF UpToDate
    <3> QED BY <3>1, <3>2
  <2>9. ASSUME NEW j \in Listed(rows), j <= at
        PROVE  Merged(rows', file', j)
    <3>1. CASE rows[j].path = p
      <4>1. file'[rows'[j].path] = m
        BY <2>3, <2>6, <3>1
      <4> QED BY <2>2, <2>3, <4>1 DEF Merged
    <3>2. CASE rows[j].path # p
      <4>1. j # at
        BY <3>2
      <4>2. j < at
        BY <1>2, <2>9, <4>1
      <4>3. Merged(rows, file, j)
        BY <1>1, <4>2 DEF Settling, MergeFits
      <4>4. file'[rows[j].path] = file[rows[j].path]
        BY <2>5, <3>2
      <4> QED BY <2>3, <2>6, <4>3, <4>4 DEF Merged
    <3> QED BY <3>1, <3>2
  <2>10. job'[t].hit = job[t].hit /\ job'[t].at = at /\ pc'[t] = "sync.merge"
    BY <1>5 DEF Found
  <2>11. UpToDate(rows', file', job'[t].hit)
    BY <2>8, <2>10 DEF UpToDate
  <2> QED BY <2>6, <2>9, <2>10, <2>11 DEF MergeFits, Finished, Ended
<1> QED BY <1>4, <1>5, SyncPutDoes

LEMMA CommitSettles ==
    ASSUME IInv, SnapCurrent, Matches, Settling, NEW t \in Thread, SyncCommit(t)
    PROVE  /\ MergeFits(t)'
           /\ ~IOFaults => job'[t].ok
<1> DEFINE h == job[t].hit
           next == Activate(rows, h)
<1>1. pc[t] = "sync.commit" /\ UNCHANGED file /\ SameRows(rows, rows')
  BY CommitKeeps, SyncCommitDoes
<1>2. /\ job[t].snap = rows /\ First(h, Matching)
      /\ \A i \in Listed(rows) : i \in Nat
  BY <1>1, SyncFacts DEF Matches, SyncFits, Matched
<1>3. h \in Listed(rows) /\ UpToDate(rows, file, h) /\ \A j \in Listed(rows) : Merged(rows, file, j)
  BY <1>1, <1>2 DEF Settling, MergeFits, First, Matching
<1>4. rows \in Table /\ Consistent(rows)
  BY DEF IInv, TypeOK, StoreConsistent
<1>5. /\ UniqueProfiles(next)
      /\ Committed(rows, next)[h].active /\ Committed(rows, next)[h].used
      /\ next[h].active /\ next[h].used
  BY <1>3, <1>4, ActivateCommits
<1> HIDE DEF next
<1>6. CASE IOFaults /\ Over(t, FALSE)
  BY <1>6 DEF Over, MergeFits, Finished, Ended
<1>7. CASE /\ rows' = IF next = rows THEN rows ELSE Committed(rows, next)
           /\ Over(t, next = rows \/ UniqueProfiles(next))
  <2>1. rows'[h].active /\ rows'[h].used
    <3>1. CASE next = rows
      BY <1>5, <1>7, <3>1
    <3>2. CASE next # rows
      BY <1>5, <1>7, <3>2
    <3> QED BY <3>1, <3>2
  <2>2. /\ Listed(rows') = Listed(rows)
        /\ \A i \in Listed(rows) : rows'[i].path = rows[i].path
    BY <1>1 DEF SameRows
  <2>3. Matching' = Matching
    BY <1>1, <2>2 DEF Matching
  <2>4. UpToDate(rows', file', h) /\ \A j \in Listed(rows) : Merged(rows', file', j)
    BY <1>1, <1>3, <2>2 DEF UpToDate, Merged
  <2>5. Settled'
    BY <1>2, <1>3, <2>1, <2>2, <2>3, <2>4 DEF Settled, UpToDate
  <2>6. job'[t].ok
    BY <1>5, <1>7 DEF Over
  <2>7. pc'[t] \in Ended
    BY <1>7 DEF Over, Ended
  <2> QED BY <2>5, <2>6, <2>7 DEF MergeFits, Ended
<1> QED BY <1>2, <1>6, <1>7, SyncCommitDoes DEF next

LEMMA SettlingStep ==
    ASSUME OneAtATime, CliAtRest, IInv, Serving, SnapCurrent, Matches, ManagedRows,
           Settling, [Next]_vars
    PROVE  Settling'
<1>1. ASSUME NEW t \in Thread, pc'[t] \in {"idle", "sync.read", "sync.list", "sync.match",
               "sync.copy", "sync.back", "switch.commit", "delete.commit",
               "delete.remove", "login.write", "login.add"}
      PROVE  MergeFits(t)'
  BY <1>1 DEF MergeFits, Finished, Ended
<1>2. ASSUME NEW t \in Thread, pc'[t] \in Finished, ~job'[t].ok
      PROVE  MergeFits(t)'
  BY <1>2 DEF MergeFits, Finished, Ended
<1>3. ASSUME NEW t \in Thread, pc'[t] \in Finished, Settled'
      PROVE  MergeFits(t)'
  BY <1>3 DEF MergeFits, Finished, Ended
<1>4. ASSUME NEW t \in Thread, ThreadTurn(t) PROVE Settling'
  <2>1. SUFFICES MergeFits(t)'
    BY <1>1, <1>4 DEF ThreadTurn, Settling
  <2>2. CASE SyncRead(t)
    <3>1. CASE pc'[t] = "sync.list"
      BY <1>1, <3>1
    <3>2. CASE file[Live] = NoFile /\ Over(t, TRUE)
      <4>1. UNCHANGED <<rows, file>>
        BY <2>2, SyncReadDoes DEF disk
      <4>2. Settled'
        BY <3>2, <4>1 DEF Settled, Matching
      <4> QED BY <1>3, <3>2, <4>2 DEF Over, Finished, Ended
    <3> QED BY <2>2, <3>1, <3>2, SyncReadDoes
  <2>3. CASE SyncList(t)
    BY <1>1, <2>3, SyncListDoes
  <2>4. CASE SyncMatch(t)
    BY <2>4, MatchSettles
  <2>5. CASE SyncCopy(t)
    BY <1>1, <1>2, <2>5, SyncCopyDoes DEF Over, Finished, Ended
  <2>6. CASE SyncBack(t)
    BY <2>6, BackSettles
  <2>7. CASE SyncMerge(t)
    BY <2>7, MergeSettles
  <2>8. CASE SyncPut(t)
    BY <2>8, PutSettles
  <2>9. CASE SyncCommit(t)
    BY <2>9, CommitSettles
  <2>10. CASE ListRead(t) \/ SwitchCommit(t)
    BY <1>1, <2>10, ListReadDoes, SwitchCommitDoes DEF Idle
  <2>11. CASE SwitchList(t) \/ SwitchRead(t)
    <3>1. CASE Idle(t)
      BY <1>1, <3>1 DEF Idle
    <3>2. CASE ~Idle(t)
      <4>1. /\ pc[t] \in Finished /\ pc'[t] \in Finished /\ job'[t].ok = job[t].ok
            /\ UNCHANGED <<rows, file>>
        BY <2>11, <3>2, SwitchListDoes, SwitchReadDoes DEF Finished, Ended, Same, Found, disk
      <4>2. job[t].ok => Settled'
        BY <4>1, MergedKept DEF Settling, MergeFits
      <4> QED BY <1>2, <1>3, <4>1, <4>2
    <3> QED BY <3>1, <3>2
  <2>12. CASE SwitchWrite(t)
    BY <1>1, <2>12, SwitchWriteDoes DEF Idle
  <2>13. CASE Delete(t) \/ Login(t)
    BY <1>1, <2>13, Places
  <2> QED
    BY <1>4, <2>2, <2>3, <2>4, <2>5, <2>6, <2>7, <2>8, <2>9, <2>10, <2>11, <2>12, <2>13
    DEF ThreadTurn, Step, Sync, Switch
<1>5. ASSUME NEW t \in Thread, StartTurn(t) PROVE Settling'
  BY <1>1, <1>5, Beginning DEF StartTurn, Settling
<1>6. CASE StoreTurn \/ CliTurn \/ Stopped
  <2>1. \A t \in Thread : pc'[t] = "idle"
    BY <1>6 DEF StoreTurn, CliTurn, Stopped, AllIdle
  <2> QED BY <1>1, <2>1 DEF Settling
<1>7. CASE UNCHANGED vars
  <2>1. UNCHANGED <<rows, file, pc, job>>
    BY <1>7 DEF vars
  <2> QED BY <2>1, MergedKept DEF Settling, MergeFits
<1> QED BY <1>4, <1>5, <1>6, <1>7, Turns DEF Serving

LEMMA MergeSettled ==
    ASSUME OneAtATime, CliAtRest, OwnDirectories
    PROVE  Spec => []Settling
<1>1. Init => Settling
  BY DEF Init, Settling, MergeFits, Finished, Ended
<1>2. /\ IInv /\ Serving /\ SnapCurrent /\ Matches /\ Profiles /\ Settling /\ [Next]_vars
      => Settling'
  BY SettlingStep DEF Profiles
<1> QED
  BY <1>1, <1>2, Invariant, RequestsInTurn, SyncSeesTruth, ProfilesInPlace, PTL DEF Spec

(* When a sync ends without an error, the account the CLI uses is active,  *)
(* has been used and has its file up to date, and every managed file has   *)
(* the config fields of auth.json; an error before that is told apart.     *)
THEOREM SyncDone ==
    ASSUME OneAtATime, CliAtRest, OwnDirectories
    PROVE  Spec => []SyncSettles
<1>1. Settling => SyncSettles
  <2> SUFFICES ASSUME Settling, NEW t \in Thread, pc[t] \in Ended, job[t].ok,
                      NEW i \in Matching, First(i, Matching)
               PROVE  /\ rows[i].active /\ rows[i].used /\ UpToDate(rows, file, i)
                      /\ \A j \in Listed(rows) : Merged(rows, file, j)
    BY DEF SyncSettles, UpToDate, Merged, Ended
  <2>1. Settled
    BY DEF Settling, MergeFits, Finished
  <2>2. PICK h \in Listed(rows) :
          /\ First(h, Matching) /\ rows[h].active /\ rows[h].used
         /\ UpToDate(rows, file, h)
          /\ \A j \in Listed(rows) : Merged(rows, file, j)
    BY <2>1 DEF Settled
  <2>3. i \in Nat /\ h \in Nat /\ i <= h /\ h <= i
    BY <2>2, StoreAssumption DEF First, Matching, Listed
  <2>4. i = h
    BY <2>3
  <2> QED BY <2>2, <2>4
<1> QED BY <1>1, MergeSettled, PTL
=============================================================================
