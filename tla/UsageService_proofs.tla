------------------------ MODULE UsageService_proofs ------------------------
(***************************************************************************)
(* Proofs about UsageService, for every set of accounts, profile names and *)
(* threads, and any bound of the measurements told apart.                  *)
(*                                                                         *)
(* A refresh works on a copy of the table that is out of date when it      *)
(* writes.  That nothing is undone rests on three facts about the copy, as *)
(* long as nobody writes back a whole table: an account in both is the     *)
(* same in both, an account only in the table has no usage yet (Since),    *)
(* and no cached record is older than the copy's (AheadOf).  They need the *)
(* mutex, for only a refresh stores usage; the cache has what the refresh  *)
(* collected before the table has it (Cached).                             *)
(*                                                                         *)
(* Whose records are served rests on a second invariant, OwnInv: whoever   *)
(* is deleted in peace is on no list that is at work, so that nothing of   *)
(* it comes back, and its last record goes before its name is given away.  *)
(***************************************************************************)
EXTENDS UsageService, TLAPS

RefreshOp == {"startup", "tick", "refresh", "added"}

Refreshing(t) == pc[t] \in {"collect", "store"}

(* The request that is at each place of the code.                          *)
OpFits(t) ==
    /\ pc[t] = "lock" => job[t].op \in RefreshOp
    /\ pc[t] = "sync" => job[t].op \in {"reply", "delete"}
    /\ pc[t] = "list" => job[t].op # "none"
    /\ pc[t] = "delete" => job[t].op = "delete"
    /\ Refreshing(t) => job[t].op \in RefreshOp

(* The mutex is held from the listing of a refresh to its write.           *)
HoldsLock(t) ==
    lock = t <=> Refreshing(t) \/ (pc[t] = "list" /\ job[t].op \in RefreshOp)

(* Accounts of a table T have once been added, have profiles of their own, *)
(* and usage that has been measured; ids and now: born and clock.          *)
Sound(T, ids, now) ==
    /\ Listed(T) \subseteq ids
    /\ \A i, j \in Listed(T) : T[i].profile = T[j].profile => i = j
    /\ \A i \in Listed(T) : T[i].usage.seq <= now

(* What is collected is collected for listed accounts, and is not older    *)
(* than what the list says.                                                *)
CollectsListed(t) ==
    /\ job[t].todo \subseteq Listed(job[t].snap)
    /\ ~Refreshing(t) => ~HasRecords(t)
    /\ \A i \in AccountID : Has(t, i) =>
         /\ i \in Listed(job[t].snap)
         /\ job[t].snap[i].usage.seq <= job[t].recs[i].seq
         /\ job[t].recs[i].seq <= clock

(* What is dead for a request is neither listed nor in its list.           *)
DeadGone(t) ==
    /\ dead[t] \cap Listed(rows) = {}
    /\ dead[t] \cap Listed(job[t].snap) = {}

(* No record of the cache C is older than what T says of its account.      *)
AheadOf(C, T) ==
    \A i \in Listed(T) :
        LET record == C[T[i].profile]
        IN  record # NoRecord /\ record.of = T[i].usage.of
                => record.seq >= T[i].usage.seq

(* How the table, now T, has changed since it was listed as S.             *)
Since(T, S) ==
    \A i \in Listed(T) :
        IF i \in Listed(S) THEN T[i] = S[i] ELSE T[i].usage = NoUsage

(* The collected records are cached, unless a deletion has pruned them.    *)
Cached(t) ==
    \A i \in AccountID : Has(t, i) =>
        cache[job[t].snap[i].profile] \in {job[t].recs[i], NoRecord}

ThreadFits(t) ==
    /\ OpFits(t) /\ HoldsLock(t) /\ CollectsListed(t) /\ DeadGone(t)
    /\ Sound(job[t].snap, born, clock)
    /\ Refreshing(t) /\ ~rolled => AheadOf(cache, job[t].snap) /\ Since(rows, job[t].snap)
    /\ pc[t] = "store" /\ ~rolled => Cached(t)

IInv ==
    /\ TypeOK
    /\ Sound(rows, born, clock)
    /\ ~rolled => AheadOf(cache, rows)
    /\ \A t \in Thread : ThreadFits(t)

-----------------------------------------------------------------------------
(* Rows, tables and requests                                               *)
LEMMA RowFacts ==
    /\ NoRow \notin Row /\ NoRecord \notin Usage /\ NoUsage \in Usage
    /\ NoUsage.seq = 0 /\ NoUsage.of = 0
    /\ \A r \in Row, u \in Usage : [r EXCEPT !.usage = u] \in Row
    /\ \A p \in Profile : [profile |-> p, usage |-> NoUsage] \in Row
BY UsageAssumption DEF Row, Usage, NoUsage

LEMMA TableFacts ==
    ASSUME NEW T \in Table
    PROVE  /\ Listed(T) \subseteq AccountID
           /\ \A i \in AccountID : i \in Listed(T) <=> T[i] \in Row
           /\ \A i \in Listed(T) : /\ T[i] \in Row
                                   /\ T[i].profile \in Profile /\ T[i].usage \in Usage
                                   /\ T[i].usage.seq \in Nat
           /\ Profiles(T) \subseteq Profile
BY RowFacts, UsageAssumption DEF Table, Listed, Profiles, Row, Usage

LEMMA EmptyTableFacts ==
    /\ EmptyTable \in Table /\ Listed(EmptyTable) = {} /\ Profiles(EmptyTable) = {}
BY DEF EmptyTable, Table, Listed, Profiles

LEMMA JobFacts ==
    /\ NoJob \in Job
    /\ \A op \in Op, i \in AccountID \cup {0} :
         [NoJob EXCEPT !.op = op] \in Job /\ [NoJob EXCEPT !.op = op, !.sel = i] \in Job
    /\ \A op \in Op, i \in AccountID \cup {0} :
         rows \in Table => Reading(op, i) \in Job
BY EmptyTableFacts DEF NoJob, Job, Op, Reading

LEMMA StartingFacts ==
    /\ Startup \in Job /\ StartingJob \in [Thread -> Job]
    /\ StartingPc \in [Thread -> {"idle", "lock"}]
BY JobFacts DEF Startup, Op, StartingJob, StartingPc

LEMMA UpdatedFacts ==
    ASSUME NEW t \in Thread, TypeOK, CollectsListed(t)
    PROVE  /\ Updated(t) \in Table
           /\ Listed(Updated(t)) = Listed(job[t].snap)
           /\ \A i \in Listed(job[t].snap) :
                /\ Updated(t)[i].profile = job[t].snap[i].profile
                /\ Updated(t)[i].usage = IF Has(t, i) THEN job[t].recs[i]
                                         ELSE job[t].snap[i].usage
<1> DEFINE snap == job[t].snap
<1>1. /\ job[t] \in Job /\ snap \in Table
      /\ job[t].recs \in [AccountID -> Usage \cup {NoRecord}]
    BY DEF TypeOK, Job
<1>2. ASSUME NEW i \in AccountID
      PROVE  /\ Updated(t)[i] \in Row \cup {NoRow}
             /\ Updated(t)[i] # NoRow <=> snap[i] # NoRow
             /\ snap[i] # NoRow =>
                  /\ Updated(t)[i].profile = snap[i].profile
                  /\ Updated(t)[i].usage = IF Has(t, i) THEN job[t].recs[i] ELSE snap[i].usage
  <2>1. CASE Has(t, i)
    <3>1. snap[i] \in Row /\ job[t].recs[i] \in Usage
        BY <1>1, <2>1, TableFacts DEF CollectsListed, Has
    <3>2. Updated(t)[i] = [snap[i] EXCEPT !.usage = job[t].recs[i]]
        BY <2>1 DEF Updated
    <3> QED
        BY <2>1, <3>1, <3>2, RowFacts DEF Row
  <2>2. CASE ~Has(t, i)
      BY <1>1, <2>2 DEF Updated, Table
  <2> QED
      BY <2>1, <2>2
<1>3. Updated(t) \in Table
    BY <1>2 DEF Updated, Table
<1> QED
    BY <1>2, <1>3 DEF Listed

(* What the write-back of usage makes of a row.                            *)
LEMMA ReplaceFacts ==
    ASSUME NEW T \in Table, NEW new \in Table
    PROVE  /\ ReplaceUsage(T, new) \in Table
           /\ Listed(ReplaceUsage(T, new)) = Listed(T)
           /\ \A j \in Listed(T) :
                /\ ReplaceUsage(T, new)[j].profile = T[j].profile
                /\ \/ /\ T[j].profile \notin Profiles(new)
                      /\ ReplaceUsage(T, new)[j] = T[j]
                   \/ \E i \in Listed(new) :
                        /\ new[i].profile = T[j].profile
                        /\ ReplaceUsage(T, new)[j].usage = new[i].usage
<1> DEFINE R == ReplaceUsage(T, new)
<1>1. ASSUME NEW j \in AccountID
      PROVE  /\ R[j] \in Row \cup {NoRow}
             /\ R[j] # NoRow <=> T[j] # NoRow
             /\ T[j] # NoRow =>
                 /\ R[j].profile = T[j].profile
                 /\ \/ T[j].profile \notin Profiles(new) /\ R[j] = T[j]
                    \/ \E i \in Listed(new) : /\ new[i].profile = T[j].profile
                                             /\ R[j].usage = new[i].usage
  <2>1. CASE T[j] = NoRow \/ T[j].profile \notin Profiles(new)
      BY <2>1 DEF ReplaceUsage, Table
  <2>2. CASE T[j] # NoRow /\ T[j].profile \in Profiles(new)
    <3> DEFINE i == CHOOSE k \in Listed(new) : new[k].profile = T[j].profile
    <3>1. i \in Listed(new) /\ new[i].profile = T[j].profile
        BY <2>2 DEF Profiles
    <3>2. R[j] = [T[j] EXCEPT !.usage = new[i].usage]
        BY <2>2 DEF ReplaceUsage
    <3>3. T[j] \in Row /\ new[i].usage \in Usage
        BY <2>2, <3>1, TableFacts DEF Table
    <3> HIDE DEF i
    <3> QED
        BY <2>2, <3>1, <3>2, <3>3, RowFacts DEF Row
  <2> QED
      BY <2>1, <2>2
<1>2. R \in Table
    BY <1>1 DEF ReplaceUsage, Table
<1> HIDE DEF R
<1>3. Listed(R) = Listed(T) /\ Listed(T) \subseteq AccountID
    BY <1>1 DEF Listed
<1> QED
    BY <1>1, <1>2, <1>3 DEF Listed, R

-----------------------------------------------------------------------------
(* Type correctness                                                        *)
Place == {"idle", "lock", "sync", "list", "commit", "delete",
          "collect", "store", "serve", "prune"}

LEMMA TypeGo ==
    ASSUME TypeOK, NEW t \in Thread, NEW to \in Place, NEW locals \in Job, Go(t, to, locals)
    PROVE  pc' \in [Thread -> Place] /\ job' \in [Thread -> Job]
BY DEF TypeOK, Go, Place

LEMMA TypeSetRows ==
    ASSUME TypeOK, NEW T \in Table, NEW gone \in SUBSET AccountID, SetRows(T, gone)
    PROVE  /\ rows' \in Table /\ dead' \in [Thread -> SUBSET AccountID]
           /\ loose' \in SUBSET AccountID
<1>1. \A p \in Profile : cache[p] # NoRecord => cache[p].of \in AccountID \cup {0}
    BY DEF TypeOK, Usage
<1>2. Profiles(T) \subseteq Profile
    BY TableFacts
<1>3. TakenOver(T) \in SUBSET AccountID
    BY <1>1, <1>2 DEF TakenOver
<1> QED
    BY <1>3 DEF TypeOK, SetRows

LEMMA TypeWriteBack ==
    ASSUME TypeOK, NEW T \in Table, WriteBack(T)
    PROVE  /\ rows' \in Table /\ dead' \in [Thread -> SUBSET AccountID]
           /\ loose' \in SUBSET AccountID /\ rolled' \in BOOLEAN
<1>1. Listed(rows) \ Listed(T) \in SUBSET AccountID
    BY DEF Listed
<1> QED
    BY <1>1, TypeSetRows DEF WriteBack, TypeOK

LEMMA SnapType ==
    ASSUME TypeOK, NEW t \in Thread
    PROVE  /\ job[t] \in Job /\ job[t].snap \in Table /\ job[t].op \in Op
           /\ job[t].sel \in AccountID \cup {0} /\ job[t].todo \subseteq AccountID
           /\ job[t].recs \in [AccountID -> Usage \cup {NoRecord}]
BY DEF TypeOK, Job

LEMMA TypeStart ==
    ASSUME TypeOK, NEW t \in Thread, Start(t) \/ (t = Ticker /\ Tick)
    PROVE  TypeOK'
<1> USE DEF Begin, Return
<1>1. CASE t = Ticker /\ Tick
  <2>1. [NoJob EXCEPT !.op = "tick"] \in Job
      BY JobFacts DEF Op
  <2> QED
      BY <1>1, <2>1, TypeGo DEF Tick, TypeOK, Place
<1>2. CASE StartRecords(t)
  <2>1. Reading("records", 0) \in Job
      BY JobFacts DEF Op, TypeOK
  <2>2. dead' \in [Thread -> SUBSET AccountID]
      BY <1>2 DEF StartRecords, TypeOK
  <2> QED
      BY <1>2, <2>1, <2>2, TypeGo DEF StartRecords, TypeOK, Place
<1>3. ASSUME NEW i \in born, Begin(t, "list", Reading("switch", i)), UNCHANGED <<dead, loose>>
      PROVE  TypeOK'
  <2>1. Reading("switch", i) \in Job
      BY JobFacts DEF Op, TypeOK
  <2> QED
      BY <1>3, <2>1, TypeGo DEF TypeOK, Place
<1>4. ASSUME NEW i \in born, NEW op \in {"delete", "refresh"}, NEW to \in {"delete", "lock"},
             Begin(t, to, [NoJob EXCEPT !.op = op, !.sel = i]), UNCHANGED <<dead, loose>>
      PROVE  TypeOK'
  <2>1. [NoJob EXCEPT !.op = op, !.sel = i] \in Job
      BY JobFacts DEF Op, TypeOK
  <2> QED
      BY <1>4, <2>1, TypeGo DEF TypeOK, Place
<1>5. ASSUME NEW i \in AccountID, NEW p \in Profile, AddRow(i, p),
             Go(t, "lock", [NoJob EXCEPT !.op = "added", !.sel = i]),
             UNCHANGED <<cache, clock, lock, rolled>>
      PROVE  TypeOK'
  <2>1. [NoJob EXCEPT !.op = "added", !.sel = i] \in Job
      BY JobFacts DEF Op
  <2>2. [rows EXCEPT ![i] = [profile |-> p, usage |-> NoUsage]] \in Table
      BY RowFacts DEF TypeOK, Table
  <2>3. rows' \in Table /\ dead' \in [Thread -> SUBSET AccountID] /\ born' \in SUBSET AccountID
        /\ loose' \in SUBSET AccountID
      BY <1>5, <2>2, TypeSetRows DEF AddRow, TypeOK
  <2> QED
      BY <1>5, <2>1, <2>3, TypeGo DEF TypeOK, Place
<1> QED
    BY <1>1, <1>2, <1>3, <1>4, <1>5
       DEF Start, StartSwitch, StartDelete, StartRefresh, AddAccount

LEMMA TypeLoginAdds ==
    ASSUME TypeOK, LoginAdds
    PROVE  TypeOK'
<1>1. PICK i \in AccountID, p \in Profile : AddRow(i, p)
    BY DEF LoginAdds
<1>2. [rows EXCEPT ![i] = [profile |-> p, usage |-> NoUsage]] \in Table
    BY RowFacts DEF TypeOK, Table
<1>3. rows' \in Table /\ dead' \in [Thread -> SUBSET AccountID] /\ born' \in SUBSET AccountID
        /\ loose' \in SUBSET AccountID
    BY <1>1, <1>2, TypeSetRows DEF AddRow, TypeOK
<1> QED
    BY <1>3 DEF LoginAdds, TypeOK

(* Where the request of a listing goes next.                               *)
LEMMA AfterFacts ==
    /\ After("switch") = "commit" /\ After("records") = "serve" /\ After("delete") = "prune"
    /\ \A op \in RefreshOp : After(op) = "collect"
BY DEF After, RefreshOp

LEMMA ListToFacts ==
    ASSUME TypeOK, NEW t \in Thread, OpFits(t), pc[t] = "list", NEW T \in Table, ListTo(t, T)
    PROVE  \/ job[t].op = "reply" /\ Go(t, "idle", NoJob)
           \/ /\ job[t].op \in Op \ {"none", "reply"}
              /\ \E S \in SUBSET Listed(T) :
                    Go(t, After(job[t].op), [job[t] EXCEPT !.snap = T, !.todo = S])
<1>1. CASE job[t].op = "reply"
    BY <1>1 DEF ListTo, Return
<1>2. CASE job[t].op # "reply"
    BY <1>2, SnapType DEF ListTo, OpFits
<1> QED
    BY <1>1, <1>2

LEMMA TypeListTo ==
    ASSUME TypeOK, NEW t \in Thread, OpFits(t), pc[t] = "list", NEW T \in Table, ListTo(t, T)
    PROVE  pc' \in [Thread -> Place] /\ job' \in [Thread -> Job]
<1>1. CASE Go(t, "idle", NoJob)
    BY <1>1, TypeGo, JobFacts DEF Place
<1>2. ASSUME NEW S \in SUBSET Listed(T), job[t].op \in Op \ {"none", "reply"},
             Go(t, After(job[t].op), [job[t] EXCEPT !.snap = T, !.todo = S])
      PROVE  pc' \in [Thread -> Place] /\ job' \in [Thread -> Job]
  <2>1. After(job[t].op) \in Place
      BY <1>2, AfterFacts DEF Op, RefreshOp, Place
  <2>2. [job[t] EXCEPT !.snap = T, !.todo = S] \in Job
      BY <1>2, SnapType, TableFacts DEF Job
  <2> QED
      BY <1>2, <2>1, <2>2, TypeGo
<1> QED
    BY <1>1, <1>2, ListToFacts

LEMMA TypeStep ==
    ASSUME TypeOK, NEW t \in Thread, OpFits(t), CollectsListed(t), Lock(t) \/ Step(t)
    PROVE  TypeOK'
<1> USE SnapType DEF Return, Unlocked, At
<1>1. CASE Lock(t) \/ Sync(t)
  <2>1. Reading(job[t].op, job[t].sel) \in Job
      BY JobFacts DEF TypeOK
  <2> QED
      BY <1>1, <2>1, TypeGo DEF Lock, Sync, TypeOK, Place
<1>2. CASE List(t)
    BY <1>2, TypeListTo DEF List, TypeOK, Place
<1>3. CASE ListRewrites(t)
    BY <1>3, TypeListTo, TypeWriteBack DEF ListRewrites, TypeOK, Place
<1>4. ASSUME NEW i \in AccountID, NEW u \in Usage, NEW c \in 0 .. MaxSeq,
             Collected(t, i, u), clock' = c
      PROVE  TypeOK'
  <2>1. [job[t] EXCEPT !.todo = @ \ {i}, !.recs[i] = u] \in Job
      BY DEF Job
  <2> QED
      BY <1>4, <2>1, TypeGo DEF Collected, TypeOK, Place
<1>5. CASE Collect(t)
  <2>1. ASSUME NEW i \in AccountID, CollectLive(t, i) PROVE TypeOK'
    <3> DEFINE seq == IF clock < MaxSeq THEN clock + 1 ELSE MaxSeq
    <3>1. seq \in 0 .. MaxSeq
        BY UsageAssumption DEF TypeOK
    <3>2. [of |-> i, seq |-> seq] \in Usage
        BY <3>1 DEF Usage
    <3> QED
        BY <1>4, <2>1, <3>1, <3>2 DEF CollectLive
  <2>2. ASSUME NEW i \in AccountID, CollectSaved(t, i) PROVE TypeOK'
    <3>1. job[t].snap[i].usage \in Usage
        BY <2>2, TableFacts DEF CollectSaved, Collected, First, CollectsListed
    <3> QED
        BY <1>4, <2>2, <3>1 DEF CollectSaved, TypeOK
  <2> QED
      BY <1>5, <2>1, <2>2 DEF Collect
<1>6. CASE RefreshNothing(t)
  <2>1. cache' \in [Profile -> Usage \cup {NoRecord}]
      BY <1>6 DEF RefreshNothing, EmptyCache, TypeOK
  <2> QED
      BY <1>6, <2>1, TypeGo, JobFacts DEF RefreshNothing, TypeOK, Place
<1>7. CASE CacheRecords(t)
  <2>1. ASSUME NEW kept \in [Profile -> Usage \cup {NoRecord}]
        PROVE  ByProfile(t, kept) \in [Profile -> Usage \cup {NoRecord}]
    <3>1. ASSUME NEW p \in Profile,
                 NEW own, own = {i \in AccountID : Has(t, i) /\ job[t].snap[i].profile = p}
          PROVE  (IF own = {} THEN kept[p] ELSE job[t].recs[CHOOSE i \in own : TRUE])
                     \in Usage \cup {NoRecord}
        BY <3>1
    <3> QED
        BY <3>1 DEF ByProfile
  <2>2. cache \in [Profile -> Usage \cup {NoRecord}]
        /\ EmptyCache \in [Profile -> Usage \cup {NoRecord}]
      BY DEF TypeOK, EmptyCache
  <2>3. cache' \in [Profile -> Usage \cup {NoRecord}]
      BY <1>7, <2>1, <2>2 DEF CacheRecords
  <2> QED
      BY <1>7, <2>3, TypeGo DEF CacheRecords, TypeOK, Place
<1>8. CASE Store(t)
  <2>1. ReplaceUsage(rows, Updated(t)) \in Table
      BY UpdatedFacts, ReplaceFacts DEF TypeOK
  <2>2. rows' \in Table /\ dead' \in [Thread -> SUBSET AccountID] /\ loose' \in SUBSET AccountID
      BY <1>8, <2>1, TypeSetRows DEF Store, TypeOK
  <2>3. pc' \in [Thread -> Place] /\ job' \in [Thread -> Job]
      BY <1>8, TypeGo, JobFacts DEF Store, Place, Op
  <2> QED
      BY <1>8, <2>2, <2>3 DEF Store, TypeOK, Place
<1>9. CASE SwitchCommit(t)
  <2>1. /\ rows' \in Table /\ dead' \in [Thread -> SUBSET AccountID]
        /\ loose' \in SUBSET AccountID /\ rolled' \in BOOLEAN
      BY <1>9, TypeWriteBack DEF SwitchCommit, TypeOK
  <2>2. pc' \in [Thread -> Place] /\ job' \in [Thread -> Job]
      BY <1>9, TypeGo, JobFacts DEF SwitchCommit, Place, Op
  <2> QED
      BY <1>9, <2>1, <2>2 DEF SwitchCommit, TypeOK, Place
<1>10. CASE DeleteCommit(t)
  <2>1. \A i \in AccountID : [rows EXCEPT ![i] = NoRow] \in Table
      BY DEF TypeOK, Table
  <2>2. rows' \in Table /\ dead' \in [Thread -> SUBSET AccountID] /\ loose' \in SUBSET AccountID
    <3>1. CASE job[t].sel \in Listed(rows)
      <4> DEFINE gone == {i \in {job[t].sel} : Known(i)}
      <4>1. job[t].sel \in AccountID /\ gone \in SUBSET AccountID
          BY <3>1 DEF Listed
      <4>2. SetRows([rows EXCEPT ![job[t].sel] = NoRow], gone)
          BY <1>10, <3>1 DEF DeleteCommit
      <4> HIDE DEF gone
      <4> QED
          BY <2>1, <4>1, <4>2, TypeSetRows
    <3>2. CASE job[t].sel \notin Listed(rows)
        BY <1>10, <3>2 DEF DeleteCommit, TypeOK
    <3> QED
        BY <3>1, <3>2
  <2>3. pc' \in [Thread -> Place] /\ job' \in [Thread -> Job]
      BY <1>10, TypeGo, JobFacts DEF DeleteCommit, Place
  <2> QED
      BY <1>10, <2>2, <2>3 DEF DeleteCommit, TypeOK, Place
<1>11. CASE Prune(t)
  <2>1. cache' \in [Profile -> Usage \cup {NoRecord}]
      BY <1>11 DEF Prune, TypeOK
  <2> QED
      BY <1>11, <2>1, TypeGo, JobFacts DEF Prune, TypeOK, Place
<1>12. CASE Serve(t)
    BY <1>12, TypeGo, JobFacts DEF Serve, TypeOK, Place
<1> QED
    BY <1>1, <1>2, <1>3, <1>5, <1>6, <1>7, <1>8, <1>9, <1>10, <1>11, <1>12
       DEF Step, Refresh

LEMMA TypeCrash ==
    ASSUME TypeOK, Crash
    PROVE  TypeOK'
BY StartingFacts DEF Crash, TypeOK, EmptyCache

-----------------------------------------------------------------------------
(* Tables                                                                  *)
LEMMA SoundStays ==
    ASSUME NEW T \in Table, NEW b, NEW c \in Nat, NEW b2, NEW c2 \in Nat,
           Sound(T, b, c), b \subseteq b2, c <= c2
    PROVE  Sound(T, b2, c2)
BY TableFacts DEF Sound

LEMMA SoundEmpty ==
    ASSUME NEW b, NEW c PROVE Sound(EmptyTable, b, c)
BY EmptyTableFacts DEF Sound

LEMMA SoundDelete ==
    ASSUME NEW T \in Table, NEW b, NEW c \in Nat, Sound(T, b, c), NEW i \in AccountID,
           NEW T2, T2 = [T EXCEPT ![i] = NoRow]
    PROVE  /\ Sound(T2, b, c)
           /\ \A j \in Listed(T2) : j \in Listed(T) /\ T2[j] = T[j]
<1>1. \A j \in Listed(T2) : j \in Listed(T) /\ T2[j] = T[j]
    BY DEF Table, Listed
<1>2. Sound(T2, b, c)
    BY <1>1 DEF Sound
<1> QED
    BY <1>1, <1>2

LEMMA SoundReplace ==
    ASSUME NEW T \in Table, NEW new \in Table, NEW b, NEW c \in Nat,
           Sound(T, b, c), Sound(new, b, c)
    PROVE  Sound(ReplaceUsage(T, new), b, c)
<1> DEFINE R == ReplaceUsage(T, new)
<1>1. Listed(R) = Listed(T) /\ \A j \in Listed(T) : R[j].profile = T[j].profile
    BY ReplaceFacts
<1>2. \A j \in Listed(T) : R[j].usage.seq <= c
    BY ReplaceFacts DEF Sound
<1> HIDE DEF R
<1>3. Sound(R, b, c)
    BY <1>1, <1>2 DEF Sound
<1> QED
    BY <1>3 DEF R

LEMMA SoundUpdated ==
    ASSUME TypeOK, NEW t \in Thread, CollectsListed(t), Sound(job[t].snap, born, clock)
    PROVE  Sound(Updated(t), born, clock)
BY UpdatedFacts DEF Sound, CollectsListed, Listed

LEMMA SetRowsDead ==
    ASSUME TypeOK, NEW T, NEW gone, SetRows(T, gone), NEW t \in Thread
    PROVE  dead'[t] \subseteq dead[t] /\ dead'[t] \cap Listed(T) = {}
BY DEF TypeOK, SetRows

(* A cache that only loses records.                                        *)
LEMMA AheadStays ==
    ASSUME NEW T \in Table, NEW C, NEW C2, AheadOf(C, T),
           \A p \in Profile : C2[p] \in {C[p], NoRecord}
    PROVE  AheadOf(C2, T)
BY TableFacts DEF AheadOf

-----------------------------------------------------------------------------
(* What a step leaves intact of a thread that it does not move, or that    *)
(* stays outside a refresh with the locals it has.                         *)
LEMMA Frame ==
    ASSUME TypeOK, TypeOK', NEW u \in Thread, ThreadFits(u), job'[u] = job[u],
           pc'[u] = pc[u] \/ (~Refreshing(u) /\ ~Refreshing(u)'),
           OpFits(u)', HoldsLock(u)',
           born \subseteq born', clock <= clock',
           dead'[u] \subseteq dead[u], dead'[u] \cap Listed(rows') = {},
           Refreshing(u) /\ ~rolled' =>
               /\ ~rolled
               /\ \A i \in Listed(rows') : (i \in Listed(rows) /\ rows'[i] = rows[i])
                                         \/ (i \notin born /\ rows'[i].usage = NoUsage)
               /\ \A p \in Profile : cache'[p] \in {cache[p], NoRecord}
    PROVE  ThreadFits(u)'
<1> DEFINE snap == job[u].snap
<1>1. /\ snap \in Table /\ clock \in Nat /\ clock' \in Nat
      /\ job[u].recs \in [AccountID -> Usage \cup {NoRecord}]
    BY SnapType DEF TypeOK
<1>2. Sound(snap, born, clock) /\ Sound(snap, born', clock')
    BY <1>1, SoundStays DEF ThreadFits
<1>3. CollectsListed(u)'
  <2>1. \A i \in AccountID : Has(u, i)' <=> Has(u, i)
      BY DEF Has
  <2>2. \A i \in AccountID : Has(u, i) => job[u].recs[i].seq \in Nat
      BY <1>1, UsageAssumption DEF Has, Usage
  <2>3. ~Refreshing(u)' => ~Refreshing(u)
      BY DEF Refreshing
  <2> QED
      BY <1>1, <2>1, <2>2, <2>3 DEF ThreadFits, CollectsListed, HasRecords
<1>4. DeadGone(u)'
    BY DEF ThreadFits, DeadGone
<1>5. ASSUME Refreshing(u)', ~rolled' PROVE AheadOf(cache', snap) /\ Since(rows', snap)
  <2>1. /\ Refreshing(u) /\ ~rolled
        /\ AheadOf(cache, snap) /\ Since(rows, snap)
      BY <1>5 DEF Refreshing, ThreadFits
  <2>2. AheadOf(cache', snap)
      BY <1>1, <1>5, <2>1, AheadStays
  <2>3. Since(rows', snap)
      BY <1>2, <1>5, <2>1 DEF Since, Sound
  <2> QED
      BY <2>2, <2>3
<1>6. ASSUME (pc[u] = "store")', ~rolled' PROVE Cached(u)'
  <2>1. pc[u] = "store" /\ Refreshing(u) /\ ~rolled /\ Cached(u)
      BY <1>6 DEF Refreshing, ThreadFits
  <2>2. \A i \in AccountID : Has(u, i) => job[u].snap[i].profile \in Profile
      BY <1>1, TableFacts DEF ThreadFits, CollectsListed
  <2> QED
      BY <1>6, <2>1, <2>2 DEF Cached, Has
<1> QED
    BY <1>2, <1>3, <1>4, <1>5, <1>6 DEF ThreadFits

(* A thread with nothing, or with the table of this moment.                *)
LEMMA Fresh ==
    ASSUME TypeOK', NEW t \in Thread, Sound(rows, born, clock)',
           (~rolled => AheadOf(cache, rows))',
           OpFits(t)', HoldsLock(t)', pc'[t] # "store",
           job'[t].snap = rows' \/ (job'[t].snap = EmptyTable /\ pc'[t] # "collect"),
           job'[t].todo \subseteq Listed(job'[t].snap),
           \A i \in AccountID : job'[t].recs[i] = NoRecord,
           dead'[t] \cap Listed(rows') = {}
    PROVE  ThreadFits(t)'
<1>1. CollectsListed(t)'
    BY DEF CollectsListed, Has, HasRecords
<1>2. DeadGone(t)'
    BY EmptyTableFacts DEF DeadGone
<1>3. Sound(job'[t].snap, born', clock')
    BY SoundEmpty
<1>4. Refreshing(t)' => job'[t].snap = rows'
    BY DEF Refreshing
<1>5. Since(rows', rows')
    BY DEF Since
<1> QED
    BY <1>1, <1>2, <1>3, <1>4, <1>5 DEF ThreadFits

LEMMA OthersOut ==
    ASSUME IInv, NEW t \in Thread, lock = t, NEW u \in Thread \ {t}
    PROVE  lock # u /\ ~Refreshing(u)
BY DEF IInv, ThreadFits, HoldsLock

(* The threads that do not move, when the mutex does not change hands in a *)
(* way that concerns them.                                                 *)
LEMMA Others ==
    ASSUME IInv, TypeOK', NEW t \in Thread, NEW u \in Thread \ {t},
           pc'[u] = pc[u], job'[u] = job[u],
           lock' = u <=> lock = u,
           born \subseteq born', clock <= clock',
           dead'[u] \subseteq dead[u], dead'[u] \cap Listed(rows') = {},
           \/ lock = t
           \/ ~rolled' =>
               /\ ~rolled
               /\ \A i \in Listed(rows') : (i \in Listed(rows) /\ rows'[i] = rows[i])
                                         \/ (i \notin born /\ rows'[i].usage = NoUsage)
               /\ \A p \in Profile : cache'[p] \in {cache[p], NoRecord}
    PROVE  ThreadFits(u)'
<1>1. ThreadFits(u) /\ TypeOK
    BY DEF IInv
<1>2. OpFits(u)' /\ HoldsLock(u)'
    BY <1>1 DEF ThreadFits, OpFits, HoldsLock, Refreshing
<1>3. lock = t => ~Refreshing(u)
    BY OthersOut
<1> QED
    BY <1>1, <1>2, <1>3, Frame

-----------------------------------------------------------------------------
(* Steps outside the refreshes                                             *)
LEMMA ReadingFacts ==
    ASSUME NEW op, NEW i
    PROVE  /\ Reading(op, i).op = op /\ Reading(op, i).snap = rows
           /\ Reading(op, i).todo = {} /\ \A j \in AccountID : Reading(op, i).recs[j] = NoRecord
BY DEF Reading, NoJob

LEMMA NoJobFacts ==
    /\ NoJob.op = "none" /\ NoJob.snap = EmptyTable /\ NoJob.todo = {}
    /\ \A j \in AccountID : NoJob.recs[j] = NoRecord
BY DEF NoJob

LEMMA RequestFacts ==
    ASSUME NEW op, NEW i
    PROVE  /\ [NoJob EXCEPT !.op = op, !.sel = i].op = op
           /\ [NoJob EXCEPT !.op = op, !.sel = i].snap = EmptyTable
           /\ [NoJob EXCEPT !.op = op, !.sel = i].todo = {}
           /\ \A j \in AccountID : [NoJob EXCEPT !.op = op, !.sel = i].recs[j] = NoRecord
BY DEF NoJob

LEMMA AskFacts ==
    ASSUME NEW op
    PROVE  /\ [NoJob EXCEPT !.op = op].op = op
           /\ [NoJob EXCEPT !.op = op].snap = EmptyTable
           /\ [NoJob EXCEPT !.op = op].todo = {}
           /\ \A j \in AccountID : [NoJob EXCEPT !.op = op].recs[j] = NoRecord
BY DEF NoJob

(* A request that begins, by its place and its locals.                     *)
LEMMA InvBegin ==
    ASSUME IInv, TypeOK', NEW t \in Thread, NEW to \in {"lock", "list", "delete"}, NEW request,
           Begin(t, to, request),
           to = "lock" => request.op \in RefreshOp,
           to = "list" => request.op \in {"records", "switch"} /\ request.snap = rows,
           to = "delete" => request.op = "delete",
           request.snap = rows \/ request.snap = EmptyTable,
           request.todo = {}, \A i \in AccountID : request.recs[i] = NoRecord,
           \A u \in Thread : dead'[u] \subseteq dead[u] \/ u = t,
           \A u \in Thread : dead'[u] \cap Listed(rows') = {}
    PROVE  IInv'
<1> USE DEF Begin, Go
<1>1. /\ pc[t] = "idle" /\ pc' = [pc EXCEPT ![t] = to] /\ job' = [job EXCEPT ![t] = request]
      /\ pc'[t] = to /\ job'[t] = request
      /\ UNCHANGED <<rows, born, cache, clock, lock, rolled>>
    BY DEF At, IInv, TypeOK
<1>2. TypeOK /\ Sound(rows, born, clock) /\ (~rolled => AheadOf(cache, rows)) /\ ThreadFits(t)
    BY DEF IInv
<1>3. Sound(rows, born, clock)' /\ (~rolled => AheadOf(cache, rows))'
    BY <1>1, <1>2
<1>4. ThreadFits(t)'
  <2>1. lock # t
      BY <1>1, <1>2 DEF ThreadFits, HoldsLock, Refreshing
  <2>2. OpFits(t)'
      BY <1>1 DEF OpFits, Refreshing
  <2>3. HoldsLock(t)'
      BY <1>1, <2>1 DEF HoldsLock, Refreshing, RefreshOp
  <2> QED
      BY <1>1, <1>3, <2>2, <2>3, Fresh
<1>5. ASSUME NEW u \in Thread \ {t} PROVE ThreadFits(u)'
  <2>1. pc'[u] = pc[u] /\ job'[u] = job[u]
      BY <1>1, <1>2 DEF TypeOK
  <2>2. clock <= clock'
      BY <1>1, <1>2, UsageAssumption DEF TypeOK
  <2> QED
      BY <1>1, <2>1, <2>2, Others
<1> QED
    BY <1>3, <1>4, <1>5 DEF IInv

LEMMA InvRequests ==
    ASSUME IInv, NEW t \in Thread,
           \/ t = Ticker /\ Tick
           \/ StartRecords(t) \/ StartSwitch(t) \/ StartDelete(t) \/ StartRefresh(t)
    PROVE  IInv'
<1>1. TypeOK /\ TypeOK'
    BY TypeStart DEF IInv, Start
<1>2. rows' = rows /\ (UNCHANGED <<dead, loose>> =>
                          \A u \in Thread : dead'[u] \cap Listed(rows') = {})
    BY DEF IInv, ThreadFits, DeadGone, Tick, StartRecords, StartSwitch, StartDelete,
           StartRefresh, Begin
<1>3. CASE t = Ticker /\ Tick
  <2> DEFINE request == [NoJob EXCEPT !.op = "tick"]
  <2>1. /\ request.op \in RefreshOp /\ request.snap = EmptyTable /\ request.todo = {}
        /\ \A j \in AccountID : request.recs[j] = NoRecord
      BY AskFacts DEF RefreshOp
  <2>2. Begin(t, "lock", request) /\ UNCHANGED <<dead, loose>>
      BY <1>3 DEF Tick
  <2> HIDE DEF request
  <2> QED
      BY <1>1, <1>2, <2>1, <2>2, InvBegin
<1>4. ASSUME NEW op \in {"records", "switch"}, NEW i, Begin(t, "list", Reading(op, i)),
             \A u \in Thread : /\ dead'[u] \subseteq dead[u] \/ u = t
                               /\ dead'[u] \cap Listed(rows') = {}
      PROVE  IInv'
  <2> DEFINE request == Reading(op, i)
  <2>1. /\ request.op = op /\ request.snap = rows /\ request.todo = {}
        /\ \A j \in AccountID : request.recs[j] = NoRecord
      BY ReadingFacts
  <2>2. Begin(t, "list", request)
      BY <1>4
  <2> HIDE DEF request
  <2> QED
      BY <1>1, <1>4, <2>1, <2>2, InvBegin
<1>5. CASE StartRecords(t)
  <2>1. \A u \in Thread : /\ dead'[u] \subseteq dead[u] \/ u = t
                          /\ dead'[u] \cap Listed(rows') = {}
      BY <1>1, <1>2, <1>5 DEF StartRecords, TypeOK, IInv, ThreadFits, DeadGone
  <2>2. Begin(t, "list", Reading("records", 0))
      BY <1>5 DEF StartRecords
  <2> QED
      BY <1>4, <2>1, <2>2
<1>6. CASE StartSwitch(t)
  <2>1. PICK i \in born : Begin(t, "list", Reading("switch", i)) /\ UNCHANGED <<dead, loose>>
      BY <1>6 DEF StartSwitch
  <2> QED
      BY <1>2, <1>4, <2>1
<1>7. ASSUME NEW op, NEW i, NEW to \in {"lock", "delete"},
             to = "lock" => op \in RefreshOp, to = "delete" => op = "delete",
             Begin(t, to, [NoJob EXCEPT !.op = op, !.sel = i]), UNCHANGED <<dead, loose>>
      PROVE  IInv'
  <2> DEFINE request == [NoJob EXCEPT !.op = op, !.sel = i]
  <2>1. /\ request.op = op /\ request.snap = EmptyTable /\ request.todo = {}
        /\ \A j \in AccountID : request.recs[j] = NoRecord
      BY RequestFacts
  <2>2. Begin(t, to, request)
      BY <1>7
  <2> HIDE DEF request
  <2> QED
      BY <1>1, <1>2, <1>7, <2>1, <2>2, InvBegin
<1>8. CASE StartDelete(t)
  <2>1. PICK i \in born : /\ Begin(t, "delete", [NoJob EXCEPT !.op = "delete", !.sel = i])
                          /\ UNCHANGED <<dead, loose>>
      BY <1>8 DEF StartDelete
  <2> QED
      BY <1>7, <2>1
<1>9. CASE StartRefresh(t)
  <2>1. PICK i \in born : /\ Begin(t, "lock", [NoJob EXCEPT !.op = "refresh", !.sel = i])
                          /\ UNCHANGED <<dead, loose>>
      BY <1>9 DEF StartRefresh
  <2> QED
      BY <1>7, <2>1 DEF RefreshOp
<1> QED
    BY <1>3, <1>5, <1>6, <1>8, <1>9

(* What a new account does to the table and to what is said of it.         *)
LEMMA AddFacts ==
    ASSUME IInv, NEW i \in AccountID, NEW p \in Profile, AddRow(i, p),
           UNCHANGED <<cache, clock, rolled>>
    PROVE  /\ Sound(rows, born, clock)' /\ (~rolled => AheadOf(cache, rows))'
           /\ born \subseteq born'
           /\ \A u \in Thread : dead'[u] \subseteq dead[u] /\ dead'[u] \cap Listed(rows') = {}
           /\ \A j \in Listed(rows') : (j \in Listed(rows) /\ rows'[j] = rows[j])
                                     \/ (j \notin born /\ rows'[j].usage = NoUsage)
<1>1. /\ i \notin born /\ p \notin Profiles(rows) /\ born' = born \cup {i}
      /\ rows' = [rows EXCEPT ![i] = [profile |-> p, usage |-> NoUsage]]
      /\ SetRows(rows', {})
    BY DEF AddRow, First, SetRows, TakenOver
<1>2. rows \in Table /\ clock \in Nat /\ Sound(rows, born, clock) /\ TypeOK
    BY DEF IInv, TypeOK
<1>3. /\ Sound(rows', born', clock')
      /\ \A j \in Listed(rows') : (j \in Listed(rows) /\ rows'[j] = rows[j])
                                \/ (j = i /\ rows'[j].usage = NoUsage)
  <2>1. \A j \in AccountID :
            rows'[j] = IF j = i THEN [profile |-> p, usage |-> NoUsage] ELSE rows[j]
      BY <1>1, <1>2 DEF Table
  <2>2. Listed(rows') = Listed(rows) \cup {i} /\ i \notin Listed(rows)
      BY <1>1, <1>2, <2>1, RowFacts DEF Listed, Sound
  <2>3. \A j \in Listed(rows) : j \in AccountID /\ rows[j].profile # p
      BY <1>1 DEF Profiles, Listed
  <2>4. /\ rows'[i].profile = p /\ rows'[i].usage = NoUsage
        /\ \A j \in Listed(rows) : rows'[j] = rows[j]
      BY <2>1, <2>2, <2>3
  <2>5. \A j, k \in Listed(rows') : rows'[j].profile = rows'[k].profile => j = k
      BY <1>2, <2>2, <2>3, <2>4 DEF Sound
  <2>6. \A j \in Listed(rows') : rows'[j].usage.seq <= clock
      BY <1>2, <2>2, <2>4, RowFacts DEF Sound
  <2>7. Sound(rows', born', clock')
    <3>1. Listed(rows') \subseteq born' /\ clock' = clock
        BY <1>1, <1>2, <2>2 DEF Sound
    <3> QED
        BY <2>5, <2>6, <3>1 DEF Sound
  <2> QED
      BY <2>2, <2>4, <2>7
<1>4. \A u \in Thread : dead'[u] \subseteq dead[u] /\ dead'[u] \cap Listed(rows') = {}
    BY <1>1, <1>2 DEF TypeOK, SetRows
<1>5. ASSUME ~rolled' PROVE AheadOf(cache', rows')
  <2>1. AheadOf(cache, rows)
      BY <1>5 DEF IInv
  <2>2. ASSUME NEW j \in Listed(rows'), cache[rows'[j].profile] # NoRecord,
               cache[rows'[j].profile].of = rows'[j].usage.of
        PROVE  cache[rows'[j].profile].seq >= rows'[j].usage.seq
    <3>1. CASE j \in Listed(rows) /\ rows'[j] = rows[j]
        BY <2>1, <2>2, <3>1 DEF AheadOf
    <3>2. CASE j = i /\ rows'[j].usage = NoUsage
      <4>1. rows'[j].profile = p
          BY <1>1, <1>2, <3>2 DEF Table
      <4>2. cache[p] \in Usage
          BY <1>2, <2>2, <4>1 DEF TypeOK
      <4> QED
          BY <3>2, <4>1, <4>2, RowFacts, UsageAssumption DEF Usage
    <3> QED
        BY <1>3, <3>1, <3>2
  <2> QED
      BY <2>2 DEF AheadOf
<1> QED
    BY <1>1, <1>3, <1>4, <1>5

LEMMA InvAdd ==
    ASSUME IInv, LoginAdds \/ \E t \in Thread : AddAccount(t)
    PROVE  IInv'
<1>1. CASE LoginAdds
  <2>1. PICK i \in AccountID, p \in Profile : AddRow(i, p)
      BY <1>1 DEF LoginAdds
  <2>2. TypeOK /\ TypeOK'
      BY <1>1, TypeLoginAdds DEF IInv
  <2>3. UNCHANGED <<cache, clock, lock, pc, job, rolled>> /\ clock <= clock'
      BY <1>1, <2>2, UsageAssumption DEF LoginAdds, TypeOK
  <2>4. ASSUME NEW u \in Thread PROVE ThreadFits(u)'
    <3>1. ThreadFits(u)
        BY DEF IInv
    <3>2. OpFits(u)' /\ HoldsLock(u)'
        BY <2>3, <3>1 DEF ThreadFits, OpFits, HoldsLock, Refreshing
    <3> QED
        BY <2>1, <2>2, <2>3, <3>1, <3>2, AddFacts, Frame
  <2> QED
      BY <2>1, <2>2, <2>3, <2>4, AddFacts DEF IInv
<1>2. ASSUME NEW t \in Thread, AddAccount(t) PROVE IInv'
  <2>1. PICK i \in AccountID, p \in Profile :
            AddRow(i, p) /\ Go(t, "lock", [NoJob EXCEPT !.op = "added", !.sel = i])
      BY <1>2 DEF AddAccount
  <2>2. TypeOK /\ TypeOK'
      BY <1>2, TypeStart DEF IInv, Start
  <2>a. clock \in Nat
      BY <2>2, UsageAssumption DEF TypeOK
  <2>b. UNCHANGED <<cache, clock, lock, rolled>> /\ pc[t] = "idle"
      BY <1>2 DEF AddAccount, At
  <2>3. UNCHANGED <<cache, clock, lock, rolled>> /\ clock <= clock' /\ pc[t] = "idle"
      BY <2>a, <2>b
  <2>4. /\ pc'[t] = "lock" /\ job'[t].op = "added" /\ job'[t].snap = EmptyTable
        /\ job'[t].todo = {} /\ \A j \in AccountID : job'[t].recs[j] = NoRecord
        /\ \A u \in Thread \ {t} : pc'[u] = pc[u] /\ job'[u] = job[u]
      BY <2>1, <2>2, RequestFacts DEF Go, TypeOK
  <2>5. ThreadFits(t)'
    <3>1. lock # t
        BY <2>3 DEF IInv, ThreadFits, HoldsLock, Refreshing
    <3>2. OpFits(t)' /\ HoldsLock(t)'
        BY <2>3, <2>4, <3>1 DEF OpFits, HoldsLock, Refreshing, RefreshOp
    <3> QED
        BY <2>1, <2>2, <2>3, <2>4, <3>2, AddFacts, Fresh
  <2>6. ASSUME NEW u \in Thread \ {t} PROVE ThreadFits(u)'
      BY <2>1, <2>2, <2>3, <2>4, AddFacts, Others
  <2> QED
      BY <2>1, <2>2, <2>3, <2>5, <2>6, AddFacts DEF IInv
<1> QED
    BY <1>1, <1>2

-----------------------------------------------------------------------------
(* Reading the table                                                       *)
LEMMA NoRecords ==
    ASSUME IInv, NEW t \in Thread, ~Refreshing(t)
    PROVE  \A i \in AccountID : job[t].recs[i] = NoRecord
BY DEF IInv, ThreadFits, CollectsListed, HasRecords, Has

LEMMA ClockFacts ==
    ASSUME TypeOK PROVE clock \in Nat /\ clock <= MaxSeq /\ MaxSeq \in Nat
BY UsageAssumption DEF TypeOK

(* The mutex is taken with the first reading, and a sync reads without.    *)
LEMMA InvRead ==
    ASSUME IInv, NEW t \in Thread, Lock(t) \/ Sync(t)
    PROVE  IInv'
<1>1. TypeOK /\ TypeOK'
    BY TypeStep DEF IInv, ThreadFits, Step
<1>2. /\ pc[t] \in {"lock", "sync"} /\ pc'[t] = "list"
      /\ job'[t] = Reading(job[t].op, job[t].sel)
      /\ \A u \in Thread \ {t} : pc'[u] = pc[u] /\ job'[u] = job[u]
      /\ UNCHANGED <<rows, born, cache, clock, dead, rolled>>
    BY <1>1 DEF Lock, Sync, Go, At, TypeOK
<1>3. \/ pc[t] = "lock" /\ lock = NoThread /\ lock' = t /\ job[t].op \in RefreshOp
      \/ pc[t] = "sync" /\ lock' = lock /\ lock # t /\ job[t].op \in {"reply", "delete"}
    BY DEF Lock, Sync, At, IInv, ThreadFits, OpFits, HoldsLock, Refreshing
<1>4. /\ job'[t].op = job[t].op /\ job'[t].snap = rows /\ job'[t].todo = {}
      /\ \A j \in AccountID : job'[t].recs[j] = NoRecord
    BY <1>2, ReadingFacts
<1>5. \A u \in Thread : dead'[u] \subseteq dead[u] /\ dead'[u] \cap Listed(rows') = {}
    BY <1>2 DEF IInv, ThreadFits, DeadGone
<1>6. Sound(rows, born, clock)' /\ (~rolled => AheadOf(cache, rows))'
    BY <1>2 DEF IInv
<1>7. ThreadFits(t)'
  <2>1. OpFits(t)' /\ HoldsLock(t)'
      BY <1>2, <1>3, <1>4 DEF OpFits, HoldsLock, Refreshing, RefreshOp
  <2> QED
      BY <1>1, <1>2, <1>4, <1>5, <1>6, <2>1, Fresh
<1>8. ASSUME NEW u \in Thread \ {t} PROVE ThreadFits(u)'
  <2>1. lock' = u <=> lock = u
      BY <1>3, UsageAssumption
  <2>2. clock <= clock'
      BY <1>1, <1>2, ClockFacts
  <2> QED
      BY <1>1, <1>2, <1>5, <2>1, <2>2, Others
<1> QED
    BY <1>1, <1>6, <1>7, <1>8 DEF IInv

(* The listing, which may write back the table that the sync has read.     *)
LEMMA InvList ==
    ASSUME IInv, NEW t \in Thread, List(t) \/ ListRewrites(t)
    PROVE  IInv'
<1>1. TypeOK /\ TypeOK' /\ ThreadFits(t)
    BY TypeStep DEF IInv, ThreadFits, Step
<1>2. /\ pc[t] = "list" /\ ListTo(t, rows') /\ rows' \in Table
      /\ (rows' = rows \/ rows' = job[t].snap)
      /\ ~rolled' => ~rolled /\ rows' = rows
      /\ UNCHANGED <<born, cache, clock, lock>>
      /\ \A u \in Thread : dead'[u] \subseteq dead[u] /\ dead'[u] \cap Listed(rows') = {}
  <2>1. CASE List(t)
      BY <1>1, <2>1 DEF List, At, TypeOK, IInv, ThreadFits, DeadGone
  <2>2. CASE ListRewrites(t)
    <3>1. rows' = job[t].snap /\ job[t].snap \in Table
        BY <1>1, <2>2, SnapType DEF ListRewrites, WriteBack, SetRows
    <3>2. \A u \in Thread : dead'[u] \subseteq dead[u] /\ dead'[u] \cap Listed(rows') = {}
        BY <1>1, <2>2, <3>1, SetRowsDead DEF ListRewrites, WriteBack
    <3> QED
        BY <2>2, <3>1, <3>2 DEF ListRewrites, WriteBack, At
  <2> QED
      BY <2>1, <2>2
<1>3. \A u \in Thread \ {t} : pc'[u] = pc[u] /\ job'[u] = job[u]
    BY <1>1, <1>2 DEF ListTo, Return, Go, TypeOK
<1>4. Sound(rows, born, clock)' /\ (~rolled => AheadOf(cache, rows))'
    BY <1>1, <1>2 DEF IInv, ThreadFits
<1>5. ThreadFits(t)'
  <2>1. lock' = t <=> job[t].op \in RefreshOp
      BY <1>1, <1>2 DEF ThreadFits, HoldsLock, Refreshing
  <2>2. \A j \in AccountID : job[t].recs[j] = NoRecord
      BY <1>2, NoRecords DEF Refreshing
  <2>3. CASE job[t].op = "reply" /\ Go(t, "idle", NoJob)
    <3>1. pc'[t] = "idle" /\ job'[t] = NoJob
        BY <1>1, <2>3 DEF Go, TypeOK
    <3>2. OpFits(t)' /\ HoldsLock(t)'
        BY <2>1, <2>3, <3>1 DEF OpFits, HoldsLock, Refreshing, RefreshOp
    <3> QED
        BY <1>1, <1>2, <1>4, <3>1, <3>2, NoJobFacts, Fresh
  <2>4. ASSUME NEW S \in SUBSET Listed(rows'), job[t].op \in Op \ {"none", "reply"},
               Go(t, After(job[t].op), [job[t] EXCEPT !.snap = rows', !.todo = S])
        PROVE  ThreadFits(t)'
    <3>1. /\ pc'[t] = After(job[t].op) /\ job'[t].op = job[t].op
          /\ job'[t].snap = rows' /\ job'[t].todo = S /\ job'[t].recs = job[t].recs
        BY <1>1, <2>4, SnapType DEF Go, TypeOK, Job
    <3>2. \/ job[t].op \in RefreshOp /\ pc'[t] = "collect"
          \/ job[t].op \notin RefreshOp /\ pc'[t] \in {"commit", "serve", "prune"}
        BY <2>4, <3>1, AfterFacts DEF Op, RefreshOp
    <3>3. OpFits(t)' /\ HoldsLock(t)'
        BY <2>1, <3>1, <3>2 DEF OpFits, HoldsLock, Refreshing
    <3>4. /\ pc'[t] # "store" /\ job'[t].todo \subseteq Listed(job'[t].snap)
          /\ \A j \in AccountID : job'[t].recs[j] = NoRecord
        BY <2>2, <3>1, <3>2
    <3> QED
        BY <1>1, <1>2, <1>4, <3>1, <3>3, <3>4, Fresh
  <2> QED
      BY <1>1, <1>2, <2>3, <2>4, ListToFacts DEF ThreadFits
<1>6. ASSUME NEW u \in Thread \ {t} PROVE ThreadFits(u)'
  <2>1. clock <= clock'
      BY <1>1, <1>2, ClockFacts
  <2> QED
      BY <1>1, <1>2, <1>3, <2>1, Others
<1> QED
    BY <1>1, <1>4, <1>5, <1>6 DEF IInv

(* Steps that follow a listing, and the deletion.                          *)
LEMMA InvAnswer ==
    ASSUME IInv, NEW t \in Thread, SwitchCommit(t) \/ Prune(t) \/ Serve(t)
    PROVE  IInv'
<1>1. TypeOK /\ TypeOK' /\ ThreadFits(t)
    BY TypeStep DEF IInv, ThreadFits, Step
<1>2. /\ pc[t] \in {"commit", "prune", "serve"} /\ UNCHANGED <<born, clock, lock>>
      /\ (rows' = rows \/ rows' = job[t].snap)
      /\ ~rolled' => ~rolled /\ rows' = rows
      /\ \A u \in Thread : dead'[u] \subseteq dead[u] /\ dead'[u] \cap Listed(rows') = {}
      /\ \A p \in Profile : cache'[p] \in {cache[p], NoRecord}
  <2>1. CASE SwitchCommit(t)
    <3>1. CASE WriteBack(job[t].snap)
      <4>1. \A u \in Thread : dead'[u] \subseteq dead[u] /\ dead'[u] \cap Listed(rows') = {}
          BY <1>1, <3>1, SetRowsDead DEF WriteBack, SetRows
      <4> QED
          BY <2>1, <3>1, <4>1 DEF SwitchCommit, WriteBack, SetRows, At
    <3>2. CASE UNCHANGED <<rows, dead, loose, rolled>>
        BY <2>1, <3>2 DEF SwitchCommit, At, IInv, ThreadFits, DeadGone
    <3> QED
        BY <2>1, <3>1, <3>2 DEF SwitchCommit
  <2>2. CASE Prune(t)
      BY <2>2 DEF Prune, At, IInv, ThreadFits, DeadGone
  <2>3. CASE Serve(t)
      BY <1>1, <2>3 DEF Serve, At, IInv, ThreadFits, DeadGone, TypeOK
  <2> QED
      BY <2>1, <2>2, <2>3
<1>3. /\ \A u \in Thread \ {t} : pc'[u] = pc[u] /\ job'[u] = job[u]
      /\ (pc'[t] = "idle" \/ (pc'[t] = "lock" /\ job'[t].op = "refresh"))
      /\ job'[t].snap = EmptyTable /\ job'[t].todo = {}
      /\ \A j \in AccountID : job'[t].recs[j] = NoRecord
  <2> DEFINE again == [NoJob EXCEPT !.op = "refresh", !.sel = job[t].sel]
  <2>1. Go(t, "idle", NoJob) \/ Go(t, "lock", again)
      BY DEF SwitchCommit, Prune, Serve, Return
  <2>2. /\ again.op = "refresh" /\ again.snap = EmptyTable /\ again.todo = {}
        /\ \A j \in AccountID : again.recs[j] = NoRecord
      BY RequestFacts
  <2> HIDE DEF again
  <2>3. \A u \in Thread \ {t} : pc'[u] = pc[u] /\ job'[u] = job[u]
      BY <1>1, <2>1 DEF Go, TypeOK
  <2>4. \/ pc'[t] = "idle" /\ job'[t] = NoJob
        \/ pc'[t] = "lock" /\ job'[t] = again
      BY <1>1, <2>1 DEF Go, TypeOK
  <2> QED
      BY <2>2, <2>3, <2>4, NoJobFacts
<1>4. Sound(rows, born, clock)'
    BY <1>2 DEF IInv, ThreadFits
<1>5. (~rolled => AheadOf(cache, rows))'
  <2>1. ASSUME ~rolled' PROVE AheadOf(cache', rows')
    <3>1. AheadOf(cache, rows) /\ rows \in Table /\ rows' = rows
        BY <1>1, <1>2, <2>1 DEF IInv, TypeOK
    <3> QED
        BY <1>2, <3>1, AheadStays
  <2> QED
      BY <2>1
<1>6. ThreadFits(t)'
  <2>1. lock # t
      BY <1>1, <1>2 DEF ThreadFits, HoldsLock, Refreshing
  <2>2. OpFits(t)' /\ HoldsLock(t)'
      BY <1>2, <1>3, <2>1 DEF OpFits, HoldsLock, Refreshing, RefreshOp
  <2> QED
      BY <1>1, <1>2, <1>3, <1>4, <1>5, <2>2, Fresh
<1>7. ASSUME NEW u \in Thread \ {t} PROVE ThreadFits(u)'
  <2>1. clock <= clock'
      BY <1>1, <1>2, ClockFacts
  <2> QED
      BY <1>1, <1>2, <1>3, <2>1, Others
<1> QED
    BY <1>1, <1>4, <1>5, <1>6, <1>7 DEF IInv

LEMMA InvDelete ==
    ASSUME IInv, NEW t \in Thread, DeleteCommit(t)
    PROVE  IInv'
<1>1. TypeOK /\ TypeOK' /\ ThreadFits(t)
    BY TypeStep DEF IInv, ThreadFits, Step
<1>2. /\ pc[t] = "delete" /\ lock # t
      /\ UNCHANGED <<born, cache, clock, lock, rolled>> /\ clock <= clock'
    BY <1>1, ClockFacts DEF DeleteCommit, At, ThreadFits, HoldsLock, Refreshing
<1>3. /\ Sound(rows', born, clock)
      /\ \A j \in Listed(rows') : j \in Listed(rows) /\ rows'[j] = rows[j]
      /\ \A u \in Thread : dead'[u] \subseteq dead[u] /\ dead'[u] \cap Listed(rows') = {}
  <2>1. CASE job[t].sel \in Listed(rows)
    <3>1. rows' = [rows EXCEPT ![job[t].sel] = NoRow] /\ \E gone : SetRows(rows', gone)
        BY <2>1 DEF DeleteCommit, SetRows, TakenOver
    <3>2. job[t].sel \in AccountID /\ rows \in Table /\ clock \in Nat /\ Sound(rows, born, clock)
        BY <1>1, <2>1, ClockFacts DEF Listed, IInv, TypeOK
    <3>3. \A j \in Listed(rows') : j \in Listed(rows) /\ rows'[j] = rows[j]
        BY <3>1, <3>2 DEF Table, Listed
    <3>4. Sound(rows', born, clock)
        BY <3>2, <3>3 DEF Sound
    <3>5. \A u \in Thread : dead'[u] \subseteq dead[u] /\ dead'[u] \cap Listed(rows') = {}
        BY <1>1, <3>1 DEF TypeOK, SetRows
    <3> QED
        BY <3>3, <3>4, <3>5
  <2>2. CASE job[t].sel \notin Listed(rows)
      BY <2>2 DEF DeleteCommit, IInv, ThreadFits, DeadGone
  <2> QED
      BY <2>1, <2>2
<1>4. /\ \A u \in Thread \ {t} : pc'[u] = pc[u] /\ job'[u] = job[u]
      /\ \/ pc'[t] = "idle" /\ job'[t] = NoJob
         \/ pc'[t] = "sync" /\ job'[t] = job[t]
    BY <1>1 DEF DeleteCommit, Return, Go, TypeOK
<1>5. Sound(rows, born, clock)' /\ (~rolled => AheadOf(cache, rows))'
    BY <1>2, <1>3 DEF IInv, AheadOf
<1>6. ThreadFits(t)'
  <2>1. CASE pc'[t] = "idle" /\ job'[t] = NoJob
    <3>1. OpFits(t)' /\ HoldsLock(t)'
        BY <1>2, <2>1 DEF OpFits, HoldsLock, Refreshing
    <3> QED
        BY <1>1, <1>3, <1>5, <2>1, <3>1, NoJobFacts, Fresh
  <2>2. CASE pc'[t] = "sync" /\ job'[t] = job[t]
    <3>1. job[t].op = "delete"
        BY <1>1, <1>2 DEF ThreadFits, OpFits
    <3>2. OpFits(t)' /\ HoldsLock(t)' /\ ~Refreshing(t) /\ ~Refreshing(t)'
        BY <1>2, <2>2, <3>1 DEF OpFits, HoldsLock, Refreshing
    <3> QED
        BY <1>1, <1>2, <1>3, <2>2, <3>2, Frame
  <2> QED
      BY <1>4, <2>1, <2>2
<1>7. ASSUME NEW u \in Thread \ {t} PROVE ThreadFits(u)'
    BY <1>1, <1>2, <1>3, <1>4, Others
<1> QED
    BY <1>1, <1>5, <1>6, <1>7 DEF IInv

-----------------------------------------------------------------------------
(* A refresh: the holder of the mutex collects, caches and stores          *)
LEMMA HolderFacts ==
    ASSUME IInv, NEW t \in Thread, Refreshing(t)
    PROVE  /\ TypeOK /\ ThreadFits(t) /\ lock = t /\ job[t].op \in RefreshOp
           /\ job[t].snap \in Table /\ Sound(job[t].snap, born, clock)
           /\ job[t].recs \in [AccountID -> Usage \cup {NoRecord}]
           /\ CollectsListed(t)
BY SnapType DEF IInv, ThreadFits, HoldsLock, OpFits

LEMMA InvCollect ==
    ASSUME IInv, NEW t \in Thread, Collect(t)
    PROVE  IInv'
<1>1. TypeOK' /\ pc[t] = "collect" /\ Refreshing(t)
    BY TypeStep DEF IInv, ThreadFits, Step, Collect, CollectLive, CollectSaved, Collected, At,
                    Refreshing
<1> DEFINE snap == job[t].snap
<1>2. /\ TypeOK /\ ThreadFits(t) /\ lock = t /\ job[t].op \in RefreshOp
      /\ snap \in Table /\ Sound(snap, born, clock) /\ CollectsListed(t)
      /\ job[t].recs \in [AccountID -> Usage \cup {NoRecord}]
    BY <1>1, HolderFacts
<1>3. PICK i \in AccountID, u \in Usage :
        /\ Collected(t, i, u) /\ clock <= clock' /\ clock' \in Nat /\ clock \in Nat
        /\ snap[i].usage.seq <= u.seq /\ u.seq <= clock' /\ i \in Listed(snap)
  <2>1. PICK i \in AccountID : CollectLive(t, i) \/ CollectSaved(t, i)
      BY DEF Collect
  <2>2. /\ i \in Listed(snap) /\ snap[i].usage \in Usage /\ snap[i].usage.seq \in Nat
        /\ snap[i].usage.seq <= clock /\ clock \in Nat /\ clock <= MaxSeq /\ MaxSeq \in Nat
      BY <1>2, <2>1, ClockFacts, TableFacts
         DEF CollectLive, CollectSaved, Collected, First, CollectsListed, Sound
  <2>3. CASE CollectLive(t, i)
    <3> DEFINE seq == IF clock < MaxSeq THEN clock + 1 ELSE MaxSeq
    <3> DEFINE u == [of |-> i, seq |-> seq]
    <3>1. seq \in 0 .. MaxSeq /\ clock <= seq /\ seq \in Nat
        BY <2>2
    <3>2. Collected(t, i, u) /\ clock' = seq
        BY <2>3 DEF CollectLive
    <3> HIDE DEF seq
    <3>3. u \in Usage /\ u.seq = seq
        BY <3>1 DEF Usage
    <3> HIDE DEF u
    <3>4. snap[i].usage.seq <= u.seq
        BY <2>2, <3>1, <3>3
    <3> QED
        BY <2>2, <3>1, <3>2, <3>3, <3>4
  <2>4. CASE CollectSaved(t, i)
      BY <2>2, <2>4 DEF CollectSaved
  <2> QED
      BY <2>1, <2>3, <2>4
<1>4. /\ UNCHANGED <<rows, born, cache, lock, dead, rolled>>
      /\ \A v \in Thread \ {t} : pc'[v] = pc[v] /\ job'[v] = job[v]
      /\ pc'[t] = "collect" /\ job'[t].op = job[t].op /\ job'[t].snap = snap
      /\ job'[t].todo = job[t].todo \ {i}
      /\ job'[t].recs = [job[t].recs EXCEPT ![i] = u]
    BY <1>2, <1>3, SnapType DEF Collected, Go, TypeOK, Job
<1>5. \A v \in Thread : dead'[v] \subseteq dead[v] /\ dead'[v] \cap Listed(rows') = {}
    BY <1>4 DEF IInv, ThreadFits, DeadGone
<1>6. Sound(rows, born, clock)' /\ (~rolled => AheadOf(cache, rows))'
  <2>1. rows \in Table /\ Sound(rows, born, clock)
      BY DEF IInv, TypeOK
  <2> QED
      BY <1>3, <1>4, <2>1, SoundStays DEF IInv
<1>7. CollectsListed(t)'
  <2>1. job'[t].todo \subseteq Listed(snap)
      BY <1>2, <1>4 DEF CollectsListed
  <2>2. ASSUME NEW j \in AccountID, Has(t, j)'
        PROVE  /\ j \in Listed(snap) /\ snap[j].usage.seq <= job'[t].recs[j].seq
               /\ job'[t].recs[j].seq <= clock'
    <3>1. CASE j = i
      <4>1. job'[t].recs[j] = u
          BY <1>2, <1>4, <3>1
      <4> QED
          BY <1>3, <3>1, <4>1
    <3>2. CASE j # i
      <4>1. job'[t].recs[j] = job[t].recs[j]
          BY <1>2, <1>4, <3>2
      <4>2. Has(t, j)
          BY <2>2, <4>1 DEF Has
      <4>3. job[t].recs[j].seq \in Nat
        <5>1. job[t].recs[j] \in Usage
            BY <1>2, <4>2 DEF Has
        <5> QED
            BY <5>1, UsageAssumption DEF Usage
      <4> QED
          BY <1>2, <1>3, <4>1, <4>2, <4>3 DEF CollectsListed
    <3> QED
        BY <3>1, <3>2
  <2> QED
      BY <1>4, <2>1, <2>2 DEF CollectsListed, Refreshing
<1>8. ThreadFits(t)'
  <2>1. OpFits(t)' /\ HoldsLock(t)'
      BY <1>2, <1>4 DEF OpFits, HoldsLock, Refreshing
  <2>2. Sound(snap, born', clock')
      BY <1>2, <1>3, <1>4, SoundStays
  <2>3. DeadGone(t)'
      BY <1>2, <1>4 DEF ThreadFits, DeadGone
  <2>4. ~rolled' => AheadOf(cache', snap) /\ Since(rows', snap)
      BY <1>1, <1>2, <1>4 DEF ThreadFits
  <2> QED
      BY <1>4, <1>7, <2>1, <2>2, <2>3, <2>4 DEF ThreadFits
<1>9. ASSUME NEW v \in Thread \ {t} PROVE ThreadFits(v)'
    BY <1>1, <1>2, <1>3, <1>4, <1>5, <1>9, Others
<1> QED
    BY <1>1, <1>6, <1>8, <1>9 DEF IInv

LEMMA InvNothing ==
    ASSUME IInv, NEW t \in Thread, RefreshNothing(t)
    PROVE  IInv'
<1>1. TypeOK' /\ Refreshing(t)
    BY TypeStep DEF IInv, ThreadFits, Step, Refresh, RefreshNothing, At, Refreshing
<1>2. TypeOK /\ ThreadFits(t) /\ lock = t
    BY <1>1, HolderFacts
<1>3. /\ UNCHANGED <<rows, born, clock, dead, rolled>> /\ lock' = NoThread
      /\ clock <= clock' /\ pc'[t] = "idle" /\ job'[t] = NoJob
      /\ \A u \in Thread \ {t} : pc'[u] = pc[u] /\ job'[u] = job[u]
    BY <1>2, ClockFacts DEF RefreshNothing, Return, Go, Unlocked, TypeOK
<1>4. \A p \in Profile : cache'[p] \in {cache[p], NoRecord}
    BY DEF RefreshNothing, EmptyCache
<1>5. \A u \in Thread : dead'[u] \subseteq dead[u] /\ dead'[u] \cap Listed(rows') = {}
    BY <1>3 DEF IInv, ThreadFits, DeadGone
<1>6. Sound(rows, born, clock)'
    BY <1>3 DEF IInv
<1>7. (~rolled => AheadOf(cache, rows))'
  <2>1. ASSUME ~rolled' PROVE AheadOf(cache', rows')
    <3>1. AheadOf(cache, rows) /\ rows \in Table
        BY <1>3, <2>1 DEF IInv, TypeOK
    <3>2. AheadOf(cache', rows)
        BY <1>4, <3>1, AheadStays
    <3> QED
        BY <1>3, <3>2
  <2> QED
      BY <2>1
<1>8. ThreadFits(t)'
  <2>1. OpFits(t)' /\ HoldsLock(t)'
      BY <1>3, UsageAssumption DEF OpFits, HoldsLock, Refreshing
  <2> QED
      BY <1>1, <1>3, <1>5, <1>6, <1>7, <2>1, NoJobFacts, Fresh
<1>9. ASSUME NEW u \in Thread \ {t} PROVE ThreadFits(u)'
  <2>1. lock' = u <=> lock = u
      BY <1>2, <1>3, UsageAssumption
  <2> QED
      BY <1>1, <1>2, <1>3, <1>5, <2>1, Others
<1> QED
    BY <1>1, <1>6, <1>7, <1>8, <1>9 DEF IInv

(* The cache after a refresh, by profile.                                  *)
LEMMA ByProfileFacts ==
    ASSUME NEW t \in Thread, NEW kept, NEW p \in Profile
    PROVE  \/ \E i \in AccountID : /\ Has(t, i) /\ job[t].snap[i].profile = p
                                   /\ ByProfile(t, kept)[p] = job[t].recs[i]
           \/ /\ ByProfile(t, kept)[p] = kept[p]
              /\ \A i \in AccountID : Has(t, i) => job[t].snap[i].profile # p
<1> DEFINE own == {i \in AccountID : Has(t, i) /\ job[t].snap[i].profile = p}
<1>1. ByProfile(t, kept)[p] = IF own = {} THEN kept[p]
                             ELSE job[t].recs[CHOOSE i \in own : TRUE]
    BY DEF ByProfile
<1>2. CASE own = {}
    BY <1>1, <1>2
<1>3. CASE own # {}
  <2>1. (CHOOSE i \in own : TRUE) \in own
      BY <1>3
  <2> QED
      BY <1>1, <1>3, <2>1
<1> QED
    BY <1>2, <1>3

LEMMA InvCache ==
    ASSUME IInv, NEW t \in Thread, CacheRecords(t)
    PROVE  IInv'
<1>1. TypeOK' /\ pc[t] = "collect" /\ Refreshing(t)
    BY TypeStep DEF IInv, ThreadFits, Step, Refresh, CacheRecords, At, Refreshing
<1> DEFINE snap == job[t].snap
<1>2. /\ TypeOK /\ ThreadFits(t) /\ lock = t /\ job[t].op \in RefreshOp
      /\ snap \in Table /\ Sound(snap, born, clock) /\ CollectsListed(t)
      /\ job[t].recs \in [AccountID -> Usage \cup {NoRecord}]
    BY <1>1, HolderFacts
<1>3. /\ UNCHANGED <<rows, born, clock, lock, dead, rolled>>
      /\ clock <= clock' /\ pc'[t] = "store" /\ job' = job
      /\ \A u \in Thread \ {t} : pc'[u] = pc[u]
    BY <1>2, ClockFacts DEF CacheRecords, Go, TypeOK
<1>4. \A p \in Profile :
        \/ \E i \in AccountID : /\ Has(t, i) /\ snap[i].profile = p
                                /\ cache'[p] = job[t].recs[i]
        \/ /\ cache'[p] \in {cache[p], NoRecord}
           /\ \A i \in AccountID : Has(t, i) => snap[i].profile # p
  <2>1. PICK kept \in {cache, EmptyCache} : cache' = ByProfile(t, kept)
      BY DEF CacheRecords
  <2>2. \A p \in Profile : kept[p] \in {cache[p], NoRecord}
      BY <2>1 DEF EmptyCache
  <2> QED
      BY <2>1, <2>2, ByProfileFacts
<1>5. \A i \in AccountID : Has(t, i) =>
        /\ i \in Listed(snap) /\ job[t].recs[i] \in Usage
        /\ job[t].recs[i].seq \in Nat /\ job[t].recs[i].seq >= snap[i].usage.seq
  <2>1. ASSUME NEW i \in AccountID, Has(t, i)
        PROVE  i \in Listed(snap) /\ job[t].recs[i] \in Usage /\ job[t].recs[i].seq \in Nat
               /\ snap[i].usage.seq \in Nat /\ snap[i].usage.seq <= job[t].recs[i].seq
    <3>1. /\ i \in Listed(snap) /\ job[t].recs[i] \in Usage
          /\ snap[i].usage.seq <= job[t].recs[i].seq
        BY <1>2, <2>1 DEF CollectsListed, Has
    <3> QED
        BY <1>2, <3>1, TableFacts, UsageAssumption DEF Usage
  <2> QED
      BY <2>1
<1>6. \A i, j \in Listed(snap) : snap[i].profile = snap[j].profile => i = j
    BY <1>2 DEF Sound
<1>7. AheadOf(cache, snap) => AheadOf(cache', snap)
  <2>1. ASSUME AheadOf(cache, snap), NEW k \in Listed(snap),
               cache'[snap[k].profile] # NoRecord,
               cache'[snap[k].profile].of = snap[k].usage.of
        PROVE  cache'[snap[k].profile].seq >= snap[k].usage.seq
    <3>1. snap[k].profile \in Profile
        BY <1>2, TableFacts
    <3>2. CASE cache'[snap[k].profile] = cache[snap[k].profile]
        BY <2>1, <3>2 DEF AheadOf
    <3>3. ASSUME NEW i \in AccountID, Has(t, i), snap[i].profile = snap[k].profile,
                 cache'[snap[k].profile] = job[t].recs[i]
          PROVE  cache'[snap[k].profile].seq >= snap[k].usage.seq
        BY <1>5, <1>6, <3>3
    <3> QED
        BY <1>4, <2>1, <3>1, <3>2, <3>3
  <2> QED
      BY <2>1 DEF AheadOf
<1>8. AheadOf(cache, rows) /\ Since(rows, snap) => AheadOf(cache', rows)
  <2>1. ASSUME AheadOf(cache, rows), Since(rows, snap), NEW j \in Listed(rows),
               cache'[rows[j].profile] # NoRecord,
               cache'[rows[j].profile].of = rows[j].usage.of
        PROVE  cache'[rows[j].profile].seq >= rows[j].usage.seq
    <3>1. rows[j].profile \in Profile
        BY <1>2, TableFacts DEF TypeOK
    <3>2. CASE cache'[rows[j].profile] = cache[rows[j].profile]
        BY <2>1, <3>2 DEF AheadOf
    <3>3. ASSUME NEW i \in AccountID, Has(t, i), snap[i].profile = rows[j].profile,
                 cache'[rows[j].profile] = job[t].recs[i]
          PROVE  cache'[rows[j].profile].seq >= rows[j].usage.seq
      <4>1. CASE j \in Listed(snap)
        <5>1. rows[j] = snap[j]
            BY <2>1, <4>1 DEF Since
        <5>2. i = j
            BY <1>5, <1>6, <3>3, <4>1, <5>1
        <5> QED
            BY <1>5, <3>3, <5>1, <5>2
      <4>2. CASE j \notin Listed(snap)
        <5>1. rows[j].usage.seq = 0
            BY <2>1, <4>2, RowFacts DEF Since
        <5> QED
            BY <1>5, <3>3, <5>1
      <4> QED
          BY <4>1, <4>2
    <3> QED
        BY <1>4, <2>1, <3>1, <3>2, <3>3
  <2> QED
      BY <2>1 DEF AheadOf
<1>9. \A i \in AccountID : Has(t, i) => cache'[snap[i].profile] = job[t].recs[i]
  <2>1. ASSUME NEW i \in AccountID, Has(t, i)
        PROVE  cache'[snap[i].profile] = job[t].recs[i]
    <3>1. i \in Listed(snap) /\ snap[i].profile \in Profile
        BY <1>2, <1>5, <2>1, TableFacts
    <3>2. PICK k \in AccountID : /\ Has(t, k) /\ snap[k].profile = snap[i].profile
                                 /\ cache'[snap[i].profile] = job[t].recs[k]
        BY <1>4, <2>1, <3>1
    <3>3. k = i
        BY <1>5, <1>6, <3>1, <3>2
    <3> QED
        BY <3>2, <3>3
  <2> QED
      BY <2>1
<1>10. \A u \in Thread : dead'[u] \subseteq dead[u] /\ dead'[u] \cap Listed(rows') = {}
    BY <1>3 DEF IInv, ThreadFits, DeadGone
<1>11. ThreadFits(t)'
  <2>1. OpFits(t)' /\ HoldsLock(t)'
      BY <1>2, <1>3 DEF OpFits, HoldsLock, Refreshing
  <2>2. CollectsListed(t)'
      BY <1>2, <1>3 DEF CollectsListed, Has, HasRecords, Refreshing
  <2>3. DeadGone(t)' /\ Sound(snap, born', clock')
      BY <1>2, <1>3 DEF ThreadFits, DeadGone
  <2>4. ~rolled' => AheadOf(cache', snap) /\ Since(rows', snap)
      BY <1>1, <1>2, <1>3, <1>7 DEF ThreadFits
  <2>5. Cached(t)'
      BY <1>3, <1>9 DEF Cached, Has
  <2> QED
      BY <1>3, <2>1, <2>2, <2>3, <2>4, <2>5 DEF ThreadFits
<1>12. Sound(rows, born, clock)' /\ (~rolled => AheadOf(cache, rows))'
    BY <1>1, <1>2, <1>3, <1>8 DEF IInv, ThreadFits
<1>13. ASSUME NEW u \in Thread \ {t} PROVE ThreadFits(u)'
    BY <1>1, <1>2, <1>3, <1>10, Others
<1> QED
    BY <1>1, <1>11, <1>12, <1>13 DEF IInv

(* What Store makes of the row of an account: nothing, or the usage of the *)
(* list, or of the record collected, for the account that has its profile  *)
(* in the list.                                                            *)
LEMMA StoreFacts ==
    ASSUME IInv, NEW t \in Thread, Refreshing(t),
           NEW R, R = ReplaceUsage(rows, Updated(t))
    PROVE  /\ R \in Table /\ Listed(R) = Listed(rows) /\ Sound(R, born, clock)
           /\ \A j \in Listed(rows) :
                /\ R[j].profile = rows[j].profile
                /\ \/ R[j] = rows[j] /\ \A i \in Listed(job[t].snap) :
                                             job[t].snap[i].profile # rows[j].profile
                   \/ \E i \in Listed(job[t].snap) :
                        /\ job[t].snap[i].profile = rows[j].profile
                        /\ R[j].usage = IF Has(t, i) THEN job[t].recs[i]
                                        ELSE job[t].snap[i].usage
<1> DEFINE new == Updated(t)
<1>1. /\ TypeOK /\ rows \in Table /\ clock \in Nat /\ Sound(rows, born, clock)
      /\ Sound(job[t].snap, born, clock) /\ CollectsListed(t)
    BY HolderFacts, ClockFacts DEF IInv, TypeOK
<1>2. /\ new \in Table /\ Listed(new) = Listed(job[t].snap)
      /\ \A i \in Listed(job[t].snap) :
           /\ new[i].profile = job[t].snap[i].profile
           /\ new[i].usage = IF Has(t, i) THEN job[t].recs[i] ELSE job[t].snap[i].usage
    BY <1>1, UpdatedFacts
<1>3. Sound(new, born, clock)
    BY <1>1, SoundUpdated
<1> HIDE DEF new
<1>4. R = ReplaceUsage(rows, new)
    BY DEF new
<1>5. R \in Table /\ Listed(R) = Listed(rows) /\ Sound(R, born, clock)
    BY <1>1, <1>2, <1>3, <1>4, ReplaceFacts, SoundReplace
<1>6. ASSUME NEW j \in Listed(rows)
      PROVE  /\ R[j].profile = rows[j].profile
             /\ \/ R[j] = rows[j] /\ \A i \in Listed(job[t].snap) :
                                          job[t].snap[i].profile # rows[j].profile
                \/ \E i \in Listed(job[t].snap) :
                     /\ job[t].snap[i].profile = rows[j].profile
                     /\ R[j].usage = IF Has(t, i) THEN job[t].recs[i]
                                     ELSE job[t].snap[i].usage
  <2>1. /\ R[j].profile = rows[j].profile
        /\ \/ rows[j].profile \notin Profiles(new) /\ R[j] = rows[j]
           \/ \E i \in Listed(new) :
                new[i].profile = rows[j].profile /\ R[j].usage = new[i].usage
      BY <1>1, <1>2, <1>4, ReplaceFacts
  <2>2. CASE rows[j].profile \notin Profiles(new) /\ R[j] = rows[j]
      BY <1>2, <2>1, <2>2 DEF Profiles
  <2>3. CASE \E i \in Listed(new) :
                 new[i].profile = rows[j].profile /\ R[j].usage = new[i].usage
      BY <1>2, <2>1, <2>3
  <2> QED
      BY <2>1, <2>2, <2>3
<1> QED
    BY <1>5, <1>6

LEMMA InvStore ==
    ASSUME IInv, NEW t \in Thread, Store(t)
    PROVE  IInv'
<1>1. TypeOK' /\ pc[t] = "store" /\ Refreshing(t)
    BY TypeStep DEF IInv, ThreadFits, Step, Refresh, Store, At, Refreshing
<1> DEFINE snap == job[t].snap
<1>2. /\ TypeOK /\ ThreadFits(t) /\ lock = t /\ snap \in Table /\ Sound(snap, born, clock)
      /\ CollectsListed(t) /\ job[t].recs \in [AccountID -> Usage \cup {NoRecord}]
    BY <1>1, HolderFacts
<1>3. /\ UNCHANGED <<born, cache, clock, rolled>> /\ clock <= clock' /\ lock' = NoThread
      /\ \A u \in Thread \ {t} : pc'[u] = pc[u] /\ job'[u] = job[u]
    BY <1>2, ClockFacts DEF Store, Return, Go, Unlocked, TypeOK
<1>4. /\ pc'[t] = "idle" \/ (pc'[t] = "sync" /\ job'[t].op = "reply")
      /\ job'[t].snap = EmptyTable /\ job'[t].todo = {}
      /\ \A j \in AccountID : job'[t].recs[j] = NoRecord
  <2> DEFINE reply == [NoJob EXCEPT !.op = "reply"]
  <2>1. Go(t, "idle", NoJob) \/ Go(t, "sync", reply)
      BY DEF Store, Return
  <2>2. /\ reply.op = "reply" /\ reply.snap = EmptyTable /\ reply.todo = {}
        /\ \A j \in AccountID : reply.recs[j] = NoRecord
      BY AskFacts
  <2> HIDE DEF reply
  <2>3. \/ pc'[t] = "idle" /\ job'[t] = NoJob
        \/ pc'[t] = "sync" /\ job'[t] = reply
      BY <1>2, <2>1 DEF Go, TypeOK
  <2> QED
      BY <2>2, <2>3, NoJobFacts
<1>5. ASSUME SetRows(ReplaceUsage(rows, Updated(t)), {})
      PROVE  /\ Sound(rows, born, clock)' /\ (~rolled => AheadOf(cache, rows))'
             /\ \A u \in Thread : dead'[u] \subseteq dead[u] /\ dead'[u] \cap Listed(rows') = {}
  <2>1. rows' = ReplaceUsage(rows, Updated(t)) /\ SetRows(rows', {})
      BY <1>5 DEF SetRows, TakenOver
  <2>2. Sound(rows, born, clock)'
      BY <1>1, <1>3, <2>1, StoreFacts
  <2>3. \A u \in Thread : dead'[u] \subseteq dead[u] /\ dead'[u] \cap Listed(rows') = {}
      BY <1>2, <2>1 DEF TypeOK, SetRows
  <2>4. ASSUME ~rolled' PROVE AheadOf(cache', rows')
    <3>1. AheadOf(cache, rows) /\ AheadOf(cache, snap) /\ Cached(t)
        BY <1>1, <1>2, <1>3, <2>4 DEF IInv, ThreadFits
    <3>2. ASSUME NEW j \in Listed(rows'), cache[rows'[j].profile] # NoRecord,
                 cache[rows'[j].profile].of = rows'[j].usage.of
          PROVE  cache[rows'[j].profile].seq >= rows'[j].usage.seq
      <4>1. j \in Listed(rows) /\ rows'[j].profile = rows[j].profile
          BY <1>1, <2>1, <3>2, StoreFacts
      <4>2. CASE rows'[j] = rows[j]
          BY <3>1, <3>2, <4>1, <4>2 DEF AheadOf
      <4>3. ASSUME NEW i \in Listed(snap), snap[i].profile = rows[j].profile,
                   rows'[j].usage = IF Has(t, i) THEN job[t].recs[i] ELSE snap[i].usage
            PROVE  cache[rows'[j].profile].seq >= rows'[j].usage.seq
        <5>1. CASE Has(t, i)
          <6>1. i \in AccountID /\ job[t].recs[i] \in Usage
              BY <1>2, <5>1 DEF Listed, Has
          <6>2. cache[rows'[j].profile] = job[t].recs[i]
              BY <3>1, <3>2, <4>1, <4>3, <5>1, <6>1 DEF Cached
          <6>3. job[t].recs[i].seq \in Nat
              BY <6>1, UsageAssumption DEF Usage
          <6> QED
              BY <4>3, <5>1, <6>2, <6>3
        <5>2. CASE ~Has(t, i)
            BY <3>1, <3>2, <4>1, <4>3, <5>2 DEF AheadOf
        <5> QED
            BY <5>1, <5>2
      <4> QED
          BY <1>1, <2>1, <4>1, <4>2, <4>3, StoreFacts
    <3> QED
        BY <1>3, <3>2 DEF AheadOf
  <2> QED
      BY <2>2, <2>3, <2>4
<1>6. /\ Sound(rows, born, clock)' /\ (~rolled => AheadOf(cache, rows))'
      /\ \A u \in Thread : dead'[u] \subseteq dead[u] /\ dead'[u] \cap Listed(rows') = {}
  <2>1. SetRows(ReplaceUsage(rows, Updated(t)), {}) \/ UNCHANGED <<rows, dead, loose>>
      BY DEF Store
  <2>2. CASE UNCHANGED <<rows, dead, loose>>
      BY <1>3, <2>2 DEF IInv, ThreadFits, DeadGone
  <2> QED
      BY <1>5, <2>1, <2>2
<1>7. ThreadFits(t)'
  <2>1. OpFits(t)' /\ HoldsLock(t)'
      BY <1>3, <1>4, UsageAssumption DEF OpFits, HoldsLock, Refreshing
  <2> QED
      BY <1>1, <1>4, <1>6, <2>1, Fresh
<1>8. ASSUME NEW u \in Thread \ {t} PROVE ThreadFits(u)'
  <2>1. lock' = u <=> lock = u
      BY <1>2, <1>3, UsageAssumption
  <2> QED
      BY <1>1, <1>2, <1>3, <1>6, <2>1, Others
<1> QED
    BY <1>1, <1>6, <1>7, <1>8 DEF IInv

-----------------------------------------------------------------------------
(* A start, the first or one after a crash: every thread holds nothing.    *)
LEMMA InvStarting ==
    ASSUME TypeOK', Sound(rows, born, clock)', cache' = EmptyCache, lock' = NoThread,
           pc' = StartingPc, job' = StartingJob, dead' = [t \in Thread |-> {}]
    PROVE  IInv'
<1>1. AheadOf(cache', rows')
  <2>1. rows' \in Table
      BY DEF TypeOK
  <2> QED
      BY <2>1, TableFacts DEF AheadOf, EmptyCache
<1>2. ASSUME NEW t \in Thread PROVE ThreadFits(t)'
  <2>1. /\ pc'[t] = "idle" \/ (pc'[t] = "lock" /\ job'[t].op = "startup")
        /\ job'[t].snap = EmptyTable /\ job'[t].todo = {}
        /\ \A i \in AccountID : job'[t].recs[i] = NoRecord
      BY NoJobFacts, AskFacts DEF StartingPc, StartingJob, Startup
  <2>2. OpFits(t)' /\ HoldsLock(t)'
      BY <2>1, UsageAssumption DEF OpFits, HoldsLock, Refreshing, RefreshOp
  <2>3. dead'[t] \cap Listed(rows') = {}
      OBVIOUS
  <2> QED
      BY <1>1, <2>1, <2>2, <2>3, Fresh
<1> QED
    BY <1>1, <1>2 DEF IInv

LEMMA InitInv == Init => IInv
<1> SUFFICES ASSUME Init PROVE IInv
    OBVIOUS
<1>1. TypeOK
  <2>1. rows \in Table /\ born \in SUBSET AccountID /\ clock \in 0 .. MaxSeq
      BY EmptyTableFacts, UsageAssumption DEF Init
  <2>2. cache \in [Profile -> Usage \cup {NoRecord}] /\ dead \in [Thread -> SUBSET AccountID]
        /\ loose \in SUBSET AccountID
      BY DEF Init, EmptyCache
  <2>3. pc \in [Thread -> Place] /\ job \in [Thread -> Job]
      BY StartingFacts DEF Init, Place
  <2> QED
      BY <2>1, <2>2, <2>3 DEF Init, TypeOK, Place
<1>2. Sound(rows, born, clock) /\ AheadOf(cache, rows)
    BY SoundEmpty, EmptyTableFacts DEF Init, AheadOf
<1>3. ASSUME NEW t \in Thread PROVE ThreadFits(t)
  <2>1. /\ pc[t] = "idle" \/ (pc[t] = "lock" /\ job[t].op = "startup")
        /\ job[t].snap = EmptyTable /\ job[t].todo = {}
        /\ \A i \in AccountID : job[t].recs[i] = NoRecord
      BY NoJobFacts, AskFacts DEF Init, StartingPc, StartingJob, Startup
  <2>2. OpFits(t) /\ HoldsLock(t)
      BY <2>1, UsageAssumption DEF Init, OpFits, HoldsLock, Refreshing, RefreshOp
  <2>3. CollectsListed(t) /\ DeadGone(t) /\ Sound(job[t].snap, born, clock)
      BY <2>1, SoundEmpty DEF Init, CollectsListed, DeadGone, HasRecords, Has
  <2> QED
      BY <2>1, <2>2, <2>3 DEF ThreadFits, Refreshing
<1> QED
    BY <1>1, <1>2, <1>3 DEF IInv

LEMMA NextInv == IInv /\ [Next]_vars => IInv'
<1> SUFFICES ASSUME IInv, [Next]_vars PROVE IInv'
    OBVIOUS
<1>1. CASE UNCHANGED vars
  <2>1. TypeOK' /\ Sound(rows, born, clock)' /\ (~rolled => AheadOf(cache, rows))'
      BY <1>1 DEF vars, IInv, TypeOK
  <2>2. ASSUME NEW t \in Thread PROVE ThreadFits(t)'
    <3>1. ThreadFits(t)
        BY DEF IInv
    <3> QED
        BY <1>1, <3>1
           DEF vars, ThreadFits, OpFits, HoldsLock, CollectsListed, DeadGone, Cached,
               Refreshing, HasRecords, Has
  <2> QED
      BY <2>1, <2>2 DEF IInv
<1>2. ASSUME NEW t \in Thread, Lock(t) \/ Step(t) PROVE IInv'
    BY <1>2, InvRead, InvList, InvCollect, InvNothing, InvCache, InvStore, InvAnswer, InvDelete
       DEF Step, Refresh
<1>3. ASSUME NEW t \in Handler, Start(t) PROVE IInv'
    BY <1>3, InvRequests, InvAdd DEF Start, Thread
<1>4. CASE Tick
    BY <1>4, InvRequests DEF Thread
<1>5. CASE LoginAdds
    BY <1>5, InvAdd
<1>6. CASE Crash
  <2>1. TypeOK' /\ Sound(rows, born, clock)'
      BY <1>6, TypeCrash DEF Crash, IInv
  <2> QED
      BY <1>6, <2>1, InvStarting DEF Crash
<1> QED
    BY <1>1, <1>2, <1>3, <1>4, <1>5, <1>6 DEF Next

-----------------------------------------------------------------------------
(* Whose record is cached.  An account outside loose is listed under the   *)
(* same name in the table and in every list that is at work, so that no    *)
(* refresh and no write-back can bring it back once it is deleted.  Its    *)
(* record is under its own name; after the deletion it stays there until   *)
(* the deletion prunes it, and nobody else has the name till then.         *)

(* Names of S are names of T, but for accounts of L.                       *)
StillListed(S, T, L) ==
    \A i \in Listed(S) : i \in L \/ (i \in Listed(T) /\ T[i].profile = S[i].profile)

(* The usage in T is that of the account it is listed for, or of L.        *)
OwnUsage(T, L) == \A i \in Listed(T) : T[i].usage.of \in {0, i} \cup L

Works(t) == pc[t] \in {"list", "commit", "collect", "store"}

ListFits(t) ==
    /\ Works(t) => StillListed(job[t].snap, rows, loose)
    /\ OwnUsage(job[t].snap, loose)
    /\ \A i \in AccountID : Has(t, i) => job[t].recs[i].of \in {0, i} \cup loose

(* The request prunes p, or will: its list is without p.                   *)
Prunes(t, p) ==
    /\ job[t].op = "delete"
    /\ pc[t] = "sync" \/ (pc[t] \in {"list", "prune"} /\ p \notin Profiles(job[t].snap))

OwnRecord(p) ==
    \/ cache[p].of \in {0} \cup loose
    \/ cache[p].of \in Listed(rows) /\ rows[cache[p].of].profile = p
    \/ p \notin Profiles(rows) /\ \E t \in Thread : Prunes(t, p)

ServesListed(t) ==
    pc[t] = "serve" =>
        \A p \in SnapshotAllowed(t) : cache[p].of \notin dead[t] \ loose

OwnInv ==
    /\ OwnUsage(rows, loose)
    /\ \A p \in CacheKeys : OwnRecord(p)
    /\ \A t \in Thread : ListFits(t) /\ ServesListed(t)

(* What a thread that does not move keeps of it.                           *)
LEMMA OwnStays ==
    ASSUME NEW T, NEW L, NEW L2, OwnUsage(T, L), L \subseteq L2 PROVE OwnUsage(T, L2)
BY DEF OwnUsage

LEMMA ListKept ==
    ASSUME NEW t \in Thread, ListFits(t), Works(t)' => Works(t), job'[t] = job[t],
           loose \subseteq loose',
           \A i \in Listed(rows) :
               Known(i) => \/ i \in loose'
                           \/ i \in Listed(rows') /\ rows'[i].profile = rows[i].profile
    PROVE  ListFits(t)'
<1>1. OwnUsage(job[t].snap, loose')
    BY OwnStays DEF ListFits
<1>2. \A i \in AccountID : Has(t, i)' => job'[t].recs[i].of \in {0, i} \cup loose'
    BY DEF ListFits, Has
<1>3. ASSUME Works(t) PROVE StillListed(job[t].snap, rows', loose')
  <2>1. StillListed(job[t].snap, rows, loose)
      BY <1>3 DEF ListFits
  <2>2. \A i \in Listed(job[t].snap) : Known(i)
      BY <1>3 DEF Works, Known
  <2> QED
      BY <2>1, <2>2 DEF StillListed
<1> QED
    BY <1>1, <1>2, <1>3 DEF ListFits

(* A request with a list of this moment, or none.                          *)
LEMMA ListFresh ==
    ASSUME NEW t \in Thread, OwnUsage(rows, loose)',
           job'[t].snap = rows' \/ job'[t].snap = EmptyTable,
           \A i \in AccountID : job'[t].recs[i] = NoRecord
    PROVE  ListFits(t)'
<1>1. OwnUsage(EmptyTable, loose') /\ StillListed(EmptyTable, rows', loose')
    BY EmptyTableFacts DEF OwnUsage, StillListed
<1>2. StillListed(rows', rows', loose')
    BY DEF StillListed
<1> QED
    BY <1>1, <1>2 DEF ListFits, Has

LEMMA ServeKept ==
    ASSUME TypeOK', NEW t \in Thread, ServesListed(t), DeadGone(t)',
           pc'[t] = "serve" => pc[t] = "serve", job'[t] = job[t], dead'[t] \subseteq dead[t],
           loose \subseteq loose',
           \A p \in Profile : \/ cache'[p] \in {cache[p], NoRecord}
                              \/ cache'[p].of \in {0} \cup loose' \cup Listed(rows')
    PROVE  ServesListed(t)'
<1>1. ASSUME (pc[t] = "serve")', NEW p \in SnapshotAllowed(t)'
      PROVE  cache'[p].of \notin dead'[t] \ loose'
  <2>1. p \in Profile /\ cache'[p] # NoRecord /\ p \in Profiles(job[t].snap)
      BY DEF SnapshotAllowed, CacheKeys
  <2>2. CASE cache'[p] = cache[p]
      BY <1>1, <2>1, <2>2 DEF ServesListed, SnapshotAllowed, CacheKeys
  <2>3. CASE cache'[p].of \in {0} \cup loose' \cup Listed(rows')
    <3>1. 0 \notin dead'[t]
        BY UsageAssumption DEF TypeOK
    <3> QED
        BY <2>3, <3>1 DEF DeadGone
  <2> QED
      BY <2>1, <2>2, <2>3
<1> QED
    BY <1>1 DEF ServesListed

(* A request that has just listed the accounts.                            *)
LEMMA ServeFresh ==
    ASSUME TypeOK', NEW t \in Thread, DeadGone(t)', job'[t].snap = rows',
           \A p \in CacheKeys' : OwnRecord(p)'
    PROVE  ServesListed(t)'
<1>1. ASSUME NEW p \in SnapshotAllowed(t)'
      PROVE  cache'[p].of \notin dead'[t] \ loose'
  <2>1. OwnRecord(p)' /\ p \in Profiles(rows')
      BY DEF SnapshotAllowed
  <2>2. 0 \notin dead'[t]
      BY UsageAssumption DEF TypeOK
  <2> QED
      BY <2>1, <2>2 DEF OwnRecord, DeadGone
<1> QED
    BY <1>1 DEF ServesListed

LEMMA RecordKept ==
    ASSUME NEW p, OwnRecord(p), cache'[p] = cache[p], loose \subseteq loose',
           \A i \in Listed(rows) :
               \/ i \in loose'
               \/ i \in Listed(rows') /\ rows'[i].profile = rows[i].profile
               \/ \E q \in {rows[i].profile} :
                      q \notin Profiles(rows') /\ \E t \in Thread : Prunes(t, q)',
           p \notin Profiles(rows) /\ (\E t \in Thread : Prunes(t, p)) =>
               \/ cache[p].of \in {0} \cup loose'
               \/ p \notin Profiles(rows') /\ \E t \in Thread : Prunes(t, p)'
    PROVE  OwnRecord(p)'
<1>1. CASE cache[p].of \in {0} \cup loose'
    BY <1>1 DEF OwnRecord
<1>2. CASE cache[p].of \in Listed(rows) /\ rows[cache[p].of].profile = p
    BY <1>2 DEF OwnRecord
<1>3. CASE p \notin Profiles(rows) /\ \E t \in Thread : Prunes(t, p)
  <2>1. CASE p \notin Profiles(rows') /\ \E t \in Thread : Prunes(t, p)'
      BY <2>1 DEF OwnRecord
  <2> QED
      BY <1>1, <1>3, <2>1
<1>4. cache[p].of \in {0} \cup loose => cache[p].of \in {0} \cup loose'
    OBVIOUS
<1> QED
    BY <1>1, <1>2, <1>3, <1>4 DEF OwnRecord

-----------------------------------------------------------------------------
(* Steps of a thread that leave the table as it is, or list it.            *)
LEMMA OwnQuiet ==
    ASSUME IInv, IInv', OwnInv, NEW t \in Thread,
           UNCHANGED <<rows, loose>>,
           \A u \in Thread \ {t} : /\ pc'[u] = pc[u] /\ job'[u] = job[u]
                                   /\ dead'[u] \subseteq dead[u],
           ListFits(t)',
           \A p \in Profile : \/ cache'[p] \in {cache[p], NoRecord}
                              \/ cache'[p].of \in {0} \cup loose'
                              \/ /\ cache'[p].of \in Listed(rows')
                                 /\ rows'[cache'[p].of].profile = p,
           \A p \in CacheKeys' \ Profiles(rows) : Prunes(t, p) => Prunes(t, p)',
           pc'[t] = "serve" => job'[t].snap = rows'
    PROVE  OwnInv'
<1>1. ASSUME NEW p \in CacheKeys' PROVE OwnRecord(p)'
  <2>1. p \in Profile /\ cache'[p] # NoRecord
      BY DEF CacheKeys
  <2>2. CASE cache'[p] = cache[p]
    <3>1. OwnRecord(p)
        BY <2>1, <2>2 DEF OwnInv, CacheKeys
    <3>2. \A u \in Thread \ {t} : Prunes(u, p) => Prunes(u, p)'
        BY DEF Prunes
    <3> QED
        BY <1>1, <2>2, <3>1, <3>2, RecordKept
  <2> QED
      BY <2>1, <2>2 DEF OwnRecord
<1>2. TypeOK /\ TypeOK' /\ \A u \in Thread : DeadGone(u)'
    BY DEF IInv, ThreadFits
<1>3. ASSUME NEW u \in Thread \ {t} PROVE ListFits(u)' /\ ServesListed(u)'
    BY <1>2, ListKept, ServeKept DEF OwnInv, Works
<1>4. ServesListed(t)'
    BY <1>1, <1>2, ServeFresh DEF ServesListed
<1>5. OwnUsage(rows, loose)'
    BY DEF OwnInv
<1> QED
    BY <1>1, <1>3, <1>4, <1>5 DEF OwnInv

LEMMA OwnBegin ==
    ASSUME IInv, IInv', OwnInv, NEW t \in Thread, NEW to \in {"lock", "list", "delete"},
           NEW request, Begin(t, to, request), loose' = loose,
           request.snap = rows \/ request.snap = EmptyTable,
           \A i \in AccountID : request.recs[i] = NoRecord,
           \A u \in Thread \ {t} : dead'[u] \subseteq dead[u]
    PROVE  OwnInv'
<1>1. /\ pc[t] = "idle" /\ pc'[t] = to /\ job'[t] = request
      /\ \A u \in Thread \ {t} : pc'[u] = pc[u] /\ job'[u] = job[u]
      /\ UNCHANGED <<rows, cache, loose>>
    BY DEF Begin, Go, At, IInv, TypeOK
<1>2. ListFits(t)'
    BY <1>1, ListFresh DEF OwnInv
<1>3. \A p \in CacheKeys' : ~Prunes(t, p)
    BY <1>1 DEF Prunes
<1>4. pc'[t] # "serve"
    BY <1>1
<1> QED
    BY <1>1, <1>2, <1>3, <1>4, OwnQuiet

LEMMA OwnRequests ==
    ASSUME IInv, OwnInv, NEW t \in Thread,
           \/ t = Ticker /\ Tick
           \/ StartRecords(t) \/ StartSwitch(t) \/ StartDelete(t) \/ StartRefresh(t)
    PROVE  OwnInv'
<1>1. IInv'
    BY InvRequests
<1>2. CASE StartRecords(t)
  <2>1. Begin(t, "list", Reading("records", 0)) /\ loose' = loose
      BY <1>2 DEF StartRecords
  <2>2. \A u \in Thread \ {t} : dead'[u] \subseteq dead[u]
      BY <1>2 DEF StartRecords, IInv, TypeOK
  <2> QED
      BY <1>1, <2>1, <2>2, ReadingFacts, OwnBegin
<1>3. CASE StartSwitch(t)
  <2>1. PICK i \in born : Begin(t, "list", Reading("switch", i)) /\ UNCHANGED <<dead, loose>>
      BY <1>3 DEF StartSwitch
  <2> QED
      BY <1>1, <2>1, ReadingFacts, OwnBegin
<1>4. CASE StartDelete(t) \/ StartRefresh(t)
  <2>1. PICK i \in born, op \in Op, to \in {"delete", "lock"} :
            /\ Begin(t, to, [NoJob EXCEPT !.op = op, !.sel = i])
            /\ UNCHANGED <<dead, loose>>
      BY <1>4 DEF StartDelete, StartRefresh, Op
  <2> DEFINE request == [NoJob EXCEPT !.op = op, !.sel = i]
  <2>2. /\ request.snap = EmptyTable /\ \A j \in AccountID : request.recs[j] = NoRecord
        /\ Begin(t, to, request)
      BY <2>1, RequestFacts
  <2> HIDE DEF request
  <2> QED
      BY <1>1, <2>1, <2>2, OwnBegin
<1>5. CASE t = Ticker /\ Tick
  <2> DEFINE request == [NoJob EXCEPT !.op = "tick"]
  <2>1. /\ request.snap = EmptyTable /\ \A j \in AccountID : request.recs[j] = NoRecord
        /\ Begin(t, "lock", request) /\ UNCHANGED <<dead, loose>>
      BY <1>5, AskFacts DEF Tick
  <2> HIDE DEF request
  <2> QED
      BY <1>1, <2>1, OwnBegin
<1> QED
    BY <1>2, <1>3, <1>4, <1>5

LEMMA OwnRead ==
    ASSUME IInv, OwnInv, NEW t \in Thread, Lock(t) \/ Sync(t)
    PROVE  OwnInv'
<1>1. IInv' /\ TypeOK
    BY InvRead DEF IInv
<1>2. /\ pc[t] \in {"lock", "sync"} /\ pc'[t] = "list"
      /\ job'[t] = Reading(job[t].op, job[t].sel)
      /\ \A u \in Thread \ {t} : pc'[u] = pc[u] /\ job'[u] = job[u]
      /\ UNCHANGED <<rows, cache, dead, loose>>
    BY <1>1 DEF Lock, Sync, Go, At, TypeOK
<1>3. /\ job'[t].op = job[t].op /\ job'[t].snap = rows
      /\ \A j \in AccountID : job'[t].recs[j] = NoRecord
    BY <1>2, ReadingFacts
<1>4. ListFits(t)'
    BY <1>2, <1>3, ListFresh DEF OwnInv
<1>5. \A p \in CacheKeys' \ Profiles(rows) : Prunes(t, p) => Prunes(t, p)'
    BY <1>2, <1>3 DEF Prunes
<1> QED
    BY <1>1, <1>2, <1>4, <1>5, OwnQuiet

(* Where a listing goes, with the table as it leaves it.                   *)
LEMMA ListedNext ==
    ASSUME IInv, NEW t \in Thread, pc[t] = "list", NEW T \in Table, ListTo(t, T)
    PROVE  /\ \A u \in Thread \ {t} : pc'[u] = pc[u] /\ job'[u] = job[u]
           /\ \A i \in AccountID : job'[t].recs[i] = NoRecord
           /\ \/ job[t].op = "reply" /\ pc'[t] = "idle" /\ job'[t].snap = EmptyTable
              \/ /\ pc'[t] = After(job[t].op)
                 /\ job'[t].op = job[t].op /\ job'[t].snap = T
<1>1. TypeOK /\ OpFits(t) /\ \A i \in AccountID : job[t].recs[i] = NoRecord
    BY NoRecords DEF IInv, ThreadFits, Refreshing
<1>2. CASE job[t].op = "reply" /\ Go(t, "idle", NoJob)
  <2>1. /\ pc'[t] = "idle" /\ job'[t] = NoJob
        /\ \A u \in Thread \ {t} : pc'[u] = pc[u] /\ job'[u] = job[u]
      BY <1>1, <1>2 DEF Go, TypeOK
  <2> QED
      BY <1>2, <2>1, NoJobFacts
<1>3. ASSUME NEW S \in SUBSET Listed(T),
             Go(t, After(job[t].op), [job[t] EXCEPT !.snap = T, !.todo = S])
      PROVE  /\ \A u \in Thread \ {t} : pc'[u] = pc[u] /\ job'[u] = job[u]
             /\ pc'[t] = After(job[t].op) /\ job'[t].op = job[t].op
             /\ job'[t].snap = T /\ job'[t].recs = job[t].recs
    BY <1>1, <1>3, SnapType DEF Go, TypeOK, Job
<1> QED
    BY <1>1, <1>2, <1>3, ListToFacts

LEMMA OwnList ==
    ASSUME IInv, OwnInv, NEW t \in Thread, List(t)
    PROVE  OwnInv'
<1>1. IInv' /\ pc[t] = "list" /\ rows \in Table /\ ListTo(t, rows)
      /\ UNCHANGED <<rows, cache, dead, loose>>
    BY InvList DEF IInv, TypeOK, List, At
<1>2. /\ \A u \in Thread \ {t} : pc'[u] = pc[u] /\ job'[u] = job[u]
      /\ \A i \in AccountID : job'[t].recs[i] = NoRecord
      /\ \/ job[t].op = "reply" /\ pc'[t] = "idle" /\ job'[t].snap = EmptyTable
         \/ /\ pc'[t] = After(job[t].op)
            /\ job'[t].op = job[t].op /\ job'[t].snap = rows
    BY <1>1, ListedNext
<1>3. ListFits(t)'
    BY <1>1, <1>2, ListFresh DEF OwnInv
<1>4. \A p \in CacheKeys' \ Profiles(rows) : Prunes(t, p) => Prunes(t, p)'
    BY <1>1, <1>2, AfterFacts DEF Prunes
<1> QED
    BY <1>1, <1>2, <1>3, <1>4, OwnQuiet

(* Answers, and the commits that find nothing to do.                       *)
LEMMA OwnAnswer ==
    ASSUME IInv, OwnInv, NEW t \in Thread,
           \/ Prune(t) \/ Serve(t) \/ RefreshNothing(t)
           \/ SwitchCommit(t) /\ UNCHANGED <<rows, dead, loose>>
           \/ DeleteCommit(t) /\ UNCHANGED <<rows, dead, loose>> /\ pc'[t] = "idle"
           \/ Store(t) /\ UNCHANGED <<rows, dead, loose>>
    PROVE  OwnInv'
<1>1. IInv' /\ TypeOK
    BY InvAnswer, InvNothing, InvDelete, InvStore DEF IInv
<1>2. UNCHANGED <<rows, loose>> /\ \A u \in Thread \ {t} : dead'[u] \subseteq dead[u]
    BY <1>1 DEF Prune, Serve, RefreshNothing, TypeOK
<1>3. /\ \A u \in Thread \ {t} : pc'[u] = pc[u] /\ job'[u] = job[u]
      /\ pc'[t] # "serve" /\ job'[t].snap = EmptyTable
      /\ \A i \in AccountID : job'[t].recs[i] = NoRecord
  <2>1. PICK to, request :
            /\ to \in {"idle", "lock", "sync"} /\ Go(t, to, request) /\ request.snap = EmptyTable
            /\ \A i \in AccountID : request.recs[i] = NoRecord
    <3>1. CASE Go(t, "idle", NoJob)
        BY <3>1, NoJobFacts
    <3>2. CASE Go(t, "lock", [NoJob EXCEPT !.op = "refresh", !.sel = job[t].sel])
      <4> DEFINE again == [NoJob EXCEPT !.op = "refresh", !.sel = job[t].sel]
      <4>1. again.snap = EmptyTable /\ \A i \in AccountID : again.recs[i] = NoRecord
          BY RequestFacts
      <4>2. Go(t, "lock", again)
          BY <3>2
      <4> HIDE DEF again
      <4> QED
          BY <4>1, <4>2
    <3>3. CASE Go(t, "sync", [NoJob EXCEPT !.op = "reply"])
      <4> DEFINE reply == [NoJob EXCEPT !.op = "reply"]
      <4>1. reply.snap = EmptyTable /\ \A i \in AccountID : reply.recs[i] = NoRecord
          BY AskFacts
      <4>2. Go(t, "sync", reply)
          BY <3>3
      <4> HIDE DEF reply
      <4> QED
          BY <4>1, <4>2
    <3>4. DeleteCommit(t) /\ pc'[t] = "idle" => Go(t, "idle", NoJob)
        BY <1>1 DEF DeleteCommit, Go, Return, TypeOK
    <3> QED
        BY <3>1, <3>2, <3>3, <3>4 DEF Prune, Serve, RefreshNothing, SwitchCommit, Store, Return
  <2> QED
      BY <1>1, <2>1 DEF Go, TypeOK
<1>4. ListFits(t)'
    BY <1>2, <1>3, ListFresh DEF OwnInv
<1>5. \A p \in Profile : cache'[p] \in {cache[p], NoRecord}
    BY DEF Prune, Serve, RefreshNothing, EmptyCache, SwitchCommit, DeleteCommit, Store
<1>6. ASSUME NEW p \in CacheKeys', Prunes(t, p) PROVE FALSE
  <2>1. pc[t] \in {"sync", "list", "prune"}
      BY <1>6 DEF Prunes
  <2>2. Prune(t)
      BY <2>1 DEF Serve, RefreshNothing, SwitchCommit, DeleteCommit, Store, At
  <2>3. pc[t] = "prune" /\ p \in Profiles(job[t].snap)
      BY <2>2 DEF Prune, At, CacheKeys
  <2> QED
      BY <1>6, <2>3 DEF Prunes
<1> QED
    BY <1>1, <1>2, <1>3, <1>4, <1>5, <1>6, OwnQuiet


(* What is collected is of the account itself, or what its row said.       *)
LEMMA OwnCollect ==
    ASSUME IInv, OwnInv, NEW t \in Thread, Collect(t)
    PROVE  OwnInv'
<1>1. IInv' /\ pc[t] = "collect" /\ Refreshing(t) /\ UNCHANGED <<rows, cache, dead, loose>>
    BY InvCollect DEF Collect, CollectLive, CollectSaved, Collected, At, Refreshing
<1>2. /\ TypeOK /\ job[t].snap \in Table /\ CollectsListed(t)
      /\ job[t].recs \in [AccountID -> Usage \cup {NoRecord}] /\ job[t] \in Job
    BY <1>1, HolderFacts, SnapType
<1>3. PICK i \in AccountID, u \in Usage : Collected(t, i, u) /\ u.of \in {0, i} \cup loose
  <2>1. PICK i \in AccountID : CollectLive(t, i) \/ CollectSaved(t, i)
      BY DEF Collect
  <2>2. CASE CollectLive(t, i)
    <3> DEFINE seq == IF clock < MaxSeq THEN clock + 1 ELSE MaxSeq
    <3> DEFINE u == [of |-> i, seq |-> seq]
    <3>1. seq \in 0 .. MaxSeq
        BY <1>2, ClockFacts
    <3>2. Collected(t, i, u)
        BY <2>2 DEF CollectLive
    <3> HIDE DEF seq
    <3>3. u \in Usage /\ u.of = i
        BY <3>1 DEF Usage
    <3> QED
        BY <3>2, <3>3
  <2>3. CASE CollectSaved(t, i)
    <3>1. i \in Listed(job[t].snap)
        BY <1>2, <2>3 DEF CollectSaved, Collected, First, CollectsListed
    <3>2. job[t].snap[i].usage \in Usage
        BY <1>2, <3>1, TableFacts
    <3>3. job[t].snap[i].usage.of \in {0, i} \cup loose
        BY <3>1 DEF OwnInv, ListFits, OwnUsage
    <3> QED
        BY <2>3, <3>2, <3>3 DEF CollectSaved
  <2> QED
      BY <2>1, <2>2, <2>3
<1>4. /\ \A v \in Thread \ {t} : pc'[v] = pc[v] /\ job'[v] = job[v]
      /\ pc'[t] = "collect" /\ job'[t].snap = job[t].snap
      /\ job'[t].recs = [job[t].recs EXCEPT ![i] = u]
    BY <1>2, <1>3 DEF Collected, Go, TypeOK, Job
<1>5. ListFits(t)'
  <2>1. StillListed(job[t].snap, rows, loose) /\ OwnUsage(job[t].snap, loose)
      BY <1>1 DEF OwnInv, ListFits, Works
  <2>2. ASSUME NEW j \in AccountID, Has(t, j)'
        PROVE  job'[t].recs[j].of \in {0, j} \cup loose
    <3>1. CASE j = i
      <4>1. job'[t].recs[j] = u
          BY <1>2, <1>4, <3>1
      <4> QED
          BY <1>3, <3>1, <4>1
    <3>2. CASE j # i
      <4>1. job'[t].recs[j] = job[t].recs[j]
          BY <1>2, <1>4, <3>2
      <4> QED
          BY <2>2, <4>1 DEF OwnInv, ListFits, Has
    <3> QED
        BY <3>1, <3>2
  <2> QED
      BY <1>1, <1>4, <2>1, <2>2 DEF ListFits
<1>6. \A p \in CacheKeys' : ~Prunes(t, p)
    BY <1>1 DEF Prunes
<1> QED
    BY <1>1, <1>4, <1>5, <1>6, OwnQuiet

(* What enters the cache is the record of an account that is still listed  *)
(* under that name, or is known to have been lost.                         *)
LEMMA OwnCache ==
    ASSUME IInv, OwnInv, NEW t \in Thread, CacheRecords(t)
    PROVE  OwnInv'
<1>1. /\ IInv' /\ pc[t] = "collect" /\ Refreshing(t)
      /\ UNCHANGED <<rows, dead, loose>> /\ Go(t, "store", job[t])
    BY InvCache DEF CacheRecords, At, Refreshing
<1>2. TypeOK /\ job[t].snap \in Table /\ CollectsListed(t)
    BY <1>1, HolderFacts
<1>3. job' = job /\ pc'[t] = "store" /\ \A u \in Thread \ {t} : pc'[u] = pc[u]
    BY <1>1, <1>2 DEF Go, TypeOK
<1>4. ListFits(t)'
    BY <1>1, <1>3, ListKept DEF OwnInv, Works
<1>5. ASSUME NEW p \in Profile
      PROVE  \/ cache'[p] \in {cache[p], NoRecord}
             \/ cache'[p].of \in {0} \cup loose
             \/ cache'[p].of \in Listed(rows) /\ rows[cache'[p].of].profile = p
  <2>1. PICK kept \in {cache, EmptyCache} : cache' = ByProfile(t, kept)
      BY DEF CacheRecords
  <2>2. kept[p] \in {cache[p], NoRecord}
      BY <2>1 DEF EmptyCache
  <2>3. ASSUME NEW i \in AccountID, Has(t, i), job[t].snap[i].profile = p,
               cache'[p] = job[t].recs[i]
        PROVE  \/ cache'[p].of \in {0} \cup loose
               \/ cache'[p].of \in Listed(rows) /\ rows[cache'[p].of].profile = p
    <3>1. job[t].recs[i].of \in {0, i} \cup loose /\ i \in Listed(job[t].snap)
        BY <1>2, <2>3 DEF OwnInv, ListFits, CollectsListed
    <3>2. i \in loose \/ (i \in Listed(rows) /\ rows[i].profile = p)
        BY <1>1, <2>3, <3>1 DEF OwnInv, ListFits, Works, StillListed
    <3> QED
        BY <2>3, <3>1, <3>2
  <2> QED
      BY <2>1, <2>2, <2>3, ByProfileFacts
<1>6. \A p \in CacheKeys' : ~Prunes(t, p)
    BY <1>1 DEF Prunes
<1> QED
    BY <1>1, <1>3, <1>4, <1>5, <1>6, OwnQuiet

-----------------------------------------------------------------------------
(* Steps that write the table.  Whoever leaves it without being deleted,   *)
(* or while a request knows it, is in gone; whose name comes back before   *)
(* the deletion has pruned it is taken over.                               *)
LEMMA OwnTable ==
    ASSUME IInv, IInv', OwnInv, NEW T \in Table, NEW gone, SetRows(T, gone), cache' = cache,
           OwnUsage(T, loose),
           \A i \in Listed(rows) :
               \/ i \in gone \cup loose
               \/ i \in Listed(T) /\ T[i].profile = rows[i].profile
               \/ /\ ~Known(i)
                  /\ \E q \in {rows[i].profile} :
                         q \notin Profiles(T) /\ \E u \in Thread : Prunes(u, q)',
           \A p \in Profile \ Profiles(T), u \in Thread : Prunes(u, p) => Prunes(u, p)',
           \A u \in Thread :
               \/ /\ job'[u] = job[u] /\ (Works(u)' => Works(u))
                  /\ pc'[u] = "serve" => pc[u] = "serve"
               \/ /\ job'[u].snap = rows' \/ (job'[u].snap = EmptyTable /\ pc'[u] # "serve")
                  /\ \A i \in AccountID : job'[u].recs[i] = NoRecord
    PROVE  OwnInv'
<1>1. /\ rows' = T /\ loose' = loose \cup gone \cup TakenOver(T)
      /\ \A u \in Thread : dead'[u] \subseteq dead[u]
    BY DEF SetRows, IInv, TypeOK
<1>2. OwnUsage(rows, loose)'
    BY <1>1, OwnStays
<1>3. ASSUME NEW p \in CacheKeys' PROVE OwnRecord(p)'
  <2>1. p \in CacheKeys /\ p \in Profile /\ cache[p] # NoRecord /\ OwnRecord(p)
      BY DEF CacheKeys, OwnInv
  <2>2. ASSUME p \notin Profiles(rows), NEW u \in Thread, Prunes(u, p)
        PROVE  \/ cache[p].of \in {0} \cup loose'
               \/ p \notin Profiles(rows') /\ \E v \in Thread : Prunes(v, p)'
    <3>1. CASE p \in Profiles(T)
      <4>1. Deleting
          BY <2>2 DEF Prunes, Deleting
      <4> QED
          BY <1>1, <2>1, <2>2, <3>1, <4>1 DEF TakenOver
    <3>2. CASE p \notin Profiles(T)
        BY <1>1, <2>1, <2>2, <3>2
    <3> QED
        BY <3>1, <3>2
  <2>3. \A i \in Listed(rows) :
               \/ i \in loose'
               \/ i \in Listed(rows') /\ rows'[i].profile = rows[i].profile
               \/ \E q \in {rows[i].profile} :
                      q \notin Profiles(rows') /\ \E u \in Thread : Prunes(u, q)'
      BY <1>1
  <2>4. cache'[p] = cache[p] /\ loose \subseteq loose'
      BY <1>1
  <2> QED
      BY <2>1, <2>2, <2>3, <2>4, RecordKept
<1>4. ASSUME NEW u \in Thread PROVE ListFits(u)' /\ ServesListed(u)'
  <2>1. TypeOK' /\ DeadGone(u)' /\ ListFits(u) /\ ServesListed(u)
      BY DEF IInv, ThreadFits, OwnInv
  <2>2. CASE /\ job'[u] = job[u] /\ (Works(u)' => Works(u))
             /\ pc'[u] = "serve" => pc[u] = "serve"
    <3>1. \A i \in Listed(rows) :
              Known(i) => \/ i \in loose'
                          \/ i \in Listed(rows') /\ rows'[i].profile = rows[i].profile
        BY <1>1
    <3>2. ListFits(u)'
        BY <1>1, <2>1, <2>2, <3>1, ListKept
    <3>3. ServesListed(u)'
        BY <1>1, <2>1, <2>2, ServeKept
    <3> QED
        BY <3>2, <3>3
  <2>3. CASE /\ job'[u].snap = rows' \/ (job'[u].snap = EmptyTable /\ pc'[u] # "serve")
             /\ \A i \in AccountID : job'[u].recs[i] = NoRecord
    <3>1. ListFits(u)'
        BY <1>2, <2>3, ListFresh
    <3>2. ServesListed(u)'
        BY <1>3, <2>1, <2>3, ServeFresh DEF ServesListed
    <3> QED
        BY <3>1, <3>2
  <2> QED
      BY <2>2, <2>3
<1> QED
    BY <1>2, <1>3, <1>4 DEF OwnInv


LEMMA OwnAddRow ==
    ASSUME IInv, IInv', OwnInv, NEW i \in AccountID, NEW p \in Profile, AddRow(i, p),
           cache' = cache,
           \A u \in Thread, q \in Profile : Prunes(u, q) => Prunes(u, q)',
           \A u \in Thread :
               \/ job'[u] = job[u] /\ pc'[u] = pc[u]
               \/ /\ job'[u].snap = EmptyTable /\ pc'[u] # "serve"
                  /\ \A j \in AccountID : job'[u].recs[j] = NoRecord
    PROVE  OwnInv'
<1> DEFINE T == [rows EXCEPT ![i] = [profile |-> p, usage |-> NoUsage]]
<1>1. rows \in Table /\ T \in Table /\ i \notin Listed(rows) /\ SetRows(T, {})
    BY RowFacts DEF IInv, TypeOK, Sound, AddRow, First, Table
<1>2. \A j \in Listed(T) : \/ j \in Listed(rows) /\ T[j] = rows[j]
                           \/ j = i /\ T[j].usage = NoUsage
    BY <1>1 DEF Table, Listed
<1>3. \A j \in Listed(rows) : j \in Listed(T) /\ T[j] = rows[j]
    BY <1>1 DEF Table, Listed
<1> HIDE DEF T
<1>4. OwnUsage(T, loose)
    BY <1>2, RowFacts DEF OwnInv, OwnUsage
<1> QED
    BY <1>1, <1>3, <1>4, OwnTable DEF Works

LEMMA OwnAdd ==
    ASSUME IInv, OwnInv, LoginAdds \/ \E t \in Thread : AddAccount(t)
    PROVE  OwnInv'
<1>1. IInv' /\ TypeOK
    BY InvAdd DEF IInv
<1>2. CASE LoginAdds
    BY <1>1, <1>2, OwnAddRow DEF LoginAdds, Prunes
<1>3. ASSUME NEW t \in Thread, AddAccount(t) PROVE OwnInv'
  <2>1. PICK i \in AccountID, p \in Profile :
            AddRow(i, p) /\ Go(t, "lock", [NoJob EXCEPT !.op = "added", !.sel = i])
      BY <1>3 DEF AddAccount
  <2> DEFINE request == [NoJob EXCEPT !.op = "added", !.sel = i]
  <2>2. request.snap = EmptyTable /\ \A j \in AccountID : request.recs[j] = NoRecord
      BY RequestFacts
  <2>3. Go(t, "lock", request) /\ pc[t] = "idle" /\ cache' = cache
      BY <1>3, <2>1 DEF AddAccount, At
  <2> HIDE DEF request
  <2>4. /\ \A u \in Thread \ {t} : pc'[u] = pc[u] /\ job'[u] = job[u]
        /\ pc'[t] = "lock" /\ job'[t] = request
      BY <1>1, <2>3 DEF Go, TypeOK
  <2>5. \A u \in Thread, q \in Profile : Prunes(u, q) => Prunes(u, q)'
      BY <2>3, <2>4 DEF Prunes
  <2> QED
      BY <1>1, <2>1, <2>2, <2>3, <2>4, <2>5, OwnAddRow
<1> QED
    BY <1>2, <1>3

(* A list is written back by the request that has it.                      *)
LEMMA OwnWriteBack ==
    ASSUME IInv, IInv', OwnInv, NEW t \in Thread, Works(t), WriteBack(job[t].snap),
           cache' = cache,
           \A u \in Thread \ {t} : pc'[u] = pc[u] /\ job'[u] = job[u],
           \A p \in Profile \ Profiles(job[t].snap) : Prunes(t, p) => Prunes(t, p)',
           job'[t].snap = rows' \/ (job'[t].snap = EmptyTable /\ pc'[t] # "serve"),
           \A i \in AccountID : job'[t].recs[i] = NoRecord
    PROVE  OwnInv'
<1> DEFINE T == job[t].snap
<1> DEFINE gone == Listed(rows) \ Listed(T)
<1>1. /\ T \in Table /\ StillListed(T, rows, loose) /\ OwnUsage(T, loose)
      /\ SetRows(T, gone)
    BY SnapType DEF IInv, OwnInv, ListFits, WriteBack
<1>2. \A i \in Listed(rows) :
               \/ i \in gone \cup loose
               \/ i \in Listed(T) /\ T[i].profile = rows[i].profile
    BY <1>1 DEF StillListed
<1>3. \A p \in Profile \ Profiles(T), u \in Thread : Prunes(u, p) => Prunes(u, p)'
    BY DEF Prunes
<1> HIDE DEF T, gone
<1> QED
    BY <1>1, <1>2, <1>3, OwnTable DEF Works

LEMMA OwnRewrites ==
    ASSUME IInv, OwnInv, NEW t \in Thread,
           ListRewrites(t) \/ (SwitchCommit(t) /\ WriteBack(job[t].snap))
    PROVE  OwnInv'
<1>1. IInv' /\ TypeOK /\ job[t].snap \in Table /\ Works(t) /\ cache' = cache
      /\ WriteBack(job[t].snap) /\ rows' = job[t].snap
    BY InvList, InvAnswer, SnapType
       DEF IInv, ListRewrites, SwitchCommit, At, Works, WriteBack, SetRows
<1>2. CASE ListRewrites(t)
  <2>1. /\ \A u \in Thread \ {t} : pc'[u] = pc[u] /\ job'[u] = job[u]
        /\ \A i \in AccountID : job'[t].recs[i] = NoRecord
        /\ \/ job[t].op = "reply" /\ pc'[t] = "idle" /\ job'[t].snap = EmptyTable
           \/ /\ pc'[t] = After(job[t].op)
              /\ job'[t].op = job[t].op /\ job'[t].snap = rows'
      BY <1>1, <1>2, ListedNext DEF ListRewrites, At
  <2>2. \A p \in Profile \ Profiles(job[t].snap) : Prunes(t, p) => Prunes(t, p)'
      BY <1>1, <2>1, AfterFacts DEF Prunes
  <2> QED
      BY <1>1, <2>1, <2>2, OwnWriteBack
<1>3. CASE SwitchCommit(t)
  <2>1. pc[t] = "commit" /\ \A p \in Profile : ~Prunes(t, p)
      BY <1>3 DEF SwitchCommit, At, Prunes
  <2> DEFINE again == [NoJob EXCEPT !.op = "refresh", !.sel = job[t].sel]
  <2>2. again.snap = EmptyTable /\ \A i \in AccountID : again.recs[i] = NoRecord
      BY RequestFacts
  <2>3. Go(t, "lock", again) \/ Go(t, "idle", NoJob)
      BY <1>3 DEF SwitchCommit, Return
  <2> HIDE DEF again
  <2>4. /\ \A u \in Thread \ {t} : pc'[u] = pc[u] /\ job'[u] = job[u]
        /\ job'[t] \in {again, NoJob} /\ pc'[t] # "serve"
      BY <1>1, <2>3 DEF Go, TypeOK
  <2> QED
      BY <1>1, <2>1, <2>2, <2>4, NoJobFacts, OwnWriteBack
<1> QED
    BY <1>2, <1>3

(* ReplaceUsage gives a row the usage that was collected for its account.  *)
LEMMA OwnStore ==
    ASSUME IInv, OwnInv, NEW t \in Thread, Store(t), SetRows(ReplaceUsage(rows, Updated(t)), {})
    PROVE  OwnInv'
<1> DEFINE snap == job[t].snap
<1> DEFINE T == ReplaceUsage(rows, Updated(t))
<1>1. IInv' /\ pc[t] = "store" /\ Refreshing(t) /\ cache' = cache
    BY InvStore DEF Store, At, Refreshing
<1>2. /\ TypeOK /\ CollectsListed(t) /\ Sound(rows, born, clock)
      /\ StillListed(snap, rows, loose)
    BY <1>1, HolderFacts DEF IInv, OwnInv, ListFits, Works
<1>3. /\ T \in Table /\ Listed(T) = Listed(rows)
      /\ \A j \in Listed(rows) :
           /\ T[j].profile = rows[j].profile
           /\ \/ T[j] = rows[j]
              \/ \E i \in Listed(snap) :
                   /\ snap[i].profile = rows[j].profile
                   /\ T[j].usage = IF Has(t, i) THEN job[t].recs[i] ELSE snap[i].usage
    BY <1>1, StoreFacts
<1> HIDE DEF T
<1>4. ASSUME NEW j \in Listed(T) PROVE T[j].usage.of \in {0, j} \cup loose
  <2>1. CASE T[j] = rows[j]
      BY <1>3, <2>1 DEF OwnInv, OwnUsage
  <2>2. ASSUME NEW i \in Listed(snap), snap[i].profile = rows[j].profile,
               T[j].usage = IF Has(t, i) THEN job[t].recs[i] ELSE snap[i].usage
        PROVE  T[j].usage.of \in {0, j} \cup loose
    <3>1. T[j].usage.of \in {0, i} \cup loose
      <4>1. i \in AccountID /\ snap[i].usage.of \in {0, i} \cup loose
          BY DEF Listed, OwnInv, ListFits, OwnUsage
      <4>2. Has(t, i) => job[t].recs[i].of \in {0, i} \cup loose
          BY <4>1 DEF OwnInv, ListFits
      <4> QED
          BY <2>2, <4>1, <4>2
    <3>2. i \in loose \/ i = j
        BY <1>2, <1>3, <2>2 DEF StillListed, Sound
    <3> QED
        BY <3>1, <3>2
  <2> QED
      BY <1>3, <2>1, <2>2
<1>5. OwnUsage(T, loose)
    BY <1>4 DEF OwnUsage
<1>6. /\ \A u \in Thread \ {t} : pc'[u] = pc[u] /\ job'[u] = job[u]
      /\ pc'[t] # "serve" /\ job'[t].snap = EmptyTable
      /\ \A i \in AccountID : job'[t].recs[i] = NoRecord
  <2> DEFINE reply == [NoJob EXCEPT !.op = "reply"]
  <2>1. reply.snap = EmptyTable /\ \A i \in AccountID : reply.recs[i] = NoRecord
      BY AskFacts
  <2>2. Go(t, "idle", NoJob) \/ Go(t, "sync", reply)
      BY DEF Store, Return
  <2> HIDE DEF reply
  <2>3. /\ \A u \in Thread \ {t} : pc'[u] = pc[u] /\ job'[u] = job[u]
        /\ pc'[t] # "serve" /\ job'[t] \in {reply, NoJob}
      BY <1>2, <2>2 DEF Go, TypeOK
  <2> QED
      BY <2>1, <2>3, NoJobFacts
<1>7. \A p \in Profile, u \in Thread : Prunes(u, p) => Prunes(u, p)'
    BY <1>1, <1>6 DEF Prunes
<1>8. SetRows(T, {})
    BY DEF T
<1> QED
    BY <1>1, <1>3, <1>5, <1>6, <1>7, <1>8, OwnTable DEF Works

(* A deletion has its account pruned, or knows who may bring it back.      *)
LEMMA OwnDelete ==
    ASSUME IInv, OwnInv, NEW t \in Thread, DeleteCommit(t), job[t].sel \in Listed(rows)
    PROVE  OwnInv'
<1> DEFINE d == job[t].sel
<1> DEFINE T == [rows EXCEPT ![d] = NoRow]
<1> DEFINE gone == {i \in {d} : Known(i)}
<1>1. /\ IInv' /\ TypeOK /\ pc[t] = "delete" /\ job[t].op = "delete" /\ cache' = cache
      /\ SetRows(T, gone) /\ Go(t, "sync", job[t]) /\ Sound(rows, born, clock)
    BY InvDelete DEF DeleteCommit, At, IInv, ThreadFits, OpFits
<1>2. rows \in Table /\ d \in AccountID /\ T \in Table
    BY <1>1 DEF Listed, TypeOK, Table
<1>3. Listed(T) = Listed(rows) \ {d} /\ \A i \in Listed(T) : T[i] = rows[i]
    BY <1>2 DEF Listed, Table
<1>4. /\ job' = job /\ pc'[t] = "sync"
      /\ \A u \in Thread \ {t} : pc'[u] = pc[u]
    BY <1>1 DEF Go, TypeOK
<1>5. rows[d].profile \notin Profiles(T)
    BY <1>1, <1>3 DEF Profiles, Sound
<1>6. ~Known(d) <=> d \notin gone
    OBVIOUS
<1> HIDE DEF T, gone
<1>7. OwnUsage(T, loose)
    BY <1>3 DEF OwnInv, OwnUsage
<1>8. \A q \in Profile, u \in Thread : Prunes(u, q) => Prunes(u, q)'
    BY <1>1, <1>4 DEF Prunes
<1>9. \A q : Prunes(t, q)'
    BY <1>1, <1>4 DEF Prunes
<1>10. ASSUME NEW i \in Listed(rows)
       PROVE  \/ i \in gone \cup loose
              \/ i \in Listed(T) /\ T[i].profile = rows[i].profile
              \/ /\ ~Known(i)
                 /\ \E q \in {rows[i].profile} :
                        q \notin Profiles(T) /\ \E u \in Thread : Prunes(u, q)'
  <2>1. CASE i = d
      BY <1>5, <1>6, <1>9, <2>1
  <2>2. CASE i # d
      BY <1>3, <2>2
  <2> QED
      BY <2>1, <2>2
<1>11. \A u \in Thread : /\ job'[u] = job[u] /\ (Works(u)' => Works(u))
                         /\ pc'[u] = "serve" => pc[u] = "serve"
    BY <1>4 DEF Works
<1> QED
    BY <1>1, <1>2, <1>7, <1>8, <1>10, <1>11, OwnTable

LEMMA OwnStarting ==
    ASSUME OwnUsage(rows, loose)', cache' = EmptyCache, pc' = StartingPc, job' = StartingJob
    PROVE  OwnInv'
<1>1. CacheKeys' = {}
    BY DEF CacheKeys, EmptyCache
<1>2. ASSUME NEW t \in Thread PROVE ListFits(t)' /\ ServesListed(t)'
  <2>1. /\ pc'[t] # "serve" /\ job'[t].snap = EmptyTable
        /\ \A i \in AccountID : job'[t].recs[i] = NoRecord
      BY NoJobFacts, AskFacts DEF StartingPc, StartingJob, Startup
  <2> QED
      BY <2>1, ListFresh DEF ServesListed
<1> QED
    BY <1>1, <1>2 DEF OwnInv

LEMMA OwnInit == Init => OwnInv
<1> SUFFICES ASSUME Init PROVE OwnInv
    OBVIOUS
<1>1. OwnUsage(EmptyTable, loose) /\ CacheKeys = {} /\ rows = EmptyTable
    BY EmptyTableFacts DEF Init, OwnUsage, CacheKeys, EmptyCache
<1>2. ASSUME NEW t \in Thread PROVE ListFits(t) /\ ServesListed(t)
  <2>1. /\ pc[t] # "serve" /\ job[t].snap = EmptyTable
        /\ \A i \in AccountID : job[t].recs[i] = NoRecord
      BY NoJobFacts, AskFacts DEF Init, StartingPc, StartingJob, Startup
  <2> QED
      BY <1>1, <2>1, EmptyTableFacts DEF ListFits, ServesListed, StillListed, Has
<1> QED
    BY <1>1, <1>2 DEF OwnInv

LEMMA OwnNext == IInv /\ OwnInv /\ [Next]_vars => OwnInv'
<1> SUFFICES ASSUME IInv, OwnInv, [Next]_vars PROVE OwnInv'
    OBVIOUS
<1>1. CASE UNCHANGED vars
    BY <1>1 DEF vars, OwnInv, CacheKeys, OwnRecord, Prunes, ListFits, Works, Has, ServesListed,
                SnapshotAllowed
<1>2. ASSUME NEW t \in Thread, SwitchCommit(t) \/ DeleteCommit(t) \/ Store(t) PROVE OwnInv'
  <2>1. CASE SwitchCommit(t)
      BY <2>1, OwnRewrites, OwnAnswer DEF SwitchCommit
  <2>2. CASE DeleteCommit(t)
    <3>1. job[t].sel \notin Listed(rows) => UNCHANGED <<rows, dead, loose>> /\ pc'[t] = "idle"
        BY <2>2 DEF DeleteCommit, Return, Go, IInv, TypeOK
    <3> QED
        BY <2>2, <3>1, OwnDelete, OwnAnswer
  <2>3. CASE Store(t)
    <3>1. SetRows(ReplaceUsage(rows, Updated(t)), {}) \/ UNCHANGED <<rows, dead, loose>>
        BY <2>3 DEF Store
    <3> QED
        BY <2>3, <3>1, OwnStore, OwnAnswer
  <2> QED
      BY <1>2, <2>1, <2>2, <2>3
<1>3. ASSUME NEW t \in Thread, Lock(t) \/ Step(t) PROVE OwnInv'
    BY <1>2, <1>3, OwnRead, OwnList, OwnRewrites, OwnCollect, OwnCache, OwnAnswer
       DEF Step, Refresh
<1>4. ASSUME NEW t \in Handler, Start(t) PROVE OwnInv'
    BY <1>4, OwnRequests, OwnAdd DEF Start, Thread
<1>5. CASE Tick
    BY <1>5, OwnRequests DEF Thread
<1>6. CASE LoginAdds
    BY <1>6, OwnAdd
<1>7. CASE Crash
    BY <1>7, OwnStarting DEF Crash, OwnInv
<1> QED
    BY <1>1, <1>3, <1>4, <1>5, <1>6, <1>7 DEF Next


-----------------------------------------------------------------------------
LEMMA Inductive == Spec => []IInv
BY InitInv, NextInv, PTL DEF Spec

LEMMA OwnInductive == Spec => []OwnInv
BY Inductive, OwnInit, OwnNext, PTL DEF Spec

-----------------------------------------------------------------------------
(* Type correctness: every thread is at a place of the code, with a        *)
(* request, a table and records that make sense there.                     *)
THEOREM TypeCorrect == Spec => []TypeOK
BY Inductive, PTL DEF IInv

(* Records answers without the record of an account that was deleted       *)
(* before the request came, also when its name belongs to another account  *)
(* by then, unless a request that knew the account was at work during the  *)
(* deletion, the name was given away before the cache was pruned, or an    *)
(* old table was written over it (loose): PruneCurrentAccounts clears the  *)
(* cache by a list read after the deletion, and Snapshot answers by one    *)
(* read after the request.                                                 *)
THEOREM NoDeletedServed == Spec => []DeletedNotServed
<1>1. OwnInv => DeletedNotServed
    BY DEF OwnInv, ServesListed, DeletedNotServed, At
<1> QED
    BY <1>1, OwnInductive, PTL

(* Between refreshes no cached record is older than the row of its account *)
(* that the same refresh or a later one has written.                       *)
THEOREM CacheKeepsUp == Spec => []CacheNotBehindTable
<1>1. IInv => CacheNotBehindTable
    BY DEF IInv, AheadOf, CacheNotBehindTable
<1> QED
    BY <1>1, Inductive, PTL

(* ReplaceUsage, called by persistUsage with a list that may be out of     *)
(* date, adds no account to the table and takes none from it.              *)
THEOREM WriteBackIsSafe == Spec => WriteBackKeepsRegistry
<1>1. ASSUME IInv, NEW t \in Thread, Store(t) PROVE Listed(rows') = Listed(rows)
  <2>1. Refreshing(t)
      BY <1>1 DEF Store, At, Refreshing
  <2> QED
      BY <1>1, <2>1, StoreFacts DEF Store, SetRows
<1>2. IInv /\ [Next]_vars =>
          [\A t \in Thread : Store(t) => Listed(rows') = Listed(rows)]_vars
    BY <1>1
<1> QED
    BY <1>2, Inductive, PTL DEF Spec, WriteBackKeepsRegistry

(* The usage of a listed account is replaced by no older one, while nobody *)
(* writes back a whole table: what a refresh stores is what it collected   *)
(* after it had listed the account, or what the row still holds.           *)
THEOREM UsageIsNotUndone == Spec => UsageNeverGoesBack
<1> DEFINE Kept == ~rolled' => \A i \in Listed(rows) \cap Listed(rows') :
                                  rows'[i].usage.seq >= rows[i].usage.seq
<1>1. ASSUME IInv, [Next]_vars PROVE Kept
  <2>0. rows \in Table /\ \A i \in Listed(rows) : rows[i].usage.seq \in Nat
      BY <1>1, TableFacts DEF IInv, TypeOK
  <2>1. CASE rows' = rows
      BY <2>0, <2>1
  <2>2. ASSUME NEW t \in Thread, ListRewrites(t) \/ SwitchCommit(t) PROVE Kept
    <3>1. ~rolled' => rows' = rows
        BY <2>2 DEF ListRewrites, SwitchCommit, WriteBack, SetRows
    <3> QED
        BY <2>0, <3>1
  <2>3. ASSUME NEW i \in AccountID, NEW p \in Profile, AddRow(i, p) PROVE Kept
    <3>1. i \notin Listed(rows) /\ \A j \in AccountID \ {i} : rows'[j] = rows[j]
        BY <1>1, <2>0, <2>3 DEF AddRow, First, SetRows, IInv, Sound, Table
    <3> QED
        BY <2>0, <3>1, TableFacts
  <2>4. ASSUME NEW t \in Thread, DeleteCommit(t) PROVE Kept
    <3>1. \A j \in Listed(rows') : rows'[j] = rows[j]
        BY <2>0, <2>4 DEF DeleteCommit, SetRows, Table, Listed
    <3> QED
        BY <2>0, <3>1
  <2>5. ASSUME NEW t \in Thread, Store(t) PROVE Kept
    <3> DEFINE snap == job[t].snap
    <3>1. /\ Refreshing(t) /\ rolled' = rolled /\ ThreadFits(t)
          /\ snap \in Table /\ Sound(snap, born, clock) /\ CollectsListed(t)
          /\ job[t].recs \in [AccountID -> Usage \cup {NoRecord}]
        BY <1>1, <2>5, HolderFacts DEF Store, At, Refreshing
    <3>2. CASE rows' = ReplaceUsage(rows, Updated(t))
      <4>1. ASSUME ~rolled, NEW j \in Listed(rows), j \in Listed(rows')
            PROVE  rows'[j].usage.seq >= rows[j].usage.seq
        <5>1. Since(rows, snap)
            BY <3>1, <4>1 DEF ThreadFits
        <5>2. CASE rows'[j] = rows[j]
            BY <2>0, <5>2
        <5>3. ASSUME NEW i \in Listed(snap), snap[i].profile = rows[j].profile,
                     rows'[j].usage = IF Has(t, i) THEN job[t].recs[i] ELSE snap[i].usage
              PROVE  rows'[j].usage.seq >= rows[j].usage.seq
          <6>1. /\ i \in AccountID /\ snap[i].usage.seq \in Nat
                /\ rows'[j].usage.seq >= snap[i].usage.seq
            <7>1. i \in AccountID /\ snap[i].usage.seq \in Nat
                BY <3>1, TableFacts
            <7>2. CASE Has(t, i)
              <8>1. job[t].recs[i] \in Usage /\ snap[i].usage.seq <= job[t].recs[i].seq
                  BY <3>1, <7>1, <7>2 DEF CollectsListed, Has
              <8>2. job[t].recs[i].seq \in Nat
                  BY <8>1, UsageAssumption DEF Usage
              <8> QED
                  BY <5>3, <7>1, <7>2, <8>1, <8>2
            <7>3. CASE ~Has(t, i)
                BY <5>3, <7>1, <7>3
            <7> QED
                BY <7>1, <7>2, <7>3
          <6>2. CASE j \in Listed(snap)
            <7>1. rows[j] = snap[j]
                BY <5>1, <6>2 DEF Since
            <7>2. i = j
                BY <3>1, <5>3, <6>2, <7>1 DEF Sound
            <7> QED
                BY <6>1, <7>1, <7>2
          <6>3. CASE j \notin Listed(snap)
            <7>1. rows[j].usage.seq = 0
                BY <5>1, <6>3, RowFacts DEF Since
            <7>2. rows'[j].usage.seq \in Nat
              <8>1. rows' \in Table
                  BY <1>1, <3>1, <3>2, StoreFacts
              <8> QED
                  BY <4>1, <8>1, TableFacts
            <7> QED
                BY <7>1, <7>2
          <6> QED
              BY <6>2, <6>3
        <5> QED
            BY <1>1, <3>1, <3>2, <5>2, <5>3, StoreFacts
      <4> QED
          BY <3>1, <4>1
    <3>3. CASE rows' = rows
        BY <2>1, <3>3
    <3> QED
        BY <2>5, <3>2, <3>3 DEF Store, SetRows
  <2>6. ASSUME NEW t \in Thread,
               \/ Lock(t) \/ Sync(t) \/ List(t) \/ Collect(t) \/ RefreshNothing(t)
               \/ CacheRecords(t) \/ Prune(t) \/ Serve(t)
        PROVE  rows' = rows
      BY <2>6 DEF Lock, Sync, List, Collect, CollectLive, CollectSaved, Collected,
                  RefreshNothing, CacheRecords, Prune, Serve
  <2>7. ASSUME NEW t \in Handler,
               StartRecords(t) \/ StartSwitch(t) \/ StartDelete(t) \/ StartRefresh(t)
        PROVE  rows' = rows
      BY <2>7 DEF StartRecords, StartSwitch, StartDelete, StartRefresh, Begin
  <2>8. Tick \/ Crash \/ UNCHANGED vars => rows' = rows
      BY DEF Tick, Begin, Crash, vars
  <2>9. LoginAdds \/ (\E t \in Handler : AddAccount(t)) => Kept
      BY <2>3 DEF LoginAdds, AddAccount
  <2>10. ASSUME NEW t \in Thread, Lock(t) \/ Step(t) PROVE Kept
      BY <2>1, <2>2, <2>4, <2>5, <2>6, <2>10 DEF Step, Refresh
  <2>11. ASSUME NEW t \in Handler, Start(t) PROVE Kept
      BY <2>1, <2>7, <2>9, <2>11 DEF Start
  <2> HIDE DEF Kept
  <2> QED
      BY <1>1, <2>1, <2>8, <2>9, <2>10, <2>11 DEF Next
<1>2. IInv /\ [Next]_vars => [Kept]_vars
    BY <1>1
<1> QED
    BY <1>2, Inductive, PTL DEF Spec, UsageNeverGoesBack
=============================================================================
