---------------------------- MODULE UsageService ----------------------------
(***************************************************************************)
(* The usage service of couswee (usage/service.go, cache.go): a cache of   *)
(* usage records, refreshes that list the accounts, collect one record per *)
(* account over the network and write the results to the cache and to the  *)
(* account table, and the requests that start them or read the cache.      *)
(*                                                                         *)
(* Refreshes are serialized by one mutex, held from the listing to the     *)
(* write.  The table is not theirs alone: accounts are added and deleted   *)
(* meanwhile, and a listing or a switch may write back the whole table,    *)
(* usage columns included, as it read it earlier (AccountService says      *)
(* when; here that is left open).                                          *)
(***************************************************************************)
EXTENDS Naturals

CONSTANTS
    AccountID,   \* the ids the accounts of a run may get, in creation order
    Profile,     \* profile names; the cache is keyed by them
    NamesOf,     \* the profile names an account may be added under
    Handler,     \* threads that serve requests of the dashboard
    Ticker,      \* main until the server listens, then the refresh goroutine
    MaxSeq,      \* bound on the measurements told apart
    NoRow,       \* what the table holds for an id that is not listed
    NoRecord,    \* what the cache holds for a profile without a record
    NoThread,    \* nobody holds the mutex
    IOFaults     \* TRUE: the write to the table may fail

Thread == Handler \cup {Ticker}

(* A usage record, in the cache or in a row: the account it was measured   *)
(* for, and when (0: never).  The figures themselves are UsageRecord's;    *)
(* the stale mark, the error and the time of the last attempt are left out.*)
Usage == [of : AccountID \cup {0}, seq : 0 .. MaxSeq]

NoUsage == [of |-> 0, seq |-> 0]

Row == [profile : Profile, usage : Usage]

ASSUME UsageAssumption ==
    /\ AccountID \subseteq Nat \ {0}
    /\ NamesOf \in [AccountID -> SUBSET Profile]
    /\ MaxSeq \in Nat \ {0}
    /\ Ticker \notin Handler
    /\ NoThread \notin Thread
    /\ NoRow \notin Row
    /\ NoRecord \notin Usage
    /\ IOFaults \in BOOLEAN

VARIABLES
    rows,     \* the account table
    born,     \* ids ever given to an account
    cache,    \* the record of every profile
    clock,    \* the latest measurement
    lock,     \* who holds Service.mu
    pc, job,  \* where each thread is, and the locals of its request
    dead,     \* accounts not listed at any time since a request of records
    loose,    \* accounts that left the table while others worked on it
    rolled    \* a whole table that was out of date has been written

vars == <<rows, born, cache, clock, lock, pc, job, dead, loose, rolled>>

Table == [AccountID -> Row \cup {NoRow}]
EmptyTable == [i \in AccountID |-> NoRow]
EmptyCache == [p \in Profile |-> NoRecord]

Listed(T) == {i \in AccountID : T[i] # NoRow}

Profiles(T) == {T[i].profile : i \in Listed(T)}

First(i, S) == i \in S /\ \A j \in S : i <= j

Op == {"none", "startup", "tick", "refresh", "added", "reply", "switch", "delete", "records"}

(* op: the request; sel: the account it names; snap: the table as it was   *)
(* listed; todo: accounts still to be collected; recs: what was collected. *)
Job == [op : Op, sel : AccountID \cup {0}, snap : Table, todo : SUBSET AccountID,
        recs : [AccountID -> Usage \cup {NoRecord}]]

NoJob == [op |-> "none", sel |-> 0, snap |-> EmptyTable, todo |-> {},
          recs |-> [i \in AccountID |-> NoRecord]]

TypeOK ==
    /\ rows \in Table
    /\ born \in SUBSET AccountID
    /\ cache \in [Profile -> Usage \cup {NoRecord}]
    /\ clock \in 0 .. MaxSeq
    /\ lock \in Thread \cup {NoThread}
    /\ pc \in [Thread -> {"idle", "lock", "sync", "list", "commit", "delete",
                          "collect", "store", "serve", "prune"}]
    /\ job \in [Thread -> Job]
    /\ dead \in [Thread -> SUBSET AccountID]
    /\ loose \in SUBSET AccountID
    /\ rolled \in BOOLEAN

Startup == [NoJob EXCEPT !.op = "startup"]

(* run: the first refresh is made before the server listens.               *)
StartingPc == [t \in Thread |-> IF t = Ticker THEN "lock" ELSE "idle"]
StartingJob == [t \in Thread |-> IF t = Ticker THEN Startup ELSE NoJob]

Init ==
    /\ rows = EmptyTable
    /\ born = {}
    /\ cache = EmptyCache
    /\ clock = 0
    /\ lock = NoThread
    /\ pc = StartingPc
    /\ job = StartingJob
    /\ dead = [t \in Thread |-> {}]
    /\ loose = {}
    /\ rolled = FALSE

-----------------------------------------------------------------------------
Serving == job[Ticker].op # "startup"

At(t, from) == pc[t] = from

Go(t, to, locals) ==
    /\ pc' = [pc EXCEPT ![t] = to]
    /\ job' = [job EXCEPT ![t] = locals]

Return(t) == Go(t, "idle", NoJob)

Begin(t, to, request) ==
    /\ Serving
    /\ At(t, "idle")
    /\ Go(t, to, request)
    /\ UNCHANGED <<rows, born, cache, clock, lock, rolled>>

(* A deletion has left the table and not yet the cache.                    *)
Deleting == \E t \in Thread : job[t].op = "delete" /\ pc[t] \in {"sync", "list", "prune"}

(* The accounts on record under a name that comes into the table meanwhile.*)
TakenOver(T) ==
    IF Deleting
    THEN {cache[p].of : p \in {q \in Profiles(T) \ Profiles(rows) : cache[q] # NoRecord}} \ {0}
    ELSE {}

(* The table becomes T; what is listed now has been listed.  The accounts  *)
(* in gone were not deleted from it in peace.                              *)
SetRows(T, gone) ==
    /\ rows' = T
    /\ dead' = [t \in Thread |-> dead[t] \ Listed(T)]
    /\ loose' = loose \cup gone \cup TakenOver(T)

(* A list that was read earlier is written, and drops who is not on it.    *)
WriteBack(T) ==
    /\ SetRows(T, Listed(rows) \ Listed(T))
    /\ rolled' = (rolled \/ T # rows)

(* Service.Accounts syncs, which reads the table, and then lists it.  That *)
(* a request comes in, or has the mutex, and that it reads the table for   *)
(* the first time are one step: nobody sees it between the two.            *)
Reading(op, i) == [NoJob EXCEPT !.op = op, !.sel = i, !.snap = rows]

Tick == Begin(Ticker, "lock", [NoJob EXCEPT !.op = "tick"]) /\ UNCHANGED <<dead, loose>>

StartRecords(t) ==
    /\ Begin(t, "list", Reading("records", 0))
    /\ dead' = [dead EXCEPT ![t] = born \ Listed(rows)]
    /\ UNCHANGED loose

StartSwitch(t) ==
    \E i \in born : Begin(t, "list", Reading("switch", i)) /\ UNCHANGED <<dead, loose>>

StartDelete(t) ==
    \E i \in born :
        Begin(t, "delete", [NoJob EXCEPT !.op = "delete", !.sel = i]) /\ UNCHANGED <<dead, loose>>

(* refreshLoginUsage                                                       *)
StartRefresh(t) ==
    \E i \in born :
        Begin(t, "lock", [NoJob EXCEPT !.op = "refresh", !.sel = i]) /\ UNCHANGED <<dead, loose>>

AddRow(i, p) ==
    /\ First(i, AccountID \ born)
    /\ p \in NamesOf[i] \ Profiles(rows)
    /\ SetRows([rows EXCEPT ![i] = [profile |-> p, usage |-> NoUsage]], {})
    /\ born' = born \cup {i}

(* postAccount: the new account's usage is refreshed at once.              *)
AddAccount(t) ==
    /\ Serving /\ At(t, "idle")
    /\ \E i \in AccountID, p \in Profile :
        /\ AddRow(i, p)
        /\ Go(t, "lock", [NoJob EXCEPT !.op = "added", !.sel = i])
    /\ UNCHANGED <<cache, clock, lock, rolled>>

(* completeLogin adds an account in a goroutine of its own.                *)
LoginAdds ==
    /\ Serving
    /\ \E i \in AccountID, p \in Profile : AddRow(i, p)
    /\ UNCHANGED <<cache, clock, lock, pc, job, rolled>>

-----------------------------------------------------------------------------
Unlocked(t) == IF lock = t THEN NoThread ELSE lock

(* Definitions named Wrong... are plausible mistakes in the definition they *)
(* precede; the checks of this module must notice each of them.            *)
WrongLock(t) ==
    /\ At(t, "lock")
    /\ lock = NoThread \/ job[t].op # "tick"
    /\ lock' = t
    /\ Go(t, "list", Reading(job[t].op, job[t].sel))
    /\ UNCHANGED <<rows, born, cache, clock, dead, loose, rolled>>

Lock(t) ==
    /\ At(t, "lock")
    /\ lock = NoThread
    /\ lock' = t
    /\ Go(t, "list", Reading(job[t].op, job[t].sel))
    /\ UNCHANGED <<rows, born, cache, clock, dead, loose, rolled>>

Sync(t) ==
    /\ At(t, "sync")
    /\ Go(t, "list", Reading(job[t].op, job[t].sel))
    /\ UNCHANGED <<rows, born, cache, clock, lock, dead, loose, rolled>>

(* What follows the list: a refresh, the commit of a switch, the cache, or *)
(* the answer of postAccount (findAccount).                                *)
After(op) == CASE op \in {"startup", "tick", "refresh", "added"} -> "collect"
               [] op = "switch"  -> "commit"
               [] op = "records" -> "serve"
               [] op = "delete"  -> "prune"

ListTo(t, T) ==
    IF job[t].op = "reply" THEN Return(t)
    ELSE Go(t, After(job[t].op),
            [job[t] EXCEPT !.snap = T,
                           !.todo = IF job[t].op \in {"startup", "tick"} THEN Listed(T)
                                    ELSE Listed(T) \cap {job[t].sel}])

List(t) ==
    /\ At(t, "list")
    /\ ListTo(t, rows)
    /\ UNCHANGED <<rows, born, cache, clock, lock, dead, loose, rolled>>

(* The active flag has changed: the sync writes the whole table back.      *)
ListRewrites(t) ==
    /\ At(t, "list")
    /\ WriteBack(job[t].snap)
    /\ ListTo(t, job[t].snap)
    /\ UNCHANGED <<born, cache, clock, lock>>

-----------------------------------------------------------------------------
(* collectAccount, for the next account of the list.  A live measurement   *)
(* is of the account itself.  When all collectors but the last fail, or    *)
(* the list says that the account's auth file has expired, the record is   *)
(* what was saved when the accounts were listed.                           *)
Collected(t, i, record) ==
    /\ At(t, "collect")
    /\ First(i, job[t].todo)
    /\ Go(t, "collect", [job[t] EXCEPT !.todo = @ \ {i}, !.recs[i] = record])
    /\ UNCHANGED <<rows, born, cache, lock, dead, loose, rolled>>

CollectLive(t, i) ==
    LET seq == IF clock < MaxSeq THEN clock + 1 ELSE MaxSeq
    IN  /\ Collected(t, i, [of |-> i, seq |-> seq])
        /\ clock' = seq

WrongCollectSaved(t, i) ==
    /\ Collected(t, i, NoUsage)
    /\ UNCHANGED clock

CollectSaved(t, i) ==
    /\ Collected(t, i, job[t].snap[i].usage)
    /\ UNCHANGED clock

Has(t, i) == job[t].recs[i] # NoRecord

HasRecords(t) == \E i \in AccountID : Has(t, i)

WrongRefreshNothing(t) ==
    /\ At(t, "collect")
    /\ job[t].todo = {} /\ ~HasRecords(t)
    /\ cache' = IF job[t].op \in {"startup", "tick"} THEN EmptyCache ELSE cache
    /\ lock' = IF job[t].op = "refresh" THEN lock ELSE Unlocked(t)
    /\ Return(t)
    /\ UNCHANGED <<rows, born, clock, dead, loose, rolled>>

(* Nobody is left to be refreshed: RefreshAll empties the cache,           *)
(* RefreshAccount reports that it did not find the account, and then       *)
(* postAccount answers without a listing.                                  *)
RefreshNothing(t) ==
    /\ At(t, "collect")
    /\ job[t].todo = {} /\ ~HasRecords(t)
    /\ cache' = IF job[t].op \in {"startup", "tick"} THEN EmptyCache ELSE cache
    /\ lock' = Unlocked(t)
    /\ Return(t)
    /\ UNCHANGED <<rows, born, clock, dead, loose, rolled>>

(* The records by profile, beside those of kept.                           *)
ByProfile(t, kept) ==
    [p \in Profile |->
        LET own == {i \in AccountID : Has(t, i) /\ job[t].snap[i].profile = p}
        IN  IF own = {} THEN kept[p] ELSE job[t].recs[CHOOSE i \in own : TRUE]]

WrongCacheRecords(t) ==
    /\ At(t, "collect")
    /\ job[t].todo = {} /\ HasRecords(t)
    /\ cache' = ByProfile(t, cache)
    /\ Go(t, "store", job[t])
    /\ UNCHANGED <<rows, born, clock, lock, dead, loose, rolled>>

WrongCacheRecordsAll(t) ==
    /\ At(t, "collect")
    /\ job[t].todo = {} /\ HasRecords(t)
    /\ cache' = IF job[t].op \in {"startup", "tick"} THEN ByProfile(t, EmptyCache) ELSE cache
    /\ Go(t, "store", job[t])
    /\ UNCHANGED <<rows, born, clock, lock, dead, loose, rolled>>

(* RefreshAll replaces the cache, RefreshAccount merges its record into it. *)
CacheRecords(t) ==
    /\ At(t, "collect")
    /\ job[t].todo = {} /\ HasRecords(t)
    /\ cache' = ByProfile(t, IF job[t].op \in {"startup", "tick"} THEN EmptyCache ELSE cache)
    /\ Go(t, "store", job[t])
    /\ UNCHANGED <<rows, born, clock, lock, dead, loose, rolled>>

(* persistUsage: the accounts as they were listed, with the new usage.     *)
Updated(t) ==
    [i \in AccountID |->
        IF Has(t, i) THEN [job[t].snap[i] EXCEPT !.usage = job[t].recs[i]]
        ELSE job[t].snap[i]]

WrongReplaceUsage(T, new) == new

(* ReplaceUsage: rows of today get the usage listed under their profile.   *)
ReplaceUsage(T, new) ==
    [j \in AccountID |->
        IF T[j] = NoRow \/ T[j].profile \notin Profiles(new) THEN T[j]
        ELSE [T[j] EXCEPT !.usage =
                new[CHOOSE i \in Listed(new) : new[i].profile = T[j].profile].usage]]

(* An error of the write is dropped; without a change, also of a column    *)
(* that is left out here, nothing is written.  The mutex is released, and  *)
(* postAccount answers with a listing.                                     *)
Store(t) ==
    /\ At(t, "store")
    /\ \/ SetRows(ReplaceUsage(rows, Updated(t)), {})
       \/ /\ IOFaults \/ Updated(t) = job[t].snap
          /\ UNCHANGED <<rows, dead, loose>>
    /\ lock' = Unlocked(t)
    /\ IF job[t].op = "added" THEN Go(t, "sync", [NoJob EXCEPT !.op = "reply"])
       ELSE Return(t)
    /\ UNCHANGED <<born, cache, clock, rolled>>

-----------------------------------------------------------------------------
(* SwitchSelector writes the list it read, with another active account,    *)
(* and the usage of that account is refreshed.                             *)
SwitchCommit(t) ==
    /\ At(t, "commit")
    /\ \/ /\ job[t].todo # {}
          /\ WriteBack(job[t].snap)
          /\ Go(t, "lock", [NoJob EXCEPT !.op = "refresh", !.sel = job[t].sel])
       \/ /\ job[t].todo = {} \/ IOFaults
          /\ Return(t)
          /\ UNCHANGED <<rows, dead, loose, rolled>>
    /\ UNCHANGED <<born, cache, clock, lock>>

(* A request has listed the account, and may put it or its record back.    *)
Known(i) ==
    \E t \in Thread :
        pc[t] \in {"list", "commit", "collect", "store"} /\ i \in Listed(job[t].snap)

WrongDeleteCommit(t) ==
    /\ At(t, "delete")
    /\ IF job[t].sel \in Listed(rows)
       THEN SetRows([rows EXCEPT ![job[t].sel] = NoRow], {i \in {job[t].sel} : Known(i)})
       ELSE UNCHANGED <<rows, dead, loose>>
    /\ Return(t)
    /\ UNCHANGED <<born, cache, clock, lock, rolled>>

(* DeleteSelectors                                                         *)
DeleteCommit(t) ==
    /\ At(t, "delete")
    /\ IF job[t].sel \in Listed(rows)
       THEN /\ SetRows([rows EXCEPT ![job[t].sel] = NoRow], {i \in {job[t].sel} : Known(i)})
            /\ Go(t, "sync", job[t])
       ELSE /\ Return(t)
            /\ UNCHANGED <<rows, dead, loose>>
    /\ UNCHANGED <<born, cache, clock, lock, rolled>>

(* PruneCurrentAccounts                                                    *)
Prune(t) ==
    /\ At(t, "prune")
    /\ cache' = [p \in Profile |->
                    IF p \in Profiles(job[t].snap) THEN cache[p] ELSE NoRecord]
    /\ Return(t)
    /\ UNCHANGED <<rows, born, clock, lock, dead, loose, rolled>>

CacheKeys == {p \in Profile : cache[p] # NoRecord}

(* The profiles whose records Records returns.                             *)
SnapshotAllowed(t) == CacheKeys \cap Profiles(job[t].snap)

Serve(t) ==
    /\ At(t, "serve")
    /\ Return(t)
    /\ dead' = [dead EXCEPT ![t] = {}]
    /\ UNCHANGED <<rows, born, cache, clock, lock, loose, rolled>>

(* The process dies and starts again; the table stays.                     *)
Crash ==
    /\ cache' = EmptyCache
    /\ lock' = NoThread
    /\ pc' = StartingPc
    /\ job' = StartingJob
    /\ dead' = [t \in Thread |-> {}]
    /\ UNCHANGED <<rows, born, clock, loose, rolled>>

-----------------------------------------------------------------------------
Collect(t) == \E i \in AccountID : CollectLive(t, i) \/ CollectSaved(t, i)

Refresh(t) ==
    RefreshNothing(t) \/ CacheRecords(t) \/ Store(t)

Step(t) ==
    \/ Sync(t) \/ List(t) \/ ListRewrites(t)
    \/ Collect(t) \/ Refresh(t)
    \/ SwitchCommit(t) \/ DeleteCommit(t) \/ Prune(t) \/ Serve(t)

Start(t) ==
    StartRecords(t) \/ StartSwitch(t) \/ StartDelete(t) \/ StartRefresh(t) \/ AddAccount(t)

Next ==
    \/ \E t \in Thread : Lock(t) \/ Step(t)
    \/ \E t \in Handler : Start(t)
    \/ Tick
    \/ LoginAdds
    \/ Crash

Spec == Init /\ [][Next]_vars

(* Goroutines that can run do run, every collector gives up in the end     *)
(* (each has a timeout), a sync.Mutex is not withheld for ever from a      *)
(* goroutine that waits, the ticker ticks, and some restart is the last.   *)
Fairness ==
    /\ \A t \in Thread : WF_vars(Step(t)) /\ SF_vars(Lock(t))
    /\ WF_vars(Tick)
    /\ <>[][~Crash]_vars

FairSpec == Spec /\ Fairness

-----------------------------------------------------------------------------
(* Refreshes do not undo each other: while no one has written back an old  *)
(* table, the usage stored for an account never becomes older, however     *)
(* requests, logins, deletions and the ticker overlap.                     *)
UsageNeverGoesBack ==
    [][~rolled' => \A i \in Listed(rows) \cap Listed(rows') :
                      rows'[i].usage.seq >= rows[i].usage.seq]_vars

(* The write-back of usage never lists a deleted account again and never   *)
(* drops one that was added while the collectors ran.                      *)
WriteBackKeepsRegistry ==
    [][\A t \in Thread : Store(t) => Listed(rows') = Listed(rows)]_vars

(* Between refreshes the cache is at least as new as the table, as far as  *)
(* both speak of the same account; a failed write-back leaves it newer.    *)
CacheNotBehindTable ==
    lock = NoThread /\ ~rolled =>
        \A i \in Listed(rows) :
            LET record == cache[rows[i].profile]
            IN  record # NoRecord /\ record.of = rows[i].usage.of
                    => record.seq >= rows[i].usage.seq

(* A response holds no record of an account that was deleted before the    *)
(* request came in, also not under its old name, which may belong to       *)
(* another account by now (service_test.go:54), as long as the deletion    *)
(* was left in peace: no request was at work that might put the account    *)
(* back, its name was not given away before the cache was pruned, and no   *)
(* old table was written over it.  Otherwise its record may come back and  *)
(* be served under the name of its successor.                              *)
DeletedNotServed ==
    \A t \in Thread : At(t, "serve") =>
        \A p \in SnapshotAllowed(t) : cache[p].of \notin dead[t] \ loose

(* Every request is answered, although refreshes hold the mutex over all   *)
(* network calls, and the server begins to serve.                          *)
RequestsAnswered == \A t \in Thread : pc[t] # "idle" ~> pc[t] = "idle"

Calm(S) ==
    /\ Profiles(rows) = S
    /\ \A t \in Thread : job[t].op \in {"none", "startup", "tick", "records"}

(* Once accounts come and go no more, the cache holds the records of those *)
(* listed, whatever an overlapping refresh has put back.                   *)
CacheSettles ==
    \A S \in SUBSET Profile : <>[]Calm(S) => <>[](CacheKeys = S)

(* Then, and once listings put back no older table, an account that has    *)
(* usage of its own again and again keeps it: what was measured for the    *)
(* previous account of its name, or nothing, does not come back.           *)
HasOwnUsage(i) ==
    /\ i \in Listed(rows) /\ rows[i].usage.of = i
    /\ cache[rows[i].profile] # NoRecord /\ cache[rows[i].profile].of = i

OwnUsageSettles ==
    \A i \in AccountID :
        /\ \E S \in SUBSET Profile : <>[]Calm(S)
        /\ <>[][\A t \in Thread : ListRewrites(t) => rows' = rows]_vars
        /\ []<>HasOwnUsage(i)
        => <>[]HasOwnUsage(i)
=============================================================================
