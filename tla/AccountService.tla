--------------------------- MODULE AccountService ---------------------------
(***************************************************************************)
(* couswee's account service (service.go): the requests of the dashboard   *)
(* and the usage ticker, run by threads that share the account table, the  *)
(* managed auth files and the auth.json of the Codex CLI.                  *)
(*                                                                         *)
(* Every access to shared state is a step of its own: the store takes its  *)
(* lock per call, files are read and replaced without a lock, and one      *)
(* request makes several such calls.  A file is replaced by a rename, so a *)
(* reader sees one whole version of it; AtomicFile examines that rename.   *)
(***************************************************************************)
EXTENDS AccountStore

CONSTANTS
    Handler,          \* threads that serve requests of the dashboard
    Ticker,           \* the goroutine of the periodic usage refresh
    Live,             \* the path of the Codex CLI's own auth.json
    LoginProfile,     \* profile names of login sessions, one per session
    SafeProfileName,  \* the directory of a profile name
    AddPath,          \* auth files an account may be imported from
    Selector,         \* ids and profile names that requests may name
    Acct, NoAcct,     \* Codex accounts; NoAcct is an auth file without an id
    Owner,            \* the Codex account behind every auth file's path
    Cfg,              \* values of the auth file's shared config fields
    MaxVer,           \* bound on the token generations of one account
    NoFile,           \* a path that holds no file
    OneAtATime,       \* TRUE: requests are served one after the other
    CliAtRest,        \* TRUE: the CLI writes auth.json only between requests
    IOFaults          \* TRUE: any write of a file or the table may fail

Thread == Handler \cup {Ticker}

Place == Path \cup {Live}

(* An auth file: whose credentials, their generation, the config fields    *)
(* shared by all accounts, and whose API key it carries.                   *)
Auth == [acct : Acct, ver : 0 .. MaxVer, cfg : Cfg, key : Acct]

ASSUME ServiceAssumption ==
    /\ Live \notin Dir
    /\ LoginProfile \subseteq Profile
    /\ SafeProfileName \in [Profile -> Dir]
    /\ AddPath \subseteq Path
    /\ Owner \in [Place -> Acct]
    /\ Cfg # {}
    /\ MaxVer \in Nat
    /\ NoFile \notin Auth
    /\ Handler # {}
    /\ {OneAtATime, CliAtRest, IOFaults} \subseteq BOOLEAN

VARIABLES
    rows,     \* the account table on disk
    file,     \* the auth file at every path
    issued,   \* the latest token generation of every Codex account
    born,     \* ids ever given to an account
    gone,     \* ids of accounts whose deletion was committed
    logins,   \* profile names of login sessions that wrote their auth file
    pc,       \* where each thread is
    job       \* the locals of the request each thread serves

disk == <<rows, file, issued, born, gone, logins>>
vars == <<rows, file, issued, born, gone, logins, pc, job>>

PC == {"idle", "sync.read", "sync.list", "sync.match", "sync.copy",
       "sync.back", "sync.merge", "sync.put", "sync.commit", "list.read",
       "switch.list", "switch.read", "switch.write", "switch.commit",
       "delete.commit", "delete.remove", "login.write", "login.add"}

(* op: the request; sel: what it names; snap: the table as it was read;    *)
(* cur: auth.json as it was read; hit: the row found; at: the last row     *)
(* visited; buf: bytes to be written; ok: the sync ended without an error. *)
Job == [op : {"none", "list", "switch", "delete", "login"},
        sel : SUBSET (Selector \cup LoginProfile), snap : Table,
        cur : Auth \cup {NoFile}, hit : AccountID \cup {0},
        at : AccountID \cup {0}, buf : Auth \cup {NoFile}, ok : BOOLEAN]

NoJob == [op |-> "none", sel |-> {}, snap |-> EmptyTable, cur |-> NoFile,
          hit |-> 0, at |-> 0, buf |-> NoFile, ok |-> FALSE]

(* Definitions named Wrong... are plausible mistakes in the definition they *)
(* precede; the checks of this module must notice each of them.            *)
WrongIsManaged(path) == path \in Path

IsManaged(path) == path \in Dir

WrongSameAccount(a, b) == a.acct # NoAcct \/ a.acct = b.acct

SameAccount(a, b) == a.acct # NoAcct /\ a.acct = b.acct

(* The credentials of an auth file: its bytes, or its account id.          *)
SameAuth(a, b) == a = b \/ SameAccount(a, b)

WrongMergeTooLittle(active, target) == target

WrongMergeTooMuch(active, target) ==
    IF active.acct = NoAcct \/ target.acct = NoAcct THEN target
    ELSE [target EXCEPT !.cfg = active.cfg, !.key = active.key]

(* Shared config fields are copied, tokens and API keys are not; files     *)
(* without an account id are left alone.                                   *)
MergeConfig(active, target) ==
    IF active.acct = NoAcct \/ target.acct = NoAcct THEN target
    ELSE [target EXCEPT !.cfg = active.cfg]

TypeOK ==
    /\ rows \in Table
    /\ file \in [Place -> Auth \cup {NoFile}]
    /\ issued \in [Acct -> 0 .. MaxVer]
    /\ born \in SUBSET AccountID
    /\ gone \in SUBSET AccountID
    /\ logins \in SUBSET LoginProfile
    /\ pc \in [Thread -> PC]
    /\ job \in [Thread -> Job]

(* A new installation: no accounts and no managed profiles; the files to   *)
(* be imported exist, and the CLI may be logged in.                        *)
Init ==
    /\ rows = EmptyTable
    /\ issued = [a \in Acct |-> 0]
    /\ \E c \in Cfg, present \in BOOLEAN :
        file = [p \in Place |->
                  IF p \in ImportPath \ {Live} \/ (p = Live /\ present)
                  THEN [acct |-> Owner[p], ver |-> 0, cfg |-> c, key |-> Owner[p]]
                  ELSE NoFile]
    /\ born = {}
    /\ gone = {}
    /\ logins = {}
    /\ pc = [t \in Thread |-> "idle"]
    /\ job = [t \in Thread |-> NoJob]

-----------------------------------------------------------------------------
AllIdle == \A t \in Thread : pc[t] = "idle"

MayStart == OneAtATime => AllIdle

At(t, from) == pc[t] = from

(* Thread t goes on at place to with the given locals.                     *)
Go(t, to, locals) ==
    /\ pc' = [pc EXCEPT ![t] = to]
    /\ job' = [job EXCEPT ![t] = locals]

Return(t) == Go(t, "idle", NoJob)

Begin(t, to, request) ==
    /\ At(t, "idle")
    /\ MayStart
    /\ Go(t, to, request)
    /\ UNCHANGED disk

(* The sync is over: its error is dropped by both of its callers.          *)
SyncEnd(t, ok) ==
    Go(t, IF job[t].op = "list" THEN "list.read" ELSE "switch.list",
       [NoJob EXCEPT !.op = job[t].op, !.sel = job[t].sel, !.ok = ok])

StartList(t) == Begin(t, "sync.read", [NoJob EXCEPT !.op = "list"])

WrongStartSwitch(t) ==
    \E s \in Selector :
        Begin(t, "switch.list", [NoJob EXCEPT !.op = "switch", !.sel = {s}])

StartSwitch(t) ==
    \E s \in Selector :
        Begin(t, "sync.read", [NoJob EXCEPT !.op = "switch", !.sel = {s}])

StartDelete(t) ==
    \E S \in SUBSET Selector \ {{}} :
        Begin(t, "delete.commit", [NoJob EXCEPT !.op = "delete", !.sel = S])

(* The profile name comes from the id of the login session, so that no two *)
(* sessions share one.                                                     *)
StartLogin(t) ==
    \E p \in LoginProfile \ logins :
        /\ \A u \in Thread : job[u].op = "login" => p \notin job[u].sel
        /\ Begin(t, "login.write", [NoJob EXCEPT !.op = "login", !.sel = {p}])

-----------------------------------------------------------------------------
(* SyncActiveFromAuthFile                                                  *)

SyncRead(t) ==
    /\ At(t, "sync.read")
    /\ IF file[Live] = NoFile
       THEN SyncEnd(t, TRUE)
       ELSE Go(t, "sync.list", [job[t] EXCEPT !.cur = file[Live]])
    /\ UNCHANGED disk

SyncList(t) ==
    /\ At(t, "sync.list")
    /\ Go(t, "sync.match", [job[t] EXCEPT !.snap = rows])
    /\ UNCHANGED disk

Unvisited(t) == {i \in Listed(job[t].snap) : i > job[t].at}

(* The next row's auth file is read and compared.  The first match ends    *)
(* the search; the file is rewritten only when it is managed and differs.  *)
SyncMatch(t) ==
    /\ At(t, "sync.match")
    /\ IF Unvisited(t) = {}
       THEN SyncEnd(t, TRUE)
       ELSE \E i \in Unvisited(t) :
            /\ First(i, Unvisited(t))
            /\ LET path == job[t].snap[i].path
                   candidate == file[path]
               IN  IF candidate = NoFile \/ ~SameAuth(job[t].cur, candidate)
                   THEN Go(t, "sync.match", [job[t] EXCEPT !.at = i])
                   ELSE Go(t, IF IsManaged(path) /\ candidate # job[t].cur
                              THEN "sync.copy" ELSE "sync.merge",
                           [job[t] EXCEPT !.hit = i, !.at = 0])
    /\ UNCHANGED disk

(* copyFile opens auth.json again: what it copies need not be what the     *)
(* match compared.                                                         *)
SyncCopy(t) ==
    /\ At(t, "sync.copy")
    /\ IF file[Live] = NoFile
       THEN SyncEnd(t, FALSE)
       ELSE Go(t, "sync.back", [job[t] EXCEPT !.buf = file[Live]])
    /\ UNCHANGED disk

SyncBack(t) ==
    /\ At(t, "sync.back")
    /\ \/ /\ file' = [file EXCEPT ![job[t].snap[job[t].hit].path] = job[t].buf]
          /\ Go(t, "sync.merge", [job[t] EXCEPT !.buf = NoFile])
       \/ /\ IOFaults
          /\ SyncEnd(t, FALSE)
          /\ UNCHANGED file
    /\ UNCHANGED <<rows, issued, born, gone, logins>>

(* syncManagedAuthConfigFields: one managed file at a time is read, merged *)
(* and, when the merge changed it, written.                                *)
ManagedLeft(t) == {i \in Unvisited(t) : IsManaged(job[t].snap[i].path)}

SyncMerge(t) ==
    /\ At(t, "sync.merge")
    /\ IF ManagedLeft(t) = {}
       THEN Go(t, "sync.commit", [job[t] EXCEPT !.at = 0])
       ELSE \E i \in ManagedLeft(t) :
            /\ First(i, ManagedLeft(t))
            /\ LET target == file[job[t].snap[i].path]
                   next == MergeConfig(job[t].cur, target)
               IN  IF target = NoFile \/ next = target
                   THEN Go(t, "sync.merge", [job[t] EXCEPT !.at = i])
                   ELSE Go(t, "sync.put", [job[t] EXCEPT !.at = i, !.buf = next])
    /\ UNCHANGED disk

SyncPut(t) ==
    /\ At(t, "sync.put")
    /\ \/ /\ file' = [file EXCEPT ![job[t].snap[job[t].at].path] = job[t].buf]
          /\ Go(t, "sync.merge", [job[t] EXCEPT !.buf = NoFile])
       \/ /\ IOFaults
          /\ SyncEnd(t, FALSE)
          /\ UNCHANGED file
    /\ UNCHANGED <<rows, issued, born, gone, logins>>

(* The snapshot, with the match made active, replaces the whole table when *)
(* that changes the snapshot.                                              *)
SyncCommit(t) ==
    /\ At(t, "sync.commit")
    /\ LET next == Activate(job[t].snap, job[t].hit)
       IN  \/ /\ rows' = IF next = job[t].snap THEN rows ELSE Committed(rows, next)
              /\ SyncEnd(t, next = job[t].snap \/ UniqueProfiles(next))
           \/ /\ IOFaults
              /\ next # job[t].snap
              /\ SyncEnd(t, FALSE)
              /\ UNCHANGED rows
    /\ UNCHANGED <<file, issued, born, gone, logins>>

(* The response of Accounts and Current is read from the table.            *)
ListRead(t) ==
    /\ At(t, "list.read")
    /\ Return(t)
    /\ UNCHANGED disk

-----------------------------------------------------------------------------
(* SwitchSelector, after its sync                                          *)

SwitchList(t) ==
    /\ At(t, "switch.list")
    /\ LET found == Selected(rows, job[t].sel)
       IN  IF found = {} THEN Return(t)
           ELSE \E i \in found :
                /\ First(i, found)
                /\ Go(t, "switch.read", [job[t] EXCEPT !.snap = rows, !.hit = i])
    /\ UNCHANGED disk

SwitchRead(t) ==
    /\ At(t, "switch.read")
    /\ LET source == file[job[t].snap[job[t].hit].path]
       IN  IF source = NoFile THEN Return(t)
           ELSE Go(t, "switch.write", [job[t] EXCEPT !.buf = source])
    /\ UNCHANGED disk

SwitchWrite(t) ==
    /\ At(t, "switch.write")
    /\ \/ /\ file' = [file EXCEPT ![Live] = job[t].buf]
          /\ Go(t, "switch.commit", [job[t] EXCEPT !.buf = NoFile])
       \/ /\ IOFaults
          /\ Return(t)
          /\ UNCHANGED file
    /\ UNCHANGED <<rows, issued, born, gone, logins>>

SwitchCommit(t) ==
    /\ At(t, "switch.commit")
    /\ \/ rows' = Committed(rows, Activate(job[t].snap, job[t].hit))
       \/ IOFaults /\ UNCHANGED rows
    /\ Return(t)
    /\ UNCHANGED <<file, issued, born, gone, logins>>

-----------------------------------------------------------------------------
(* DeleteSelectors: one transaction removes the rows, then the directories *)
(* of the managed ones are removed, errors ignored.                        *)

DeleteCommit(t) ==
    /\ At(t, "delete.commit")
    /\ LET removed == Selected(rows, job[t].sel)
           rest == [i \in AccountID |-> IF i \in removed THEN NoRow ELSE rows[i]]
           managed == [i \in AccountID |->
                         IF i \in removed /\ IsManaged(rows[i].path)
                         THEN rows[i] ELSE NoRow]
       IN  \/ /\ removed # {}
              /\ rows' = Committed(rows, rest)
              /\ gone' = gone \cup removed
              /\ Go(t, "delete.remove", [job[t] EXCEPT !.snap = managed])
           \/ /\ removed = {} \/ IOFaults
              /\ Return(t)
              /\ UNCHANGED <<rows, gone>>
    /\ UNCHANGED <<file, issued, born, logins>>

(* RemoveManagedProfile goes by the profile name of the removed row.       *)
DeleteRemove(t) ==
    /\ At(t, "delete.remove")
    /\ IF Listed(job[t].snap) = {}
       THEN Return(t) /\ UNCHANGED file
       ELSE \E i \in Listed(job[t].snap) :
            /\ First(i, Listed(job[t].snap))
            /\ Go(t, "delete.remove", [job[t] EXCEPT !.snap[i] = NoRow])
            /\ \/ file' = [file EXCEPT
                             ![SafeProfileName[job[t].snap[i].profile]] = NoFile]
               \/ IOFaults /\ UNCHANGED file
    /\ UNCHANGED <<rows, issued, born, gone, logins>>

-----------------------------------------------------------------------------
(* Add: a duplicate profile name is refused, a new active account takes    *)
(* the flag from the others.                                               *)

Insert(i, profile, path, active) ==
    Committed(rows,
        [j \in AccountID |->
            IF j = i
            THEN NormalizeAccount([profile |-> profile, path |-> path,
                                   active |-> active, status |-> "ready",
                                   used |-> FALSE])
            ELSE IF rows[j] = NoRow THEN NoRow
            ELSE [rows[j] EXCEPT !.active = rows[j].active /\ ~active]])

WrongAddRow(i, profile, path, active) ==
    /\ First(i, AccountID \ born)
    /\ rows' = Insert(i, profile, path, active)
    /\ born' = born \cup {i}

AddRow(i, profile, path, active) ==
    /\ First(i, AccountID \ born)
    /\ \A j \in Listed(rows) : rows[j].profile # profile
    /\ rows' = Insert(i, profile, path, active)
    /\ born' = born \cup {i}

(* A manual import: the path is recorded, the file is not touched.         *)
AddAccount ==
    /\ MayStart
    /\ \E i \in AccountID, p \in Profile \ LoginProfile, path \in AddPath,
          active \in BOOLEAN : AddRow(i, p, path, active)
    /\ UNCHANGED <<file, issued, gone, logins, pc, job>>

(* UpdateAccount changes the status and the notes of the named account.    *)
PatchAccount ==
    /\ MayStart
    /\ \E s \in Selector, status \in Status :
        LET found == Selected(rows, {s})
        IN  /\ found # {}
            /\ rows' = Committed(rows,
                         [i \in AccountID |->
                            IF i \in found THEN [rows[i] EXCEPT !.status = status]
                            ELSE rows[i]])
    /\ UNCHANGED <<file, issued, born, gone, logins, pc, job>>

(* completeLogin writes the auth file first and adds the account second.   *)
NewToken(a, c) == [acct |-> a, ver |-> issued[a] + 1, cfg |-> c, key |-> a]

(* The write failed, and nobody looked.                                    *)
WrongLoginWrite(t) ==
    /\ At(t, "login.write")
    /\ Go(t, "login.add", job[t])
    /\ UNCHANGED disk

LoginWrite(t) ==
    /\ At(t, "login.write")
    /\ \E p \in job[t].sel, c \in Cfg :
        LET dir == SafeProfileName[p]
            a == Owner[dir]
        IN  \/ /\ issued[a] < MaxVer
               /\ file' = [file EXCEPT ![dir] = NewToken(a, c)]
               /\ issued' = [issued EXCEPT ![a] = @ + 1]
               /\ logins' = logins \cup {p}
               /\ Go(t, "login.add", job[t])
            \/ /\ IOFaults \/ issued[a] = MaxVer
               /\ Return(t)
               /\ UNCHANGED <<file, issued, logins>>
    /\ UNCHANGED <<rows, born, gone>>

LoginAdd(t) ==
    /\ At(t, "login.add")
    /\ \/ \E i \in AccountID, p \in job[t].sel :
            AddRow(i, p, SafeProfileName[p], FALSE)
       \/ /\ \/ IOFaults
             \/ born = AccountID
             \/ \E j \in Listed(rows) : rows[j].profile \in job[t].sel
          /\ UNCHANGED <<rows, born>>
    /\ Return(t)
    /\ UNCHANGED <<file, issued, gone, logins>>

-----------------------------------------------------------------------------
(* The Codex CLI, a process of its own: it renews the token it uses, logs  *)
(* in and out, and rewrites the shared config fields.                      *)

CliMayWrite == CliAtRest => AllIdle

CliRefresh ==
    /\ CliMayWrite
    /\ file[Live] # NoFile
    /\ LET a == file[Live].acct
       IN  /\ file[Live].ver = issued[a]
           /\ issued[a] < MaxVer
           /\ issued' = [issued EXCEPT ![a] = @ + 1]
           /\ file' = [file EXCEPT ![Live] = [@ EXCEPT !.ver = issued[a] + 1]]
    /\ UNCHANGED <<rows, born, gone, logins, pc, job>>

CliLogin ==
    /\ CliMayWrite
    /\ \E a \in Acct, c \in Cfg :
        /\ issued[a] < MaxVer
        /\ issued' = [issued EXCEPT ![a] = @ + 1]
        /\ file' = [file EXCEPT ![Live] = NewToken(a, c)]
    /\ UNCHANGED <<rows, born, gone, logins, pc, job>>

CliLogout ==
    /\ CliMayWrite
    /\ file[Live] # NoFile
    /\ file' = [file EXCEPT ![Live] = NoFile]
    /\ UNCHANGED <<rows, issued, born, gone, logins, pc, job>>

CliConfig ==
    /\ CliMayWrite
    /\ file[Live] # NoFile
    /\ \E c \in Cfg : file' = [file EXCEPT ![Live] = [@ EXCEPT !.cfg = c]]
    /\ UNCHANGED <<rows, issued, born, gone, logins, pc, job>>

(* The process dies and is started again: every request is forgotten where *)
(* it stood, files and table stay.                                         *)
Crash ==
    /\ ~AllIdle
    /\ pc' = [t \in Thread |-> "idle"]
    /\ job' = [t \in Thread |-> NoJob]
    /\ UNCHANGED disk

-----------------------------------------------------------------------------
Sync(t) ==
    \/ SyncRead(t) \/ SyncList(t) \/ SyncMatch(t) \/ SyncCopy(t) \/ SyncBack(t)
    \/ SyncMerge(t) \/ SyncPut(t) \/ SyncCommit(t) \/ ListRead(t)

Switch(t) ==
    SwitchList(t) \/ SwitchRead(t) \/ SwitchWrite(t) \/ SwitchCommit(t)

Delete(t) == DeleteCommit(t) \/ DeleteRemove(t)

Login(t) == LoginWrite(t) \/ LoginAdd(t)

Step(t) == Sync(t) \/ Switch(t) \/ Delete(t) \/ Login(t)

Start(t) == StartSwitch(t) \/ StartDelete(t) \/ StartLogin(t)

Cli == CliRefresh \/ CliLogin \/ CliLogout \/ CliConfig

Next ==
    \/ \E t \in Thread : Step(t) \/ StartList(t)
    \/ \E t \in Handler : Start(t)
    \/ AddAccount \/ PatchAccount
    \/ Cli
    \/ Crash

Spec == Init /\ [][Next]_vars

(* Go runs every goroutine that can run, and the ticker of the usage       *)
(* refresh lists the accounts again and again.  The process does not crash *)
(* for ever: some restart is the last.                                     *)
Fairness ==
    /\ \A t \in Thread : WF_vars(Step(t))
    /\ WF_vars(StartList(Ticker))
    /\ <>[][~Crash]_vars

FairSpec == Spec /\ Fairness

-----------------------------------------------------------------------------
(* At most one account is active, the status column says "active" of that  *)
(* row and no other, and no two rows share a profile name: what the store  *)
(* (normalizeAccounts and the UNIQUE constraint) owes every reader, also   *)
(* when Sync and Switch write back a snapshot taken before other commits.  *)
StoreConsistent == Consistent(rows)

(* Wherever sync and switch copy auth files, an API key never ends up      *)
(* beside another account's tokens (isSensitiveConfigField).               *)
KeysStayHome ==
    \A p \in Place : file[p] # NoFile => file[p].key = file[p].acct

(* No step, of whatever request, changes or removes an auth file outside   *)
(* the managed directories other than the CLI's own (README, manual        *)
(* import and deletion).                                                   *)
ImportedFilesKept ==
    [][\A p \in ImportPath \ {Live} : file'[p] = file[p]]_vars

(* The accounts listed are exactly those added and not deleted since: no   *)
(* request loses the account another one added or brings a deleted one     *)
(* back by writing an old snapshot.                                        *)
RegistryExact == Listed(rows) = born \ gone

(* A managed profile holds the credentials of the account it was made for, *)
(* whatever auth.json held while a sync copied it back.                    *)
ProfileHoldsOwnCredentials ==
    \A d \in Dir : file[d] # NoFile => file[d].acct = Owner[d]

(* A listed managed account has its auth file: login writes it before the  *)
(* row, deletion removes it after the row, also across a crash.            *)
ListedProfilesExist ==
    \A i \in Listed(rows) : IsManaged(rows[i].path) => file[rows[i].path] # NoFile

(* The latest token of a Codex account is somewhere on disk.               *)
Held(a) == \E p \in Place :
    file[p] # NoFile /\ file[p].acct = a /\ file[p].ver = issued[a]

ManagedAccts == {Owner[rows[i].path] : i \in {j \in Listed(rows) : IsManaged(rows[j].path)}}

(* The token the CLI has renewed in auth.json is saved in the account's    *)
(* managed profile before a switch replaces auth.json (README on the usage *)
(* refresh: a later switch does not bring an old token back).              *)
RenewedTokenSaved ==
    [][(/\ \E t \in Thread : job[t].op \in {"list", "switch"} /\ pc'[t] # pc[t]
        /\ file[Live] # NoFile /\ file[Live].ver = issued[file[Live].acct])
       => \A a \in ManagedAccts : file[Live].acct = a => (Held(a))']_vars

(* A listing never takes the active flag from an account whose auth file   *)
(* is, byte for byte, the one the CLI uses: a switch is not undone.        *)
ListingKeepsSwitch ==
    [][\A t \in Thread, i \in AccountID :
         (/\ job[t].op = "list" /\ pc'[t] # pc[t]
          /\ i \in Listed(rows) /\ rows[i].active
          /\ file[rows[i].path] = file[Live])
         => i \in Listed(rows') /\ rows'[i].active]_vars

(* The row whose credentials the CLI uses, if one is listed.               *)
Matching == {i \in Listed(rows) :
    file[Live] # NoFile /\ file[rows[i].path] # NoFile
        /\ SameAuth(file[Live], file[rows[i].path])}

Agrees == \A i \in Matching : First(i, Matching) => rows[i].active

(* What a sync has done when it ends without an error: the account the CLI *)
(* uses is the active one, has been used, has its managed file up to date, *)
(* and all managed files carry the CLI's config fields.                    *)
SyncSettles ==
    \A t \in Thread : pc[t] \in {"list.read", "switch.list"} /\ job[t].ok =>
        \A i \in Matching : First(i, Matching) =>
            /\ rows[i].active /\ rows[i].used
            /\ IsManaged(rows[i].path) => file[rows[i].path] = file[Live]
            /\ \A j \in Listed(rows) :
                 IsManaged(rows[j].path) /\ file[Live].acct # NoAcct =>
                     file[rows[j].path].acct = NoAcct
                       \/ file[rows[j].path].cfg = file[Live].cfg

(* Once auth.json stays as it is and only listings are served, the active  *)
(* account becomes and stays the one the CLI uses, whatever a crash or a   *)
(* stale snapshot left in the table.                                       *)
OnlyListing(x) ==
    file[Live] = x /\ \A t \in Thread : job[t].op \in {"none", "list"}

ActiveFollowsAuthFile ==
    \A x \in Auth : <>[]OnlyListing(x) => <>[]Agrees
=============================================================================
