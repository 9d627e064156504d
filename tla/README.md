# couswee in TLA+

couswee is a local web panel for several Codex accounts. It keeps a SQLite table of
accounts, a directory of auth files for the accounts that were logged in through it,
switches the Codex CLI from one account to another by copying an auth file over
`~/.codex/auth.json`, runs `codex login --device-auth` on behalf of the browser, and
collects the remaining quota of every account. This directory models the part of it
that is hard to test: several requests, a periodic refresh, child processes and the
Codex CLI work on the same table and the same files, with no lock that spans two
accesses of either, and any of them may die half way.

Paths such as `service.go:423` are below `src/internal/accounts/` unless they say
otherwise; `README.md` with a line number means `src/README.md`.

## Inventory

| component | code | state | operations |
|---|---|---|---|
| account store | `sqlite_store.go`, `account.go`, `store.go` | the tables `accounts` and `login_sessions`, one mutex taken per call | `Accounts`, `Replace`, `Mutate`, `UpdateAccount`, the session rows, schema creation |
| account service | `service.go`, `paths.go` | none of its own but the map of running logins | list with sync, current, add, update, delete, switch, `ReplaceUsage` |
| profile files and config merge | `profile.go`, `auth_config.go` | `~/.couswee/profiles/<profile>/auth.json`, `~/.codex/auth.json` | write, copy, remove, merge of shared config fields |
| login sessions | `service.go:671-815`, `sqlite_store.go:530-629` | a session row, `loginCancels`, a goroutine per login | start, finish, cancel, expire, read |
| login runner | `service.go:69-255` | the child process and its private HOME | start, parse the code, wait, kill the process group |
| HTTP server | `internal/server/server.go` | `refreshedLoginUsage` | one handler per route; the usage refresh after a login |
| usage service | `internal/usage/service.go`, `cache.go`, `refresh.go` | cache of records, refresh mutex, ticker | refresh all or one, prune, return the records, write back to the store |
| usage collectors | `internal/usage/collector.go`, `auth_refresh.go`, `model.go` | none; renews profile files through `codex doctor` | API, command, session log, saved record, in that order |
| dashboard | `src/web/src/routes/+page.svelte`, `lib/dashboard.js` | the lists shown, the login dialogue, timers | load, switch, delete, poll a login |
| process | `src/cmd/couswee/main.go` | the listener, the root context | start, signal, shutdown with a deadline |
| version, build | `internal/version`, `web/*.go`, `Makefile` | none | none |

How they interact. A handler calls the account service; a listing (`GET
/api/accounts`, `GET /api/current`) first runs `SyncActiveFromAuthFile`, which reads
`auth.json`, looks for the account it belongs to, copies it back to the account's
profile, copies config fields to every other managed profile, and writes the table. A
switch runs the same sync, then copies a profile over `auth.json` and writes the table.
The ticker of the usage service lists the accounts (and so syncs) in a goroutine of its
own. A finished login writes a profile and adds a row from a third goroutine. The Codex
CLI rewrites `auth.json` whenever it renews its token. The browser polls a login, and
the first poll that sees success triggers a usage refresh.

What is hard, and what makes each component correct:

* **account store**: the active flag, the status column and the profile names of the
  rows must agree after every write, also when the row list written is an old one, and
  when the transaction is rolled back half way. No account is lost or comes back.
* **account service**: a snapshot of the table is read, files are accessed one after the
  other, and the snapshot is written back. A managed profile must only ever receive its
  own account's credentials, the token the CLI renewed must survive a switch, a listing
  must not undo a switch, a listed account must have its file, and after a crash between
  the copy and the commit the active flag must come right again.
* **files**: a reader must see a whole version; a crash must leave the old or the new one.
* **login sessions**: the row is written whole by the finishing goroutine and by every
  cancel request. A success must mean an account, an account an approved login, a cancel
  the end of the child, and a status the browser takes for final must stay.
* **account store, opening**: the schema is extended statement by statement; a start that
  dies half way, or runs beside another one, must lose nothing and be completed by the next.
* **login runner**: two goroutines, four channels and a timer race with the child; the exit
  status must reach the one goroutine that waits for it, and no goroutine or child may be
  left behind.
* **usage service**: refreshes are serialized by one mutex that is held over network calls,
  the table is not theirs alone. A record must not outlive its account for a reader, nor
  stay with another account of the same name; a slow refresh must not undo a later one.
* **usage collectors**: auth files are read again and again while a switch may put another
  account into `auth.json`. Figures must be of the account they are stored for and what
  the server sent, a 401 must not start an endless renewal, and the newest token of an
  account must not be overwritten by an older one.
* **dashboard**: answers to overlapping requests may arrive in any order.

`PROJECT.json` lists the hazards one by one at the line where they bite, with the
properties that cover them or the reason why none does yet.

## Modules

| module | models | properties |
|---|---|---|
| `AccountStore` | the accounts table as a value: normalization, UNIQUE constraint, selection | (operators; `Consistent` is the predicate used below) |
| `AccountService` | the service with its threads, the files, the CLI, crashes | `StoreConsistent`, `RegistryExact`, `ProfileHoldsOwnCredentials`, `ListedProfilesExist`, `KeysStayHome`, `ImportedFilesKept`, `RenewedTokenSaved`, `ListingKeepsSwitch`, `SyncSettles`, `ActiveFollowsAuthFile` |
| `FileRegister` | what callers expect of an auth file | |
| `AtomicFile` | `path.tmp` and rename, on inodes | `AtomicReplace` (implements `FileRegister`), `ReaderKeepsVersion`, `FileIsWhole` |
| `LoginSession` | one login: row, child, goroutine, cancel, poll, restart | `SucceededHasAccount`, `AccountNeedsApproval`, `UsageFetchedOnce`, `ChildHasOwner`, `CancelEndsChild`, `ApprovalSettles`, `FinalStatesStay` |
| `LoginRunner` | extends `LoginSession` by the goroutines, channels and timer of its start | `ExitDelivered`, `StartReturns`, `GoroutinesEnd` |
| `UsageService` | cache, refreshes under the mutex, write-back, with requests that change the table | `UsageNeverGoesBack`, `WriteBackKeepsRegistry`, `CacheNotBehindTable`, `DeletedNotServed`, `RequestsAnswered`, `CacheSettles`, `OwnUsageSettles` |
| `UsageRecord` | from a rate-limit payload to the percentage stored, as functions | (operators) |
| `UsageCollector` | extends `UsageRecord` by the collectors, the tokens and whoever changes `auth.json` | `MeasuredOwn`, `SessionOwn`, `TokenKept`, `FiguresFaithful`, `RefreshEnds`, `Recovers` |
| `SchemaMigration` | opening the database, statement by statement | `ValuesKept`, `ReadySchema`, `OnlyDisplayNameGoes`, `StartsSucceed` |
| `MCAccountService`, `MCAtomicFile`, `MCUsageService`, `MCUsageCollector` | instances for TLC | |
| `AccountRequests_proofs` | `AccountService` once more, proofs about its requests: what can make the list or the credentials wrong, and what holds of requests served in turn | |
| other `..._proofs` | proofs about the module they are named after (and those it extends) | |

`UsageService`, `UsageCollector` and `AccountService` cut one running system three ways.
`AccountService` has every access to files and table and no usage. `UsageService` has the
table, the cache and the mutex; a measurement is one step and a sync is no more than the
listing and, at times, the write of an old table. `UsageCollector` has one refresh access
by access; a sync and a switch are one step each.

Definitions called `Wrong...` (in `AccountStore`: `NormalizeKeepingStatus`,
`NormalizeBlankingStatus`, `ActivateAlso`) are plausible mistakes in the definition they
stand before. No action uses them; substituted for that definition they make the
property `PROJECT.json` names fail, which shows that the property depends on the code.

### AccountStore and AccountService

State: `rows` is the table, a function from account ids to rows or `NoRow`; `file` is the
auth file at every path, `Live` being `~/.codex/auth.json`; `pc` and `job` are the place
and the locals of the request every thread serves. `issued`, `born`, `gone` and `logins`
are history: the latest token generation of every Codex account, the ids ever added and
ever deleted, the login profiles ever written.

* Ids stand for the order of `created_at`, in which the store lists rows, so `First` is
  the loop order of the code. An id is used once.
* One action is one access to shared state: a call of the store (which takes its lock for
  that call), a read or a replacement of one file. `job.snap`, `job.cur` and `job.buf` are
  what the code holds in local variables meanwhile.
* `SyncRead` ... `SyncCommit` are `SyncActiveFromAuthFile` (`service.go:429-505`). The
  match loop reads one candidate file per step and stops at the first match. `SyncCopy`
  and `SyncBack` are `copyFile`, which opens `auth.json` a second time. `SyncMerge` and
  `SyncPut` are `syncManagedAuthConfigFields`, one file at a time. Both callers drop the
  error of a sync (`SyncEnd`).
* `SwitchList` ... `SwitchCommit` are the rest of `SwitchSelector`; `DeleteCommit` and
  `DeleteRemove` are `DeleteSelectors`; `LoginWrite` and `LoginAdd` are the part of
  `completeLogin` that touches files and accounts; `AddAccount` and `PatchAccount` are
  one transaction each.
* A table write is `Committed(old, new)`: the code deletes every row and inserts the new
  list in one transaction, with `normalizeAccounts` on the list and `normalizeAccount`
  again on each insert, and a duplicate profile name rolls it back.
* An auth file is `[acct, ver, cfg, key]`: whose tokens, of which generation, the config
  fields that are shared between accounts, and whose API key. `MergeConfig` copies `cfg`
  and neither tokens nor key, and does nothing for a file without an account id
  (`NoAcct`). `SameAuth` is "same bytes or same account id".
* `CliRefresh`, `CliLogin`, `CliLogout` and `CliConfig` are the Codex CLI. Only the
  holder of the newest token renews it.
* `Crash` is the end of the process and its next start: `pc` and `job` are lost.

Not in this module: the usage columns and their write-back, nicknames and notes,
timestamps, errors of a file *read* other than "not there", and the renewal of profile
files by `codex doctor`, which `UsageCollector` has. File replacement is atomic
here; `AtomicFile` says when that is so.

### LoginSession

`row` is the row of `login_sessions` (status, and whether `account_id` is set), `late`
that `expires_at` has passed: "expired" is computed by readers (`Seen`) and never stored.
`child` is the `codex login` process, `cancels` the map `loginCancels`, `fin` and `finrow`
the goroutine `StartLogin` starts and the row it read. `pc`, `job` are the requests:
`CancelRead`, `CancelTake`, `CancelKill`, `CancelWrite` are the four accesses of
`CancelLoginSession`; `PollRead`, `PollMark`, `PollFetch`, `PollUnmark` are
`getLoginSession` with `refreshLoginUsage`. `Cancellable` is the condition of
`service.go:767-773` under which a cancel gets as far as `loginCancels`: an expired
session is answered before that. `FinRead` may fail to read the row, after which the
goroutine just returns; `FinWrite`, `FinAdd`, `FinSucceed` are the profile, the account
and the session row of `completeLogin`, in that order; each may fail. `Restart` loses
every goroutine, map and request, and keeps the row, the account and the child, which runs
in a process group of its own.

`Spawn`, `Started` and `StartFails` are what of the start of the child a session knows;
`Settle` names the steps of `finishCodexLogin` after the exit status has been received.

### LoginRunner

`run[s]` is what a call of `CodexLoginRunner.Start` shares with its two goroutines: how
many of the two details (URL and code) the child has printed and the scanner has read,
where each goroutine is, the channels `ready`, `parseErr` and `done`, the timer, and what
the finishing goroutine has received. `Scan`, `SendReady`, `ScanEnds` are the reader
(`service.go:223-240`), `Wait`, `SendDone`, `CloseDone` the waiter (`207-210`): once
`cmd.Wait` has closed the pipe, what was not read is lost and the reader fails.
`StartReady` and `StartGivesUp` are the select, any enabled case of it; each is conjoined
with the action of `LoginSession` it causes, and `Receive` with `FinDone`, so that all
properties of `LoginSession` are checked of the composition.

### UsageService

State: `rows` (of a row only its profile name and its usage), `cache` by profile name,
`clock` (measurements so far), `lock` (who holds `Service.mu`), `pc` and `job` per thread.
A usage record is whose it is and when it was measured; the figures are `UsageRecord`'s.
`dead`, `loose` and `rolled` are history: the accounts not listed at any time since a
request for records came in, those whose deletion something overlapped (a request that had
listed them, a name given away before the cache was pruned, an old table written over it),
and whether an old table has been written back.

* `Lock` ... `Store` are `RefreshAllWithReason` and `RefreshAccountWithReason`: take the
  mutex, list (with sync), collect one account after the other, put the records into the
  cache, write the list with its new usage back through `ReplaceUsage`, release.
* `List` and `ListRewrites` are the two outcomes of a listing: it only reads, or its sync
  has seen another active account and writes the table it read before (`WriteBack`). When
  it does the second is `AccountService`'s business; here either may happen.
  The rewrite and the read of the table after it (`service.go:287`) are one step: a change
  that falls between the two comes after both here, so that a list which already shows it
  is left out.
* `CollectLive` is a collector that measured the account, `CollectSaved` a record made
  from the row as it was listed: of a skipped account, and of the last collector. The error
  branch of `collectAccount` is missing because the account collector never fails.
* `Tick` is the ticker, whose thread first does the refresh `main` makes before the server
  listens. `StartSwitch`, `StartDelete`, `StartRefresh`, `AddAccount`, `StartRecords`
  are the handlers, up to their first access.
* `Crash` keeps the table alone.

### UsageRecord and UsageCollector

`UsageRecord` is `parseRateLimitPayload`, `normalizeRecord`, `normalizeAvailability` and the
percentage `persistUsage` stores. A field of the JSON that is absent is `None`, and a
field with two spellings is one field. A floating-point percentage of the code is a number
of tenths of a percent here, of any size; `Round` is the `math.Round` of
`usage/service.go:250`, by which 87.6 becomes 88 in the table while 87.6 is shown.

`UsageCollector` follows one refresh of one account. A token is the generation the server
issued; `newest` is the only one the server renews, `late` says up to which one tokens have
expired. `live` is the account and token in `auth.json`, `profile` the tokens in the
managed profiles. `pc` is the access to come next: choose the path (`collectorAuthPath`),
read, renew (`Issue` is the server's half of `codex doctor`, `Issued` its write), read
again, request, and then the fallbacks. `Answered`, `Unreadable`, `Unauthorized`, `Denied`
and `APIFails` are the outcomes of a request. `moved`, `foreign` and `spoiled` are history:
they mark the circumstances under which a property makes no claim, and are set only by
the steps named there.

### SchemaMigration

`db` is what is committed, `work` what the process with the write transaction sees. The
accounts table is which of the added columns and of the old `display_name` it has, whether
its nicknames are UNIQUE, and what of each account it stores, display names included.
`Kept` is what remains of a row when a statement does not name `display_name`: the
`INSERT ... SELECT` of a rebuild (`sqlite_store.go:214`), and every later write of the table
by the server. `Inspect` and
`Alter` are `ensureColumn`, two statements apart; `Probe` asks for the old shape, where an
error counts as "no"; `CreateNew` ... `Commit` are the transaction of
`rebuildAccountTableIfNeeded`. `Refused` is a statement that cannot be carried out, `Crash`
one that fails otherwise, and the death of the process. `Init` is no database, or that of
any earlier release.

### AtomicFile and FileRegister

`copyFile`, `writeFileAtomic` and `WriteAuth` replace a file in the same way: write
`path.tmp`, close, rename. Names are references to inodes; a writer writes to the inode
it opened at its own offset, whoever has truncated or renamed it since. A version is a
sequence of `Length[v]` equal blocks, so that a mixture or a truncated text is visible. A
failed write has written a proper prefix; it may leave `path.tmp` or remove it (the three
writers differ). A crash leaves it. `FileRegister` has one variable and two actions: put a
version, remove the file. `AtomicReplace` is `FileRegister`'s specification under the
mapping `value <- content[dst]`.

## Runs

All runs end in at most five minutes. Those marked V are expected to find a violation.

| run | instance | what it shows |
|---|---|---|
| `serial` | two ids, profiles of two logins and one import, three Codex accounts, two config values, two token renewals each; one request at a time, CLI between requests; crashes anywhere (5.8 M states) | `SyncSettles`, `RegistryExact`, `ProfileHoldsOwnCredentials`, `ListedProfilesExist`, `KeysStayHome`, `RenewedTokenSaved`, `ListingKeepsSwitch`: the service does what it promises as long as requests do not overlap |
| `concurrent` | two ids, one login and one import, a handler and the ticker and the CLI interleaved access by access; any write may fail; crashes (1.6 M states) | `StoreConsistent`, `ImportedFilesKept`, `TypeOK`: what survives every interleaving |
| `settling` | the same threads, no failing writes, with fairness (107 k states) | `ActiveFollowsAuthFile`: whatever a stale snapshot or a crash left, listings put the active flag right |
| `lost_account` (V) | as `concurrent` without faults | `RegistryExact` fails with overlap: an account added during a switch or a sync disappears |
| `foreign_writeback` (V) | the same | `ProfileHoldsOwnCredentials` fails with overlap: the sync copies what a concurrent switch has put in `auth.json` |
| `login` | one session with its runner, two requests, failing writes, expiry, restarts, with fairness (37 k states) | `SucceededHasAccount`, `AccountNeedsApproval`, `UsageFetchedOnce`, `ChildHasOwner`, `ExitDelivered`, `CancelEndsChild`, `ApprovalSettles`, `StartReturns`, `GoroutinesEnd`, `TypeOK` |
| `login_final` (V) | one session | `FinalStatesStay` fails: cancel and finish overwrite each other's row |
| `usage` | two ids, two profile names of which the second account may take either, a handler and the ticker, two measurements, failing writes, restarts, with fairness (315 k states) | `UsageNeverGoesBack`, `WriteBackKeepsRegistry`, `CacheNotBehindTable`, `DeletedNotServed`, `RequestsAnswered`, `CacheSettles`, `OwnUsageSettles` |
| `collector` | two accounts, with two renewals and with one, one with tokens that do not show their expiry; API and command, or session logs; answers with whole and broken percentages, at both ends and beyond; two seconds (278 k states) | `MeasuredOwn`, `SessionOwn`, `TokenKept`, `FiguresFaithful`, `RefreshEnds`, `Recovers` |
| `startup` | two processes, two accounts, two added columns, every earlier release (35 k states) | `ValuesKept`, `ReadySchema`, `OnlyDisplayNameGoes`, `StartsSucceed` |
| `atomic_one` | two writers one at a time, a one-block and a two-block version, four inodes, failing writes, crashes (57 k states) | `AtomicReplace`, `ReaderKeepsVersion` |
| `atomic_two` (V) | the same writers at once, no fault | `FileIsWhole` fails: both use `path.tmp` |

Bounds, and why they suffice:

* `AccountID` has two ids. Every property speaks of one account, of two that are confused
  with each other, or of one that is lost; a third row only repeats a loop. When both ids
  are used no account can be added, so a run that deletes and adds again has used both.
* `MaxVer` caps the token renewals of an account at one or two: "older than" needs two
  generations, "older than what replaced it" three.
* One handler and the ticker give two concurrent requests. Deleting, switching, logging
  in and syncing all meet in them; `AddAccount` and `PatchAccount` are atomic and need no
  thread, and the CLI is a third actor.
* `fetched` in `LoginSession` counts to two: one is allowed.
* One session in `login`: sessions share nothing but `loginCancels`, whose entries are
  their own. Two requests are a cancel beside a cancel, a poll beside a poll.
* `MaxSeq` in `UsageService` tells two measurements apart; later ones count as the second.
  "Goes back" needs an older and a newer one, and a profile name that passes from one
  account to the next needs two ids and two names.
* `MaxTok` in `UsageCollector` gives the account that may be lost three generations (the one
  in a profile, one renewed, one renewed again meanwhile). `MaxTime` of two is "before the
  switch, in its second, after it". The command and the session logs are
  configured apart because each reads the same two files on its own. What the API's
  `codex doctor` does to the owner the logs rely on is therefore not reached by the run:
  with both (`Configs` = `{{"api", "session"}}`) and the liveness properties it does not end
  in time; with safety alone and one renewal each it has 2.3 million states, and no
  violation. `SessionEventIsOwn` is proved of every set of collectors.
* Two added columns in `SchemaMigration` are one that is there and one that is missing, at
  either end of the list of eighteen.
* Four inodes are the file, the temporary file, one a reader has open and one more.

`CHECK_DEADLOCK FALSE` stands in the runs of `AccountService`, of `LoginSession` alone and
of `UsageService`: ids, token generations and sessions run out, and a panel nobody uses
does nothing. The others never stop and are checked for deadlock.

### Disagreements

The four V runs are findings, quoted against the repository's documents in `PROJECT.json`.
`lost_account` and `login_final` have one cause, the read of a list or a row, slow work,
and the write of the whole (`service.go:396/423`, `438/482`; `727/813` with `767/782`).
`foreign_writeback` is the file opened twice (`430` and `458`); `atomic_two` is the fixed
name `path.tmp`. `RegistryExact` and `ProfileHoldsOwnCredentials` are checked to hold in
`serial`, so what breaks them is exactly what the V run adds.

Others have no run of their own and show in what a property leaves out:

* `DeletedNotServed` excepts the accounts in `loose`. `usage/service_test.go:54` wants an
  account that is added again under an old name not to get the record of its predecessor,
  and so it is when the deletion ends before anything else begins (the pruning of
  `usage/cache.go:55`). A refresh that has listed the account before it is deleted caches
  its record again afterwards (`usage/service.go:93`, `118`), and when the name is given
  away by then, that record is served as the new account's until that is measured itself.
  The same happens when the name is taken between the deletion from the table and the
  pruning, and when an old table brings the row back. `CacheSettles` and `OwnUsageSettles`
  say that it does not stay so.
* `ChildHasOwner` excepts an expired session. A cancel of it returns before `loginCancels`
  is looked at (`service.go:771`), nothing else takes the entry, and `codex login` runs
  until it ends by itself. After a restart nobody even waits for it.
* `ListingKeepsSwitch` holds while every account has one row (`DistinctOwners`). After a
  second login of one account the sync's "first match wins" (`service.go:451`) gives the
  active flag back to the first row on the listing after a switch to the second.
* `RenewedTokenSaved` speaks of the token in `auth.json`. A login to the account that
  `auth.json` holds stores a newer token in the profile, and the next listing overwrites it
  ("same account id, so `auth.json` is newer", `service.go:457`). It also needs the CLI at
  rest during a request: one that writes `auth.json` between the sync of a switch and its
  copy loses the token.
  And it needs every account listed once: where an imported file of the same account comes
  first in the list, the sync matches that row, does not write the file as it is not
  managed (`service.go:457`), and the profile keeps its old token.
* `TokenKept` excuses `codex doctor` killed by its timeout between renewal and write
  (`usage/auth_refresh.go:44`), and a switch that copies a profile's old token to
  `auth.json` while the profile is being renewed: the next sync takes that copy to be
  newer.
* `SessionOwn` excuses `codex login`, which does not set `last_used_at`, and events in the
  second of a switch (`usage/collector.go:340`). It also excuses a `codex doctor` that was
  started before a switch and writes after it: it brings the old owner back to `auth.json`,
  and `last_used_at` of that account is as old as it was. The run does not combine the
  API and the session logs; the proof of `SessionEventIsOwn` did not go through without it.
* `Recovers` excuses a token known to have expired: such an account is not measured at all
  (`usage/service.go:161`), so the renewal before a request (`usage/collector.go:147`, which
  README.md:228 describes) is reached only by a token that expires between the listing and
  the read. An account that shows no expiry is renewed after a 401.
* A record that a fallback command prints with `usage_basis` "used" keeps that basis and
  gets its used percentage as the remaining one (`usage/collector.go:843`); what is
  *stored* is right (`StoredIsPercent` and `usage/service.go:322`).
* A window with a reset time alone counts as one with 0 % left, hence "limited".

### Fairness

* `AccountService`: every thread that is in a request goes on (`WF_vars(Step(t))`, the Go
  scheduler), the ticker starts a listing again and again (`WF_vars(StartList(Ticker))`,
  `usage/service.go:204-220`), and crashes stop at some time (`<>[][~Crash]_vars`); a
  process that dies for ever settles nothing. Nothing is assumed of requests or the CLI.
  `ActiveFollowsAuthFile` assumes in its own statement that `auth.json` stays as it is and
  only listings are served.
* `LoginSession`, `LoginRunner`: each goroutine and a started request go on, and the timer
  fires. Neither the user nor the child has to do anything, `expires_at` need not pass
  (else expiry alone would settle every session), and restarts are not bounded: the
  properties allow for `fin[s] = "lost"`.
* `UsageService`: a request or refresh that can go on does (each collector has a timeout,
  `usage/service.go:129-133`); a waiting goroutine gets the mutex if it is free again and
  again (strong fairness: Go's `sync.Mutex` hands itself to a waiter that has starved for a
  millisecond); the ticker ticks; crashes stop. `CacheSettles` and `OwnUsageSettles` assume
  in their own statements that accounts come and go no more.
* `UsageCollector`: a refresh goes on, and every account is refreshed again and again
  (`SF_vars(List(i))`: the ticker refreshes all of them). `Recovers` assumes in its own
  statement that failures and other actors stop.
* `SchemaMigration`: a start goes on, a process that is off is started again, and failures
  stop; a refused statement is not a failure, as it is due to the database itself.

## Proofs

`tlapm` checks every proof. The theorems hold for any number of accounts, profiles,
threads, sessions, requests, writers, inodes and versions of any length, from the named
assumptions (`StoreAssumption`, `ServiceAssumption`, `LoginAssumption`, `FileAssumption`,
`NoneAssumption`, `CollectorAssumption`, `UsageAssumption`, `MigrationAssumption`), which
say what the constants are (managed and imported paths are disjoint, `NoRow` is no row,
versions are not empty, and the like).

* **`AccountService_proofs`**: `TypeOK`, `StoreConsistent`, `KeysStayHome` and
  `ImportedFilesKept`, with overlap, failing writes and crashes. It begins with the table:
  whatever list is committed to a consistent table, the result is a consistent table
  (`CommittedConsistent`), which is where the double normalization matters. Of the other
  properties none is inductive alone.
  The invariant adds what the locals of a request may hold: `cur` and `buf` carry the key
  of their own account (a key could otherwise reach a file from a buffer), a match or a
  merge in progress has found a row of the snapshot, and the row it is about to write
  back to is managed (an imported file could otherwise be written).
* **`AccountRequests_proofs`**: what one request does to another. The first two theorems
  hold of every interleaving of requests, ticker and CLI, with crashes and failing writes:
  * `LostByOldListOnly`: `RegistryExact` holds for ever unless some sync or switch comes to
    commit a list whose accounts are not those of the table (`OutdatedCommit`). Every other
    step, a rolled back transaction among them, keeps the list right. `lost_account` shows
    that `OutdatedCommit` happens.
  * `ForeignBySwapOnly`: `ProfileHoldsOwnCredentials` holds for ever unless some sync
    comes to write back a copy of `auth.json` of another account than it compared
    (`SwappedCopy`). The invariant (`OwnTarget`) says whose file a sync in progress is
    about to write; merges, logins and deletions cannot mix accounts up.
    `foreign_writeback` shows that `SwappedCopy` happens.

  The other two suppose `OneAtATime`, which the server does not enforce: it holds while one
  dashboard is used and no periodic refresh runs beside it. They are about crashes and
  failing writes between the steps of a request. Their lemmas come in layers, each
  preserved by every step that starts where those before it hold:
  1. `Serving` (`RequestsInTurn`): one thread at most is busy, at a place of its own
     request.
  2. `SnapCurrent`: so the snapshot it holds *is* the table.
  3. `Profiles` (`ProfilesInPlace`): a managed row is that of a login, in that login's own
     directory, which holds a file; what a deletion still has to remove belongs to no row;
     a login that is about to add its row has written its file. `ProfilesExist`
     (`ListedProfilesExist`) follows. It supposes `OwnDirectories`: one directory per
     login session, and no import from these directories.
  4. `Matches` (`SyncSeesTruth`), which supposes `CliAtRest` as well, a CLI that rests
     during a request: what a sync read of `auth.json` is still there, the rows it has
     passed do not match, the row it found is the first that does, and the bytes it is
     about to write are those of `auth.json`, or the merge of the file it will replace.
  5. `Settling` (`MergeSettled`): how far the merge of the config fields has come, and
     that the match has its file up to date meanwhile. The hard step is a write of the
     merge to a file that several rows share or that is the match itself (`PutSettles`).
     `SyncDone` (`SyncSettles`) follows.
* **`LoginSession_proofs`**: `TypeOK`, `SucceededHasAccount`, `AccountNeedsApproval`,
  `UsageFetchedOnce`, `ChildHasOwner`. `Flow` ties the place of the goroutine to the child
  and the account; it holds of a row that a cancel request writes back because that row's
  status is "cancelled". `ChildHasOwner` is proved with its two exceptions, expiry and
  restart. `Polls` says that at most one request holds the mark of a session, and that
  usage has not been fetched while it does.
* **`LoginRunner_proofs`**: every step of the child, of the two goroutines and of the select
  is a step of `LoginSession` or stutters (`RunnerImplementsSession`), so all that is proved
  there holds of the runner (`RunnerKeepsSession`). `ExitDelivered` rests on `Delivery`: the
  channel is closed only after its one value was sent, and nobody takes that value before
  `finishCodexLogin`, which has received it wherever it is past its wait.
* **`AtomicFile_proofs`**, under `OneWriter`: `AtomicReplace` (the refinement of
  `FileRegister`), `ReaderKeepsVersion`, `FileIsWhole`. The invariant says that the
  temporary file is an inode no other name and no reader refers to, and what it holds at
  each place of the writer; two writers break exactly this.
* **`UsageCollector_proofs`**: first the figures. Of every payload and record, the
  percentage stored is one (`StoredIsPercent`), normalizing what was parsed changes
  nothing (`ParsedIsNormal`), what is stored is what is shown, rounded to the nearest
  percentage (`StoredIsShownRounded`), the primary window is the week
  (`PrimaryWindowCounts`) and a five-hour window never is (`FiveHourIgnored`), "blocked"
  is exactly one of the two limits (`BlockedByLimits`); and the interval is bounded
  (`IntervalBounded`). Then `TypeOK`, `MeasuredOwn`, `TokenKept`, `SessionOwn` and
  `FiguresFaithful`, for any number of accounts, token generations and payloads. `OwnFile`
  says that a refresh that is on the path "live" has an active account that owns
  `auth.json`, unless that has moved; `OwnRecord` that the credentials and the record it
  holds are then its own; `HeldNew` that a token about to be written is the newest;
  `NewestKept` is `TokenKept` with what the other steps need to know of a token in flight.
  `SessionDated` is the invariant of the session logs: an event of another account than
  the one in `auth.json` is not later than the `last_used_at` of that one, unless it came
  there without a switch (`foreign`).
* **`UsageService_proofs`**: `TypeOK`, `UsageNeverGoesBack`, `WriteBackKeepsRegistry`,
  `CacheNotBehindTable` and `DeletedNotServed`, for any number of requests, accounts and
  profile names. A refresh writes from a list that is out of date by then. The invariant
  (`ThreadFits`) says what the list is still good for: an account in list and table is the
  same in both and one only in the table has no usage yet (`Since`), no cached record is
  older than what the list says of its account (`AheadOf`), and what was collected is in
  the cache unless a deletion has pruned it (`Cached`). It needs that the mutex is held
  from the listing to the write (`HoldsLock`), that ids are never reused and profile names
  never shared (`Sound`), and that nobody has written back a whole table (`rolled`), which
  is why the properties about the age of usage have that condition and the others have
  not. `DeletedNotServed` has an invariant of its own (`OwnInv`), about accounts and not
  names: what a thread has listed or collected, and what is in the cache under any name,
  is usage of an account that is listed, in `loose`, or still to be pruned by the deletion
  under way (`StillListed`, `OwnUsage`, `OwnRecord`, `Prunes`), so that a response of a
  request that came later can hold no other (`ServesListed`).
* **`SchemaMigration_proofs`**: `TypeOK`, `ValuesKept`, `ReadySchema` and
  `OnlyDisplayNameGoes`, for any number of processes, accounts and added columns.
  `OneWriter` and `WorkFits` say that the transaction of a rebuild excludes other writers,
  so that the table it copied is the committed one until it commits; `CreatedSoFar` and
  `AddedSoFar` that what a start has found or made is not taken back by another.

Of the safety properties of the passing runs, `RegistryExact` and
`ProfileHoldsOwnCredentials` are proved up to the race that breaks them, and
`ListingKeepsSwitch` and `RenewedTokenSaved` are only model-checked, for requests in turn:
what could be proved of them rests on assumptions that exclude the ways they fail (see
"Disagreements"). All others are proved as they are checked, `ListedProfilesExist` and
`SyncSettles` from the assumptions of their theorems. Only model-checked are also the
liveness properties (`ActiveFollowsAuthFile`, `CancelEndsChild`, `ApprovalSettles`,
`StartReturns`, `GoroutinesEnd`, `RequestsAnswered`, `CacheSettles`, `OwnUsageSettles`,
`RefreshEnds`, `Recovers`, `StartsSucceed`).

## Not modelled

* The dashboard. What it shows while answers overlap is promised nowhere, and the next
  timer corrects it. Markup and styles have no state.
* `RefreshUsage` and `StartUsageRefresh` of the account service, which `main` never calls.
* Configurations of the collectors without token renewal
  (`COUSWEE_USAGE_AUTH_REFRESH_ENABLED=false`): `On401` then goes to the next collector.
* Credit balances, message estimates and reset times: copied, never decided on.
* Unmanaged (imported) accounts in `UsageCollector`: their file is read in place and no
  sync writes it.

Liveness under fairness is beyond the proof system, as is what a recursive definition
computes; neither is attempted.

Left out for good: routing, JSON and static files, logging, markup and styles, the text
of messages, the listening socket and its shutdown deadline, version and build files;
they keep no state the properties could speak of.
