--------------------------- MODULE UsageCollector ---------------------------
(***************************************************************************)
(* How the usage of one account is measured (Service.collectAccount,       *)
(* Orchestrator, and the API, command, session-log and account collectors) *)
(* while the Codex CLI, switches and the clock go on.                      *)
(*                                                                         *)
(* Refreshes hold the usage mutex, so there is one at a time; but files    *)
(* are read again and again during it: once to see whose credentials       *)
(* auth.json holds, once for the token, by `codex doctor` to renew it, and *)
(* once more by each fallback.  Between any two of them a switch may put   *)
(* another account into auth.json.  Sync and switch are one step each here *)
(* (AccountService has theirs).  A refresh of all accounts lists them once *)
(* and measures one after the other: the later ones with an older listing, *)
(* as here when other steps come between List and ChoosePath.              *)
(***************************************************************************)
EXTENDS UsageRecord, FiniteSets

CONSTANTS
    Account,     \* accounts with a managed profile, all of them listed
    NoAccount,
    Configs,     \* the sets of collectors that may be configured
    Opaque,      \* accounts whose access tokens do not show when they expire
    Bodies,      \* payloads the usage API may answer with
    NoBody,
    MaxTok,      \* bound on the generations of each account's tokens
    MaxTime      \* bound on the clock, in seconds

ASSUME CollectorAssumption ==
    /\ Configs \subseteq SUBSET {"api", "command", "session"} /\ Configs # {}
    /\ NoAccount \notin Account /\ Opaque \subseteq Account
    /\ Bodies \subseteq Payload /\ NoBody \notin Bodies
    /\ MaxTok \in [Account -> Nat] /\ MaxTime \in Nat \ {0}

Auth == [of : Account, tok : Nat]

VARIABLES
    conf,      \* the collectors that are configured (BuildCollector)
    profile,   \* the token in each account's profile
    live,      \* auth.json
    newest,    \* the latest token issued to each account; its refresh token alone works
    late,      \* tokens below this one have expired, or will within two minutes
    used,      \* last_used_at; 0: never
    clock,
    log,       \* the last rate-limit event of the session logs, and who caused it
    pc, job,   \* the refresh
    moved,     \* auth.json got another owner or login since the refresh listed the accounts
    foreign,   \* accounts put into auth.json by other than a switch, as of the listing or since
    spoiled    \* accounts whose newest token may be lost, for a reason TokenKept names

files == <<profile, live, newest, spoiled>>
world == <<conf, late, used, clock, log, moved, foreign>>
vars == <<files, world, pc, job>>

(* sel: the account; active, since: its row as listed; path: "live" or its *)
(* profile; auth: as it was read; held: what codex doctor is about to      *)
(* write; tries: renewals after a 401; source, of, body: the record, whom  *)
(* it is really about, and the payload it was read from.                   *)
Job == [sel : Account, active : BOOLEAN, since : 0 .. MaxTime,
        path : {"live", "profile"}, auth : Auth, held : Auth, tries : 0 .. 1,
        source : {"none", "api", "fallback", "codex-session", "account"},
        of : Account \cup {NoAccount}, body : Bodies \cup {NoBody}]

Listed(i, active, since) ==
    [sel |-> i, active |-> active, since |-> since, path |-> "profile",
     auth |-> [of |-> i, tok |-> 0], held |-> [of |-> i, tok |-> 0],
     tries |-> 0, source |-> "none", of |-> NoAccount, body |-> NoBody]

NoJob == Listed(CHOOSE i \in Account : TRUE, FALSE, 0)

TypeOK ==
    /\ conf \in Configs
    /\ live \in Auth
    /\ profile \in [Account -> Nat] /\ newest \in [Account -> Nat] /\ late \in [Account -> Nat]
    /\ used \in [Account -> 0 .. MaxTime] /\ clock \in 1 .. MaxTime
    /\ log \in [of : Account \cup {NoAccount}, time : 0 .. MaxTime]
    /\ pc \in {"idle", "path", "read", "renew", "write", "reread", "request",
               "command", "run", "session", "log", "account", "persist"}
    /\ job \in Job
    /\ moved \in BOOLEAN /\ foreign \subseteq Account /\ spoiled \subseteq Account

(* The session logs alone need to know when and how an account came to be  *)
(* in auth.json.                                                           *)
Unswitched(i) == IF "session" \in conf THEN {i} ELSE {}

Init ==
    /\ conf \in Configs
    /\ profile = [i \in Account |-> 0]
    /\ \E i \in Account : live = [of |-> i, tok |-> 0]
    /\ newest = [i \in Account |-> 0]
    /\ late = [i \in Account |-> 0]
    /\ used \in IF "session" \in conf THEN [Account -> {0, 1}] ELSE {[i \in Account |-> 1]}
    /\ clock = 1
    /\ log = [of |-> NoAccount, time |-> 0]
    /\ pc = "idle" /\ job = NoJob
    /\ moved = FALSE /\ spoiled = {}
    /\ foreign = Unswitched(live.of)

-----------------------------------------------------------------------------
Go(from, to, j) == pc = from /\ pc' = to /\ job' = j

Again == Listed(job.sel, job.active, job.since)

Expired(auth) == auth.of \notin Opaque /\ auth.tok < late[auth.of]

(* SyncActiveFromAuthFile: auth.json goes back to its owner's profile.     *)
Synced == [profile EXCEPT ![live.of] = live.tok]

File(path) == IF path = "live" THEN live ELSE [of |-> job.sel, tok |-> profile[job.sel]]

(* The accounts are listed; one whose token has expired is not measured.   *)
List(i) ==
    LET observed == [used EXCEPT ![live.of] = IF @ = 0 THEN clock ELSE @]
        listed == Listed(i, live.of = i, observed[i])
    IN  /\ profile' = Synced
        /\ used' = observed
        /\ IF Expired([of |-> i, tok |-> Synced[i]])
           THEN Go("idle", "persist", [listed EXCEPT !.source = "account"])
           ELSE Go("idle", "path", listed)
        /\ moved' = FALSE
        /\ UNCHANGED <<live, newest, spoiled, conf, late, clock, log, foreign>>

(* Definitions named Wrong... are plausible mistakes in the definition they *)
(* precede; the checks of this module must notice each of them.            *)
WrongAuthPath == IF job.active THEN "profile" ELSE "live"

(* collectorAuthPath: auth.json for the active account, if it is still the *)
(* owner (matchesActiveAuth), and the profile for the others.              *)
AuthPath == IF job.active /\ live.of = job.sel THEN "live" ELSE "profile"

(* APICollector.  A collector that is not configured has no say.           *)
ChoosePath ==
    /\ IF "api" \in conf THEN Go("path", "read", [job EXCEPT !.path = AuthPath])
       ELSE Go("path", "command", job)
    /\ UNCHANGED <<files, world>>

ReadAuth ==
    /\ LET auth == File(job.path)
       IN  IF Expired(auth) THEN Go("read", "renew", job)
           ELSE Go("read", "request", [job EXCEPT !.auth = auth])
    /\ UNCHANGED <<files, world>>

(* codex doctor on the directory of the file: a refresh token that is not  *)
(* the newest is refused; otherwise a new pair is issued, then written.    *)
Issue ==
    LET auth == File(job.path)
    IN  /\ auth.tok = newest[auth.of] /\ auth.tok < MaxTok[auth.of]
        /\ newest' = [newest EXCEPT ![auth.of] = @ + 1]
        /\ Go("renew", "write", [job EXCEPT !.held = [of |-> auth.of, tok |-> auth.tok + 1]])
        /\ UNCHANGED <<profile, live, spoiled, world>>

(* If auth.json has changed hands since the listing the file may belong to *)
(* another account now, whose tokens are replaced by those of the one that *)
(* left, or auth.json hold a copy of the token just renewed.               *)
Issued ==
    /\ Go("write", "reread", [job EXCEPT !.held = Again.held])
    /\ IF job.path = "live" THEN live' = job.held /\ UNCHANGED profile
       ELSE profile' = [profile EXCEPT ![job.sel] = job.held.tok] /\ UNCHANGED live
    /\ spoiled' = IF moved THEN spoiled \cup {job.held.of, live.of} ELSE spoiled
    /\ foreign' = IF live'.of # live.of THEN foreign \cup Unswitched(live'.of) ELSE foreign
    /\ UNCHANGED <<newest, conf, late, used, clock, log, moved>>

(* At the bound on tokens: it has nothing to renew.                        *)
NothingIssued ==
    /\ File(job.path).tok = MaxTok[File(job.path).of]
    /\ Go("renew", "reread", job)
    /\ UNCHANGED <<files, world>>

Refused ==
    /\ File(job.path).tok # newest[File(job.path).of]
    /\ Go("renew", "command", Again)
    /\ UNCHANGED <<files, world>>

ReRead ==
    /\ Go("reread", "request", [job EXCEPT !.auth = File(job.path)])
    /\ UNCHANGED <<files, world>>

Authorized == job.auth.tok = newest[job.auth.of] /\ job.auth.tok >= late[job.auth.of]

WrongOn401 ==
    /\ Go("request", "renew", [job EXCEPT !.auth = Again.auth])
    /\ UNCHANGED <<files, world>>

(* A 401: the token is renewed and the request repeated, once.             *)
On401 ==
    /\ IF job.tries = 0
       THEN Go("request", "renew", [job EXCEPT !.auth = Again.auth, !.tries = @ + 1])
       ELSE Go("request", "command", Again)
    /\ UNCHANGED <<files, world>>

Unauthorized == ~Authorized /\ On401

Answered(b) ==
    /\ Authorized
    /\ Recognized(b)
    /\ Go("request", "persist", [Again EXCEPT !.source = "api", !.of = job.auth.of, !.body = b])
    /\ UNCHANGED <<files, world>>

Unreadable(b) ==
    /\ Authorized
    /\ ~Recognized(b)
    /\ Go("request", "command", Again)
    /\ UNCHANGED <<files, world>>

(* A valid token is turned down, as for an account that is blocked.        *)
Denied == Authorized /\ On401

(* The file cannot be read, or the network, the server, or codex doctor    *)
(* fails or is timed out, where it would not have failed anyway.           *)
APIFails ==
    /\ Go(pc, "command", Again)
    /\ \/ pc \in {"read", "reread"} /\ UNCHANGED spoiled
       \/ pc = "request" /\ (Authorized \/ job.tries = 0) /\ UNCHANGED spoiled
       \/ pc = "renew" /\ File(job.path).tok = newest[File(job.path).of] /\ UNCHANGED spoiled
       \/ pc = "write" /\ spoiled' = spoiled \cup {job.held.of}
    /\ UNCHANGED <<profile, live, newest, world>>

(* CommandCollector: the command gets the path and reads it on its own.    *)
CommandPath ==
    /\ IF "command" \in conf THEN Go("command", "run", [job EXCEPT !.path = AuthPath])
       ELSE Go("command", "session", job)
    /\ UNCHANGED <<files, world>>

CommandRun ==
    /\ \/ Go("run", "persist", [Again EXCEPT !.source = "fallback", !.of = File(job.path).of])
       \/ Go("run", "session", Again)
    /\ UNCHANGED <<files, world>>

(* SessionLogCollector: only for the owner of auth.json, and only an event *)
(* that is not older than the account's last_used_at, in whole seconds.    *)
SessionMatch ==
    /\ Go("session", IF "session" \in conf /\ live.of = job.sel THEN "log" ELSE "account", job)
    /\ UNCHANGED <<files, world>>

WrongFreshEvent == log.of # NoAccount

FreshEvent == log.of # NoAccount /\ log.time >= job.since

SessionRead ==
    /\ IF FreshEvent
       THEN Go("log", "persist", [job EXCEPT !.source = "codex-session", !.of = log.of])
       ELSE Go("log", "account", job)
    /\ UNCHANGED <<files, world>>

AccountRecord ==
    /\ Go("account", "persist", [job EXCEPT !.source = "account"])
    /\ UNCHANGED <<files, world>>

Persist ==
    /\ Go("persist", "idle", NoJob)
    /\ UNCHANGED <<files, world>>

-----------------------------------------------------------------------------
(* A switch syncs first.                                                   *)
Switch(i) ==
    /\ profile' = Synced
    /\ live' = [of |-> i, tok |-> Synced[i]]
    /\ used' = [used EXCEPT ![i] = clock]
    /\ moved' = (pc # "idle" /\ (moved \/ live.of # i))
    /\ foreign' = IF pc = "idle" THEN foreign \ {i} ELSE foreign
    /\ UNCHANGED <<newest, spoiled, conf, late, clock, log, pc, job>>

(* The Codex CLI renews its token, logs in anew (a token it has renewed    *)
(* and no sync has seen is lost), or logs an event.  What no collector     *)
(* that is configured reads is left out.                                   *)
CliRenew ==
    /\ "api" \in conf
    /\ live.tok = newest[live.of] /\ live.tok < MaxTok[live.of]
    /\ newest' = [newest EXCEPT ![live.of] = @ + 1]
    /\ live' = [live EXCEPT !.tok = @ + 1]
    /\ UNCHANGED <<profile, spoiled, world, pc, job>>

CliLogin(i) ==
    /\ newest[i] < MaxTok[i]
    /\ newest' = [newest EXCEPT ![i] = @ + 1]
    /\ live' = [of |-> i, tok |-> newest[i] + 1]
    /\ moved' = (pc # "idle")
    /\ foreign' = foreign \cup Unswitched(i)
    /\ spoiled' = IF live.tok # profile[live.of] THEN spoiled \cup {live.of} ELSE spoiled
    /\ UNCHANGED <<profile, conf, late, used, clock, log, pc, job>>

CliEvent ==
    /\ "session" \in conf
    /\ log' = [of |-> live.of, time |-> clock]
    /\ UNCHANGED <<files, conf, late, used, clock, moved, foreign, pc, job>>

(* The newest token of an account expires.                                 *)
Age(i) ==
    /\ "api" \in conf
    /\ newest[i] < MaxTok[i]
    /\ late[i] <= newest[i]
    /\ late' = [late EXCEPT ![i] = newest[i] + 1]
    /\ UNCHANGED <<files, conf, used, clock, log, moved, foreign, pc, job>>

Tick ==
    /\ "session" \in conf
    /\ clock < MaxTime
    /\ clock' = clock + 1
    /\ UNCHANGED <<files, conf, late, used, log, moved, foreign, pc, job>>

Collect ==
    \/ ChoosePath \/ ReadAuth \/ Issue \/ Issued \/ NothingIssued \/ Refused \/ ReRead
    \/ Unauthorized \/ (\E b \in Bodies : Answered(b))
    \/ CommandPath \/ CommandRun \/ SessionMatch \/ SessionRead \/ AccountRecord \/ Persist

Disturbance ==
    \/ APIFails \/ Denied \/ (\E b \in Bodies : Unreadable(b))
    \/ \E i \in Account : Switch(i) \/ CliLogin(i) \/ Age(i)
    \/ CliRenew \/ CliEvent

Next == (\E i \in Account : List(i)) \/ Collect \/ Disturbance \/ Tick

Spec == Init /\ [][Next]_vars

(* A refresh goes on (every call has a timeout), and every account is      *)
(* refreshed by the ticker again and again.                                *)
Fairness == WF_vars(Collect) /\ \A i \in Account : SF_vars(List(i))

FairSpec == Spec /\ Fairness

-----------------------------------------------------------------------------
(* A record of the API or of the command is of the account it is stored    *)
(* for, unless auth.json changed hands during the refresh (collector.go,   *)
(* collectorAuthPath).                                                     *)
MeasuredOwn ==
    pc = "persist" /\ job.source \in {"api", "fallback"} => job.of = job.sel \/ moved

(* A session event counts for the account that caused it, unless auth.json *)
(* changed hands during the refresh, or the account came into auth.json    *)
(* without a switch, of which last_used_at knows nothing (codex login, or  *)
(* a codex doctor that wrote after a switch), or the event is of the       *)
(* second of a switch (sessionEventFreshForAccount).                       *)
SessionOwn ==
    pc = "log" /\ FreshEvent =>
        log.of = job.sel \/ moved \/ job.sel \in foreign \/ log.time = job.since

(* The newest token of an account is in its profile, in auth.json or about *)
(* to be written, unless codex doctor was killed before it wrote, or wrote *)
(* when auth.json had changed hands since the listing, or codex login      *)
(* overwrote auth.json before it was synced (RefreshCodexAuth).            *)
TokenKept ==
    \A i \in Account :
        \/ newest[i] = profile[i]
        \/ live = [of |-> i, tok |-> newest[i]]
        \/ pc = "write" /\ job.held = [of |-> i, tok |-> newest[i]]
        \/ i \in spoiled

(* Of an answer that has the week in its primary window the record shows   *)
(* what that window leaves of it, and the account table gets the nearest   *)
(* whole percentage from 0 to 100: never more than half a percent off, all *)
(* or nothing where that is left, also for figures no server should send   *)
(* (parseRateLimitPayload, normalizeRecord, persistUsage).                 *)
FiguresFaithful ==
    LET b == job.body
        r == NormalizeRecord(Parse(b))
    IN  /\ pc = "persist" /\ b # NoBody
        /\ b.items = <<>> /\ b.primary.remaining = None /\ b.primary.used # None
        => /\ r.has /\ r.remaining = Hundred - b.primary.used
           /\ StoredPercent(r) \in 0 .. 100
           /\ 10 * StoredPercent(r) - ClampPercent(r.remaining) \in -4 .. 5

(* A refresh ends, although 401s, renewals and fallbacks follow upon each  *)
(* other (APICollector.Collect).                                           *)
RefreshEnds == pc # "idle" ~> pc = "idle"

(* Once nothing fails any more every account is measured again and again,  *)
(* and no refresh has to fall back on the account table, also when a token *)
(* must be renewed first, unless it is known to have expired when the      *)
(* accounts are listed (shouldSkipUsageRefresh), or the newest is lost.    *)
Recovers ==
    \A i \in Account :
        /\ "api" \in conf
        /\ <>[][~Disturbance]_vars
        /\ <>[](i \notin spoiled /\ ~Expired([of |-> i, tok |-> profile[i]]))
        => /\ []<>(pc = "persist" /\ job.sel = i)
           /\ <>[](pc = "persist" /\ job.sel = i => job.source = "api")
=============================================================================
